------------------------ MODULE OsuAllreduceProofs --------------------------
(***************************************************************************)
(* What holds of osu_allreduce for every number of ranks, every command    *)
(* line and every sequence of wrong sums and failing calls.                *)
(***************************************************************************)
EXTENDS OsuAllreduce, SumLemmas

-----------------------------------------------------------------------------
(***************************************************************************)
(* Folds.  FoldLeft is by definition a function on the subsets of the      *)
(* domain that refers to itself.  Where the step is a table H over a set   *)
(* of values, there is such a function.                                    *)
(***************************************************************************)
Folds(H, c, b, D, g) ==
  g = [s \in SUBSET D |-> IF s = {} THEN b ELSE H[<<g[s \ {c[s]}], c[s]>>]]
FoldsSmall(H, c, b, D, n, g) ==
  g = [s \in Small(D, n) |-> IF s = {} THEN b ELSE H[<<g[s \ {c[s]}], c[s]>>]]

LEMMA FoldsLonger ==
  ASSUME NEW H, NEW D, IsFiniteSet(D), NEW c, NEW b, \A s \in SUBSET D : s # {} => c[s] \in s,
         NEW n \in Nat, NEW h, FoldsSmall(H, c, b, D, n, h)
  PROVE  \E g : FoldsSmall(H, c, b, D, n + 1, g)
<1> DEFINE Value(s) == IF s = {} THEN b ELSE H[<<h[s \ {c[s]}], c[s]>>]
           g == [s \in Small(D, n + 1) |-> Value(s)]
<1>1. \A t \in Small(D, n) : h[t] = Value(t)
  BY DEF FoldsSmall
<1>2. Small(D, n) \subseteq Small(D, n + 1)
  BY FS_Subset, FS_CardinalityType DEF Small
<1>3. \A t \in Small(D, n) : g[t] = h[t]
  BY <1>1, <1>2
<1>4. ASSUME NEW s \in Small(D, n + 1)
      PROVE  Value(s) = IF s = {} THEN b ELSE H[<<g[s \ {c[s]}], c[s]>>]
  <2>1. CASE s = {}
    BY <2>1
  <2>2. CASE s # {}
    <3>1. c[s] \in s /\ IsFiniteSet(s) /\ Cardinality(s) \in Nat /\ Cardinality(s) <= n + 1
      BY <2>2, FS_Subset, FS_CardinalityType DEF Small
    <3>2. Cardinality(s \ {c[s]}) = Cardinality(s) - 1
      BY <3>1, FS_RemoveElement
    <3>3. s \ {c[s]} \in Small(D, n)
      BY <3>1, <3>2 DEF Small
    <3>4. g[s \ {c[s]}] = h[s \ {c[s]}]
      BY <1>3, <3>3
    <3> QED
      BY <2>2, <3>4
  <2> QED
    BY <2>1, <2>2
<1>5. g = [s \in Small(D, n + 1) |-> IF s = {} THEN b ELSE H[<<g[s \ {c[s]}], c[s]>>]]
  <2> HIDE DEF Value
  <2> QED
    BY <1>4
<1> QED
  BY <1>5 DEF FoldsSmall

LEMMA FoldExists ==
  ASSUME NEW H, NEW D, IsFiniteSet(D), NEW c, NEW b, \A s \in SUBSET D : s # {} => c[s] \in s
  PROVE  \E g : Folds(H, c, b, D, g)
<1> DEFINE Bad == {n \in Nat : ~ \E g : FoldsSmall(H, c, b, D, n, g)}
<1>1. \E g : FoldsSmall(H, c, b, D, 0, g)
  <2>1. Small(D, 0) = {{}}
    BY FS_Subset, FS_CardinalityType, FS_EmptySet DEF Small
  <2>2. FoldsSmall(H, c, b, D, 0, [s \in {{}} |-> b])
    BY <2>1 DEF FoldsSmall
  <2> QED
    BY <2>2
<1>2. Bad = {}
  <2>1. SUFFICES ASSUME Bad # {} PROVE FALSE
    OBVIOUS
  <2>2. PICK n \in Bad : \A m \in Bad : n <= m
    BY <2>1, Least
  <2>3. n # 0
    BY <1>1
  <2>4. n - 1 \in Nat /\ n - 1 \notin Bad
    BY <2>2, <2>3
  <2>5. PICK h : FoldsSmall(H, c, b, D, n - 1, h)
    BY <2>4
  <2>6. \E g : FoldsSmall(H, c, b, D, (n - 1) + 1, g)
    BY <2>4, <2>5, FoldsLonger
  <2> QED
    BY <2>6, <2>2
<1>3. PICK g : FoldsSmall(H, c, b, D, Cardinality(D), g)
  BY <1>2, FS_CardinalityType
<1>4. Small(D, Cardinality(D)) = SUBSET D
  BY FS_Subset DEF Small
<1> QED
  BY <1>3, <1>4 DEF Folds, FoldsSmall

(***************************************************************************)
(* What a fold with steps within a set of values ends with is in the set.  *)
(***************************************************************************)
LEMMA FoldStays ==
  ASSUME NEW D, IsFiniteSet(D), NEW c, \A s \in SUBSET D : s # {} => c[s] \in s,
         NEW S, NEW g, g[{}] \in S,
         \A s \in SUBSET D : s # {} /\ g[s \ {c[s]}] \in S => g[s] \in S
  PROVE  \A s \in SUBSET D : g[s] \in S
<1> DEFINE G == {s \in SUBSET D : g[s] \in S}
<1>1. ASSUME NEW T \in SUBSET D, \A y \in T : T \ {y} \in G
      PROVE  T \in G
  <2>1. CASE T = {}
    BY <2>1
  <2>2. CASE T # {}
    <3>1. c[T] \in T
      BY <2>2
    <3>2. g[T \ {c[T]}] \in S
      BY <3>1, <1>1
    <3> QED
      BY <2>2, <3>2
  <2> QED
    BY <2>1, <2>2
<1>2. \A T \in SUBSET D : T \in G
  <2> HIDE DEF G
  <2> QED
    BY <1>1, SubsetInduction
<1> QED
  BY <1>2

FoldsWithin(H, c, b, D, S, g) ==
  /\ g = [s \in SUBSET D |-> g[s]]
  /\ g[{}] = b
  /\ \A s \in SUBSET D : s # {} => g[s] = H[<<g[s \ {c[s]}], c[s]>>]
  /\ \A s \in SUBSET D : g[s] \in S

LEMMA TableFold ==
  ASSUME NEW D, IsFiniteSet(D), NEW c, \A s \in SUBSET D : s # {} => c[s] \in s,
         NEW S, NEW b \in S, NEW H, \A o \in S : \A k \in D : H[<<o, k>>] \in S
  PROVE  \E g : FoldsWithin(H, c, b, D, S, g)
<1>1. PICK g : Folds(H, c, b, D, g)
  BY FoldExists
<1>2. g = [s \in SUBSET D |-> g[s]]
  BY <1>1 DEF Folds
<1>3. \A s \in SUBSET D : g[s] = IF s = {} THEN b ELSE H[<<g[s \ {c[s]}], c[s]>>]
  BY <1>1 DEF Folds
<1>4. g[{}] = b
  BY <1>3
<1>5. \A s \in SUBSET D : s # {} => g[s] = H[<<g[s \ {c[s]}], c[s]>>]
  BY <1>3
<1>6. \A s \in SUBSET D : s # {} /\ g[s \ {c[s]}] \in S => g[s] \in S
  BY <1>5
<1>7. \A s \in SUBSET D : g[s] \in S
  BY <1>4, <1>6, FoldStays
<1> QED
  BY <1>2, <1>4, <1>5, <1>7 DEF FoldsWithin

(***************************************************************************)
(* The last of some positions of a sequence, which FoldLeft takes first.   *)
(***************************************************************************)
LEMMA MaxOfPositions ==
  ASSUME NEW n \in Nat, NEW s \in SUBSET (1 .. n), s # {}
  PROVE  Max(s) \in s
<1> DEFINE T == {n - k : k \in s}
<1>1. T \in SUBSET Nat /\ T # {}
  <2>1. \A k \in s : k \in 1 .. n /\ n - k \in Nat
    OBVIOUS
  <2> QED
    BY <2>1
<1>2. PICK m \in T : \A k \in T : m <= k
  <2> HIDE DEF T
  <2> QED
    BY <1>1, Least
<1>3. PICK x \in s : m = n - x
  OBVIOUS
<1>4. ASSUME NEW y \in s
      PROVE  x >= y
  <2>1. n - y \in T
    OBVIOUS
  <2>2. m <= n - y
    BY <2>1, <1>2
  <2>3. x \in 1 .. n /\ y \in 1 .. n
    OBVIOUS
  <2> QED
    BY <2>2, <2>3, <1>3
<1>5. \E z \in s : \A y \in s : z >= y
  BY <1>4
<1> QED
  BY <1>5 DEF Max

LEMMA Positions ==
  ASSUME NEW n \in Nat, NEW c, c = [s \in SUBSET (1 .. n) |-> Max(s)]
  PROVE  /\ IsFiniteSet(1 .. n)
         /\ \A s \in SUBSET (1 .. n) : c[s] = Max(s)
         /\ \A s \in SUBSET (1 .. n) : s # {} => c[s] \in s
<1>1. IsFiniteSet(1 .. n)
  BY FS_Interval
<1>2. \A s \in SUBSET (1 .. n) : s # {} => Max(s) \in s
  BY MaxOfPositions
<1> QED
  BY <1>1, <1>2

(***************************************************************************)
(* A set of options that every round of the loop over the command line     *)
(* stays in holds what the loop ends with.                                 *)
(***************************************************************************)
LEMMA ApplyKeeps ==
  ASSUME NEW D, IsFiniteSet(D), NEW c, \A s \in SUBSET D : s # {} => c[s] \in s,
         \A s \in SUBSET D : c[s] = Max(s), NEW l, DOMAIN l = D,
         NEW S, NEW b \in S, \A o \in S : \A k \in D : Apply(o, l[k]) \in S
  PROVE  FoldLeft(Apply, b, l) \in S
<1> DEFINE H == [x \in S \X D |-> Apply(x[1], l[x[2]])]
           IsFold(g) == g = [s \in SUBSET D |-> IF s = {} THEN b
                                                ELSE Apply(g[s \ {Max(s)}], l[Max(s)])]
<1>1. \A o \in S : \A k \in D : H[<<o, k>>] = Apply(o, l[k]) /\ H[<<o, k>>] \in S
  OBVIOUS
<1>2. PICK g : FoldsWithin(H, c, b, D, S, g)
  <2> HIDE DEF H
  <2>1. \A o \in S : \A k \in D : H[<<o, k>>] \in S
    BY <1>1
  <2> QED
    BY <2>1, TableFold
<1>3. \A s \in SUBSET D : s # {} => g[s] = Apply(g[s \ {Max(s)}], l[Max(s)])
  <2> HIDE DEF H
  <2>1. SUFFICES ASSUME NEW s \in SUBSET D, s # {}
                 PROVE  g[s] = Apply(g[s \ {Max(s)}], l[Max(s)])
    OBVIOUS
  <2>2. c[s] \in s /\ c[s] = Max(s)
    BY <2>1
  <2>3. s \ {c[s]} \in SUBSET D
    OBVIOUS
  <2>4. g[s \ {c[s]}] \in S /\ g[s] = H[<<g[s \ {c[s]}], c[s]>>]
    BY <1>2, <2>1, <2>3 DEF FoldsWithin
  <2>5. H[<<g[s \ {c[s]}], c[s]>>] = Apply(g[s \ {c[s]}], l[c[s]])
    BY <1>1, <2>2, <2>4
  <2> QED
    BY <2>2, <2>4, <2>5
<1>4. IsFold(g)
  BY <1>2, <1>3 DEF FoldsWithin
<1>5. FoldLeft(Apply, b, l) = (CHOOSE h : IsFold(h))[D]
  BY DEF FoldLeft, MapThenFoldSet
<1>6. ASSUME NEW h, IsFold(h)
      PROVE  h[D] \in S
  <2>1. h[{}] = b /\ \A s \in SUBSET D : s # {} => h[s] = Apply(h[s \ {Max(s)}], l[Max(s)])
    BY <1>6
  <2>2. \A s \in SUBSET D : s # {} /\ h[s \ {c[s]}] \in S => h[s] \in S
    BY <2>1
  <2>3. \A s \in SUBSET D : h[s] \in S
    BY <2>1, <2>2, FoldStays
  <2> QED
    BY <2>3
<1>7. IsFold(CHOOSE h : IsFold(h))
  <2> HIDE DEF IsFold
  <2> QED
    BY <1>4
<1> QED
  <2> HIDE DEF IsFold
  <2> QED
    BY <1>5, <1>6, <1>7

(***************************************************************************)
(* The same for the datatypes of one -T.                                   *)
(***************************************************************************)
LEMMA AppendKeeps ==
  ASSUME NEW D, IsFiniteSet(D), NEW c, \A s \in SUBSET D : s # {} => c[s] \in s,
         \A s \in SUBSET D : c[s] = Max(s), NEW l, DOMAIN l = D,
         NEW S, NEW b \in S, \A o \in S : \A k \in D : AppendDtype(o, l[k]) \in S
  PROVE  FoldLeft(AppendDtype, b, l) \in S
<1> DEFINE H == [x \in S \X D |-> AppendDtype(x[1], l[x[2]])]
           IsFold(g) == g = [s \in SUBSET D |-> IF s = {} THEN b
                                                ELSE AppendDtype(g[s \ {Max(s)}], l[Max(s)])]
<1>1. \A o \in S : \A k \in D : H[<<o, k>>] = AppendDtype(o, l[k]) /\ H[<<o, k>>] \in S
  OBVIOUS
<1>2. PICK g : FoldsWithin(H, c, b, D, S, g)
  <2> HIDE DEF H
  <2>1. \A o \in S : \A k \in D : H[<<o, k>>] \in S
    BY <1>1
  <2> QED
    BY <2>1, TableFold
<1>3. \A s \in SUBSET D : s # {} => g[s] = AppendDtype(g[s \ {Max(s)}], l[Max(s)])
  <2> HIDE DEF H
  <2>1. SUFFICES ASSUME NEW s \in SUBSET D, s # {}
                 PROVE  g[s] = AppendDtype(g[s \ {Max(s)}], l[Max(s)])
    OBVIOUS
  <2>2. c[s] \in s /\ c[s] = Max(s)
    BY <2>1
  <2>3. s \ {c[s]} \in SUBSET D
    OBVIOUS
  <2>4. g[s \ {c[s]}] \in S /\ g[s] = H[<<g[s \ {c[s]}], c[s]>>]
    BY <1>2, <2>1, <2>3 DEF FoldsWithin
  <2>5. H[<<g[s \ {c[s]}], c[s]>>] = AppendDtype(g[s \ {c[s]}], l[c[s]])
    BY <1>1, <2>2, <2>4
  <2> QED
    BY <2>2, <2>4, <2>5
<1>4. IsFold(g)
  BY <1>2, <1>3 DEF FoldsWithin
<1>5. FoldLeft(AppendDtype, b, l) = (CHOOSE h : IsFold(h))[D]
  BY DEF FoldLeft, MapThenFoldSet
<1>6. ASSUME NEW h, IsFold(h)
      PROVE  h[D] \in S
  <2>1. h[{}] = b /\ \A s \in SUBSET D : s # {} => h[s] = AppendDtype(h[s \ {Max(s)}], l[Max(s)])
    BY <1>6
  <2>2. \A s \in SUBSET D : s # {} /\ h[s \ {c[s]}] \in S => h[s] \in S
    BY <2>1
  <2>3. \A s \in SUBSET D : h[s] \in S
    BY <2>1, <2>2, FoldStays
  <2> QED
    BY <2>3
<1>7. IsFold(CHOOSE h : IsFold(h))
  <2> HIDE DEF IsFold
  <2> QED
    BY <1>4
<1> QED
  <2> HIDE DEF IsFold
  <2> QED
    BY <1>5, <1>6, <1>7

(***************************************************************************)
(* And for the list of one -z.                                             *)
(***************************************************************************)
Put(given, o, k) == IF o.ret = "PO_OKAY" THEN PutPercentile(o, k, given[k]) ELSE o

PutAll(given, o, l) == FoldLeft(LAMBDA p, k : Put(given, p, k), o, l)

LEMMA PutKeeps ==
  ASSUME NEW D, IsFiniteSet(D), NEW c, \A s \in SUBSET D : s # {} => c[s] \in s,
         \A s \in SUBSET D : c[s] = Max(s), NEW given, NEW l, l = [k \in D |-> k],
         NEW S, NEW b \in S, \A o \in S : \A k \in D : Put(given, o, k) \in S
  PROVE  PutAll(given, b, l) \in S
<1> DEFINE H == [x \in S \X D |-> Put(given, x[1], x[2])]
           IsFold(g) == g = [s \in SUBSET D |->
                               IF s = {} THEN b ELSE Put(given, g[s \ {Max(s)}], l[Max(s)])]
<1>1. \A o \in S : \A k \in D : H[<<o, k>>] = Put(given, o, k) /\ H[<<o, k>>] \in S
  OBVIOUS
<1>2. PICK g : FoldsWithin(H, c, b, D, S, g)
  <2> HIDE DEF H
  <2>1. \A o \in S : \A k \in D : H[<<o, k>>] \in S
    BY <1>1
  <2> QED
    BY <2>1, TableFold
<1>3. \A s \in SUBSET D : s # {} => g[s] = Put(given, g[s \ {Max(s)}], l[Max(s)])
  <2> HIDE DEF H
  <2>1. SUFFICES ASSUME NEW s \in SUBSET D, s # {}
                 PROVE  g[s] = Put(given, g[s \ {Max(s)}], l[Max(s)])
    OBVIOUS
  <2>2. c[s] \in s /\ c[s] = Max(s) /\ l[Max(s)] = c[s]
    BY <2>1
  <2>3. s \ {c[s]} \in SUBSET D
    OBVIOUS
  <2>4. g[s \ {c[s]}] \in S /\ g[s] = H[<<g[s \ {c[s]}], c[s]>>]
    BY <1>2, <2>1, <2>3 DEF FoldsWithin
  <2>5. H[<<g[s \ {c[s]}], c[s]>>] = Put(given, g[s \ {c[s]}], c[s])
    BY <1>1, <2>2, <2>4
  <2> QED
    BY <2>2, <2>4, <2>5
<1>4. IsFold(g)
  BY <1>2, <1>3 DEF FoldsWithin
<1>5. PutAll(given, b, l) = (CHOOSE h : IsFold(h))[D]
  <2>1. DOMAIN l = D
    OBVIOUS
  <2> QED
    BY <2>1 DEF PutAll, FoldLeft, MapThenFoldSet
<1>6. ASSUME NEW h, IsFold(h)
      PROVE  h[D] \in S
  <2>1. h[{}] = b /\ \A s \in SUBSET D : s # {} =>
                        h[s] = Put(given, h[s \ {Max(s)}], l[Max(s)])
    BY <1>6
  <2>2. ASSUME NEW s \in SUBSET D, s # {} /\ h[s \ {c[s]}] \in S
        PROVE  h[s] \in S
    <3>1. c[s] = Max(s) /\ l[Max(s)] = c[s] /\ c[s] \in D
      BY <2>2
    <3>2. h[s] = Put(given, h[s \ {c[s]}], c[s])
      BY <2>1, <2>2, <3>1
    <3> QED
      BY <2>2, <3>1, <3>2
  <2>3. \A s \in SUBSET D : h[s] \in S
    BY <2>1, <2>2, FoldStays
  <2> QED
    BY <2>3
<1>7. IsFold(CHOOSE h : IsFold(h))
  <2> HIDE DEF IsFold
  <2> QED
    BY <1>4
<1> QED
  <2> HIDE DEF IsFold
  <2> QED
    BY <1>5, <1>6, <1>7

-----------------------------------------------------------------------------
(***************************************************************************)
(* The options process_options can leave.                                  *)
(***************************************************************************)
Dtypes == {"MPI_CHAR", "MPI_INT", "MPI_FLOAT"}
Logs == {"no", "nowhere", "directory"}
Lists == UNION {[P -> Int] : P \in SUBSET Int}
OptionType ==
  [ret : {"PO_OKAY", "PO_BAD_USAGE", "PO_HELP_MESSAGE", "PO_VERSION_MESSAGE"},
   accel : {"NONE", "ROCM"}, min : Nat \ {0}, max : Nat,
   iterations : Nat \ {0}, skip : Nat, iterations_large : Nat \ {0}, skip_large : Nat,
   validate : BOOLEAN, warmup_validation : Nat, dtypes : Seq(Dtypes),
   session : 0 .. 3, in_place : 0 .. 3, tail_lat : BOOLEAN, log : Logs,
   percentiles : Lists, tuning : BOOLEAN, threshold : Nat]
Options ==
  {o \in OptionType :
     /\ o.iterations_large <= o.iterations
     /\ o.ret = "PO_OKAY" => \A k \in DOMAIN o.percentiles : o.percentiles[k] \in 0 .. 100}

LEMMA DefaultsOK == Defaults \in Options
<1>1. <<>> \in Lists
  <2>1. <<>> \in [{} -> Int]
    OBVIOUS
  <2> QED
    BY <2>1 DEF Lists
<1>2. <<>> \in Seq(Dtypes)
  OBVIOUS
<1> DEFINE With(types, lists) ==
      [ret |-> "PO_OKAY", accel |-> "NONE", min |-> 1, max |-> MaxMsgSizeColl,
       iterations |-> CollLoopSmall, skip |-> CollSkipSmall,
       iterations_large |-> CollLoopLarge, skip_large |-> CollSkipLarge,
       validate |-> FALSE, warmup_validation |-> ValidationSkip, dtypes |-> types,
       session |-> 0, in_place |-> 0, tail_lat |-> FALSE, log |-> "no",
       percentiles |-> lists, tuning |-> FALSE, threshold |-> 0]
<1>3. ASSUME NEW types \in Seq(Dtypes), NEW lists \in Lists
      PROVE  With(types, lists) \in OptionType
  BY OptionConstants DEF OptionType, Logs
<1> DEFINE none == <<>>
<1>4. Defaults = With(none, none)
  BY DEF Defaults
<1> HIDE DEF With
<1>5. With(none, none) \in OptionType
  <2>1. none \in Seq(Dtypes) /\ none \in Lists
    BY <1>1, <1>2
  <2> HIDE DEF none
  <2> QED
    BY <2>1, <1>3
<1>6. Defaults \in OptionType
  <2> HIDE DEF none
  <2> QED
    BY <1>4, <1>5
<1>7. /\ Defaults.iterations_large <= Defaults.iterations
      /\ DOMAIN Defaults.percentiles = {}
  <2>1. DOMAIN none = {}
    OBVIOUS
  <2>2. Defaults.percentiles = none
    BY DEF Defaults
  <2> QED
    BY <2>1, <2>2, OptionConstants DEF Defaults
<1> QED
  BY <1>6, <1>7 DEF Options

LEMMA BadUsageOK ==
  ASSUME NEW o \in Options
  PROVE  BadUsage(o) \in Options
BY DEF BadUsage, Options, OptionType

LEMMA MessageSizeOK ==
  ASSUME NEW o \in Options, NEW form, NEW parts \in Seq(Int),
         form \in {"MAX", "MIN:", "MIN:MAX"} => Len(parts) = IF form = "MIN:MAX" THEN 2 ELSE 1
  PROVE  SetMessageSize(o, form, parts) \in Options
<1>1. ASSUME NEW p \in Options, NEW b \in Int
      PROVE  SetMin(p, b) \in Options /\ SetMax(p, b) \in Options
  <2>1. ASSUME b \in Nat \ {0} PROVE [p EXCEPT !.min = b] \in Options
    BY <2>1 DEF Options, OptionType
  <2>2. ASSUME b \in Nat PROVE [p EXCEPT !.max = b] \in Options
    BY <2>2 DEF Options, OptionType
  <2> QED
    BY <2>1, <2>2 DEF SetMin, SetMax
<1>2. CASE form \in {"MAX", "MIN:"}
  <2>1. parts[1] \in Int
    BY <1>2
  <2> QED
    BY <1>1, <1>2, <2>1, BadUsageOK DEF SetMessageSize
<1>3. CASE form = "MIN:MAX"
  <2>1. parts[1] \in Int /\ parts[2] \in Int
    BY <1>3
  <2> QED
    BY <1>1, <1>3, <2>1, BadUsageOK DEF SetMessageSize
<1>4. CASE form \notin {"MAX", "MIN:", "MIN:MAX"}
  BY <1>4, BadUsageOK DEF SetMessageSize
<1> QED
  BY <1>2, <1>3, <1>4

LEMMA NumbersOK ==
  ASSUME NEW o \in Options, NEW n \in Int
  PROVE  /\ SetNumIterations(o, n) \in Options
         /\ SetNumWarmup(o, n) \in Options
         /\ SetWarmupValidation(o, n) \in Options
         /\ n >= 0 => SetThreshold(o, n) \in Options
<1>1. SetNumIterations(o, n) \in Options
  <2>1. ASSUME n \in Nat \ {0}
        PROVE  [o EXCEPT !.iterations = n, !.iterations_large = n] \in Options
    <3> DEFINE p == [o EXCEPT !.iterations = n, !.iterations_large = n]
    <3>1. p \in OptionType
      BY <2>1 DEF Options, OptionType
    <3>2. /\ p.iterations = n /\ p.iterations_large = n /\ p.ret = o.ret
          /\ p.percentiles = o.percentiles
      BY DEF Options, OptionType
    <3> HIDE DEF p
    <3>3. p \in Options
      BY <2>1, <3>1, <3>2 DEF Options
    <3> QED
      BY <3>3 DEF p
  <2> QED
    BY <2>1, BadUsageOK DEF SetNumIterations
<1>2. SetNumWarmup(o, n) \in Options
  <2>1. ASSUME n \in Nat PROVE [o EXCEPT !.skip = n, !.skip_large = n] \in Options
    BY <2>1 DEF Options, OptionType
  <2> QED
    BY <2>1, BadUsageOK DEF SetNumWarmup
<1>3. ASSUME n \in Nat PROVE [o EXCEPT !.warmup_validation = n] \in Options
  BY <1>3 DEF Options, OptionType
<1>4. SetWarmupValidation(o, n) \in Options
  BY <1>3, BadUsageOK DEF SetWarmupValidation
<1>5. ASSUME n \in Nat PROVE [o EXCEPT !.threshold = n] \in Options
  BY <1>5 DEF Options, OptionType
<1>6. n >= 0 => SetThreshold(o, n) \in Options
  BY <1>5, BadUsageOK DEF SetThreshold
<1> QED
  BY <1>1, <1>2, <1>4, <1>6

LEMMA AppendOK ==
  ASSUME NEW o \in Options, NEW d \in Dtypes
  PROVE  AppendDtype(o, d) \in Options
<1> DEFINE longer == [o EXCEPT !.dtypes = Append(@, d)]
<1>1. longer \in Options
  <2>1. Append(o.dtypes, d) \in Seq(Dtypes)
    BY DEF Options, OptionType
  <2> DEFINE more == Append(o.dtypes, d)
  <2> HIDE DEF more
  <2>2. more \in Seq(Dtypes)
    BY <2>1 DEF more
  <2>3. [o EXCEPT !.dtypes = more] \in Options
    BY <2>2 DEF Options, OptionType
  <2> QED
    BY <2>3 DEF more
<1>2. DtypeValue[d] \in 0 .. 3
  BY DEF Dtypes, DtypeValue
<1>3. /\ \A v \in 0 .. 3 : /\ [longer EXCEPT !.session = v] \in Options
                           /\ [longer EXCEPT !.in_place = v] \in Options
      /\ [longer EXCEPT !.tail_lat = TRUE] \in Options
      /\ \A v \in Logs : [longer EXCEPT !.log = v] \in Options
  <2> HIDE DEF longer
  <2> QED
    <3>1. \A v \in 0 .. 3 : [longer EXCEPT !.session = v] \in Options
      BY <1>1 DEF Options, OptionType
    <3>2. \A v \in 0 .. 3 : [longer EXCEPT !.in_place = v] \in Options
      BY <1>1 DEF Options, OptionType
    <3>3. [longer EXCEPT !.tail_lat = TRUE] \in Options
      BY <1>1 DEF Options, OptionType
    <3>4. \A v \in Logs : [longer EXCEPT !.log = v] \in Options
      BY <1>1 DEF Options, OptionType
    <3> QED
      BY <3>1, <3>2, <3>3, <3>4
<1> QED
  <2> DEFINE place == Len(o.dtypes) + 1 - NumDatatypes
         logged == IF longer.log = "no" THEN "nowhere" ELSE longer.log
  <2>1. AppendDtype(o, d) = CASE place = 2 -> [longer EXCEPT !.session = DtypeValue[d]]
                              [] place = 3 -> [longer EXCEPT !.in_place = DtypeValue[d]]
                              [] place = 5 -> [longer EXCEPT !.tail_lat = TRUE]
                              [] place = 6 -> [longer EXCEPT !.log = logged]
                              [] place = 7 -> [longer EXCEPT !.log = "directory"]
                              [] OTHER -> longer
    BY DEF AppendDtype
  <2>2. place \in Int
    BY DEF NumDatatypes, Options, OptionType
  <2> HIDE DEF longer, place
  <2>3. longer.log \in Logs
    BY <1>1 DEF Options, OptionType
  <2>4. logged \in Logs /\ "directory" \in Logs
    BY <2>3 DEF Logs
  <2> HIDE DEF logged
  <2>5. [longer EXCEPT !.log = logged] \in Options
    BY <1>3, <2>4
  <2>6. [longer EXCEPT !.log = "directory"] \in Options
    BY <1>3, <2>4
  <2> QED
    BY <1>1, <1>2, <1>3, <2>1, <2>2, <2>5, <2>6

LEMMA DtypesOK ==
  ASSUME NEW o \in Options, NEW name
  PROVE  AddDtypes(o, name) \in Options
<1>1. ASSUME NEW n \in Nat, NEW l, DOMAIN l = 1 .. n, \A k \in 1 .. n : l[k] \in Dtypes
      PROVE  FoldLeft(AppendDtype, o, l) \in Options
  <2> DEFINE c == [s \in SUBSET (1 .. n) |-> Max(s)]
  <2> HIDE DEF c
  <2>1. /\ IsFiniteSet(1 .. n)
        /\ \A s \in SUBSET (1 .. n) : c[s] = Max(s)
        /\ \A s \in SUBSET (1 .. n) : s # {} => c[s] \in s
    BY Positions DEF c
  <2>2. \A p \in Options : \A k \in 1 .. n : AppendDtype(p, l[k]) \in Options
    BY <1>1, AppendOK
  <2> QED
    BY <1>1, <2>1, <2>2, AppendKeeps
<1> DEFINE list == CASE name = "ALL" -> <<"MPI_CHAR", "MPI_INT", "MPI_FLOAT">>
                     [] name \in DOMAIN DtypeValue -> <<name>>
                     [] OTHER -> <<>>
<1>2. AddDtypes(o, name) = FoldLeft(AppendDtype, o, list)
  BY DEF AddDtypes
<1>3. \E n \in Nat : DOMAIN list = 1 .. n /\ \A k \in 1 .. n : list[k] \in Dtypes
  <2>1. CASE name = "ALL"
    <3>1. list = <<"MPI_CHAR", "MPI_INT", "MPI_FLOAT">>
      BY <2>1 DEF DtypeValue
    <3>2. DOMAIN list = 1 .. 3 /\ \A k \in 1 .. 3 : list[k] \in Dtypes
      <4> HIDE DEF list
      <4> QED
        BY <3>1 DEF Dtypes
    <3> QED
      BY <3>2
  <2>2. CASE name # "ALL" /\ name \in DOMAIN DtypeValue
    <3>1. list = <<name>> /\ name \in Dtypes
      BY <2>2 DEF DtypeValue, Dtypes
    <3>2. DOMAIN list = 1 .. 1 /\ \A k \in 1 .. 1 : list[k] \in Dtypes
      <4> HIDE DEF list
      <4> QED
        BY <3>1
    <3> QED
      BY <3>2
  <2>3. CASE name # "ALL" /\ name \notin DOMAIN DtypeValue
    <3>1. list = <<>>
      BY <2>3
    <3>2. DOMAIN list = 1 .. 0
      <4> HIDE DEF list
      <4> QED
        BY <3>1
    <3> QED
      BY <3>2
  <2> QED
    BY <2>1, <2>2, <2>3
<1> HIDE DEF list
<1> QED
  BY <1>1, <1>2, <1>3

\* What the overrun of -z writes to threshold.
LEMMA Halves ==
  ASSUME NEW t \in Nat, NEW v \in 0 .. 100
  PROVE  (t - (t % IntRange)) + v \in Nat /\ (t % IntRange) + v * IntRange \in Nat
<1>1. IntRange \in Nat \ {0}
  BY OptionConstants
<1>2. t % IntRange \in 0 .. t
  <2>1. t % IntRange \in 0 .. IntRange - 1
    BY <1>1
  <2>2. CASE t < IntRange
    BY <1>1, <2>2
  <2>3. CASE t >= IntRange
    BY <1>1, <2>1, <2>3
  <2> QED
    BY <1>1, <2>2, <2>3
<1>3. v * IntRange \in Nat
  BY <1>1
<1> QED
  BY <1>2, <1>3

(***************************************************************************)
(* A list of -z: an entry out of range refuses the command line.           *)
(***************************************************************************)
LEMMA PutOK ==
  ASSUME NEW o \in Options, NEW k \in Int, NEW v \in Int
  PROVE  o.ret = "PO_OKAY" => PutPercentile(o, k, v) \in Options
<1> SUFFICES ASSUME o.ret = "PO_OKAY" PROVE PutPercentile(o, k, v) \in Options
  OBVIOUS
<1>1. CASE v \notin 0 .. 100
  <2>1. PutPercentile(o, k, v) = BadUsage(o)
    BY <1>1 DEF PutPercentile
  <2> QED
    BY <2>1, BadUsageOK
<1>2. CASE v \in 0 .. 100
  <2> DEFINE list == [i \in DOMAIN o.percentiles \cup {k} |->
                        IF i = k THEN v ELSE o.percentiles[i]]
             longer == [o EXCEPT !.percentiles = list]
             low == (longer.threshold - (longer.threshold % IntRange)) + v
             high == (longer.threshold % IntRange) + v * IntRange
  <2>1. list \in Lists /\ \A i \in DOMAIN list : list[i] \in 0 .. 100
    <3>1. PICK P \in SUBSET Int : o.percentiles \in [P -> Int]
      BY DEF Options, OptionType, Lists
    <3>2. list \in [P \cup {k} -> Int] /\ P \cup {k} \in SUBSET Int
      BY <3>1
    <3>3. list \in Lists
      BY <3>2 DEF Lists
    <3>4. \A i \in DOMAIN o.percentiles : o.percentiles[i] \in 0 .. 100
      BY DEF Options
    <3> QED
      BY <1>2, <3>3, <3>4
  <2>2. longer \in Options
    <3> HIDE DEF list
    <3>1. /\ longer \in OptionType /\ longer.percentiles = list /\ longer.ret = o.ret
          /\ longer.iterations = o.iterations
          /\ longer.iterations_large = o.iterations_large
      BY <2>1 DEF Options, OptionType
    <3> HIDE DEF longer
    <3> QED
      BY <2>1, <3>1 DEF Options
  <2>3. PutPercentile(o, k, v) =
          CASE k = StatMaxNum + 2 -> [longer EXCEPT !.tuning = (v # 0)]
            [] k = StatMaxNum + 3 -> [longer EXCEPT !.threshold = low]
            [] k = StatMaxNum + 4 -> [longer EXCEPT !.threshold = high]
            [] OTHER -> longer
    BY <1>2 DEF PutPercentile
  <2> HIDE DEF longer
  <2>4. \A turned \in BOOLEAN : [longer EXCEPT !.tuning = turned] \in Options
    BY <2>2 DEF Options, OptionType
  <2>5. \A n \in Nat : [longer EXCEPT !.threshold = n] \in Options
    BY <2>2 DEF Options, OptionType
  <2>6. low \in Nat /\ high \in Nat
    <3>1. longer.threshold \in Nat
      BY <2>2 DEF Options, OptionType
    <3> QED
      BY <1>2, <3>1, Halves
  <2> HIDE DEF low, high
  <2> DEFINE turned == (v # 0)
  <2>7. turned \in BOOLEAN
    OBVIOUS
  <2>8. [longer EXCEPT !.tuning = turned] \in Options
    BY <2>4, <2>7
  <2>9. [longer EXCEPT !.threshold = low] \in Options
    BY <2>5, <2>6
  <2>10. [longer EXCEPT !.threshold = high] \in Options
    BY <2>5, <2>6
  <2>11. PutPercentile(o, k, v) \in
           {[longer EXCEPT !.tuning = turned], [longer EXCEPT !.threshold = low],
            [longer EXCEPT !.threshold = high], longer}
    BY <2>3
  <2> QED
    BY <2>2, <2>8, <2>9, <2>10, <2>11
<1> QED
  BY <1>1, <1>2

LEMMA PercentilesOK ==
  ASSUME NEW o \in Options, NEW list \in Seq(Int)
  PROVE  SetPercentiles(o, list) \in Options
<1> DEFINE given == IF list = <<>> THEN <<50, 90, 99>> ELSE list
           n == Len(given)
           start == [o EXCEPT !.tail_lat = TRUE]
           places == [k \in DOMAIN given |-> k]
           c == [s \in SUBSET (1 .. n) |-> Max(s)]
<1>1. given \in Seq(Int)
  OBVIOUS
<1>2. start \in Options
  BY DEF Options, OptionType
<1>3. SetPercentiles(o, list) = PutAll(given, start, places)
  BY DEF SetPercentiles, PutAll, Put
<1> HIDE DEF given, start
<1>4. n \in Nat /\ DOMAIN given = 1 .. n /\ places = [k \in 1 .. n |-> k]
  BY <1>1
<1> HIDE DEF n, c, places
<1>5. \A p \in Options : \A k \in 1 .. n : Put(given, p, k) \in Options
  BY <1>1, <1>4, PutOK DEF Put
<1>6. /\ IsFiniteSet(1 .. n)
      /\ \A s \in SUBSET (1 .. n) : c[s] = Max(s)
      /\ \A s \in SUBSET (1 .. n) : s # {} => c[s] \in s
  BY <1>4, Positions DEF c
<1>7. PutAll(given, start, places) \in Options
  BY <1>2, <1>4, <1>5, <1>6, PutKeeps
<1> QED
  BY <1>3, <1>7

(***************************************************************************)
(* One round of the loop over the command line.                            *)
(***************************************************************************)
LEMMA ApplyOK ==
  ASSUME NEW o \in Options, NEW opt, WellFormed(opt)
  PROVE  Apply(o, opt) \in Options
<1>1. CASE o.ret # "PO_OKAY"
  BY <1>1 DEF Apply
<1>2. CASE o.ret = "PO_OKAY"
  <2>1. /\ [o EXCEPT !.ret = "PO_HELP_MESSAGE"] \in Options
        /\ [o EXCEPT !.ret = "PO_VERSION_MESSAGE"] \in Options
        /\ [o EXCEPT !.validate = TRUE] \in Options
        /\ [o EXCEPT !.in_place = 1] \in Options
        /\ [o EXCEPT !.tuning = TRUE] \in Options
    <3>1. [o EXCEPT !.ret = "PO_HELP_MESSAGE"] \in Options
      BY DEF Options, OptionType
    <3>2. [o EXCEPT !.ret = "PO_VERSION_MESSAGE"] \in Options
      BY DEF Options, OptionType
    <3>3. [o EXCEPT !.validate = TRUE] \in Options
      BY DEF Options, OptionType
    <3>4. [o EXCEPT !.in_place = 1] \in Options
      <4>1. \A v \in 0 .. 3 : [o EXCEPT !.in_place = v] \in Options
        BY DEF Options, OptionType
      <4> QED
        BY <4>1
    <3>5. [o EXCEPT !.tuning = TRUE] \in Options
      BY DEF Options, OptionType
    <3> QED
      BY <3>1, <3>2, <3>3, <3>4, <3>5
  <2>2. CASE opt[1] = "m"
    <3> DEFINE parts == SubSeq(opt, 3, Len(opt))
    <3>1. CASE opt[2] \in {"MAX", "MIN:", "MIN:MAX"}
      <4>1. parts \in Seq(Int) /\ Len(parts) = IF opt[2] = "MIN:MAX" THEN 2 ELSE 1
        BY <2>2, <3>1 DEF WellFormed
      <4>2. SetMessageSize(o, opt[2], parts) \in Options
        <5> HIDE DEF parts
        <5> QED
          BY <4>1, MessageSizeOK
      <4> QED
        BY <1>2, <2>2, <4>2 DEF Apply
    <3>2. CASE opt[2] \notin {"MAX", "MIN:", "MIN:MAX"}
      <4>1. SetMessageSize(o, opt[2], parts) = BadUsage(o)
        BY <3>2 DEF SetMessageSize
      <4> QED
        BY <1>2, <2>2, <4>1, BadUsageOK DEF Apply
    <3> QED
      BY <3>1, <3>2
  <2>3. CASE opt[1] \in {"i", "x", "u"}
    <3>1. opt[2] \in Int
      BY <2>3 DEF WellFormed
    <3> QED
      BY <1>2, <2>3, <3>1, NumbersOK DEF Apply
  <2>4. CASE opt[1] = "S"
    <3>1. opt[2] \in Int /\ opt[2] >= 0
      BY <2>4 DEF WellFormed
    <3> QED
      BY <1>2, <2>4, <3>1, NumbersOK DEF Apply
  <2>5. CASE opt[1] = "z"
    <3>1. SetPercentiles(o, Tail(opt)) \in Options
      BY <2>5, PercentilesOK DEF WellFormed
    <3> QED
      BY <1>2, <2>5, <3>1 DEF Apply
  <2>6. CASE opt[1] = "T"
    BY <1>2, <2>6, DtypesOK DEF Apply
  <2>7. CASE opt[1] = "d"
    <3>1. [o EXCEPT !.accel = "ROCM"] \in Options
      BY DEF Options, OptionType
    <3>2. SetAccel(o, opt[2]) \in Options
      BY <3>1, BadUsageOK DEF SetAccel
    <3> QED
      BY <1>2, <2>7, <3>2 DEF Apply
  <2>8. CASE opt[1] \in {"h", "v", "l", "E", ""}
    BY <1>2, <2>1, <2>8 DEF Apply
  <2>10. CASE opt[1] = "c"
    <3> DEFINE set == [o EXCEPT !.validate = TRUE]
    <3>1. SetValidate(o, Tail(opt)) =
            CASE Tail(opt) = <<"log">> -> [set EXCEPT !.log = "directory"]
              [] Tail(opt) = <<"refused">> -> BadUsage(set)
              [] OTHER -> set
      BY DEF SetValidate
    <3>2. set \in Options
      BY <2>1
    <3> HIDE DEF set
    <3>3. \A v \in Logs : [set EXCEPT !.log = v] \in Options
      BY <3>2 DEF Options, OptionType
    <3>4. [set EXCEPT !.log = "directory"] \in Options
      BY <3>3 DEF Logs
    <3>5. BadUsage(set) \in Options
      BY <3>2, BadUsageOK
    <3>6. SetValidate(o, Tail(opt)) \in {[set EXCEPT !.log = "directory"], BadUsage(set), set}
      BY <3>1
    <3> QED
      BY <1>2, <2>10, <3>2, <3>4, <3>5, <3>6 DEF Apply
  <2>9. CASE opt[1] \notin {"m", "i", "x", "u", "S", "z", "T", "d", "h", "v", "c", "l", "E", ""}
    <3>1. Apply(o, opt) = BadUsage(o)
      BY <1>2, <2>9 DEF Apply
    <3> QED
      BY <3>1, BadUsageOK
  <2> QED
    BY <2>2, <2>3, <2>4, <2>5, <2>6, <2>7, <2>8, <2>9, <2>10
<1> QED
  BY <1>1, <1>2

\* What process_options makes of any command line.
LEMMA ProcessedOK ==
  ASSUME NEW l \in CommandLines
  PROVE  ProcessOptions(l) \in Options
<1> DEFINE n == Len(l)
           c == [s \in SUBSET (1 .. n) |-> Max(s)]
           read == FoldLeft(Apply, Defaults, l)
           words == FlattenSeq([k \in DOMAIN l |-> IF l[k][1] = "" THEN Tail(l[k]) ELSE <<>>])
<1>1. l \in Seq(Range(l)) /\ \A k \in DOMAIN l : WellFormed(l[k])
  BY OsuConstants
<1>2. n \in Nat /\ DOMAIN l = 1 .. n
  BY <1>1
<1> HIDE DEF n, c
<1>3. /\ IsFiniteSet(1 .. n)
      /\ \A s \in SUBSET (1 .. n) : c[s] = Max(s)
      /\ \A s \in SUBSET (1 .. n) : s # {} => c[s] \in s
  BY <1>2, Positions DEF c
<1>4. \A o \in Options : \A k \in 1 .. n : Apply(o, l[k]) \in Options
  BY <1>1, <1>2, ApplyOK
<1>5. read \in Options
  BY <1>2, <1>3, <1>4, DefaultsOK, ApplyKeeps
<1>6. ProcessOptions(l) = IF read.ret = "PO_OKAY" THEN Operands(Complete(read), words) ELSE read
  BY DEF ProcessOptions
<1> HIDE DEF read, words
<1>7. Complete(read) \in Options
  <2> DEFINE warmups == IF read.validate THEN read.warmup_validation ELSE 0
             types == IF read.dtypes = <<>> THEN <<"MPI_INT">> ELSE read.dtypes
  <2>1. warmups \in Nat
    BY <1>5 DEF Options, OptionType
  <2>2. types \in Seq(Dtypes)
    <3>1. read.dtypes \in Seq(Dtypes)
      BY <1>5 DEF Options, OptionType
    <3>2. <<"MPI_INT">> \in Seq(Dtypes)
      BY DEF Dtypes
    <3> QED
      BY <3>1, <3>2
  <2>3. Complete(read) = [read EXCEPT !.warmup_validation = warmups, !.dtypes = types]
    BY DEF Complete
  <2> HIDE DEF warmups, types
  <2> QED
    <3>1. [read EXCEPT !.warmup_validation = warmups] \in Options
      <4> DEFINE changed == [read EXCEPT !.warmup_validation = warmups]
      <4>1. read \in OptionType
        BY <1>5 DEF Options
      <4>2. changed \in OptionType
        BY <2>1, <4>1 DEF OptionType
      <4>3. /\ changed.ret = read.ret /\ changed.percentiles = read.percentiles
            /\ changed.iterations_large = read.iterations_large
            /\ changed.iterations = read.iterations
        BY <4>1 DEF OptionType
      <4> HIDE DEF changed
      <4>4. changed \in Options
        BY <1>5, <4>2, <4>3 DEF Options
      <4> QED
        BY <4>4 DEF changed
    <3>2. \A o \in Options : [o EXCEPT !.dtypes = types] \in Options
      BY <2>2 DEF Options, OptionType
    <3> QED
      BY <2>3, <3>1, <3>2
<1>8. Operands(Complete(read), words) \in Options
  BY <1>7, BadUsageOK DEF Operands
<1> QED
  BY <1>5, <1>6, <1>8

-----------------------------------------------------------------------------
(***************************************************************************)
(* The options of a rank: those of the command line, with the iteration    *)
(* counts of large messages from the first of these on.                    *)
(***************************************************************************)
Large(o) == [o EXCEPT !.skip = o.skip_large, !.iterations = o.iterations_large]

AskedType ==
  [ret : {"PO_OKAY", "PO_BAD_USAGE", "PO_HELP_MESSAGE", "PO_VERSION_MESSAGE"},
   accel : {"NONE", "ROCM"}, min : Nat \ {0}, max : Nat,
   iterations : Nat \ {0}, skip : Nat, iterations_large : Nat \ {0}, skip_large : Nat,
   validate : BOOLEAN, warmup_validation : Nat, dtypes : Seq(Dtypes \cup {NotADatatype}),
   session : 0 .. 3, in_place : 0 .. 3, tail_lat : BOOLEAN, log : Logs,
   percentiles : Lists, tuning : BOOLEAN, threshold : Nat]
Processed ==
  {o \in AskedType :
     /\ o.iterations_large <= o.iterations
     /\ o.ret = "PO_OKAY" => \A k \in DOMAIN o.percentiles : o.percentiles[k] \in 0 .. 100}

LEMMA PopulateOK ==
  ASSUME NEW o \in Options, NEW beyond \in {NotADatatype, "MPI_INT"}
  PROVE  Populate(o, beyond) \in Processed
<1> DEFINE types == [i \in DOMAIN o.dtypes |-> IF i <= NumDatatypes THEN o.dtypes[i] ELSE beyond]
<1>1. types \in Seq(Dtypes \cup {NotADatatype})
  <2>1. o.dtypes \in Seq(Dtypes)
    BY DEF Options, OptionType
  <2>2. PICK n \in Nat : DOMAIN o.dtypes = 1 .. n
    BY <2>1
  <2>3. \A i \in 1 .. n : types[i] \in Dtypes \cup {NotADatatype}
    BY <2>1, <2>2 DEF Dtypes
  <2>4. types = [i \in 1 .. n |-> types[i]]
    BY <2>2
  <2> HIDE DEF types
  <2> QED
    BY <2>3, <2>4
<1>2. Populate(o, beyond) = [o EXCEPT !.dtypes = types]
  BY DEF Populate
<1> HIDE DEF types
<1> QED
  <2> DEFINE p == [o EXCEPT !.dtypes = types]
  <2>1. o \in OptionType
  BY DEF Options
  <2>2. p \in AskedType
  BY <1>1, <2>1 DEF AskedType, OptionType
  <2>3. /\ p.ret = o.ret /\ p.percentiles = o.percentiles /\ p.iterations = o.iterations
      /\ p.iterations_large = o.iterations_large
  BY <2>1 DEF OptionType
  <2> HIDE DEF p
  <2>4. p \in Processed
  BY <2>2, <2>3 DEF Processed, Options
  <2> QED
  BY <1>2, <2>4 DEF p

LEMMA OptionFacts ==
  ASSUME NEW a \in Processed, NEW o \in {a, Large(a)}
  PROVE  /\ o.min = a.min /\ o.max = a.max /\ o.threshold = a.threshold /\ o.accel = a.accel
         /\ o.dtypes = a.dtypes /\ o.validate = a.validate /\ o.in_place = a.in_place
         /\ o.warmup_validation = a.warmup_validation /\ o.tail_lat = a.tail_lat
         /\ o.percentiles = a.percentiles /\ o.iterations_large = a.iterations_large
         /\ o.log = a.log /\ o.iterations \in {a.iterations, a.iterations_large}
         /\ o.iterations \in Nat \ {0} /\ o.iterations <= a.iterations /\ o.skip \in Nat
         /\ Large(o) = Large(a)
         /\ a.min \in Nat \ {0} /\ a.max \in Nat /\ a.threshold \in Nat
         /\ a.iterations \in Nat \ {0} /\ a.iterations_large \in Nat \ {0}
         /\ a.warmup_validation \in Nat /\ a.in_place \in 0 .. 3 /\ a.validate \in BOOLEAN
         /\ a.tail_lat \in BOOLEAN /\ a.tuning \in BOOLEAN
         /\ a.dtypes \in Seq(Dtypes \cup {NotADatatype})
<1>1. a \in AskedType /\ a.iterations_large <= a.iterations
  BY DEF Processed
<1>2. /\ a.min \in Nat \ {0} /\ a.max \in Nat /\ a.threshold \in Nat
      /\ a.iterations \in Nat \ {0} /\ a.iterations_large \in Nat \ {0}
      /\ a.warmup_validation \in Nat /\ a.in_place \in 0 .. 3 /\ a.validate \in BOOLEAN
      /\ a.tail_lat \in BOOLEAN /\ a.tuning \in BOOLEAN
      /\ a.dtypes \in Seq(Dtypes \cup {NotADatatype})
      /\ a.skip \in Nat /\ a.skip_large \in Nat
  BY <1>1 DEF AskedType
<1>3. LET p == Large(a)
      IN  /\ p.min = a.min /\ p.max = a.max /\ p.threshold = a.threshold /\ p.accel = a.accel
          /\ p.dtypes = a.dtypes /\ p.validate = a.validate /\ p.in_place = a.in_place
          /\ p.warmup_validation = a.warmup_validation /\ p.tail_lat = a.tail_lat
          /\ p.percentiles = a.percentiles /\ p.iterations_large = a.iterations_large
          /\ p.log = a.log
          /\ p.iterations = a.iterations_large /\ p.skip = a.skip_large
  BY <1>1 DEF AskedType, Large
<1>4. Large(Large(a)) = Large(a)
  BY <1>1 DEF AskedType, Large
<1> QED
  BY <1>1, <1>2, <1>3, <1>4

-----------------------------------------------------------------------------
(***************************************************************************)
(* Types.                                                                  *)
(***************************************************************************)
Tails == {"min", "max", "avg", "stats", "error sum", "row", "row barrier"}
Within == {"fill", "warmup barrier", "warmup", "before", "reduce", "after", "check"} \cup Tails
Alone == {"start", "part", "size", "begin", "double", "finish"}
Parts == {"cpu", "rocm", "all"}

TypeInv ==
  /\ line \in CommandLines /\ np \in NumProcs /\ asked \in Processed
  /\ opts \in [Procs -> {Defaults, asked, Large(asked)}]
  /\ pc \in [Procs -> Within \cup Alone]
  /\ \A r \in Procs : pc[r] # "start" => opts[r] \in {asked, Large(asked)}
  /\ typ \in [Procs -> Nat \ {0}] /\ part \in [Procs -> Parts]
  /\ size \in [Procs -> Nat] /\ iter \in [Procs -> Nat]
  /\ warm \in [Procs -> Nat] /\ round \in [Procs -> Nat]
  /\ sbuf \in [Procs -> Nat \cup {Junk}] /\ rbuf \in [Procs -> Nat \cup {Junk}]
  /\ localErrs \in [Procs -> Nat] /\ errs \in [Procs -> Nat]
  /\ lat = [r \in Procs |-> lat[r]]
  /\ \E S : rows \in Seq(S)
  /\ \A n \in DOMAIN rows : rows[n].status \in {"none", "Pass", "Fail"}
  /\ wrong \subseteq Nat
  /\ ended \in [Procs -> {"no", "success", "failure", "lost"}]
  /\ killed \in BOOLEAN /\ faults \in 0 .. MaxFaults

LEMMA ProcsFinite ==
  ASSUME np \in NumProcs
  PROVE  /\ IsFiniteSet(Procs) /\ Cardinality(Procs) = np /\ Root \in Procs /\ np \in Nat \ {0}
<1>1. np \in Nat \ {0}
  BY OsuConstants
<1>2. IsFiniteSet(0 .. np - 1) /\ Cardinality(0 .. np - 1) = np
  BY <1>1, FS_Interval
<1> QED
  BY <1>1, <1>2 DEF Procs, Root

LEMMA DefaultsFacts ==
  /\ Defaults.min = 1 /\ Defaults.max \in Nat /\ Defaults.iterations \in Nat \ {0}
  /\ Defaults.tail_lat = FALSE
BY OptionConstants DEF Defaults

LEMMA TypeInvImplies == TypeInv => TypeOK
<1>1. SUFFICES ASSUME TypeInv PROVE TypeOK
  OBVIOUS
<1>2. ASSUME NEW r \in Procs
      PROVE  opts[r].min > 0 /\ opts[r].max >= 0 /\ opts[r].iterations > 0
  <2>1. opts[r] \in {Defaults, asked, Large(asked)} /\ asked \in Processed
    BY <1>1 DEF TypeInv
  <2>2. CASE opts[r] = Defaults
    BY <2>2, DefaultsFacts
  <2>3. CASE opts[r] # Defaults
    BY <2>1, <2>3, OptionFacts
  <2> QED
    BY <2>2, <2>3
<1> QED
  BY <1>1, <1>2 DEF TypeInv, TypeOK, Parts

LEMMA TypeInit == Init => TypeInv
<1>1. SUFFICES ASSUME Init PROVE TypeInv
  OBVIOUS
<1>2. asked \in Processed
  <2>1. PICK beyond \in {NotADatatype, "MPI_INT"} : asked = Populate(ProcessOptions(line), beyond)
    BY <1>1 DEF Init
  <2>2. ProcessOptions(line) \in Options
    BY <1>1, ProcessedOK DEF Init
  <2> QED
    BY <2>1, <2>2, PopulateOK
<1>3. (\E S : rows \in Seq(S)) /\ DOMAIN rows = {}
  <2>1. rows \in Seq({}) /\ DOMAIN rows = {}
    BY <1>1 DEF Init
  <2> QED
    BY <2>1
<1>4. lat = [r \in Procs |-> lat[r]]
  BY <1>1 DEF Init
<1>5. /\ opts \in [Procs -> {Defaults, asked, Large(asked)}]
      /\ pc \in [Procs -> Within \cup Alone] /\ part \in [Procs -> Parts]
      /\ \A r \in Procs : pc[r] = "start"
  BY <1>1 DEF Init, Alone, Parts
<1>6. /\ typ \in [Procs -> Nat \ {0}]
      /\ size \in [Procs -> Nat] /\ iter \in [Procs -> Nat]
      /\ warm \in [Procs -> Nat] /\ round \in [Procs -> Nat]
  BY <1>1 DEF Init
<1>7. /\ sbuf \in [Procs -> Nat \cup {Junk}] /\ rbuf \in [Procs -> Nat \cup {Junk}]
      /\ localErrs \in [Procs -> Nat] /\ errs \in [Procs -> Nat]
  BY <1>1 DEF Init
<1>8. /\ line \in CommandLines /\ np \in NumProcs /\ wrong \subseteq Nat
      /\ ended \in [Procs -> {"no", "success", "failure", "lost"}]
      /\ killed \in BOOLEAN /\ faults \in 0 .. MaxFaults
  <2>1. 0 \in 0 .. MaxFaults
    BY OsuConstants
  <2> QED
    BY <1>1, <2>1 DEF Init
<1> QED
  BY <1>2, <1>3, <1>4, <1>5, <1>6, <1>7, <1>8 DEF TypeInv

(***************************************************************************)
(* A step changes only how ranks have ended, or one rank moves, or all do. *)
(***************************************************************************)
Quiet ==
  /\ UNCHANGED <<input, opts, pc, loop, bufs, totals, outcome>>
  /\ \A r \in Procs : ended'[r] = ended[r] \/ pc[r] \notin Tails
Moves(r) == \/ Start(r) \/ OpenPart(r) \/ NextSize(r) \/ (Fill(r) /\ ended' = ended)
            \/ Check(r) \/ Reduce(r) \/ PrintRow(r) \/ Double(r)

LEMMA Steps ==
  ASSUME TypeInv, [Next]_vars
  PROVE  \/ Quiet
         \/ \E r \in Procs : Moves(r)
         \/ Barrier \/ Warmup \/ Allreduce \/ SumErrors
<1> USE DEF TypeInv
<1>1. CASE \E r \in Procs : TypeRefused(r) \/ WarmupRefused(r)
  BY <1>1 DEF TypeRefused, WarmupRefused, Quiet
<1>2. CASE Launcher
  BY <1>2 DEF Launcher, Quiet
<1>3. CASE Over \/ UNCHANGED vars
  BY <1>3 DEF Over, Quiet, vars
<1>4. ASSUME NEW r \in Procs, Finish(r)
      PROVE  Quiet
  BY <1>4 DEF Finish, Quiet, At, Tails
<1>5. ASSUME NEW r \in Procs, Fail(r)
      PROVE  Quiet
  BY <1>5 DEF Fail, Quiet, At, Tails
<1>6. ASSUME NEW r \in Procs, Fill(r), ended' # ended
      PROVE  Quiet
  BY <1>6 DEF Fill, Quiet, At, Tails, loop, bufs
<1>7. ASSUME NEW r \in Procs, LogFails(r)
      PROVE  Quiet
  BY <1>7 DEF LogFails, Quiet, At, Tails
<1> QED
  BY <1>1, <1>2, <1>3, <1>4, <1>5, <1>6, <1>7 DEF Next, Progress, Local, Collective, Moves

\* Only one rank's values change.
LEMMA Others ==
  ASSUME NEW r \in Procs, NEW T, NEW f \in [Procs -> T], NEW e \in T
  PROVE  [f EXCEPT ![r] = e] \in [Procs -> T]
OBVIOUS

LEMMA TypeStart ==
  ASSUME TypeInv, NEW r \in Procs, Start(r)
  PROVE  TypeInv'
<1> USE DEF TypeInv
<1>1. Procs' = Procs
  BY DEF Start, Procs, input
<1>2. opts' = [opts EXCEPT ![r] = asked] /\ asked' = asked
  BY DEF Start, input
<1>3. pc' \in [Procs -> Within \cup Alone]
  BY DEF Start, Goto, Alone
<1>4. part' \in [Procs -> Parts]
  BY DEF Start, Parts
<1>5. lat' = [q \in Procs |-> lat'[q]]
  BY DEF Start
<1>6. ended' \in [Procs -> {"no", "success", "failure", "lost"}]
  BY DEF Start
<1>7. UNCHANGED <<line, np, asked, typ, size, iter, warm, round, sbuf, rbuf, localErrs, errs,
                  rows, wrong, killed, faults>>
  BY DEF Start, input, bufs, outcome
<1>8. \A q \in Procs : pc'[q] # "start" => opts'[q] \in {asked, Large(asked)}
  BY <1>2 DEF Start, Goto
<1> QED
  BY <1>1, <1>2, <1>3, <1>4, <1>5, <1>6, <1>7, <1>8

LEMMA SizesAreNat ==
  ASSUME NEW a \in Processed, NEW o \in {a, Large(a)}, NEW p
  PROVE  /\ StartSize(o, p) = StartSize(a, p) /\ StartSize(o, p) \in Nat
         /\ EndSize(o, p) = EndSize(a, p) /\ EndSize(o, p) \in Nat
BY OptionFacts DEF StartSize, EndSize

(***************************************************************************)
(* What the steps of one rank change, with the tuples taken apart.         *)
(***************************************************************************)
LEMMA OpenPartGoes ==
  ASSUME NEW r \in Procs, OpenPart(r)
  PROVE  /\ At(r, "part")
         /\ UNCHANGED <<line, np, asked, opts, typ, part, iter, warm, round, lat, rows, wrong,
                        ended, killed, faults>>
         /\ \/ /\ typ[r] > Len(opts[r].dtypes) /\ pc' = [pc EXCEPT ![r] = "finish"]
               /\ UNCHANGED <<size, sbuf, rbuf, localErrs, errs>>
            \/ /\ ~(typ[r] > Len(opts[r].dtypes)) /\ dtype(r) # NotADatatype
               /\ pc' = [pc EXCEPT ![r] = "size"]
               /\ size' = [size EXCEPT ![r] = StartSize(opts[r], part[r])]
               /\ \E s \in {Junk, sbuf[r]} : sbuf' = [sbuf EXCEPT ![r] = s]
               /\ \E s \in {Junk, rbuf[r]} : rbuf' = [rbuf EXCEPT ![r] = s]
               /\ localErrs' = [localErrs EXCEPT ![r] = 0] /\ errs' = [errs EXCEPT ![r] = 0]
BY DEF OpenPart, input, bufs, outcome, Goto

LEMMA NextSizeGoes ==
  ASSUME NEW r \in Procs, NextSize(r)
  PROVE  /\ At(r, "size")
         /\ UNCHANGED <<line, np, asked, warm, sbuf, rbuf, localErrs, errs, lat, rows, wrong,
                        ended, killed, faults>>
         /\ \/ /\ size[r] > EndSize(opts[r], part[r]) /\ CloseLoop(r)
               /\ UNCHANGED <<size, iter, round, opts>>
            \/ /\ ~(size[r] > EndSize(opts[r], part[r])) /\ NumElements(r) = 0
               /\ size' = [size EXCEPT ![r] = @ * 2]
               /\ UNCHANGED <<pc, part, typ, iter, round, opts>>
            \/ /\ ~(size[r] > EndSize(opts[r], part[r])) /\ NumElements(r) # 0
               /\ pc' = [pc EXCEPT ![r] = "begin"]
               /\ iter' = [iter EXCEPT ![r] = 0] /\ round' = [round EXCEPT ![r] = @ + 1]
               /\ opts' = IF size[r] > LargeMessageSize
                          THEN [opts EXCEPT ![r] = Large(opts[r])] ELSE opts
               /\ UNCHANGED <<part, typ, size>>
BY DEF NextSize, input, bufs, totals, outcome, Goto, Large

LEMMA DoubleGoes ==
  ASSUME NEW r \in Procs, Double(r)
  PROVE  /\ At(r, "double")
         /\ UNCHANGED <<line, np, asked, opts, iter, warm, round, sbuf, rbuf, localErrs, errs,
                        lat, rows, wrong, ended, killed, faults>>
         /\ \/ errs[r] # 0 /\ CloseLoop(r) /\ UNCHANGED size
            \/ /\ errs[r] = 0 /\ pc' = [pc EXCEPT ![r] = "size"]
               /\ size' = [size EXCEPT ![r] = @ * 2] /\ UNCHANGED <<part, typ>>
BY DEF Double, input, bufs, totals, outcome, Goto

LEMMA CloseLoopGoes ==
  ASSUME TypeInv, NEW r \in Procs, CloseLoop(r)
  PROVE  /\ pc' = [pc EXCEPT ![r] = "part"]
         /\ \/ /\ part[r] = "cpu" /\ part' = [part EXCEPT ![r] = "rocm"]
               /\ typ' = [typ EXCEPT ![r] = typ[r]]
            \/ /\ part[r] = "rocm" /\ part' = [part EXCEPT ![r] = "cpu"]
               /\ typ' = [typ EXCEPT ![r] = typ[r] + 1]
            \/ /\ part[r] = "all" /\ part' = [part EXCEPT ![r] = "all"]
               /\ typ' = [typ EXCEPT ![r] = typ[r] + 1]
BY DEF CloseLoop, Goto, TypeInv, Parts

LEMMA FillGoes ==
  ASSUME TypeInv, NEW r \in Procs, Fill(r), ended' = ended
  PROVE  /\ At(r, "fill")
         /\ UNCHANGED <<line, np, asked, opts, typ, part, size, iter, round, localErrs, errs,
                        lat, rows, wrong, ended, killed, faults>>
         /\ warm' = [warm EXCEPT ![r] = 0]
         /\ pc' = [pc EXCEPT ![r] = IF opts[r].warmup_validation > 0
                                    THEN "warmup barrier" ELSE "before"]
         /\ \/ /\ opts[r].in_place # 0 /\ rbuf' = [rbuf EXCEPT ![r] = iter[r] + 1]
               /\ UNCHANGED sbuf
            \/ /\ opts[r].in_place = 0 /\ sbuf' = [sbuf EXCEPT ![r] = iter[r] + 1]
               /\ rbuf' = [rbuf EXCEPT ![r] = 0]
<1>1. At(r, "fill") /\ ended[r] = "no" /\ r \in DOMAIN ended
  BY DEF Fill, At, TypeInv
<1>2. ended' # [ended EXCEPT ![r] = "lost"]
  BY <1>1
<1> QED
  BY <1>1, <1>2 DEF Fill, input, totals, outcome, Goto

LEMMA VerdictFacts ==
  ASSUME NEW r \in Procs
  PROVE  /\ Verdicts(r) \subseteq {0, 1}
         /\ 1 \in Verdicts(r) => rbuf[r] # (iter[r] + 1) * np \/ Ragged(r)
         /\ 0 \in Verdicts(r) => rbuf[r] = (iter[r] + 1) * np \/ dtype(r) = "MPI_FLOAT"
BY DEF Verdicts

LEMMA CheckGoes ==
  ASSUME NEW r \in Procs, Check(r)
  PROVE  /\ At(r, "check")
         /\ UNCHANGED <<line, np, asked, opts, typ, part, size, warm, round, sbuf, rbuf, errs,
                        rows, wrong, ended, killed, faults>>
         /\ iter' = [iter EXCEPT ![r] = iter[r] + 1]
         /\ pc' = [pc EXCEPT ![r] = Iterate(opts[r], iter[r] + 1)]
         /\ IF opts[r].validate
            THEN \E bad \in {0, 1} :
                   /\ localErrs' = [localErrs EXCEPT ![r] = localErrs[r] + bad]
                   /\ bad = 1 => rbuf[r] # (iter[r] + 1) * np \/ Ragged(r)
                   /\ bad = 0 => rbuf[r] = (iter[r] + 1) * np \/ dtype(r) = "MPI_FLOAT"
            ELSE UNCHANGED localErrs
         /\ lat' = IF iter[r] >= opts[r].skip /\ opts[r].tail_lat
                   THEN [lat EXCEPT ![r] = [i \in DOMAIN lat[r] \cup {iter[r] - opts[r].skip + 1} |->
                           IF i = iter[r] - opts[r].skip + 1 THEN round[r] ELSE lat[r][i]]]
                   ELSE lat
BY VerdictFacts DEF Check, input, bufs, outcome, Goto

\* The order of the reductions.
LEMMA Numbers ==
  /\ DOMAIN Reductions = 1 .. 4
  /\ NumberOf("min") = 1 /\ NumberOf("max") = 2 /\ NumberOf("avg") = 3 /\ NumberOf("stats") = 4
  /\ Reductions[1] = "min" /\ Reductions[2] = "max" /\ Reductions[3] = "avg"
  /\ Reductions[4] = "stats"
<1>1. /\ DOMAIN Reductions = 1 .. 4
      /\ Reductions[1] = "min" /\ Reductions[2] = "max" /\ Reductions[3] = "avg"
      /\ Reductions[4] = "stats"
  BY DEF Reductions
<1>2. \A n \in 1 .. 4 : n = 1 \/ n = 2 \/ n = 3 \/ n = 4
  OBVIOUS
<1>3. \A n \in DOMAIN Reductions :
        /\ Reductions[n] = "min" <=> n = 1
        /\ Reductions[n] = "max" <=> n = 2
        /\ Reductions[n] = "avg" <=> n = 3
        /\ Reductions[n] = "stats" <=> n = 4
  BY <1>1, <1>2
<1> QED
  BY <1>1, <1>3 DEF NumberOf

LEMMA ReduceGoes ==
  ASSUME NEW r \in Procs, Reduce(r)
  PROVE  /\ pc[r] \in {"min", "max", "avg", "stats"} /\ At(r, pc[r])
         /\ UNCHANGED <<line, np, asked, opts, typ, part, size, iter, warm, round, sbuf, rbuf,
                        localErrs, errs, lat, rows, wrong, ended, killed, faults>>
         /\ pc' = [pc EXCEPT ![r] = CASE pc[r] = "min" -> "max" [] pc[r] = "max" -> "avg"
                                      [] pc[r] = "avg" -> "stats"
                                      [] pc[r] = "stats" ->
                                           IF opts[r].validate THEN "error sum" ELSE "row"]
         /\ r = Root /\ pc[r] = "min" => \A q \in Procs : ended[q] = "no" /\ pc[q] \in Tails
<1>1. /\ pc[r] \in {"min", "max", "avg", "stats"} /\ At(r, pc[r])
      /\ UNCHANGED <<line, np, asked, opts, typ, part, size, iter, warm, round, sbuf, rbuf,
                     localErrs, errs, lat, rows, wrong, ended, killed, faults>>
      /\ pc' = [pc EXCEPT ![r] = IF pc[r] # "stats" THEN Reductions[NumberOf(pc[r]) + 1]
                                 ELSE IF opts[r].validate THEN "error sum" ELSE "row"]
      /\ r = Root /\ pc[r] = "min" => \A q \in Procs : Called(q, NumberOf("min"))
  BY DEF Reduce, At, input, loop, bufs, totals, outcome, Goto
<1>2. \A q \in Procs : Called(q, 1) => ended[q] = "no" /\ pc[q] \in Tails
  <2>1. \A k \in 1 .. 4 : Reductions[k] \in Tails
    <3>1. \A k \in 1 .. 4 : k = 1 \/ k = 2 \/ k = 3 \/ k = 4
      OBVIOUS
    <3> QED
      BY <3>1, Numbers DEF Tails
  <2>2. Len(Reductions) = 4
    BY DEF Reductions
  <2> QED
    BY <2>1, <2>2 DEF Called, Tails
<1>3. r = Root /\ pc[r] = "min" => \A q \in Procs : ended[q] = "no" /\ pc[q] \in Tails
  BY <1>1, <1>2, Numbers
<1> DEFINE Onward == IF pc[r] # "stats" THEN Reductions[NumberOf(pc[r]) + 1]
                     ELSE IF opts[r].validate THEN "error sum" ELSE "row"
<1>4. Onward = CASE pc[r] = "min" -> "max" [] pc[r] = "max" -> "avg" [] pc[r] = "avg" -> "stats"
                 [] pc[r] = "stats" -> IF opts[r].validate THEN "error sum" ELSE "row"
  <2>1. 1 + 1 = 2 /\ 2 + 1 = 3 /\ 3 + 1 = 4
    OBVIOUS
  <2>2. CASE pc[r] = "min"
    BY <2>1, <2>2, Numbers
  <2>3. CASE pc[r] = "max"
    BY <2>1, <2>3, Numbers
  <2>4. CASE pc[r] = "avg"
    BY <2>1, <2>4, Numbers
  <2>5. CASE pc[r] = "stats"
    BY <2>5
  <2> QED
    BY <1>1, <2>2, <2>3, <2>4, <2>5
<1>5. pc' = [pc EXCEPT ![r] = Onward]
  BY <1>1
<1> HIDE DEF Onward
<1> QED
  BY <1>1, <1>3, <1>4, <1>5

LEMMA PrintRowGoes ==
  ASSUME NEW r \in Procs, PrintRow(r)
  PROVE  /\ At(r, "row") /\ pc' = [pc EXCEPT ![r] = "row barrier"]
         /\ UNCHANGED <<line, np, asked, opts, typ, part, size, iter, warm, round, sbuf, rbuf,
                        localErrs, errs, lat, wrong, ended, killed, faults>>
         /\ r # Root => rows' = rows
         /\ r = Root => \E row :
              /\ rows' = Append(rows, row)
              /\ row.type = typ[r] /\ row.size = size[r] /\ row.place = Place(r)
              /\ row.tail = (IF opts[r].tail_lat THEN TailLat(r) ELSE <<>>)
              /\ row.status = (IF ~opts[r].validate THEN "none"
                               ELSE IF errs[r] > 0 THEN "Fail" ELSE "Pass")
<1> DEFINE row == [type |-> typ[r], size |-> size[r], place |-> Place(r),
                   in_place |-> opts[r].in_place = 1,
                   tail |-> IF opts[r].tail_lat THEN TailLat(r) ELSE <<>>,
                   status |-> IF ~opts[r].validate THEN "none"
                              ELSE IF errs[r] > 0 THEN "Fail" ELSE "Pass"]
<1>1. /\ row.type = typ[r] /\ row.size = size[r] /\ row.place = Place(r)
      /\ row.tail = (IF opts[r].tail_lat THEN TailLat(r) ELSE <<>>)
      /\ row.status = (IF ~opts[r].validate THEN "none" ELSE IF errs[r] > 0 THEN "Fail" ELSE "Pass")
  OBVIOUS
<1>2. r = Root => rows' = Append(rows, row)
  BY DEF PrintRow
<1>3. /\ At(r, "row") /\ pc' = [pc EXCEPT ![r] = "row barrier"]
      /\ UNCHANGED <<line, np, asked, opts, typ, part, size, iter, warm, round, sbuf, rbuf,
                     localErrs, errs, lat, wrong, ended, killed, faults>>
      /\ r # Root => rows' = rows
  BY DEF PrintRow, input, loop, bufs, totals, Goto
<1> HIDE DEF row
<1> QED
  BY <1>1, <1>2, <1>3

(***************************************************************************)
(* The steps of all ranks.                                                 *)
(***************************************************************************)
\* Where a barrier lets a rank go on.
Onward(o, label) ==
  CASE label = "begin" -> Iterate(o, 0)
    [] label = "warmup barrier" -> "warmup"
    [] label = "before" -> "reduce"
    [] label = "after" -> "check"
    [] label = "row barrier" -> "double"
Barriers == {"begin", "warmup barrier", "before", "after", "row barrier"}

LEMMA BarrierGoes ==
  ASSUME Barrier
  PROVE  /\ \E label \in Barriers :
              AllAt(label) /\ pc' = [r \in Procs |-> Onward(opts[r], label)]
         /\ UNCHANGED <<line, np, asked, opts, typ, part, size, iter, warm, round, sbuf, rbuf,
                        localErrs, errs, lat, rows, wrong, ended, killed, faults>>
BY DEF Barrier, Barriers, Onward, input, loop, bufs, totals, outcome

LEMMA WarmupGoes ==
  ASSUME Warmup
  PROVE  /\ AllAt("warmup") /\ part[Root] # "all"
         /\ \E sum : sum = Sum(sbuf) /\ rbuf' \in Results(sum)
                       /\ faults' = IF Corrupt(sum, rbuf') THEN faults + 1 ELSE faults
         /\ warm' = [r \in Procs |-> warm[r] + 1]
         /\ pc' = [r \in Procs |-> IF warm'[r] < opts[r].warmup_validation
                                   THEN "warmup barrier" ELSE "before"]
         /\ UNCHANGED <<line, np, asked, opts, typ, part, size, iter, round, sbuf, localErrs,
                        errs, lat, rows, wrong, ended, killed>>
BY DEF Warmup, input, totals, outcome

LEMMA AllreduceGoes ==
  ASSUME Allreduce
  PROVE  /\ AllAt("reduce") /\ pc' = [r \in Procs |-> "after"]
         /\ \/ /\ opts[Root].validate
               /\ \E sum : /\ sum = Sum(IF opts[Root].in_place = 1 THEN rbuf ELSE sbuf)
                           /\ rbuf' \in Results(sum)
                           /\ faults' = IF Corrupt(sum, rbuf') THEN faults + 1 ELSE faults
                           /\ wrong' = IF Corrupt(sum, rbuf') THEN wrong \cup {round[Root]}
                                       ELSE wrong
            \/ ~opts[Root].validate /\ UNCHANGED <<rbuf, faults, wrong>>
         /\ UNCHANGED <<line, np, asked, opts, typ, part, size, iter, warm, round, sbuf,
                        localErrs, errs, lat, rows, ended, killed>>
BY DEF Allreduce, AllGoto, input, loop, totals

LEMMA SumErrorsGoes ==
  ASSUME SumErrors
  PROVE  /\ AllAt("error sum") /\ pc' = [r \in Procs |-> "row"]
         /\ errs' = [r \in Procs |-> SumFunction(localErrs)]
         /\ UNCHANGED <<line, np, asked, opts, typ, part, size, iter, warm, round, sbuf, rbuf,
                        localErrs, lat, rows, wrong, ended, killed, faults>>
BY DEF SumErrors, AllGoto, input, loop, bufs, outcome

LEMMA IterateGoes ==
  ASSUME NEW o, NEW i
  PROVE  Iterate(o, i) \in {"min", "fill", "reduce"}
BY DEF Iterate

LEMMA SumInside ==
  ASSUME np \in NumProcs, NEW content \in [Procs -> Nat \cup {Junk}]
  PROVE  /\ Sum(content) \in Nat \cup {Junk}
         /\ \A n \in Nat : (\A r \in Procs : content[r] = n) => Sum(content) = n * np
<1>1. CASE \E r \in Procs : content[r] = Junk
  <2>1. Sum(content) = Junk /\ Junk \notin Nat
    BY <1>1 DEF Sum, Junk
  <2> QED
    BY <1>1, <2>1
<1>2. CASE ~ \E r \in Procs : content[r] = Junk
  <2>1. content \in [Procs -> Nat] /\ Sum(content) = SumFunction(content)
    BY <1>2 DEF Sum
  <2>2. SumFunction(content) \in Nat
    BY <2>1, SumOfNaturals, ProcsFinite
  <2>3. ASSUME NEW n \in Nat, \A r \in Procs : content[r] = n
        PROVE  SumFunction(content) = n * np
    <3>1. SumFunction(content) = Cardinality(Procs) * n
      BY <2>1, <2>3, SumOfEquals, ProcsFinite
    <3> QED
      BY <3>1, ProcsFinite
  <2> QED
    BY <2>1, <2>2, <2>3
<1> QED
  BY <1>1, <1>2

\* A result is right at every rank, or wrong at one and a fault more.
LEMMA ResultFacts ==
  ASSUME TypeInv, NEW sum \in Nat \cup {Junk}, NEW result \in Results(sum)
  PROVE  /\ result \in [Procs -> Nat \cup {Junk}]
         /\ Corrupt(sum, result) <=> \E r \in Procs : result[r] # sum
         /\ (IF Corrupt(sum, result) THEN faults + 1 ELSE faults) \in 0 .. MaxFaults
<1>1. MaxFaults \in Nat
  BY OsuConstants
<1>2. faults \in 0 .. MaxFaults
  BY DEF TypeInv
<1>3. CASE result = [r \in Procs |-> sum]
  BY <1>1, <1>2, <1>3 DEF Corrupt
<1>4. CASE /\ faults < MaxFaults
           /\ \E q \in Procs : result = [r \in Procs |-> IF r = q THEN Junk ELSE sum]
  BY <1>1, <1>2, <1>4 DEF Corrupt
<1> QED
  BY <1>3, <1>4 DEF Results

(***************************************************************************)
(* Every step keeps the types.                                             *)
(***************************************************************************)
LEMMA OptsOf ==
  ASSUME TypeInv, NEW r \in Procs
  PROVE  /\ opts[r] \in {Defaults, asked, Large(asked)} /\ asked \in Processed
         /\ opts[r].iterations \in Nat /\ opts[r].skip \in Nat
         /\ \A p : StartSize(opts[r], p) \in Nat
<1>1. opts[r] \in {Defaults, asked, Large(asked)} /\ asked \in Processed
  BY DEF TypeInv
<1>2. CASE opts[r] = Defaults
  BY <1>1, <1>2, OptionConstants DEF Defaults, StartSize
<1>3. CASE opts[r] # Defaults
  BY <1>1, <1>3, OptionFacts, SizesAreNat
<1> QED
  BY <1>1, <1>2, <1>3

LEMMA TypeOpenPart ==
  ASSUME TypeInv, NEW r \in Procs, OpenPart(r)
  PROVE  TypeInv'
<1> USE DEF TypeInv
<1>1. Procs' = Procs
  BY OpenPartGoes DEF Procs
<1>2. pc' \in [Procs -> Within \cup Alone]
  BY OpenPartGoes DEF Alone
<1>3. size' \in [Procs -> Nat]
  <2>1. size' \in {size, [size EXCEPT ![r] = StartSize(opts[r], part[r])]}
    BY OpenPartGoes
  <2>2. StartSize(opts[r], part[r]) \in Nat
    BY OptsOf
  <2> QED
    BY <2>1, <2>2
<1>4. /\ sbuf' \in [Procs -> Nat \cup {Junk}] /\ rbuf' \in [Procs -> Nat \cup {Junk}]
      /\ localErrs' \in [Procs -> Nat] /\ errs' \in [Procs -> Nat]
  <2>1. sbuf' = sbuf \/ \E s \in {Junk, sbuf[r]} : sbuf' = [sbuf EXCEPT ![r] = s]
    BY OpenPartGoes
  <2>2. rbuf' = rbuf \/ \E s \in {Junk, rbuf[r]} : rbuf' = [rbuf EXCEPT ![r] = s]
    BY OpenPartGoes
  <2>3. localErrs' = localErrs \/ localErrs' = [localErrs EXCEPT ![r] = 0]
    BY OpenPartGoes
  <2>4. errs' = errs \/ errs' = [errs EXCEPT ![r] = 0]
    BY OpenPartGoes
  <2>5. sbuf' \in [Procs -> Nat \cup {Junk}]
    BY <2>1
  <2>6. rbuf' \in [Procs -> Nat \cup {Junk}]
    BY <2>2
  <2>7. localErrs' \in [Procs -> Nat]
    <3>1. localErrs \in [Procs -> Nat]
      OBVIOUS
    <3> HIDE DEF TypeInv
    <3> QED
      BY <2>3, <3>1
  <2>8. errs' \in [Procs -> Nat]
    <3>1. errs \in [Procs -> Nat]
      OBVIOUS
    <3> HIDE DEF TypeInv
    <3> QED
      BY <2>4, <3>1
  <2> QED
    BY <2>5, <2>6, <2>7, <2>8
<1>5. UNCHANGED <<line, np, asked, opts, typ, part, iter, warm, round, lat, rows, wrong, ended,
                  killed, faults>>
  BY OpenPartGoes
<1>6. \A q \in Procs : pc'[q] # "start" => pc[q] # "start"
  BY OpenPartGoes DEF At
<1> QED
  BY <1>1, <1>2, <1>3, <1>4, <1>5, <1>6

LEMMA TypeCloseLoop ==
  ASSUME TypeInv, NEW r \in Procs, CloseLoop(r)
  PROVE  /\ pc' \in [Procs -> Within \cup Alone] /\ part' \in [Procs -> Parts]
         /\ typ' \in [Procs -> Nat \ {0}]
<1> USE DEF TypeInv
<1>1. pc' \in [Procs -> Within \cup Alone]
  BY CloseLoopGoes DEF Alone
<1>2. part' \in [Procs -> Parts]
  <2>1. part' \in {[part EXCEPT ![r] = p] : p \in Parts}
    BY CloseLoopGoes DEF Parts
  <2> QED
    BY <2>1
<1>3. typ' \in [Procs -> Nat \ {0}]
  <2>1. typ' = [typ EXCEPT ![r] = typ[r]] \/ typ' = [typ EXCEPT ![r] = typ[r] + 1]
    BY CloseLoopGoes
  <2>2. typ[r] \in Nat \ {0} /\ typ[r] + 1 \in Nat \ {0}
    OBVIOUS
  <2> QED
    BY <2>1, <2>2
<1> QED
  BY <1>1, <1>2, <1>3

LEMMA TypeNextSize ==
  ASSUME TypeInv, NEW r \in Procs, NextSize(r)
  PROVE  TypeInv'
<1> USE DEF TypeInv
<1>1. Procs' = Procs
  BY NextSizeGoes DEF Procs
<1>2. /\ pc' \in [Procs -> Within \cup Alone] /\ part' \in [Procs -> Parts]
      /\ typ' \in [Procs -> Nat \ {0}]
  <2>1. CASE CloseLoop(r)
    BY <2>1, TypeCloseLoop
  <2>2. CASE UNCHANGED <<part, typ>> /\ (pc' = pc \/ pc' = [pc EXCEPT ![r] = "begin"])
    <3>1. "begin" \in Within \cup Alone
      BY DEF Alone
    <3>2. pc' \in [Procs -> Within \cup Alone]
      BY <2>2, <3>1
    <3> QED
      BY <2>2, <3>2
  <2>3. CloseLoop(r) \/ (UNCHANGED <<part, typ>> /\ (pc' = pc \/ pc' = [pc EXCEPT ![r] = "begin"]))
    BY NextSizeGoes
  <2> QED
    BY <2>1, <2>2, <2>3
<1>3. size' \in [Procs -> Nat] /\ iter' \in [Procs -> Nat] /\ round' \in [Procs -> Nat]
  <2>1. size' = size \/ size' = [size EXCEPT ![r] = size[r] * 2]
    BY NextSizeGoes
  <2>2. iter' = iter \/ iter' = [iter EXCEPT ![r] = 0]
    BY NextSizeGoes
  <2>3. round' = round \/ round' = [round EXCEPT ![r] = round[r] + 1]
    BY NextSizeGoes
  <2>4. size[r] * 2 \in Nat /\ round[r] + 1 \in Nat
    OBVIOUS
  <2>5. size' \in [Procs -> Nat]
    BY <2>1, <2>4
  <2>6. iter' \in [Procs -> Nat]
    <3>1. iter \in [Procs -> Nat]
      OBVIOUS
    <3> HIDE DEF TypeInv
    <3> QED
      BY <2>2, <3>1
  <2>7. round' \in [Procs -> Nat]
    BY <2>3, <2>4
  <2> QED
    BY <2>5, <2>6, <2>7
<1>4. opts[r] \in {asked, Large(asked)} /\ Large(opts[r]) = Large(asked)
  <2>1. pc[r] = "size"
    BY NextSizeGoes DEF At
  <2>2. opts[r] \in {asked, Large(asked)}
    BY <2>1
  <2> QED
    BY <2>2, OptionFacts
<1>5. opts' \in {opts, [opts EXCEPT ![r] = Large(asked)]}
  BY <1>4, NextSizeGoes
<1>6. /\ opts' \in [Procs -> {Defaults, asked, Large(asked)}]
      /\ \A q \in Procs : opts'[q] \in {asked, Large(asked)} \/ opts'[q] = opts[q]
  BY <1>5
<1>7. opts'[r] \in {asked, Large(asked)} /\ \A q \in Procs \ {r} : pc'[q] = pc[q] /\ opts'[q] = opts[q]
  <2>1. opts'[r] \in {asked, Large(asked)} /\ \A q \in Procs \ {r} : opts'[q] = opts[q]
    BY <1>4, <1>5
  <2>2. pc' \in {pc, [pc EXCEPT ![r] = "part"], [pc EXCEPT ![r] = "begin"]}
    BY NextSizeGoes, CloseLoopGoes
  <2> QED
    BY <2>1, <2>2
<1>8. \A q \in Procs : pc'[q] # "start" => opts'[q] \in {asked, Large(asked)}
  BY <1>7
<1>9. UNCHANGED <<line, np, asked, warm, sbuf, rbuf, localErrs, errs, lat, rows, wrong, ended,
                  killed, faults>>
  BY NextSizeGoes
<1> QED
  BY <1>1, <1>2, <1>3, <1>6, <1>8, <1>9

LEMMA TypeDouble ==
  ASSUME TypeInv, NEW r \in Procs, Double(r)
  PROVE  TypeInv'
<1> USE DEF TypeInv
<1>1. Procs' = Procs
  BY DoubleGoes DEF Procs
<1>2. /\ pc' \in [Procs -> Within \cup Alone] /\ part' \in [Procs -> Parts]
      /\ typ' \in [Procs -> Nat \ {0}]
  BY DoubleGoes, TypeCloseLoop DEF Alone
<1>3. size' \in [Procs -> Nat]
  <2>1. size' \in {size, [size EXCEPT ![r] = size[r] * 2]}
    BY DoubleGoes
  <2>2. size[r] * 2 \in Nat
    OBVIOUS
  <2> QED
    BY <2>1, <2>2
<1>4. \A q \in Procs : pc'[q] # "start" => pc[q] # "start"
  <2>1. pc[r] = "double" /\ pc' \in {[pc EXCEPT ![r] = "part"], [pc EXCEPT ![r] = "size"]}
    BY DoubleGoes, CloseLoopGoes DEF At
  <2> QED
    BY <2>1
<1>5. UNCHANGED <<line, np, asked, opts, iter, warm, round, sbuf, rbuf, localErrs, errs, lat,
                  rows, wrong, ended, killed, faults>>
  BY DoubleGoes
<1> QED
  BY <1>1, <1>2, <1>3, <1>4, <1>5

LEMMA TypeFill ==
  ASSUME TypeInv, NEW r \in Procs, Fill(r), ended' = ended
  PROVE  TypeInv'
<1> USE DEF TypeInv
<1>1. Procs' = Procs
  BY FillGoes DEF Procs
<1>2. pc' \in [Procs -> Within \cup Alone]
  BY FillGoes DEF Within
<1>3. warm' \in [Procs -> Nat]
  <2>1. warm' = [warm EXCEPT ![r] = 0]
    BY FillGoes
  <2> QED
    BY <2>1
<1>4. sbuf' \in [Procs -> Nat \cup {Junk}] /\ rbuf' \in [Procs -> Nat \cup {Junk}]
  <2>1. sbuf' = sbuf \/ sbuf' = [sbuf EXCEPT ![r] = iter[r] + 1]
    BY FillGoes
  <2>2. rbuf' = [rbuf EXCEPT ![r] = 0] \/ rbuf' = [rbuf EXCEPT ![r] = iter[r] + 1]
    BY FillGoes
  <2>3. iter[r] + 1 \in Nat
    OBVIOUS
  <2>4. sbuf' \in [Procs -> Nat \cup {Junk}]
    BY <2>1, <2>3
  <2>5. rbuf' \in [Procs -> Nat \cup {Junk}]
    <3>1. rbuf \in [Procs -> Nat \cup {Junk}]
      OBVIOUS
    <3> HIDE DEF TypeInv
    <3> QED
      BY <2>2, <2>3, <3>1
  <2> QED
    BY <2>4, <2>5
<1>5. \A q \in Procs : pc'[q] # "start" => pc[q] # "start"
  BY FillGoes DEF At
<1>6. UNCHANGED <<line, np, asked, opts, typ, part, size, iter, round, localErrs, errs, lat,
                  rows, wrong, ended, killed, faults>>
  BY FillGoes
<1> QED
  BY <1>1, <1>2, <1>3, <1>4, <1>5, <1>6

LEMMA TypeCheck ==
  ASSUME TypeInv, NEW r \in Procs, Check(r)
  PROVE  TypeInv'
<1> USE DEF TypeInv
<1>1. Procs' = Procs
  BY CheckGoes DEF Procs
<1>2. pc' \in [Procs -> Within \cup Alone]
  <2>1. pc' = [pc EXCEPT ![r] = Iterate(opts[r], iter[r] + 1)]
    BY CheckGoes
  <2>2. Iterate(opts[r], iter[r] + 1) \in Within
    BY IterateGoes DEF Within, Tails
  <2> QED
    BY <2>1, <2>2
<1>3. iter' \in [Procs -> Nat]
  <2>1. iter' = [iter EXCEPT ![r] = iter[r] + 1]
    BY CheckGoes
  <2>2. iter[r] + 1 \in Nat
    OBVIOUS
  <2> QED
    BY <2>1, <2>2
<1>4. localErrs' \in [Procs -> Nat]
  <2>1. localErrs' = localErrs \/ \E bad \in {0, 1} : localErrs' = [localErrs EXCEPT ![r] = localErrs[r] + bad]
    BY CheckGoes
  <2>2. \A bad \in {0, 1} : localErrs[r] + bad \in Nat
    OBVIOUS
  <2>3. localErrs \in [Procs -> Nat]
    OBVIOUS
  <2> HIDE DEF TypeInv
  <2> QED
    BY <2>1, <2>2, <2>3
<1>5. lat' = [q \in Procs |-> lat'[q]]
  BY CheckGoes
<1>6. \A q \in Procs : pc'[q] # "start" => pc[q] # "start"
  BY CheckGoes DEF At
<1>7. UNCHANGED <<line, np, asked, opts, typ, part, size, warm, round, sbuf, rbuf, errs,
                  rows, wrong, ended, killed, faults>>
  BY CheckGoes
<1> QED
  BY <1>1, <1>2, <1>3, <1>4, <1>5, <1>6, <1>7

LEMMA TypeReduce ==
  ASSUME TypeInv, NEW r \in Procs, Reduce(r)
  PROVE  TypeInv'
<1> USE DEF TypeInv
<1>1. Procs' = Procs
  BY ReduceGoes DEF Procs
<1>2. pc' \in [Procs -> Within \cup Alone]
  <2>1. \E label \in Tails : pc' = [pc EXCEPT ![r] = label]
    BY ReduceGoes DEF Tails
  <2> QED
    <3>1. pc \in [Procs -> Within \cup Alone]
      OBVIOUS
    <3> HIDE DEF TypeInv
    <3> QED
      BY <2>1, <3>1 DEF Within
<1>3. \A q \in Procs : pc'[q] # "start" => pc[q] # "start"
  BY ReduceGoes
<1>4. UNCHANGED <<line, np, asked, opts, typ, part, size, iter, warm, round, sbuf, rbuf,
                  localErrs, errs, lat, rows, wrong, ended, killed, faults>>
  BY ReduceGoes
<1> QED
  BY <1>1, <1>2, <1>3, <1>4

LEMMA Longer ==
  ASSUME NEW S, NEW s \in Seq(S), NEW x
  PROVE  /\ Append(s, x) \in Seq(S \cup {x}) /\ DOMAIN Append(s, x) = 1 .. Len(s) + 1
         /\ Len(Append(s, x)) = Len(s) + 1 /\ Append(s, x)[Len(s) + 1] = x
         /\ DOMAIN s = 1 .. Len(s) /\ Len(s) \in Nat
         /\ \A n \in 1 .. Len(s) : Append(s, x)[n] = s[n]
<1>1. s \in Seq(S \cup {x})
  <2>1. DOMAIN s = 1 .. Len(s) /\ \A n \in DOMAIN s : s[n] \in S \cup {x}
    OBVIOUS
  <2>2. s = [n \in 1 .. Len(s) |-> s[n]] /\ Len(s) \in Nat
    OBVIOUS
  <2> QED
    BY <2>1, <2>2
<1>2. x \in S \cup {x}
  OBVIOUS
<1> QED
  BY <1>1, <1>2

LEMMA TypePrintRow ==
  ASSUME TypeInv, NEW r \in Procs, PrintRow(r)
  PROVE  TypeInv'
<1> USE DEF TypeInv
<1>1. Procs' = Procs
  BY PrintRowGoes DEF Procs
<1>2. pc' \in [Procs -> Within \cup Alone]
  BY PrintRowGoes DEF Within, Tails
<1>3. \A q \in Procs : pc'[q] # "start" => pc[q] # "start"
  BY PrintRowGoes DEF At
<1>4. (\E S : rows' \in Seq(S)) /\ \A n \in DOMAIN rows' : rows'[n].status \in {"none", "Pass", "Fail"}
  <2>1. CASE r # Root
    <3>1. rows' = rows
      BY <2>1, PrintRowGoes
    <3> QED
      BY <3>1
  <2>2. CASE r = Root
    <3>1. PICK row : /\ rows' = Append(rows, row)
                     /\ row.status = (IF ~opts[r].validate THEN "none"
                                      ELSE IF errs[r] > 0 THEN "Fail" ELSE "Pass")
      <4> HIDE DEF TypeInv
      <4> QED
        BY <2>2, PrintRowGoes
    <3>2. PICK S : rows \in Seq(S)
      OBVIOUS
    <3>3. rows' \in Seq(S \cup {row})
      BY <3>1, <3>2, Longer
    <3>4. row.status \in {"none", "Pass", "Fail"}
      BY <3>1
    <3>5. \A n \in DOMAIN rows' : (n \in DOMAIN rows /\ rows'[n] = rows[n]) \/ rows'[n] = row
      BY <3>1, <3>2, Longer
    <3> QED
      BY <3>3, <3>4, <3>5
  <2> QED
    BY <2>1, <2>2
<1>5. UNCHANGED <<line, np, asked, opts, typ, part, size, iter, warm, round, sbuf, rbuf,
                  localErrs, errs, lat, wrong, ended, killed, faults>>
  BY PrintRowGoes
<1> QED
  BY <1>1, <1>2, <1>3, <1>4, <1>5

LEMMA TypeTogether ==
  ASSUME TypeInv, Barrier \/ Warmup \/ Allreduce \/ SumErrors
  PROVE  TypeInv'
<1>1. CASE Barrier
  <2> USE DEF TypeInv
  <2>1. UNCHANGED <<line, np, asked, opts, typ, part, size, iter, warm, round, sbuf, rbuf,
                    localErrs, errs, lat, rows, wrong, ended, killed, faults>>
    BY <1>1, BarrierGoes
  <2>2. Procs' = Procs
    BY <2>1 DEF Procs
  <2>3. PICK label \in Barriers : AllAt(label) /\ pc' = [r \in Procs |-> Onward(opts[r], label)]
    BY <1>1, BarrierGoes
  <2>4. \A o : Onward(o, label) \in Within \cup Alone
    BY <2>3, IterateGoes DEF Onward, Barriers, Within, Tails, Alone
  <2>5. pc' \in [Procs -> Within \cup Alone]
    BY <2>3, <2>4
  <2>6. \A r \in Procs : pc[r] # "start"
    BY <2>3 DEF AllAt, At, Barriers
  <2> QED
    BY <2>1, <2>2, <2>5, <2>6
<1>2. CASE Warmup
  <2>1. UNCHANGED <<line, np, asked, opts, typ, part, size, iter, round, sbuf, localErrs,
                    errs, lat, rows, wrong, ended, killed>>
    BY <1>2, WarmupGoes
  <2>2. Procs' = Procs
    BY <2>1 DEF Procs
  <2>3. pc' \in [Procs -> Within \cup Alone]
    BY <1>2, WarmupGoes DEF Within
  <2>4. warm' \in [Procs -> Nat]
    <3>1. \A r \in Procs : warm[r] + 1 \in Nat
      BY DEF TypeInv
    <3> QED
      BY <1>2, <3>1, WarmupGoes
  <2>5. \A r \in Procs : pc[r] # "start"
    BY <1>2, WarmupGoes DEF AllAt, At
  <2>6. rbuf' \in [Procs -> Nat \cup {Junk}] /\ faults' \in 0 .. MaxFaults
    <3>1. Sum(sbuf) \in Nat \cup {Junk}
      BY SumInside DEF TypeInv
    <3>2. /\ rbuf' \in Results(Sum(sbuf))
          /\ faults' = IF Corrupt(Sum(sbuf), rbuf') THEN faults + 1 ELSE faults
      BY <1>2, WarmupGoes
    <3> QED
      BY <3>1, <3>2, ResultFacts
  <2> QED
    BY <2>1, <2>2, <2>3, <2>4, <2>5, <2>6 DEF TypeInv
<1>3. CASE Allreduce
  <2>1. UNCHANGED <<line, np, asked, opts, typ, part, size, iter, warm, round, sbuf, localErrs,
                    errs, lat, rows, ended, killed>>
    BY <1>3, AllreduceGoes
  <2>2. Procs' = Procs
    BY <2>1 DEF Procs
  <2>3. pc' \in [Procs -> Within \cup Alone]
    BY <1>3, AllreduceGoes DEF Within
  <2>4. \A r \in Procs : pc[r] # "start"
    BY <1>3, AllreduceGoes DEF AllAt, At
  <2>5. /\ rbuf' \in [Procs -> Nat \cup {Junk}] /\ faults' \in 0 .. MaxFaults
        /\ wrong' \subseteq Nat
    <3>1. CASE ~opts[Root].validate
      BY <1>3, <3>1, AllreduceGoes DEF TypeInv
    <3>2. CASE opts[Root].validate
      <4>1. PICK sum : /\ sum = Sum(IF opts[Root].in_place = 1 THEN rbuf ELSE sbuf)
                       /\ rbuf' \in Results(sum)
                       /\ faults' = IF Corrupt(sum, rbuf') THEN faults + 1 ELSE faults
                       /\ wrong' = IF Corrupt(sum, rbuf') THEN wrong \cup {round[Root]} ELSE wrong
        BY <1>3, <3>2, AllreduceGoes
      <4>2. sum \in Nat \cup {Junk}
        BY <4>1, SumInside DEF TypeInv
      <4>3. rbuf' \in [Procs -> Nat \cup {Junk}] /\ faults' \in 0 .. MaxFaults
        BY <4>1, <4>2, ResultFacts
      <4>4. round[Root] \in Nat
        BY ProcsFinite DEF TypeInv
      <4> QED
        BY <4>1, <4>3, <4>4 DEF TypeInv
    <3> QED
      BY <3>1, <3>2
  <2> QED
    BY <2>1, <2>2, <2>3, <2>4, <2>5 DEF TypeInv
<1>4. CASE SumErrors
  <2>1. UNCHANGED <<line, np, asked, opts, typ, part, size, iter, warm, round, sbuf, rbuf,
                    localErrs, lat, rows, wrong, ended, killed, faults>>
    BY <1>4, SumErrorsGoes
  <2>2. Procs' = Procs
    BY <2>1 DEF Procs
  <2>3. pc' \in [Procs -> Within \cup Alone]
    BY <1>4, SumErrorsGoes DEF Within, Tails
  <2>4. \A r \in Procs : pc[r] # "start"
    BY <1>4, SumErrorsGoes DEF AllAt, At
  <2>5. errs' \in [Procs -> Nat]
    <3>1. SumFunction(localErrs) \in Nat
      BY ProcsFinite, SumOfNaturals DEF TypeInv
    <3> QED
      BY <1>4, <3>1, SumErrorsGoes
  <2> QED
    BY <2>1, <2>2, <2>3, <2>4, <2>5 DEF TypeInv
<1> QED
  BY <1>1, <1>2, <1>3, <1>4

LEMMA TypeQuiet ==
  ASSUME TypeInv, [Next]_vars, Quiet
  PROVE  TypeInv'
<1>1. UNCHANGED <<line, np, asked, opts, pc, typ, part, size, iter, warm, round, sbuf, rbuf,
                  localErrs, errs, lat, rows, wrong>>
  BY DEF Quiet, input, loop, bufs, totals, outcome
<1>2. Procs' = Procs
  BY <1>1 DEF Procs
<1>3. MaxFaults \in Nat
  BY OsuConstants
<1>4. /\ ended' \in [Procs -> {"no", "success", "failure", "lost"}]
      /\ killed' \in BOOLEAN /\ faults' \in 0 .. MaxFaults
  <2> DEFINE Good == /\ ended' \in [Procs -> {"no", "success", "failure", "lost"}]
                     /\ killed' \in BOOLEAN /\ faults' \in 0 .. MaxFaults
  <2>1. ASSUME NEW r \in Procs, Start(r) \/ OpenPart(r) \/ NextSize(r) \/ Check(r)
        PROVE  Good
    <3>1. CASE Start(r)
      BY <3>1 DEF Start, TypeInv
    <3>2. CASE OpenPart(r) \/ NextSize(r) \/ Check(r)
      BY <3>2 DEF OpenPart, NextSize, Check, TypeInv
    <3> QED
      BY <2>1, <3>1, <3>2
  <2>2. ASSUME NEW r \in Procs, PrintRow(r) \/ Double(r) \/ Reduce(r) \/ Fill(r) \/ Finish(r)
        PROVE  Good
    BY <2>2 DEF PrintRow, Double, Reduce, Fill, Finish, TypeInv
  <2>3. ASSUME NEW r \in Procs, TypeRefused(r) \/ WarmupRefused(r) \/ LogFails(r)
        PROVE  Good
    BY <2>3 DEF TypeRefused, WarmupRefused, LogFails, TypeInv
  <2>4. CASE Launcher \/ Over \/ UNCHANGED vars
    BY <2>4 DEF Launcher, Over, vars, TypeInv
  <2>5. CASE Barrier \/ SumErrors
    BY <2>5, BarrierGoes, SumErrorsGoes DEF TypeInv
  <2>6. CASE Warmup \/ Allreduce
    BY <1>2, <2>6, TypeTogether DEF TypeInv
  <2>7. ASSUME NEW r \in Procs, Fail(r)
        PROVE  Good
    <3>1. faults \in 0 .. MaxFaults /\ faults < MaxFaults /\ faults' = faults + 1
      BY <2>7 DEF Fail, TypeInv
    <3>2. faults' \in 0 .. MaxFaults
      BY <1>3, <3>1
    <3>3. ended' = [ended EXCEPT ![r] = "lost"]
      BY <2>7 DEF Fail
    <3>4. killed' \in BOOLEAN
      BY <2>7 DEF Fail, TypeInv
    <3> QED
      BY <3>2, <3>3, <3>4 DEF TypeInv
  <2>8. \/ \E r \in Procs : \/ Start(r) \/ OpenPart(r) \/ NextSize(r) \/ Check(r)
                            \/ PrintRow(r) \/ Double(r) \/ Reduce(r) \/ Fill(r) \/ Finish(r)
                            \/ TypeRefused(r) \/ WarmupRefused(r) \/ LogFails(r) \/ Fail(r)
        \/ Barrier \/ SumErrors \/ Warmup \/ Allreduce
        \/ Launcher \/ Over \/ UNCHANGED vars
    BY DEF Next, Progress, Local, Collective
  <2>9. CASE \E r \in Procs : \/ Start(r) \/ OpenPart(r) \/ NextSize(r) \/ Check(r)
                              \/ PrintRow(r) \/ Double(r) \/ Reduce(r) \/ Fill(r) \/ Finish(r)
                              \/ TypeRefused(r) \/ WarmupRefused(r) \/ LogFails(r) \/ Fail(r)
    BY <2>9, <2>1, <2>2, <2>3, <2>7
  <2> QED
    BY <2>4, <2>5, <2>6, <2>8, <2>9
<1> QED
  BY <1>1, <1>2, <1>4 DEF TypeInv

LEMMA TypeNext ==
  ASSUME TypeInv, [Next]_vars
  PROVE  TypeInv'
BY Steps, TypeStart, TypeOpenPart, TypeNextSize, TypeFill, TypeCheck, TypeReduce, TypePrintRow,
   TypeDouble, TypeTogether, TypeQuiet DEF Moves

THEOREM TypeAlways == Spec => []TypeInv
<1>1. Init => TypeInv
  BY TypeInit
<1>2. TypeInv /\ [Next]_vars => TypeInv'
  BY TypeNext
<1> QED
  BY <1>1, <1>2, PTL DEF Spec

\* The values of all variables stay in their types, whatever the command line,
\* the number of ranks and the calls that fail.
THEOREM TypeInvariant == Spec => []TypeOK
BY TypeAlways, TypeInvImplies, PTL

(***************************************************************************)
(* The steps seen from one rank: what rank r has after a step of its own,  *)
(* and that no other rank changes.                                         *)
(***************************************************************************)
Same(q) ==
  /\ opts'[q] = opts[q] /\ pc'[q] = pc[q] /\ typ'[q] = typ[q] /\ part'[q] = part[q]
  /\ size'[q] = size[q] /\ iter'[q] = iter[q] /\ warm'[q] = warm[q] /\ round'[q] = round[q]
  /\ sbuf'[q] = sbuf[q] /\ rbuf'[q] = rbuf[q]
  /\ localErrs'[q] = localErrs[q] /\ errs'[q] = errs[q] /\ lat'[q] = lat[q]

LEMMA StartHere ==
  ASSUME TypeInv, NEW r \in Procs, Start(r)
  PROVE  /\ \A q \in Procs \ {r} : Same(q) /\ ended'[q] = ended[q]
         /\ pc[r] = "start" /\ ended[r] = "no"
         /\ np' = np /\ asked' = asked /\ rows' = rows /\ wrong' = wrong
         /\ opts'[r] = asked
         /\ pc'[r] = "part" \/ pc'[r] = "start"
         /\ pc'[r] = "part" => asked.ret = "PO_OKAY"
         /\ part'[r] = (IF asked.tuning THEN "cpu" ELSE "all")
         /\ pc'[r] = "part" =>
              lat'[r] = IF asked.tail_lat THEN [i \in 1 .. asked.iterations |-> 0] ELSE <<>>
         /\ typ'[r] = typ[r] /\ size'[r] = size[r] /\ iter'[r] = iter[r] /\ warm'[r] = warm[r]
         /\ round'[r] = round[r] /\ sbuf'[r] = sbuf[r] /\ rbuf'[r] = rbuf[r]
         /\ localErrs'[r] = localErrs[r] /\ errs'[r] = errs[r]
<1> USE DEF TypeInv
<1>1. lat = [q \in Procs |-> lat[q]]
  OBVIOUS
<1>2. /\ opts' = [opts EXCEPT ![r] = asked]
      /\ part' = [part EXCEPT ![r] = IF asked.tuning THEN "cpu" ELSE "all"]
      /\ pc' = [pc EXCEPT ![r] = "part"] \/ pc' = [pc EXCEPT ![r] = "start"]
      /\ pc' = [pc EXCEPT ![r] = "part"] =>
           /\ asked.ret = "PO_OKAY"
           /\ lat' = [lat EXCEPT ![r] =
                        IF asked.tail_lat THEN [i \in 1 .. asked.iterations |-> 0] ELSE <<>>]
      /\ UNCHANGED <<np, asked, typ, size, iter, warm, round, sbuf, rbuf, localErrs, errs, rows,
                     wrong>>
      /\ pc[r] = "start" /\ ended[r] = "no"
  BY DEF Start, At, Goto, input, bufs, outcome
<1>3. \A q \in Procs \ {r} : lat'[q] = lat[q] /\ ended'[q] = ended[q]
  BY <1>1 DEF Start
<1> QED
  BY <1>1, <1>2, <1>3 DEF Same

LEMMA OpenPartHere ==
  ASSUME TypeInv, NEW r \in Procs, OpenPart(r)
  PROVE  /\ \A q \in Procs \ {r} : Same(q)
         /\ pc[r] = "part" /\ ended[r] = "no" /\ ended' = ended
         /\ np' = np /\ asked' = asked /\ rows' = rows /\ wrong' = wrong
         /\ opts'[r] = opts[r] /\ typ'[r] = typ[r] /\ part'[r] = part[r] /\ iter'[r] = iter[r]
         /\ warm'[r] = warm[r] /\ round'[r] = round[r] /\ lat'[r] = lat[r]
         /\ \/ /\ typ[r] > Len(opts[r].dtypes) /\ pc'[r] = "finish" /\ size'[r] = size[r]
               /\ errs'[r] = errs[r] /\ localErrs'[r] = localErrs[r]
            \/ /\ ~(typ[r] > Len(opts[r].dtypes)) /\ dtype(r) # NotADatatype /\ pc'[r] = "size"
               /\ size'[r] = StartSize(opts[r], part[r])
               /\ errs'[r] = 0 /\ localErrs'[r] = 0
<1> USE DEF TypeInv
<1>1. \A q \in Procs \ {r} :
        /\ pc'[q] = pc[q] /\ size'[q] = size[q] /\ sbuf'[q] = sbuf[q] /\ rbuf'[q] = rbuf[q]
        /\ localErrs'[q] = localErrs[q] /\ errs'[q] = errs[q]
  <2>1. CASE pc' = [pc EXCEPT ![r] = "finish"] /\ UNCHANGED <<size, sbuf, rbuf, localErrs, errs>>
    BY <2>1
  <2>2. CASE /\ pc' = [pc EXCEPT ![r] = "size"]
             /\ size' = [size EXCEPT ![r] = StartSize(opts[r], part[r])]
             /\ \E s \in {Junk, sbuf[r]} : sbuf' = [sbuf EXCEPT ![r] = s]
             /\ \E s \in {Junk, rbuf[r]} : rbuf' = [rbuf EXCEPT ![r] = s]
             /\ localErrs' = [localErrs EXCEPT ![r] = 0] /\ errs' = [errs EXCEPT ![r] = 0]
    BY <2>2
  <2> QED
    BY <2>1, <2>2, OpenPartGoes
<1>2. \A q \in Procs \ {r} : Same(q)
  BY <1>1, OpenPartGoes DEF Same
<1> QED
  BY <1>2, OpenPartGoes DEF At

LEMMA CloseLoopHere ==
  ASSUME TypeInv, NEW r \in Procs, CloseLoop(r)
  PROVE  /\ \A q \in Procs \ {r} : pc'[q] = pc[q] /\ typ'[q] = typ[q] /\ part'[q] = part[q]
         /\ pc'[r] = "part"
         /\ \/ part[r] = "cpu" /\ part'[r] = "rocm" /\ typ'[r] = typ[r]
            \/ part[r] = "rocm" /\ part'[r] = "cpu" /\ typ'[r] = typ[r] + 1
            \/ part[r] = "all" /\ part'[r] = "all" /\ typ'[r] = typ[r] + 1
<1> USE DEF TypeInv
<1>1. pc'[r] = "part" /\ \A q \in Procs \ {r} : pc'[q] = pc[q]
  <2>1. pc' = [pc EXCEPT ![r] = "part"]
    BY CloseLoopGoes
  <2> QED
    BY <2>1
<1>2. CASE part[r] = "cpu" /\ part' = [part EXCEPT ![r] = "rocm"] /\ typ' = [typ EXCEPT ![r] = typ[r]]
  BY <1>1, <1>2
<1>3. CASE part[r] = "rocm" /\ part' = [part EXCEPT ![r] = "cpu"] /\ typ' = [typ EXCEPT ![r] = typ[r] + 1]
  BY <1>1, <1>3
<1>4. CASE part[r] = "all" /\ part' = [part EXCEPT ![r] = "all"] /\ typ' = [typ EXCEPT ![r] = typ[r] + 1]
  BY <1>1, <1>4
<1> QED
  BY <1>2, <1>3, <1>4, CloseLoopGoes

LEMMA NextSizeHere ==
  ASSUME TypeInv, NEW r \in Procs, NextSize(r)
  PROVE  /\ \A q \in Procs \ {r} : Same(q)
         /\ pc[r] = "size" /\ ended[r] = "no" /\ ended' = ended
         /\ np' = np /\ asked' = asked /\ rows' = rows /\ wrong' = wrong
         /\ warm'[r] = warm[r] /\ errs'[r] = errs[r] /\ localErrs'[r] = localErrs[r]
         /\ lat'[r] = lat[r]
         /\ \/ /\ size[r] > EndSize(opts[r], part[r]) /\ CloseLoop(r)
               /\ size'[r] = size[r] /\ round'[r] = round[r] /\ opts'[r] = opts[r]
            \/ /\ ~(size[r] > EndSize(opts[r], part[r])) /\ NumElements(r) = 0
               /\ size'[r] = size[r] * 2 /\ pc'[r] = "size" /\ round'[r] = round[r]
               /\ part'[r] = part[r] /\ typ'[r] = typ[r] /\ opts'[r] = opts[r]
            \/ /\ ~(size[r] > EndSize(opts[r], part[r])) /\ NumElements(r) # 0
               /\ size'[r] = size[r] /\ pc'[r] = "begin" /\ round'[r] = round[r] + 1
               /\ iter'[r] = 0 /\ part'[r] = part[r] /\ typ'[r] = typ[r]
               /\ opts'[r] = IF size[r] > LargeMessageSize THEN Large(opts[r]) ELSE opts[r]
<1> USE DEF TypeInv
<1>1. pc[r] = "size" /\ ended[r] = "no"
  BY NextSizeGoes DEF At
<1>2. CASE size[r] > EndSize(opts[r], part[r]) /\ CloseLoop(r) /\ UNCHANGED <<size, iter, round, opts>>
  <2>1. \A q \in Procs \ {r} : Same(q)
    <3>1. \A q \in Procs \ {r} : pc'[q] = pc[q] /\ typ'[q] = typ[q] /\ part'[q] = part[q]
      BY <1>2, CloseLoopHere
    <3> HIDE DEF TypeInv
    <3> QED
      BY <1>2, <3>1, NextSizeGoes DEF Same
  <2> QED
    BY <1>1, <1>2, <2>1, NextSizeGoes
<1>3. CASE /\ ~(size[r] > EndSize(opts[r], part[r])) /\ NumElements(r) = 0
           /\ size' = [size EXCEPT ![r] = @ * 2]
           /\ UNCHANGED <<pc, part, typ, iter, round, opts>>
  <2>1. size'[r] = size[r] * 2 /\ \A q \in Procs \ {r} : size'[q] = size[q]
    BY <1>3
  <2>2. \A q \in Procs \ {r} : Same(q)
    BY <1>3, <2>1, NextSizeGoes DEF Same
  <2> QED
    BY <1>1, <1>3, <2>1, <2>2, NextSizeGoes
<1>4. CASE /\ ~(size[r] > EndSize(opts[r], part[r])) /\ NumElements(r) # 0
           /\ pc' = [pc EXCEPT ![r] = "begin"]
           /\ iter' = [iter EXCEPT ![r] = 0] /\ round' = [round EXCEPT ![r] = @ + 1]
           /\ opts' = IF size[r] > LargeMessageSize
                      THEN [opts EXCEPT ![r] = Large(opts[r])] ELSE opts
           /\ UNCHANGED <<part, typ, size>>
  <2>1. /\ pc'[r] = "begin" /\ iter'[r] = 0 /\ round'[r] = round[r] + 1
        /\ opts'[r] = IF size[r] > LargeMessageSize THEN Large(opts[r]) ELSE opts[r]
    BY <1>4
  <2>2. \A q \in Procs \ {r} : /\ pc'[q] = pc[q] /\ iter'[q] = iter[q] /\ round'[q] = round[q]
                               /\ opts'[q] = opts[q]
    BY <1>4
  <2>3. \A q \in Procs \ {r} : Same(q)
    BY <1>4, <2>2, NextSizeGoes DEF Same
  <2> QED
    BY <1>1, <1>4, <2>1, <2>3, NextSizeGoes
<1> QED
  BY <1>2, <1>3, <1>4, NextSizeGoes

LEMMA DoubleHere ==
  ASSUME TypeInv, NEW r \in Procs, Double(r)
  PROVE  /\ \A q \in Procs \ {r} : Same(q)
         /\ pc[r] = "double" /\ ended[r] = "no" /\ ended' = ended
         /\ np' = np /\ asked' = asked /\ rows' = rows /\ wrong' = wrong
         /\ opts'[r] = opts[r] /\ iter'[r] = iter[r] /\ warm'[r] = warm[r]
         /\ round'[r] = round[r] /\ errs'[r] = errs[r] /\ localErrs'[r] = localErrs[r]
         /\ lat'[r] = lat[r]
         /\ \/ errs[r] # 0 /\ CloseLoop(r) /\ size'[r] = size[r]
            \/ /\ errs[r] = 0 /\ pc'[r] = "size" /\ size'[r] = size[r] * 2
               /\ part'[r] = part[r] /\ typ'[r] = typ[r]
<1> USE DEF TypeInv
<1>1. pc[r] = "double" /\ ended[r] = "no"
  BY DoubleGoes DEF At
<1>2. CASE errs[r] # 0 /\ CloseLoop(r) /\ UNCHANGED size
  <2>1. \A q \in Procs \ {r} : Same(q)
    <3>1. \A q \in Procs \ {r} : pc'[q] = pc[q] /\ typ'[q] = typ[q] /\ part'[q] = part[q]
      BY <1>2, CloseLoopHere
    <3> HIDE DEF TypeInv
    <3> QED
      BY <1>2, <3>1, DoubleGoes DEF Same
  <2> QED
    BY <1>1, <1>2, <2>1, DoubleGoes
<1>3. CASE /\ errs[r] = 0 /\ pc' = [pc EXCEPT ![r] = "size"]
           /\ size' = [size EXCEPT ![r] = @ * 2] /\ UNCHANGED <<part, typ>>
  <2>1. /\ pc'[r] = "size" /\ size'[r] = size[r] * 2
        /\ \A q \in Procs \ {r} : pc'[q] = pc[q] /\ size'[q] = size[q]
    BY <1>3
  <2>2. \A q \in Procs \ {r} : Same(q)
    BY <1>3, <2>1, DoubleGoes DEF Same
  <2> QED
    BY <1>1, <1>3, <2>1, <2>2, DoubleGoes
<1> QED
  BY <1>2, <1>3, DoubleGoes

LEMMA FillHere ==
  ASSUME TypeInv, NEW r \in Procs, Fill(r), ended' = ended
  PROVE  /\ \A q \in Procs \ {r} : Same(q)
         /\ pc[r] = "fill" /\ ended[r] = "no"
         /\ np' = np /\ asked' = asked /\ rows' = rows /\ wrong' = wrong
         /\ opts'[r] = opts[r] /\ typ'[r] = typ[r] /\ part'[r] = part[r] /\ size'[r] = size[r]
         /\ iter'[r] = iter[r] /\ round'[r] = round[r] /\ localErrs'[r] = localErrs[r]
         /\ errs'[r] = errs[r] /\ lat'[r] = lat[r]
         /\ warm'[r] = 0
         /\ pc'[r] = IF opts[r].warmup_validation > 0 THEN "warmup barrier" ELSE "before"
         /\ opts[r].in_place = 0 => sbuf'[r] = iter[r] + 1
         /\ opts[r].in_place # 0 => rbuf'[r] = iter[r] + 1
<1> USE DEF TypeInv
<1>0. /\ pc[r] = "fill" /\ ended[r] = "no"
      /\ np' = np /\ asked' = asked /\ rows' = rows /\ wrong' = wrong
      /\ opts'[r] = opts[r] /\ typ'[r] = typ[r] /\ part'[r] = part[r] /\ size'[r] = size[r]
      /\ iter'[r] = iter[r] /\ round'[r] = round[r] /\ localErrs'[r] = localErrs[r]
      /\ errs'[r] = errs[r] /\ lat'[r] = lat[r]
  <2> HIDE DEF TypeInv
  <2> QED
    BY FillGoes DEF At
<1>1. /\ warm'[r] = 0 /\ \A q \in Procs \ {r} : warm'[q] = warm[q]
      /\ pc'[r] = IF opts[r].warmup_validation > 0 THEN "warmup barrier" ELSE "before"
      /\ \A q \in Procs \ {r} : pc'[q] = pc[q]
  <2>1. warm' = [warm EXCEPT ![r] = 0]
    BY FillGoes
  <2>2. pc' = [pc EXCEPT ![r] = IF opts[r].warmup_validation > 0
                                THEN "warmup barrier" ELSE "before"]
    BY FillGoes
  <2>3. warm'[r] = 0 /\ \A q \in Procs \ {r} : warm'[q] = warm[q]
    BY <2>1
  <2>4. /\ pc'[r] = IF opts[r].warmup_validation > 0 THEN "warmup barrier" ELSE "before"
        /\ \A q \in Procs \ {r} : pc'[q] = pc[q]
    BY <2>2
  <2> QED
    BY <2>3, <2>4
<1>2. CASE opts[r].in_place # 0 /\ rbuf' = [rbuf EXCEPT ![r] = iter[r] + 1] /\ UNCHANGED sbuf
  <2>1. \A q \in Procs \ {r} : Same(q)
    <3>1. \A q \in Procs \ {r} : sbuf'[q] = sbuf[q]
      BY <1>2
    <3>2. \A q \in Procs \ {r} : rbuf'[q] = rbuf[q]
      BY <1>2
    <3> QED
      BY <1>1, <3>1, <3>2, FillGoes DEF Same
  <2>2. rbuf'[r] = iter[r] + 1
    BY <1>2
  <2> QED
    BY <1>0, <1>1, <1>2, <2>1, <2>2
<1>3. CASE /\ opts[r].in_place = 0 /\ sbuf' = [sbuf EXCEPT ![r] = iter[r] + 1]
           /\ rbuf' = [rbuf EXCEPT ![r] = 0]
  <2>1. \A q \in Procs \ {r} : Same(q)
    <3>1. \A q \in Procs \ {r} : sbuf'[q] = sbuf[q]
      BY <1>3
    <3>2. \A q \in Procs \ {r} : rbuf'[q] = rbuf[q]
      BY <1>3
    <3> QED
      BY <1>1, <3>1, <3>2, FillGoes DEF Same
  <2>2. sbuf'[r] = iter[r] + 1
    BY <1>3
  <2> QED
    BY <1>0, <1>1, <1>3, <2>1, <2>2
<1> QED
  BY <1>2, <1>3, FillGoes

LEMMA CheckHere ==
  ASSUME TypeInv, NEW r \in Procs, Check(r)
  PROVE  /\ \A q \in Procs \ {r} : Same(q)
         /\ pc[r] = "check" /\ ended[r] = "no" /\ ended' = ended
         /\ np' = np /\ asked' = asked /\ rows' = rows /\ wrong' = wrong
         /\ opts'[r] = opts[r] /\ typ'[r] = typ[r] /\ part'[r] = part[r] /\ size'[r] = size[r]
         /\ warm'[r] = warm[r] /\ round'[r] = round[r]
         /\ sbuf'[r] = sbuf[r] /\ rbuf'[r] = rbuf[r] /\ errs'[r] = errs[r]
         /\ iter'[r] = iter[r] + 1 /\ pc'[r] = Iterate(opts[r], iter[r] + 1)
         /\ IF opts[r].validate
            THEN \/ /\ localErrs'[r] = localErrs[r] + 1
                    /\ rbuf[r] # (iter[r] + 1) * np \/ Ragged(r)
                 \/ /\ localErrs'[r] = localErrs[r]
                    /\ rbuf[r] = (iter[r] + 1) * np \/ dtype(r) = "MPI_FLOAT"
            ELSE localErrs'[r] = localErrs[r]
         /\ lat'[r] = IF iter[r] >= opts[r].skip /\ opts[r].tail_lat
                      THEN [i \in DOMAIN lat[r] \cup {iter[r] - opts[r].skip + 1} |->
                              IF i = iter[r] - opts[r].skip + 1 THEN round[r] ELSE lat[r][i]]
                      ELSE lat[r]
<1> USE DEF TypeInv
<1>1. /\ iter'[r] = iter[r] + 1 /\ \A q \in Procs \ {r} : iter'[q] = iter[q]
  <2>1. iter' = [iter EXCEPT ![r] = iter[r] + 1]
    BY CheckGoes
  <2> QED
    BY <2>1
<1>2. pc'[r] = Iterate(opts[r], iter[r] + 1) /\ \A q \in Procs \ {r} : pc'[q] = pc[q]
  <2>1. pc' = [pc EXCEPT ![r] = Iterate(opts[r], iter[r] + 1)]
    BY CheckGoes
  <2> QED
    BY <2>1
<1>3. /\ \A q \in Procs \ {r} : localErrs'[q] = localErrs[q]
      /\ IF opts[r].validate
         THEN \/ /\ localErrs'[r] = localErrs[r] + 1
                 /\ rbuf[r] # (iter[r] + 1) * np \/ Ragged(r)
              \/ /\ localErrs'[r] = localErrs[r]
                 /\ rbuf[r] = (iter[r] + 1) * np \/ dtype(r) = "MPI_FLOAT"
         ELSE localErrs'[r] = localErrs[r]
  <2>1. CASE ~opts[r].validate
    <3>1. localErrs' = localErrs
      BY <2>1, CheckGoes
    <3> QED
      BY <2>1, <3>1
  <2>2. CASE opts[r].validate
    <3>1. PICK bad \in {0, 1} :
            /\ localErrs' = [localErrs EXCEPT ![r] = localErrs[r] + bad]
            /\ bad = 1 => rbuf[r] # (iter[r] + 1) * np \/ Ragged(r)
            /\ bad = 0 => rbuf[r] = (iter[r] + 1) * np \/ dtype(r) = "MPI_FLOAT"
      BY <2>2, CheckGoes
    <3>2. localErrs'[r] = localErrs[r] + bad /\ \A q \in Procs \ {r} : localErrs'[q] = localErrs[q]
      BY <3>1
    <3>3. localErrs[r] \in Nat /\ localErrs[r] + 0 = localErrs[r]
      OBVIOUS
    <3>4. bad = 0 \/ bad = 1
      OBVIOUS
    <3> HIDE DEF TypeInv
    <3> QED
      BY <2>2, <3>1, <3>2, <3>3, <3>4
  <2> QED
    BY <2>1, <2>2
<1>4. /\ \A q \in Procs \ {r} : lat'[q] = lat[q]
      /\ lat'[r] = IF iter[r] >= opts[r].skip /\ opts[r].tail_lat
                   THEN [i \in DOMAIN lat[r] \cup {iter[r] - opts[r].skip + 1} |->
                           IF i = iter[r] - opts[r].skip + 1 THEN round[r] ELSE lat[r][i]]
                   ELSE lat[r]
  <2> DEFINE samples == [i \in DOMAIN lat[r] \cup {iter[r] - opts[r].skip + 1} |->
                           IF i = iter[r] - opts[r].skip + 1 THEN round[r] ELSE lat[r][i]]
  <2>1. lat' = IF iter[r] >= opts[r].skip /\ opts[r].tail_lat
               THEN [lat EXCEPT ![r] = samples] ELSE lat
    BY CheckGoes
  <2>2. lat = [q \in Procs |-> lat[q]]
    OBVIOUS
  <2> HIDE DEF samples, TypeInv
  <2>3. /\ \A q \in Procs \ {r} : lat'[q] = lat[q]
        /\ lat'[r] = IF iter[r] >= opts[r].skip /\ opts[r].tail_lat THEN samples ELSE lat[r]
    BY <2>1, <2>2
  <2> QED
    BY <2>3 DEF samples
<1>5. \A q \in Procs \ {r} : Same(q)
  BY <1>1, <1>2, <1>3, <1>4, CheckGoes DEF Same
<1>6. pc[r] = "check" /\ ended[r] = "no"
  BY CheckGoes DEF At
<1> HIDE DEF TypeInv
<1> QED
  BY <1>1, <1>2, <1>3, <1>4, <1>5, <1>6, CheckGoes

\* Where the iterations go on.
LEMMA CheckTo ==
  ASSUME TypeInv, NEW r \in Procs, Check(r)
  PROVE  /\ pc[r] = "check" /\ pc'[r] \in {"min", "fill", "reduce"}
         /\ iter'[r] = iter[r] + 1
<1>1. pc[r] = "check" /\ pc'[r] = Iterate(opts[r], iter[r] + 1) /\ iter'[r] = iter[r] + 1
  BY CheckHere
<1>2. Iterate(opts[r], iter[r] + 1) \in {"min", "fill", "reduce"}
  BY IterateGoes
<1> QED
  BY <1>1, <1>2

LEMMA ReduceHere ==
  ASSUME TypeInv, NEW r \in Procs, Reduce(r)
  PROVE  /\ \A q \in Procs \ {r} : Same(q)
         /\ pc[r] \in {"min", "max", "avg", "stats"} /\ ended[r] = "no" /\ ended' = ended
         /\ np' = np /\ asked' = asked /\ rows' = rows /\ wrong' = wrong
         /\ opts'[r] = opts[r] /\ typ'[r] = typ[r] /\ part'[r] = part[r] /\ size'[r] = size[r]
         /\ iter'[r] = iter[r] /\ warm'[r] = warm[r] /\ round'[r] = round[r]
         /\ sbuf'[r] = sbuf[r] /\ rbuf'[r] = rbuf[r] /\ errs'[r] = errs[r]
         /\ localErrs'[r] = localErrs[r] /\ lat'[r] = lat[r]
         /\ pc'[r] \in {"max", "avg", "stats"}
              \/ pc'[r] = (IF opts[r].validate THEN "error sum" ELSE "row")
         /\ pc'[r] # "min"
         /\ r = Root /\ pc[r] = "min" => \A q \in Procs : ended[q] = "no" /\ pc[q] \in Tails
<1> USE DEF TypeInv
<1>1. PICK label : /\ pc' = [pc EXCEPT ![r] = label]
                   /\ \/ label \in {"max", "avg", "stats"}
                      \/ label = IF opts[r].validate THEN "error sum" ELSE "row"
                   /\ label # "min"
  BY ReduceGoes
<1>2. pc'[r] = label /\ \A q \in Procs \ {r} : pc'[q] = pc[q]
  BY <1>1
<1>3. \A q \in Procs \ {r} : Same(q)
  BY <1>2, ReduceGoes DEF Same
<1> HIDE DEF TypeInv
<1> QED
  BY <1>1, <1>2, <1>3, ReduceGoes DEF At

LEMMA PrintRowHere ==
  ASSUME TypeInv, NEW r \in Procs, PrintRow(r)
  PROVE  /\ \A q \in Procs \ {r} : Same(q)
         /\ pc[r] = "row" /\ pc'[r] = "row barrier" /\ ended[r] = "no" /\ ended' = ended
         /\ np' = np /\ asked' = asked /\ wrong' = wrong
         /\ opts'[r] = opts[r] /\ typ'[r] = typ[r] /\ part'[r] = part[r] /\ size'[r] = size[r]
         /\ iter'[r] = iter[r] /\ warm'[r] = warm[r] /\ round'[r] = round[r]
         /\ sbuf'[r] = sbuf[r] /\ rbuf'[r] = rbuf[r] /\ errs'[r] = errs[r]
         /\ localErrs'[r] = localErrs[r] /\ lat'[r] = lat[r]
<1> USE DEF TypeInv
<1>1. pc'[r] = "row barrier" /\ \A q \in Procs \ {r} : pc'[q] = pc[q]
  <2>1. pc' = [pc EXCEPT ![r] = "row barrier"]
    BY PrintRowGoes
  <2> QED
    BY <2>1
<1>2. \A q \in Procs \ {r} : Same(q)
  BY <1>1, PrintRowGoes DEF Same
<1> HIDE DEF TypeInv
<1> QED
  BY <1>1, <1>2, PrintRowGoes DEF At

-----------------------------------------------------------------------------
(***************************************************************************)
(* What each rank knows of its own place in the loops.                     *)
(***************************************************************************)
Measuring == {"begin", "double"} \cup Within

PlaceAt(r) ==
  /\ pc[r] = "start" => typ[r] = 1 /\ round[r] = 0 /\ errs[r] = 0 /\ size[r] = 0
  /\ pc[r] # "start" => asked.ret = "PO_OKAY" /\ (part[r] = "all" <=> ~asked.tuning)
  /\ pc[r] \in {"size"} \cup Measuring =>
       /\ typ[r] <= Len(asked.dtypes) /\ asked.dtypes[typ[r]] # NotADatatype
       /\ part[r] = "rocm" => size[r] >= 2 * asked.threshold
       /\ part[r] # "rocm" => size[r] > 0
  /\ pc[r] \in Measuring => size[r] > 0 /\ size[r] <= EndSize(asked, part[r])
  /\ pc[r] = "begin" => iter[r] = 0
  /\ pc[r] \in Within \ Tails => iter[r] < opts[r].iterations + opts[r].skip
  /\ pc[r] \in Tails => iter[r] = opts[r].iterations + opts[r].skip
  /\ pc[r] \in {"fill", "warmup barrier", "warmup", "before", "error sum"} => asked.validate
  /\ pc[r] \in {"warmup barrier", "warmup"} => warm[r] < asked.warmup_validation
PlaceInv == \A r \in Procs : PlaceAt(r)

LEMMA PlaceInit == Init => PlaceInv
BY DEF Init, PlaceInv, PlaceAt, Measuring, Within, Tails

LEMMA PlaceSame ==
  ASSUME NEW q, Same(q), asked' = asked, PlaceAt(q)
  PROVE  PlaceAt(q)'
BY DEF Same, PlaceAt, EndSize

\* The options of a rank past the start, with what the loops read of them.
LEMMA OptsHere ==
  ASSUME TypeInv, NEW r \in Procs, pc[r] # "start"
  PROVE  /\ opts[r] \in {asked, Large(asked)} /\ asked \in Processed
         /\ opts[r].dtypes = asked.dtypes /\ opts[r].validate = asked.validate
         /\ opts[r].in_place = asked.in_place /\ opts[r].tail_lat = asked.tail_lat
         /\ opts[r].warmup_validation = asked.warmup_validation /\ opts[r].accel = asked.accel
         /\ opts[r].percentiles = asked.percentiles
         /\ opts[r].iterations \in Nat \ {0} /\ opts[r].skip \in Nat
         /\ opts[r].iterations <= asked.iterations
         /\ opts[r].iterations \in {asked.iterations, asked.iterations_large}
         /\ asked.iterations \in Nat \ {0} /\ asked.warmup_validation \in Nat
         /\ asked.threshold \in Nat /\ asked.min \in Nat \ {0}
         /\ asked.validate \in BOOLEAN /\ asked.tail_lat \in BOOLEAN /\ asked.tuning \in BOOLEAN
         /\ asked.in_place \in 0 .. 3
         /\ Large(opts[r]) = Large(asked)
         /\ \A p : /\ StartSize(opts[r], p) = StartSize(asked, p) /\ StartSize(asked, p) \in Nat
                   /\ EndSize(opts[r], p) = EndSize(asked, p) /\ EndSize(asked, p) \in Nat
         /\ asked.dtypes \in Seq(Dtypes \cup {NotADatatype})
<1>1. opts[r] \in {asked, Large(asked)} /\ asked \in Processed
  BY DEF TypeInv
<1> QED
  BY <1>1, OptionFacts, SizesAreNat

\* The values of a rank.
LEMMA ValuesHere ==
  ASSUME TypeInv, NEW r \in Procs
  PROVE  /\ pc[r] \in Within \cup Alone /\ typ[r] \in Nat \ {0} /\ part[r] \in Parts
         /\ size[r] \in Nat /\ iter[r] \in Nat /\ warm[r] \in Nat /\ round[r] \in Nat
         /\ localErrs[r] \in Nat /\ errs[r] \in Nat
BY DEF TypeInv

LEMMA NoElement ==
  ASSUME NEW t \in {"MPI_CHAR", "MPI_INT", "MPI_FLOAT"}, NEW n \in Nat, n \div TypeSize[t] # 0
  PROVE  n > 0
<1>1. TypeSize[t] \in {1, 4}
  BY DEF TypeSize
<1>2. 0 \div 1 = 0 /\ 0 \div 4 = 0
  OBVIOUS
<1> QED
  BY <1>1, <1>2

LEMMA PlaceOpenPart ==
  ASSUME TypeInv, NEW r \in Procs, PlaceAt(r), OpenPart(r)
  PROVE  PlaceAt(r)'
<1> USE DEF PlaceAt
<1>1. pc[r] = "part" /\ asked' = asked
  BY OpenPartHere
<1>2. CASE pc'[r] = "finish"
  BY <1>1, <1>2, OpenPartHere DEF Measuring, Within, Tails
<1>3. CASE pc'[r] = "size"
  <2>1. /\ ~(typ[r] > Len(opts[r].dtypes)) /\ dtype(r) # NotADatatype
        /\ size'[r] = StartSize(opts[r], part[r]) /\ part'[r] = part[r] /\ typ'[r] = typ[r]
    BY <1>3, OpenPartHere
  <2>2. typ[r] <= Len(asked.dtypes) /\ asked.dtypes[typ[r]] # NotADatatype
    BY <1>1, <2>1, OptsHere, ValuesHere DEF dtype
  <2>3. /\ part[r] = "rocm" => StartSize(asked, part[r]) >= 2 * asked.threshold
        /\ part[r] # "rocm" => StartSize(asked, part[r]) > 0
    BY <1>1, OptsHere DEF StartSize
  <2>4. StartSize(opts[r], part[r]) = StartSize(asked, part[r])
    BY <1>1, OptsHere
  <2> QED
    BY <1>1, <1>3, <2>1, <2>2, <2>3, <2>4 DEF Measuring, Within, Tails
<1> QED
  BY <1>2, <1>3, OpenPartHere

LEMMA PlaceNextSize ==
  ASSUME TypeInv, NEW r \in Procs, PlaceAt(r), NextSize(r)
  PROVE  PlaceAt(r)'
<1> USE DEF PlaceAt
<1>1. pc[r] = "size" /\ asked' = asked
  BY NextSizeHere
<1>2. /\ size[r] \in Nat /\ opts[r].dtypes = asked.dtypes /\ asked.threshold \in Nat
      /\ EndSize(opts[r], part[r]) = EndSize(asked, part[r]) /\ EndSize(asked, part[r]) \in Nat
      /\ asked.tuning \in BOOLEAN
  BY <1>1, OptsHere, ValuesHere
<1>3. CASE CloseLoop(r)
  BY <1>1, <1>2, <1>3, CloseLoopHere DEF Measuring, Within, Tails
<1>4. CASE size'[r] = size[r] * 2 /\ pc'[r] = "size" /\ part'[r] = part[r] /\ typ'[r] = typ[r]
  BY <1>1, <1>2, <1>4 DEF Measuring, Within, Tails
<1>5. CASE /\ ~(size[r] > EndSize(opts[r], part[r])) /\ NumElements(r) # 0
           /\ size'[r] = size[r] /\ pc'[r] = "begin" /\ iter'[r] = 0
           /\ part'[r] = part[r] /\ typ'[r] = typ[r]
  <2>1. size[r] > 0
    <3>1. typ[r] \in 1 .. Len(asked.dtypes) /\ asked.dtypes[typ[r]] # NotADatatype
      BY <1>1, ValuesHere DEF Measuring
    <3>2. dtype(r) \in {"MPI_CHAR", "MPI_INT", "MPI_FLOAT"}
      BY <1>1, <1>2, <3>1, OptsHere DEF dtype, Dtypes
    <3>3. size[r] \div TypeSize[dtype(r)] # 0
      BY <1>5 DEF NumElements
    <3> HIDE DEF PlaceAt
    <3> QED
      BY <1>2, <3>2, <3>3, NoElement
  <2>2. size[r] <= EndSize(asked, part[r])
    <3> HIDE DEF PlaceAt
    <3> QED
      BY <1>2, <1>5
  <2> QED
    BY <1>1, <1>5, <2>1, <2>2 DEF Measuring, Within, Tails
<1> QED
  BY <1>3, <1>4, <1>5, NextSizeHere

LEMMA PlaceDouble ==
  ASSUME TypeInv, NEW r \in Procs, PlaceAt(r), Double(r)
  PROVE  PlaceAt(r)'
<1> USE DEF PlaceAt
<1>1. pc[r] = "double" /\ asked' = asked
  BY DoubleHere
<1>2. size[r] \in Nat /\ asked.threshold \in Nat /\ asked.tuning \in BOOLEAN
  BY <1>1, OptsHere, ValuesHere
<1>3. CASE CloseLoop(r)
  BY <1>1, <1>2, <1>3, CloseLoopHere DEF Measuring, Within, Tails
<1>4. CASE size'[r] = size[r] * 2 /\ pc'[r] = "size" /\ part'[r] = part[r] /\ typ'[r] = typ[r]
  BY <1>1, <1>2, <1>4 DEF Measuring, Within, Tails
<1> QED
  BY <1>3, <1>4, DoubleHere

\* A step from one place of an iteration to another.
LEMMA PlaceWithin ==
  ASSUME TypeInv, NEW r \in Procs, PlaceAt(r), asked' = asked,
         pc[r] \in {"begin"} \cup Within, opts'[r] = opts[r], typ'[r] = typ[r],
         part'[r] = part[r], size'[r] = size[r], pc'[r] \in Within \cup {"double"},
         pc'[r] \in Within \ Tails => iter'[r] < opts[r].iterations + opts[r].skip,
         pc'[r] \in Tails => iter'[r] = opts[r].iterations + opts[r].skip,
         pc'[r] \in {"fill", "warmup barrier", "warmup", "before", "error sum"} => asked.validate,
         pc'[r] \in {"warmup barrier", "warmup"} => warm'[r] < asked.warmup_validation
  PROVE  PlaceAt(r)'
<1>1. pc[r] \in Measuring /\ pc'[r] \in Measuring /\ pc[r] # "start"
  BY DEF Measuring, Within, Tails
<1>2. pc'[r] # "start" /\ pc'[r] # "begin" /\ pc'[r] # "size"
  BY DEF Within, Tails
<1> QED
  BY <1>1, <1>2 DEF PlaceAt

(***************************************************************************)
(* From the barrier before the iterations to the one after the row all     *)
(* ranks are in the same round; the rest of the loops each goes through    *)
(* alone, and all on one path: where a rank goes from a place depends on   *)
(* nothing but the place.  A place is where in the loops a rank is, with   *)
(* the values that tell where it goes from there.                          *)
(***************************************************************************)
PlaceOf(at, t, p, s, n, o, e) ==
  [at |-> at, typ |-> t, part |-> p, size |-> s, round |-> n, opts |-> o, errs |-> e]

Closed(x) ==
  PlaceOf("part", IF x.part = "cpu" THEN x.typ ELSE x.typ + 1,
          CASE x.part = "cpu" -> "rocm" [] x.part = "rocm" -> "cpu" [] x.part = "all" -> "all",
          x.size, x.round, x.opts, x.errs)

Move(x) ==
  CASE x.at = "part" ->
         IF x.typ > Len(x.opts.dtypes)
         THEN PlaceOf("finish", x.typ, x.part, x.size, x.round, x.opts, x.errs)
         ELSE PlaceOf("size", x.typ, x.part, StartSize(x.opts, x.part), x.round, x.opts, 0)
    [] x.at = "size" ->
         IF x.size > EndSize(x.opts, x.part) THEN Closed(x)
         ELSE IF x.size \div TypeSize[x.opts.dtypes[x.typ]] = 0
         THEN PlaceOf("size", x.typ, x.part, x.size * 2, x.round, x.opts, x.errs)
         ELSE PlaceOf("begin", x.typ, x.part, x.size, x.round + 1,
                      IF x.size > LargeMessageSize THEN Large(x.opts) ELSE x.opts, x.errs)
    [] x.at = "double" ->
         IF x.errs # 0 THEN Closed(x)
         ELSE PlaceOf("size", x.typ, x.part, x.size * 2, x.round, x.opts, x.errs)
    [] OTHER -> x

\* y is on the path from x.
Reaches(x, y) == \A C : x \in C /\ (\A z \in C : Move(z) \in C) => y \in C

LEMMA ReachesFacts ==
  ASSUME NEW x, NEW y
  PROVE  /\ Reaches(x, x)
         /\ Reaches(x, y) => Reaches(x, Move(y))
         /\ Reaches(x, y) => x = y \/ Reaches(Move(x), y)
         /\ Reaches(x, y) /\ Move(x) = x => x = y
<1>1. Reaches(x, x) /\ (Reaches(x, y) => Reaches(x, Move(y)))
  BY DEF Reaches
<1>2. ASSUME Reaches(x, y), x # y
      PROVE  Reaches(Move(x), y)
  <2>1. SUFFICES ASSUME NEW C, Move(x) \in C, \A z \in C : Move(z) \in C
                 PROVE  y \in C
    BY DEF Reaches
  <2>2. x \in C \cup {x} /\ \A z \in C \cup {x} : Move(z) \in C \cup {x}
    BY <2>1
  <2>3. y \in C \cup {x}
    BY <1>2, <2>2 DEF Reaches
  <2> QED
    BY <1>2, <2>3
<1>3. ASSUME Reaches(x, y), Move(x) = x
      PROVE  x = y
  <2>1. x \in {x} /\ \A z \in {x} : Move(z) \in {x}
    BY <1>3
  <2>2. y \in {x}
    BY <1>3, <2>1 DEF Reaches
  <2> QED
    BY <2>2
<1> QED
  BY <1>1, <1>2, <1>3

FirstPlace == PlaceOf("part", 1, IF asked.tuning THEN "cpu" ELSE "all", 0, 0, asked, 0)
Loc(r) ==
  IF pc[r] = "start" THEN FirstPlace
  ELSE PlaceOf(pc[r], typ[r], part[r], size[r], round[r], opts[r], errs[r])
OnePath(x, y) == Reaches(x, y) \/ Reaches(y, x)
PathInv ==
  \A q, r \in Procs : pc[q] \notin Within /\ pc[r] \notin Within => OnePath(Loc(q), Loc(r))

\* Iterations a rank has come to the check of.
Checked(r) == iter[r] + (IF pc[r] = "check" THEN 1 ELSE 0)
Agree(q, r) ==
  /\ typ[q] = typ[r] /\ part[q] = part[r] /\ size[q] = size[r] /\ round[q] = round[r]
  /\ opts[q] = opts[r] /\ errs[q] = errs[r] /\ Checked(q) = Checked(r)
TogetherInv ==
  \A q, r \in Procs : pc[q] \in Within => pc[r] \in Within /\ Agree(q, r)

LEMMA PathInit == Init => PathInv /\ TogetherInv
<1>1. SUFFICES ASSUME Init PROVE PathInv /\ TogetherInv
  OBVIOUS
<1>2. \A r \in Procs : pc[r] = "start"
  BY <1>1 DEF Init
<1>3. \A r \in Procs : Loc(r) = FirstPlace
  BY <1>2 DEF Loc
<1>4. PathInv
  BY <1>3, ReachesFacts DEF PathInv, OnePath
<1>5. TogetherInv
  BY <1>2 DEF TogetherInv, Within, Tails
<1> QED
  BY <1>4, <1>5

\* Nothing but its own values tells where a rank is.
LEMMA LocSame ==
  ASSUME NEW q, Same(q), asked' = asked
  PROVE  Loc(q)' = Loc(q)
BY DEF Same, Loc, FirstPlace

LEMMA LocStart ==
  ASSUME TypeInv, NEW r \in Procs, PlaceAt(r), Start(r)
  PROVE  Loc(r)' = Loc(r) /\ pc'[r] \notin Within
<1>1. /\ pc[r] = "start" /\ asked' = asked
      /\ typ[r] = 1 /\ round[r] = 0 /\ errs[r] = 0 /\ size[r] = 0
  BY StartHere DEF PlaceAt
<1>2. CASE pc'[r] = "start"
  BY <1>1, <1>2 DEF Loc, FirstPlace, Within, Tails
<1>3. CASE pc'[r] = "part"
  BY <1>1, <1>3, StartHere DEF Loc, FirstPlace, Within, Tails
<1> QED
  BY <1>2, <1>3, StartHere

LEMMA LocOpenPart ==
  ASSUME TypeInv, NEW r \in Procs, OpenPart(r)
  PROVE  Loc(r)' = Move(Loc(r)) /\ pc'[r] \notin Within
<1>1. Loc(r) = PlaceOf("part", typ[r], part[r], size[r], round[r], opts[r], errs[r])
  BY OpenPartHere DEF Loc
<1>2. CASE pc'[r] = "finish"
  <2>1. Loc(r)' = PlaceOf("finish", typ[r], part[r], size[r], round[r], opts[r], errs[r])
    BY <1>2, OpenPartHere DEF Loc, PlaceOf
  <2>2. typ[r] > Len(opts[r].dtypes)
    BY <1>2, OpenPartHere
  <2> QED
    BY <1>1, <1>2, <2>1, <2>2 DEF Move, PlaceOf, Within, Tails
<1>3. CASE pc'[r] = "size"
  <2>1. Loc(r)' = PlaceOf("size", typ[r], part[r], StartSize(opts[r], part[r]), round[r], opts[r], 0)
    BY <1>3, OpenPartHere DEF Loc, PlaceOf
  <2>2. ~(typ[r] > Len(opts[r].dtypes))
    BY <1>3, OpenPartHere
  <2> QED
    BY <1>1, <1>3, <2>1, <2>2 DEF Move, PlaceOf, Within, Tails
<1> QED
  BY <1>2, <1>3, OpenPartHere

LEMMA LocCloseLoop ==
  ASSUME TypeInv, NEW r \in Procs, CloseLoop(r), pc[r] # "start",
         size'[r] = size[r], round'[r] = round[r], opts'[r] = opts[r], errs'[r] = errs[r]
  PROVE  Loc(r)' = Closed(Loc(r)) /\ pc'[r] \notin Within
<1>1. Loc(r) = PlaceOf(pc[r], typ[r], part[r], size[r], round[r], opts[r], errs[r])
  BY DEF Loc
<1>2. Loc(r)' = PlaceOf("part", typ'[r], part'[r], size[r], round[r], opts[r], errs[r])
  BY CloseLoopHere DEF Loc, PlaceOf
<1>3. pc'[r] \notin Within
  BY CloseLoopHere DEF Within, Tails
<1>4. CASE part[r] = "cpu"
  <2>1. part'[r] = "rocm" /\ typ'[r] = typ[r]
    BY <1>4, CloseLoopHere
  <2> QED
    BY <1>1, <1>2, <1>3, <1>4, <2>1 DEF Closed, PlaceOf
<1>5. CASE part[r] = "rocm"
  <2>1. part'[r] = "cpu" /\ typ'[r] = typ[r] + 1
    BY <1>5, CloseLoopHere
  <2> QED
    BY <1>1, <1>2, <1>3, <1>5, <2>1 DEF Closed, PlaceOf
<1>6. CASE part[r] = "all"
  <2>1. part'[r] = "all" /\ typ'[r] = typ[r] + 1
    BY <1>6, CloseLoopHere
  <2> QED
    BY <1>1, <1>2, <1>3, <1>6, <2>1 DEF Closed, PlaceOf
<1> QED
  BY <1>4, <1>5, <1>6, CloseLoopHere

LEMMA LocNextSize ==
  ASSUME TypeInv, NEW r \in Procs, NextSize(r)
  PROVE  Loc(r)' = Move(Loc(r)) /\ pc'[r] \notin Within
<1>1. /\ Loc(r) = PlaceOf("size", typ[r], part[r], size[r], round[r], opts[r], errs[r])
      /\ pc[r] = "size" /\ errs'[r] = errs[r]
  BY NextSizeHere DEF Loc
<1>2. NumElements(r) = size[r] \div TypeSize[opts[r].dtypes[typ[r]]]
  BY DEF NumElements, dtype
<1>3. CASE /\ size[r] > EndSize(opts[r], part[r]) /\ CloseLoop(r)
           /\ size'[r] = size[r] /\ round'[r] = round[r] /\ opts'[r] = opts[r]
  BY <1>1, <1>3, LocCloseLoop DEF Move, PlaceOf
<1>4. CASE /\ ~(size[r] > EndSize(opts[r], part[r])) /\ NumElements(r) = 0
           /\ size'[r] = size[r] * 2 /\ pc'[r] = "size" /\ round'[r] = round[r]
           /\ part'[r] = part[r] /\ typ'[r] = typ[r] /\ opts'[r] = opts[r]
  <2>1. Loc(r)' = PlaceOf("size", typ[r], part[r], size[r] * 2, round[r], opts[r], errs[r])
    BY <1>1, <1>4 DEF Loc, PlaceOf
  <2> QED
    BY <1>1, <1>2, <1>4, <2>1 DEF Move, PlaceOf, Within, Tails
<1>5. CASE /\ ~(size[r] > EndSize(opts[r], part[r])) /\ NumElements(r) # 0
           /\ size'[r] = size[r] /\ pc'[r] = "begin" /\ round'[r] = round[r] + 1
           /\ part'[r] = part[r] /\ typ'[r] = typ[r]
           /\ opts'[r] = IF size[r] > LargeMessageSize THEN Large(opts[r]) ELSE opts[r]
  <2>1. Loc(r)' = PlaceOf("begin", typ[r], part[r], size[r], round[r] + 1,
                          IF size[r] > LargeMessageSize THEN Large(opts[r]) ELSE opts[r], errs[r])
    BY <1>1, <1>5 DEF Loc, PlaceOf
  <2> QED
    BY <1>1, <1>2, <1>5, <2>1 DEF Move, PlaceOf, Within, Tails
<1> QED
  BY <1>3, <1>4, <1>5, NextSizeHere

LEMMA LocDouble ==
  ASSUME TypeInv, NEW r \in Procs, Double(r)
  PROVE  Loc(r)' = Move(Loc(r)) /\ pc'[r] \notin Within
<1>1. /\ Loc(r) = PlaceOf("double", typ[r], part[r], size[r], round[r], opts[r], errs[r])
      /\ pc[r] = "double" /\ errs'[r] = errs[r] /\ round'[r] = round[r] /\ opts'[r] = opts[r]
  BY DoubleHere DEF Loc
<1>2. CASE errs[r] # 0 /\ CloseLoop(r) /\ size'[r] = size[r]
  BY <1>1, <1>2, LocCloseLoop DEF Move, PlaceOf
<1>3. CASE /\ errs[r] = 0 /\ pc'[r] = "size" /\ size'[r] = size[r] * 2
           /\ part'[r] = part[r] /\ typ'[r] = typ[r]
  <2>1. Loc(r)' = PlaceOf("size", typ[r], part[r], size[r] * 2, round[r], opts[r], errs[r])
    BY <1>1, <1>3 DEF Loc, PlaceOf
  <2> QED
    BY <1>1, <1>3, <2>1 DEF Move, PlaceOf, Within, Tails
<1> QED
  BY <1>2, <1>3, DoubleHere

LEMMA QuietHere ==
  ASSUME Quiet
  PROVE  /\ \A q : Same(q)
         /\ UNCHANGED <<line, np, asked, opts, pc, typ, part, size, iter, warm, round, sbuf, rbuf,
                        localErrs, errs, lat, rows, wrong>>
         /\ Procs' = Procs
         /\ \A r \in Procs : ended'[r] = ended[r] \/ pc[r] \notin Tails
<1>1. UNCHANGED <<line, np, asked, opts, pc, typ, part, size, iter, warm, round, sbuf, rbuf,
                  localErrs, errs, lat, rows, wrong>>
  BY DEF Quiet, input, loop, bufs, totals, outcome
<1> QED
  BY <1>1 DEF Quiet, Same, Procs

LEMMA BarrierHere ==
  ASSUME TypeInv, Barrier
  PROVE  /\ \E label \in Barriers : \A r \in Procs :
              pc[r] = label /\ ended[r] = "no" /\ pc'[r] = Onward(opts[r], label)
         /\ UNCHANGED <<line, np, asked, opts, typ, part, size, iter, warm, round, sbuf, rbuf,
                        localErrs, errs, lat, rows, wrong, ended>>
         /\ Procs' = Procs
<1>1. PICK label \in Barriers : AllAt(label) /\ pc' = [r \in Procs |-> Onward(opts[r], label)]
  BY BarrierGoes
<1>2. \A r \in Procs : pc[r] = label /\ ended[r] = "no" /\ pc'[r] = Onward(opts[r], label)
  BY <1>1 DEF AllAt, At
<1> QED
  BY <1>2, BarrierGoes DEF Procs

LEMMA WarmupHere ==
  ASSUME TypeInv, Warmup
  PROVE  /\ \A r \in Procs :
              /\ pc[r] = "warmup" /\ ended[r] = "no" /\ warm'[r] = warm[r] + 1
              /\ pc'[r] = IF warm[r] + 1 < opts[r].warmup_validation
                          THEN "warmup barrier" ELSE "before"
         /\ UNCHANGED <<line, np, asked, opts, typ, part, size, iter, round, sbuf, localErrs,
                        errs, lat, rows, wrong, ended>>
         /\ Procs' = Procs
<1>1. \A r \in Procs : pc[r] = "warmup" /\ ended[r] = "no" /\ warm'[r] = warm[r] + 1
  BY WarmupGoes DEF AllAt, At
<1>2. pc' = [r \in Procs |-> IF warm'[r] < opts[r].warmup_validation
                             THEN "warmup barrier" ELSE "before"]
  BY WarmupGoes
<1>3. \A r \in Procs : pc'[r] = IF warm[r] + 1 < opts[r].warmup_validation
                                THEN "warmup barrier" ELSE "before"
  BY <1>1, <1>2
<1> QED
  BY <1>1, <1>3, WarmupGoes DEF Procs

LEMMA AllreduceHere ==
  ASSUME TypeInv, Allreduce
  PROVE  /\ \A r \in Procs : pc[r] = "reduce" /\ ended[r] = "no" /\ pc'[r] = "after"
         /\ UNCHANGED <<line, np, asked, opts, typ, part, size, iter, warm, round, sbuf,
                        localErrs, errs, lat, rows, ended>>
         /\ Procs' = Procs
<1>1. \A r \in Procs : pc[r] = "reduce" /\ ended[r] = "no" /\ pc'[r] = "after"
  BY AllreduceGoes DEF AllAt, At
<1> QED
  BY <1>1, AllreduceGoes DEF Procs

LEMMA SumErrorsHere ==
  ASSUME TypeInv, SumErrors
  PROVE  /\ \A r \in Procs : /\ pc[r] = "error sum" /\ ended[r] = "no" /\ pc'[r] = "row"
                             /\ errs'[r] = SumFunction(localErrs)
         /\ UNCHANGED <<line, np, asked, opts, typ, part, size, iter, warm, round, sbuf, rbuf,
                        localErrs, lat, rows, wrong, ended>>
         /\ Procs' = Procs
<1>1. /\ \A r \in Procs : /\ pc[r] = "error sum" /\ ended[r] = "no" /\ pc'[r] = "row"
                          /\ errs'[r] = SumFunction(localErrs)
  BY SumErrorsGoes DEF AllAt, At
<1> QED
  BY <1>1, SumErrorsGoes DEF Procs

\* What moves alone leaves all other ranks as they are.
LEMMA MovesHere ==
  ASSUME TypeInv, NEW r \in Procs, Moves(r)
  PROVE  /\ \A q \in Procs \ {r} : Same(q) /\ ended'[q] = ended[q]
         /\ ended[r] = "no" /\ (pc[r] # "start" => ended' = ended)
         /\ asked' = asked /\ np' = np /\ Procs' = Procs /\ wrong' = wrong
         /\ pc[r] # "row" => rows' = rows
<1>1. CASE Start(r)
  BY <1>1, StartHere DEF Procs
<1>2. CASE OpenPart(r) \/ NextSize(r) \/ Double(r)
  BY <1>2, OpenPartHere, NextSizeHere, DoubleHere DEF Procs
<1>3. CASE (Fill(r) /\ ended' = ended) \/ Check(r) \/ Reduce(r)
  BY <1>3, FillHere, CheckHere, ReduceHere DEF Procs
<1>4. CASE PrintRow(r)
  BY <1>4, PrintRowHere DEF Procs
<1> QED
  BY <1>1, <1>2, <1>3, <1>4 DEF Moves

\* A rank alone and a rank in an iteration do not take each other's steps.
LEMMA MovesApart ==
  ASSUME TypeInv, NEW r \in Procs, Moves(r)
  PROVE  \/ pc[r] \notin Within /\ (Start(r) \/ OpenPart(r) \/ NextSize(r) \/ Double(r))
         \/ pc[r] \in Within /\ ((Fill(r) /\ ended' = ended) \/ Check(r) \/ Reduce(r) \/ PrintRow(r))
<1>1. CASE Start(r) \/ OpenPart(r) \/ NextSize(r) \/ Double(r)
  BY <1>1, StartHere, OpenPartHere, NextSizeHere, DoubleHere DEF Within, Tails
<1>2. CASE (Fill(r) /\ ended' = ended) \/ Check(r) \/ Reduce(r) \/ PrintRow(r)
  BY <1>2, FillHere, CheckHere, ReduceHere, PrintRowHere DEF Within, Tails
<1> QED
  BY <1>1, <1>2 DEF Moves

LEMMA IterateFacts ==
  ASSUME NEW o, NEW i \in Nat, o.iterations \in Nat, o.skip \in Nat, NEW label,
         label = Iterate(o, i), i <= o.iterations + o.skip, o.validate \in BOOLEAN
  PROVE  /\ label \in Within
         /\ label \in Within \ Tails => i < o.iterations + o.skip
         /\ label \in Tails => i = o.iterations + o.skip
         /\ label = "fill" => o.validate
         /\ label = "reduce" => ~o.validate
         /\ label \in {"min", "fill", "reduce"}
<1>1. CASE i >= o.iterations + o.skip
  BY <1>1 DEF Iterate, Within, Tails
<1>2. CASE ~(i >= o.iterations + o.skip)
  BY <1>2 DEF Iterate, Within, Tails
<1> QED
  BY <1>1, <1>2

\* Ranks outside the iterations keep their place or go on.
LEMMA PlaceMoves ==
  ASSUME TypeInv, PlaceInv, NEW r \in Procs, Moves(r)
  PROVE  PlaceAt(r)'
<1>1. PlaceAt(r)
  BY DEF PlaceInv
<1>2. CASE Start(r)
  <2>1. pc[r] = "start" /\ asked \in Processed
    BY <1>2, StartHere DEF TypeInv
  <2>2. asked.tuning \in BOOLEAN
    BY <2>1 DEF Processed, AskedType
  <2> QED
    BY <1>1, <1>2, <2>1, <2>2, StartHere DEF PlaceAt, Measuring, Within, Tails
<1>3. CASE OpenPart(r) \/ NextSize(r) \/ Double(r)
  BY <1>1, <1>3, PlaceOpenPart, PlaceNextSize, PlaceDouble
<1>4. CASE Fill(r) /\ ended' = ended
  <2>1. pc[r] = "fill" /\ pc[r] # "start"
    BY <1>4, FillHere
  <2>2. iter[r] < opts[r].iterations + opts[r].skip /\ asked.validate
    BY <1>1, <2>1 DEF PlaceAt, Within, Tails
  <2>3. /\ pc'[r] \in {"warmup barrier", "before"}
        /\ pc'[r] = "warmup barrier" => 0 < asked.warmup_validation
    BY <1>4, <2>1, FillHere, OptsHere
  <2> QED
    BY <1>1, <1>4, <2>1, <2>2, <2>3, FillHere, PlaceWithin DEF Within, Tails
<1>5. CASE Check(r)
  <2>1. pc[r] = "check" /\ pc[r] # "start" /\ pc'[r] = Iterate(opts[r], iter[r] + 1)
    BY <1>5, CheckHere
  <2>2. iter[r] < opts[r].iterations + opts[r].skip
    BY <1>1, <2>1 DEF PlaceAt, Within, Tails
  <2>3. iter[r] + 1 <= opts[r].iterations + opts[r].skip /\ iter[r] + 1 \in Nat
    BY <2>1, <2>2, OptsHere, ValuesHere
  <2>4. opts[r].validate = asked.validate /\ opts[r].validate \in BOOLEAN
    BY <2>1, OptsHere
  <2>5. opts[r].iterations \in Nat /\ opts[r].skip \in Nat
    BY OptsOf
  <2>6. /\ pc'[r] \in {"min", "fill", "reduce"}
        /\ pc'[r] \in Within \ Tails => iter[r] + 1 < opts[r].iterations + opts[r].skip
        /\ pc'[r] \in Tails => iter[r] + 1 = opts[r].iterations + opts[r].skip
        /\ pc'[r] = "fill" => asked.validate
    BY <2>1, <2>3, <2>4, <2>5, IterateFacts
  <2> QED
    BY <1>1, <1>5, <2>1, <2>6, CheckHere, PlaceWithin DEF Within, Tails
<1>6. CASE Reduce(r)
  <2>1. pc[r] \in Tails /\ pc[r] # "start"
    BY <1>6, ReduceHere DEF Tails
  <2>2. iter[r] = opts[r].iterations + opts[r].skip
    BY <1>1, <2>1 DEF PlaceAt
  <2>3. opts[r].validate = asked.validate /\ pc'[r] \in Tails
    BY <1>6, <2>1, ReduceHere, OptsHere DEF Tails
  <2>4. pc'[r] = "error sum" => asked.validate
    BY <1>6, <2>3, ReduceHere
  <2> QED
    BY <1>1, <1>6, <2>1, <2>2, <2>3, <2>4, ReduceHere, PlaceWithin DEF Within, Tails
<1>7. CASE PrintRow(r)
  <2>1. pc[r] \in Tails /\ pc[r] # "start" /\ pc'[r] = "row barrier"
    BY <1>7, PrintRowHere DEF Tails
  <2>2. iter[r] = opts[r].iterations + opts[r].skip
    BY <1>1, <2>1 DEF PlaceAt
  <2> QED
    BY <1>1, <1>7, <2>1, <2>2, PrintRowHere, PlaceWithin DEF Within, Tails
<1> QED
  BY <1>2, <1>3, <1>4, <1>5, <1>6, <1>7 DEF Moves

LEMMA PlaceBarrier ==
  ASSUME TypeInv, PlaceInv, Barrier
  PROVE  PlaceInv'
<1>1. PICK label \in Barriers :
        \A r \in Procs : pc[r] = label /\ pc'[r] = Onward(opts[r], label)
  BY BarrierHere
<1>2. SUFFICES ASSUME NEW r \in Procs PROVE PlaceAt(r)'
  BY BarrierHere DEF PlaceInv
<1>3. /\ PlaceAt(r) /\ pc[r] = label /\ pc'[r] = Onward(opts[r], label)
      /\ asked' = asked /\ opts'[r] = opts[r] /\ typ'[r] = typ[r] /\ part'[r] = part[r]
      /\ size'[r] = size[r] /\ iter'[r] = iter[r] /\ warm'[r] = warm[r]
  BY <1>1, BarrierHere DEF PlaceInv
<1>4. CASE label = "begin"
  <2>1. pc[r] # "start" /\ iter[r] = 0 /\ pc'[r] = Iterate(opts[r], 0)
    BY <1>3, <1>4 DEF PlaceAt, Onward
  <2>2. /\ opts[r].validate = asked.validate /\ opts[r].validate \in BOOLEAN
        /\ opts[r].iterations \in Nat /\ opts[r].skip \in Nat
        /\ 0 <= opts[r].iterations + opts[r].skip
    BY <2>1, OptsHere
  <2>3. /\ pc'[r] \in {"min", "fill", "reduce"}
        /\ pc'[r] \in Within \ Tails => iter[r] < opts[r].iterations + opts[r].skip
        /\ pc'[r] \in Tails => iter[r] = opts[r].iterations + opts[r].skip
        /\ pc'[r] = "fill" => asked.validate
    BY <2>1, <2>2, IterateFacts
  <2> QED
    BY <1>3, <1>4, <2>3, PlaceWithin DEF Within, Tails
<1>5. CASE label \in {"warmup barrier", "before", "after"}
  <2>1. pc'[r] \in {"warmup", "reduce", "check"} /\ (pc'[r] = "warmup" => pc[r] = "warmup barrier")
    BY <1>3, <1>5 DEF Onward
  <2>2. iter[r] < opts[r].iterations + opts[r].skip
    BY <1>3, <1>5 DEF PlaceAt, Within, Tails
  <2>3. pc'[r] = "warmup" => warm[r] < asked.warmup_validation /\ asked.validate
    BY <1>3, <2>1 DEF PlaceAt
  <2> QED
    BY <1>3, <1>5, <2>1, <2>2, <2>3, PlaceWithin DEF Within, Tails
<1>6. CASE label = "row barrier"
  <2>1. pc'[r] = "double"
    BY <1>3, <1>6 DEF Onward
  <2> QED
    BY <1>3, <1>6, <2>1, PlaceWithin DEF Within, Tails
<1> QED
  BY <1>4, <1>5, <1>6 DEF Barriers

LEMMA PlaceTogether ==
  ASSUME TypeInv, PlaceInv, Warmup \/ Allreduce \/ SumErrors
  PROVE  PlaceInv'
<1>1. asked' = asked /\ Procs' = Procs
  BY WarmupHere, AllreduceHere, SumErrorsHere
<1>2. SUFFICES ASSUME NEW r \in Procs PROVE PlaceAt(r)'
  BY <1>1 DEF PlaceInv
<1>3. PlaceAt(r)
  BY DEF PlaceInv
<1>4. CASE Warmup
  <2>1. pc[r] = "warmup" /\ warm'[r] = warm[r] + 1 /\ pc'[r] \in {"warmup barrier", "before"}
        /\ (pc'[r] = "warmup barrier" => warm'[r] < opts[r].warmup_validation)
    BY <1>4, WarmupHere
  <2>2. /\ iter[r] < opts[r].iterations + opts[r].skip /\ asked.validate
        /\ opts[r].warmup_validation = asked.warmup_validation
    BY <1>3, <2>1, OptsHere DEF PlaceAt, Within, Tails
  <2> QED
    BY <1>1, <1>3, <1>4, <2>1, <2>2, WarmupHere, PlaceWithin DEF Within, Tails
<1>5. CASE Allreduce
  <2>1. pc[r] = "reduce" /\ pc'[r] = "after"
    BY <1>5, AllreduceHere
  <2>2. iter[r] < opts[r].iterations + opts[r].skip
    BY <1>3, <2>1 DEF PlaceAt, Within, Tails
  <2> QED
    BY <1>1, <1>3, <1>5, <2>1, <2>2, AllreduceHere, PlaceWithin DEF Within, Tails
<1>6. CASE SumErrors
  <2>1. pc[r] = "error sum" /\ pc'[r] = "row"
    BY <1>6, SumErrorsHere
  <2>2. iter[r] = opts[r].iterations + opts[r].skip
    BY <1>3, <2>1 DEF PlaceAt, Tails
  <2> QED
    BY <1>1, <1>3, <1>6, <2>1, <2>2, SumErrorsHere, PlaceWithin DEF Within, Tails
<1> QED
  BY <1>4, <1>5, <1>6

LEMMA PlaceNext ==
  ASSUME TypeInv, PlaceInv, [Next]_vars
  PROVE  PlaceInv'
<1>1. CASE Quiet
  BY <1>1, QuietHere, PlaceSame DEF PlaceInv
<1>2. ASSUME NEW r \in Procs, Moves(r)
      PROVE  PlaceInv'
  <2>1. \A q \in Procs \ {r} : PlaceAt(q)'
    BY <1>2, MovesHere, PlaceSame DEF PlaceInv
  <2>2. PlaceAt(r)'
    BY <1>2, PlaceMoves
  <2>3. Procs' = Procs
    BY <1>2, MovesHere
  <2> QED
    BY <2>1, <2>2, <2>3 DEF PlaceInv
<1> QED
  BY <1>1, <1>2, Steps, PlaceBarrier, PlaceTogether

\* All wait at the barrier before the iterations: all are at one place.
LEMMA AgreeAtBegin ==
  ASSUME TypeInv, PlaceInv, PathInv, \A r \in Procs : pc[r] = "begin",
         NEW q \in Procs, NEW r \in Procs
  PROVE  Agree(q, r)
<1>1. \A p \in Procs : /\ Loc(p) = PlaceOf("begin", typ[p], part[p], size[p], round[p], opts[p], errs[p])
                       /\ pc[p] \notin Within
  BY DEF Loc, Within, Tails
<1>2. Move(Loc(q)) = Loc(q) /\ Move(Loc(r)) = Loc(r)
  BY <1>1 DEF Move, PlaceOf
<1>3. Loc(q) = Loc(r)
  BY <1>1, <1>2, ReachesFacts DEF PathInv, OnePath
<1>4. /\ typ[q] = typ[r] /\ part[q] = part[r] /\ size[q] = size[r] /\ round[q] = round[r]
      /\ opts[q] = opts[r] /\ errs[q] = errs[r]
  BY <1>1, <1>3 DEF PlaceOf
<1>5. iter[q] = 0 /\ iter[r] = 0
  BY DEF PlaceInv, PlaceAt
<1> QED
  BY <1>4, <1>5 DEF Agree, Checked

\* A rank alone goes on along the path.
LEMMA PathAlone ==
  ASSUME TypeInv, PlaceInv, PathInv, NEW r \in Procs, pc[r] \notin Within,
         Start(r) \/ OpenPart(r) \/ NextSize(r) \/ Double(r),
         asked' = asked, Procs' = Procs, \A q \in Procs \ {r} : Same(q)
  PROVE  PathInv' /\ pc'[r] \notin Within
<1>1. Loc(r)' \in {Loc(r), Move(Loc(r))} /\ pc'[r] \notin Within
  BY LocStart, LocOpenPart, LocNextSize, LocDouble DEF PlaceInv
<1>2. \A q \in Procs \ {r} : Loc(q)' = Loc(q) /\ pc'[q] = pc[q]
  BY LocSame DEF Same
<1>3. ASSUME NEW q \in Procs \ {r}, pc[q] \notin Within
      PROVE  OnePath(Loc(q), Loc(r)')
  <2>1. Reaches(Loc(q), Loc(r)) \/ Reaches(Loc(r), Loc(q))
    BY <1>3 DEF PathInv, OnePath
  <2>2. CASE Reaches(Loc(q), Loc(r))
    BY <1>1, <2>2, ReachesFacts DEF OnePath
  <2>3. CASE Reaches(Loc(r), Loc(q))
    <3>1. Loc(r) = Loc(q) \/ Reaches(Move(Loc(r)), Loc(q))
      BY <2>3, ReachesFacts
    <3>2. Loc(r) = Loc(q) => Reaches(Loc(q), Move(Loc(r)))
      BY ReachesFacts
    <3> QED
      BY <1>1, <2>3, <3>1, <3>2 DEF OnePath
  <2> QED
    BY <2>1, <2>2, <2>3
<1>4. OnePath(Loc(r)', Loc(r)')
  BY ReachesFacts DEF OnePath
<1>5. \A q, p \in Procs : pc'[q] \notin Within /\ pc'[p] \notin Within => OnePath(Loc(q)', Loc(p)')
  <2>1. ASSUME NEW q \in Procs, NEW p \in Procs, pc'[q] \notin Within, pc'[p] \notin Within
        PROVE  OnePath(Loc(q)', Loc(p)')
    <3>1. CASE q = r /\ p = r
      BY <3>1, <1>4
    <3>2. CASE q # r /\ p = r
      BY <1>2, <1>3, <2>1, <3>2
    <3>3. CASE q = r /\ p # r
      BY <1>2, <1>3, <2>1, <3>3 DEF OnePath
    <3>4. CASE q # r /\ p # r
      BY <1>2, <2>1, <3>4 DEF PathInv
    <3> QED
      BY <3>1, <3>2, <3>3, <3>4
  <2> QED
    BY <2>1
<1>6. PathInv'
  BY <1>5 DEF PathInv, OnePath, Reaches
<1> QED
  BY <1>1, <1>6

LEMMA AgreeSame ==
  ASSUME NEW q, NEW r, Agree(q, r),
         /\ opts'[q] = opts[q] /\ typ'[q] = typ[q] /\ part'[q] = part[q] /\ size'[q] = size[q]
         /\ round'[q] = round[q] /\ errs'[q] = errs[q],
         /\ opts'[r] = opts[r] /\ typ'[r] = typ[r] /\ part'[r] = part[r] /\ size'[r] = size[r]
         /\ round'[r] = round[r] /\ errs'[r] = errs[r],
         Checked(q)' = Checked(r)'
  PROVE  Agree(q, r)'
BY DEF Agree

\* A step within an iteration changes nothing the ranks have in common.
LEMMA TogetherMoves ==
  ASSUME TypeInv, NEW r \in Procs, TogetherInv, pc[r] \in Within,
         (Fill(r) /\ ended' = ended) \/ Check(r) \/ Reduce(r) \/ PrintRow(r),
         \A q \in Procs \ {r} : Same(q), asked' = asked, Procs' = Procs
  PROVE  TogetherInv' /\ \A q \in Procs : pc'[q] \in Within
<1>1. \A q \in Procs : pc[q] \in Within
  BY DEF TogetherInv
<1>2. /\ opts'[r] = opts[r] /\ typ'[r] = typ[r] /\ part'[r] = part[r] /\ size'[r] = size[r]
      /\ round'[r] = round[r] /\ errs'[r] = errs[r]
  <2>1. CASE Fill(r) /\ ended' = ended
  BY <2>1, FillHere
  <2>2. CASE Check(r)
  BY <2>2, CheckHere
  <2>3. CASE Reduce(r)
  BY <2>3, ReduceHere
  <2>4. CASE PrintRow(r)
  BY <2>4, PrintRowHere
  <2> QED
  BY <2>1, <2>2, <2>3, <2>4
<1>3. pc'[r] \in Within
  <2>1. CASE Fill(r) /\ ended' = ended
    <3>1. pc'[r] \in {"warmup barrier", "before"}
      BY <2>1, FillHere
    <3> QED
      BY <3>1 DEF Within
  <2>2. CASE Check(r)
    <3>1. pc'[r] = Iterate(opts[r], iter[r] + 1)
      BY <2>2, CheckHere
    <3>2. pc'[r] \in {"min", "fill", "reduce"}
      BY <3>1, IterateGoes
    <3> QED
      BY <3>2 DEF Within, Tails
  <2>3. CASE Reduce(r) \/ PrintRow(r)
    <3>1. pc'[r] \in {"max", "avg", "stats", "error sum", "row", "row barrier"}
      BY <2>3, ReduceHere, PrintRowHere
    <3> QED
      BY <3>1 DEF Within, Tails
  <2> QED
    BY <2>1, <2>2, <2>3
<1>4. Checked(r)' = Checked(r)
  <2>1. CASE Fill(r) /\ ended' = ended
    BY <2>1, FillHere DEF Checked
  <2>2. CASE Check(r)
    <3>1. pc[r] = "check" /\ iter'[r] = iter[r] + 1 /\ pc'[r] # "check"
      BY <2>2, CheckTo
    <3>2. iter[r] \in Nat
      BY ValuesHere
    <3> QED
      BY <3>1, <3>2 DEF Checked
  <2>3. CASE Reduce(r) \/ PrintRow(r)
    BY <2>3, ReduceHere, PrintRowHere DEF Checked
  <2> QED
    BY <2>1, <2>2, <2>3
<1>5. \A q \in Procs \ {r} : Checked(q)' = Checked(q)
  BY DEF Same, Checked
<1>6. \A q \in Procs : pc'[q] \in Within
  BY <1>1, <1>3 DEF Same
<1>7. \A q \in Procs : /\ Checked(q)' = Checked(q) /\ opts'[q] = opts[q] /\ typ'[q] = typ[q]
                       /\ part'[q] = part[q] /\ size'[q] = size[q] /\ round'[q] = round[q]
                       /\ errs'[q] = errs[q]
  BY <1>2, <1>4, <1>5 DEF Same
<1>8. \A q, p \in Procs : Agree(q, p)'
  <2>1. ASSUME NEW q \in Procs, NEW p \in Procs
        PROVE  Agree(q, p)'
    <3>1. Agree(q, p)
      BY <1>1 DEF TogetherInv
    <3>2. Checked(q) = Checked(p)
      BY <3>1 DEF Agree
    <3> QED
      BY <1>7, <3>1, <3>2, AgreeSame
  <2> QED
    BY <2>1
<1> QED
  BY <1>6, <1>8 DEF TogetherInv

LEMMA TogetherBarrier ==
  ASSUME TypeInv, PlaceInv, PathInv, TogetherInv, Barrier
  PROVE  PathInv' /\ TogetherInv'
<1>1. PICK label \in Barriers :
        \A r \in Procs : pc[r] = label /\ pc'[r] = Onward(opts[r], label)
  BY BarrierHere
<1>2. UNCHANGED <<asked, opts, typ, part, size, iter, round, errs>> /\ Procs' = Procs
  BY BarrierHere
<1>3. \A q, r \in Procs : Agree(q, r)
  <2>1. CASE label = "begin"
    BY <1>1, <2>1, AgreeAtBegin
  <2>2. CASE label # "begin"
    <3>1. \A r \in Procs : pc[r] \in Within
      BY <1>1, <2>2 DEF Barriers, Within, Tails
    <3> QED
      BY <3>1 DEF TogetherInv
  <2> QED
    BY <2>1, <2>2
<1>4. \A q, r \in Procs : (pc'[q] = "check") = (pc'[r] = "check") /\ (pc[q] = "check") = (pc[r] = "check")
  <2>1. \A o : Onward(o, label) = "check" <=> label = "after"
    BY <1>1, IterateGoes DEF Onward, Barriers
  <2> QED
    BY <1>1, <2>1
<1>5. \A q, r \in Procs : Agree(q, r)'
  <2>1. ASSUME NEW q \in Procs, NEW r \in Procs
        PROVE  Agree(q, r)'
    <3>1. Agree(q, r) /\ iter[q] \in Nat /\ iter[r] \in Nat
      BY <1>3, ValuesHere
    <3>2. iter[q] = iter[r]
      BY <1>4, <3>1 DEF Agree, Checked
    <3>3. Checked(q)' = Checked(r)'
      BY <1>2, <1>4, <3>2 DEF Checked
    <3> QED
      BY <1>2, <3>1, <3>3, AgreeSame
  <2> QED
    BY <2>1
<1>6. CASE label = "row barrier"
  <2>1. \A r \in Procs : pc'[r] = "double"
    BY <1>1, <1>6 DEF Onward
  <2>2. \A q, r \in Procs : Loc(q)' = Loc(r)'
    BY <1>5, <2>1 DEF Loc, Agree
  <2>3. TogetherInv'
    BY <1>2, <2>1 DEF TogetherInv, Within, Tails
  <2>4. \A q, r \in Procs : OnePath(Loc(q)', Loc(r)')
    BY <2>2, ReachesFacts DEF OnePath
  <2> QED
    BY <1>2, <2>3, <2>4 DEF PathInv, OnePath, Reaches
<1>7. CASE label # "row barrier"
  <2>1. \A r \in Procs : pc'[r] \in Within
    BY <1>1, <1>7, IterateGoes DEF Onward, Barriers, Within, Tails
  <2> QED
    BY <1>2, <1>5, <2>1 DEF TogetherInv, PathInv
<1> QED
  BY <1>6, <1>7

LEMMA TogetherOthers ==
  ASSUME TypeInv, TogetherInv, Warmup \/ Allreduce \/ SumErrors
  PROVE  PathInv' /\ TogetherInv'
<1>1. UNCHANGED <<asked, opts, typ, part, size, iter, round>> /\ Procs' = Procs
  BY WarmupHere, AllreduceHere, SumErrorsHere
<1>2. \A r \in Procs : pc[r] \in Within /\ pc[r] # "check" /\ pc'[r] \in Within /\ pc'[r] # "check"
  BY WarmupHere, AllreduceHere, SumErrorsHere DEF Within, Tails
<1>3. errs' = errs \/ \A r \in Procs : errs'[r] = SumFunction(localErrs)
  BY WarmupHere, AllreduceHere, SumErrorsHere
<1>4. \A q, r \in Procs : Agree(q, r)
  BY <1>2 DEF TogetherInv
<1>5. \A q, r \in Procs : errs'[q] = errs'[r]
  BY <1>3, <1>4 DEF Agree
<1>6. \A q, r \in Procs : Agree(q, r)'
  BY <1>1, <1>2, <1>4, <1>5 DEF Agree, Checked
<1> QED
  BY <1>1, <1>2, <1>6 DEF TogetherInv, PathInv

LEMMA TogetherNext ==
  ASSUME TypeInv, PlaceInv, PathInv, TogetherInv, [Next]_vars
  PROVE  PathInv' /\ TogetherInv'
<1>1. CASE Quiet
  <2>1. \A q \in Procs : Loc(q)' = Loc(q)
    BY <1>1, QuietHere, LocSame
  <2> QED
    BY <1>1, <2>1, QuietHere DEF PathInv, OnePath, Reaches, TogetherInv, Agree, Checked
<1>2. ASSUME NEW r \in Procs, Moves(r)
      PROVE  PathInv' /\ TogetherInv'
  <2>1. asked' = asked /\ Procs' = Procs /\ \A q \in Procs \ {r} : Same(q)
    BY <1>2, MovesHere
  <2>2. CASE pc[r] \notin Within
    <3>1. Start(r) \/ OpenPart(r) \/ NextSize(r) \/ Double(r)
      BY <1>2, <2>2, MovesApart
    <3>2. PathInv' /\ pc'[r] \notin Within
      BY <2>1, <2>2, <3>1, PathAlone
    <3>3. \A q \in Procs : pc[q] \notin Within
      BY <2>2 DEF TogetherInv
    <3>4. \A q \in Procs : pc'[q] \notin Within
      BY <2>1, <3>2, <3>3 DEF Same
    <3> QED
      BY <2>1, <3>2, <3>4 DEF TogetherInv
  <2>3. CASE pc[r] \in Within
    <3>1. (Fill(r) /\ ended' = ended) \/ Check(r) \/ Reduce(r) \/ PrintRow(r)
      BY <1>2, <2>3, MovesApart
    <3>2. TogetherInv' /\ \A q \in Procs : pc'[q] \in Within
      BY <2>1, <2>3, <3>1, TogetherMoves
    <3> QED
      BY <2>1, <3>2 DEF PathInv
  <2> QED
    BY <2>2, <2>3
<1> QED
  BY <1>1, <1>2, Steps, TogetherBarrier, TogetherOthers

(***************************************************************************)
(* Rank 0 leaves its first reduction when every rank has called it.        *)
(***************************************************************************)
RootInv ==
  pc[Root] \in Tails \ {"min"} => \A q \in Procs : ended[q] = "no" /\ pc[q] \in Tails

LEMMA TailMoves ==
  ASSUME TypeInv, NEW r \in Procs, Moves(r)
  PROVE  /\ pc[r] \in Tails => pc'[r] \in Tails /\ ended' = ended
         /\ pc'[r] \in Tails \ {"min"} => pc[r] \in Tails
<1>1. CASE Start(r) \/ OpenPart(r)
  BY <1>1, StartHere, OpenPartHere DEF Tails
<1>2. CASE NextSize(r) \/ Double(r)
  BY <1>2, NextSizeHere, DoubleHere, CloseLoopHere DEF Tails
<1>3. CASE Fill(r) /\ ended' = ended
  <2>1. pc[r] = "fill" /\ pc'[r] \in {"warmup barrier", "before"}
    BY <1>3, FillHere
  <2> QED
    BY <2>1 DEF Tails
<1>4. CASE Check(r)
  <2>1. pc[r] = "check" /\ pc'[r] \in {"min", "fill", "reduce"}
    BY <1>4, CheckTo
  <2> QED
    BY <2>1 DEF Tails
<1>5. CASE Reduce(r) \/ PrintRow(r)
  <2>1. /\ pc'[r] \in {"max", "avg", "stats", "error sum", "row", "row barrier"}
        /\ pc[r] \in {"min", "max", "avg", "stats", "row"} /\ ended' = ended
    BY <1>5, ReduceHere, PrintRowHere
  <2> QED
    BY <2>1 DEF Tails
<1> QED
  BY <1>1, <1>2, <1>3, <1>4, <1>5 DEF Moves

LEMMA RootMoves ==
  ASSUME TypeInv, RootInv, NEW r \in Procs, Moves(r)
  PROVE  RootInv'
<1>1. /\ Procs' = Procs /\ \A q \in Procs \ {r} : pc'[q] = pc[q] /\ ended'[q] = ended[q]
      /\ Root \in Procs
  BY MovesHere, ProcsFinite DEF Same, TypeInv
<1>2. SUFFICES ASSUME pc'[Root] \in Tails \ {"min"}
               PROVE  \A q \in Procs : ended'[q] = "no" /\ pc'[q] \in Tails
  BY <1>1 DEF RootInv, Root
<1>3. pc[Root] \in Tails
  BY <1>1, <1>2, TailMoves
<1>4. \A q \in Procs : ended[q] = "no" /\ pc[q] \in Tails
  <2>1. CASE pc[Root] # "min"
    BY <1>3, <2>1 DEF RootInv
  <2>2. CASE pc[Root] = "min"
    <3>1. r = Root
      BY <1>1, <1>2, <2>2
    <3>2. Reduce(r)
      <4>1. pc[r] = "min"
        BY <2>2, <3>1
      <4> QED
        BY <4>1, MovesApart, StartHere, OpenPartHere, NextSizeHere, DoubleHere, FillHere,
           CheckHere, PrintRowHere
    <3> QED
      BY <2>2, <3>1, <3>2, ReduceHere
  <2> QED
    BY <2>1, <2>2
<1>5. pc'[r] \in Tails /\ ended' = ended
  BY <1>4, TailMoves
<1> QED
  BY <1>1, <1>4, <1>5

LEMMA RootNext ==
  ASSUME TypeInv, RootInv, [Next]_vars
  PROVE  RootInv'
<1>1. Root \in Procs
  BY ProcsFinite DEF TypeInv
<1>2. CASE Quiet
  BY <1>2, QuietHere DEF RootInv, Root
<1>3. CASE Barrier
  <2>1. PICK label \in Barriers :
          \A r \in Procs : pc[r] = label /\ ended[r] = "no" /\ pc'[r] = Onward(opts[r], label)
    BY <1>3, BarrierHere
  <2>2. pc'[Root] \in {"min", "fill", "reduce", "warmup", "check", "double"}
    BY <1>1, <2>1, IterateGoes DEF Onward, Barriers
  <2> QED
    BY <2>2 DEF RootInv, Tails, Root
<1>4. CASE Warmup \/ Allreduce
  <2>1. pc'[Root] \in {"warmup barrier", "before", "after"}
    BY <1>1, <1>4, WarmupHere, AllreduceHere
  <2> QED
    BY <2>1 DEF RootInv, Tails, Root
<1>5. CASE SumErrors
  <2>1. \A r \in Procs : ended[r] = "no" /\ pc'[r] = "row"
    BY <1>5, SumErrorsHere
  <2> QED
    BY <1>5, <2>1, SumErrorsHere DEF RootInv, Tails
<1> QED
  BY <1>2, <1>3, <1>4, <1>5, Steps, RootMoves

LEMMA RootInit == Init => RootInv
<1>1. SUFFICES ASSUME Init PROVE RootInv
  OBVIOUS
<1>2. Root \in Procs
  BY <1>1, ProcsFinite DEF Init
<1> QED
  BY <1>1, <1>2 DEF Init, RootInv, Tails

\* The ranks are in lockstep: the parts of it that the properties below use.
Lockstep == TypeInv /\ PlaceInv /\ PathInv /\ TogetherInv /\ RootInv

THEOREM LockstepAlways == Spec => []Lockstep
<1>1. Init => Lockstep
  BY TypeInit, PlaceInit, PathInit, RootInit DEF Lockstep
<1>2. Lockstep /\ [Next]_vars => Lockstep'
  BY TypeNext, PlaceNext, TogetherNext, RootNext DEF Lockstep
<1> QED
  BY <1>1, <1>2, PTL DEF Spec

\* When rank 0 prints a row, every rank has measured the same size of the same
\* type to its last iteration: the row is about one message size.
THEOREM RowsCover == Spec => []RowCoversAllRanks
<1>1. Lockstep => RowCoversAllRanks
  <2>1. SUFFICES ASSUME Lockstep, pc[Root] \in {"row", "row barrier"}, NEW r \in Procs
                 PROVE  /\ ended[r] = "no" /\ round[r] = round[Root]
                        /\ size[r] = size[Root] /\ typ[r] = typ[Root]
                        /\ iter[r] = opts[r].iterations + opts[r].skip
    BY DEF RowCoversAllRanks
  <2>2. Root \in Procs /\ pc[Root] \in Within
    BY <2>1, ProcsFinite DEF Lockstep, TypeInv, Within, Tails
  <2>3. ended[r] = "no" /\ pc[r] \in Tails
    BY <2>1 DEF Lockstep, RootInv, Tails
  <2>4. Agree(Root, r)
    BY <2>1, <2>2 DEF Lockstep, TogetherInv
  <2>5. iter[r] = opts[r].iterations + opts[r].skip
    BY <2>1, <2>3 DEF Lockstep, PlaceInv, PlaceAt
  <2> QED
    BY <2>3, <2>4, <2>5 DEF Agree
<1> QED
  BY <1>1, LockstepAlways, PTL

-----------------------------------------------------------------------------
(***************************************************************************)
(* The verdict.  An error count is zero at the head of the loop and counts *)
(* the wrong results of one round; the buffers hold the data of the        *)
(* iteration; the table is one row behind while a round is measured.       *)
(***************************************************************************)
ErrorAt(r) ==
  /\ pc[r] \in {"start", "size", "begin"} => errs[r] = 0 /\ localErrs[r] = 0
  /\ pc[r] \in Within \ {"row", "row barrier"} => errs[r] = 0
  /\ pc[r] \in {"row", "row barrier", "double"} /\ errs[r] = 0 => localErrs[r] = 0
  /\ ~asked.validate => errs[r] = 0 /\ localErrs[r] = 0
ErrorInv == \A r \in Procs : ErrorAt(r)

Filled == {"warmup barrier", "warmup", "before", "reduce"}
DataAt(r) ==
  asked.validate /\ pc[r] \in Filled =>
    /\ asked.in_place = 0 => sbuf[r] = iter[r] + 1
    /\ asked.in_place # 0 /\ asked.warmup_validation = 0 => rbuf[r] = iter[r] + 1
DataInv == \A r \in Procs : DataAt(r)

Unprinted == (Within \cup {"begin"}) \ {"row barrier"}
RoundInv ==
  /\ round[Root] = Len(rows) + (IF pc[Root] \in Unprinted THEN 1 ELSE 0)
  /\ \A n \in wrong : n <= Len(rows) \/ (n = Len(rows) + 1 /\ pc[Root] \in Unprinted \ {"begin"})

LEMMA ErrorSum ==
  ASSUME TypeInv
  PROVE  SumFunction(localErrs) \in Nat
         /\ (SumFunction(localErrs) = 0 <=> \A r \in Procs : localErrs[r] = 0)
<1>1. IsFiniteSet(Procs) /\ localErrs \in [Procs -> Nat]
  BY ProcsFinite DEF TypeInv
<1> QED
  BY <1>1, SumOfNaturals

LEMMA ErrorInit == Init => ErrorInv /\ DataInv
BY DEF Init, ErrorInv, ErrorAt, DataInv, DataAt, Within, Tails, Filled

LEMMA ErrorSame ==
  ASSUME NEW q, Same(q), asked' = asked
  PROVE  /\ ErrorAt(q) => ErrorAt(q)'
         /\ DataAt(q) => DataAt(q)'
BY DEF Same, ErrorAt, DataAt

LEMMA ErrorMoves ==
  ASSUME TypeInv, PlaceInv, NEW r \in Procs, ErrorAt(r), Moves(r)
  PROVE  ErrorAt(r)'
<1> USE DEF ErrorAt
<1>1. asked' = asked
  BY MovesHere
<1>2. CASE Start(r)
  BY <1>1, <1>2, StartHere DEF Within, Tails
<1>3. CASE OpenPart(r)
  BY <1>1, <1>3, OpenPartHere DEF Within, Tails
<1>4. CASE NextSize(r)
  <2>1. pc'[r] \in {"part", "size", "begin"} /\ pc[r] = "size" /\ errs'[r] = errs[r] /\ localErrs'[r] = localErrs[r]
    BY <1>4, NextSizeHere, CloseLoopHere
  <2> QED
    BY <1>1, <2>1 DEF Within, Tails
<1>5. CASE Double(r)
  <2>1. /\ pc'[r] = "part" \/ (pc'[r] = "size" /\ errs[r] = 0)
        /\ pc[r] = "double" /\ errs'[r] = errs[r] /\ localErrs'[r] = localErrs[r]
    BY <1>5, DoubleHere, CloseLoopHere
  <2> QED
    BY <1>1, <2>1 DEF Within, Tails
<1>6. CASE Fill(r) /\ ended' = ended
  <2>1. /\ pc'[r] \in {"warmup barrier", "before"} /\ pc[r] = "fill" /\ errs'[r] = errs[r]
        /\ localErrs'[r] = localErrs[r]
    BY <1>6, FillHere
  <2> QED
    BY <1>1, <2>1 DEF Within, Tails
<1>7. CASE Check(r)
  <2>0. pc'[r] = Iterate(opts[r], iter[r] + 1) /\ pc[r] = "check" /\ errs'[r] = errs[r]
    BY <1>7, CheckHere
  <2>1. /\ pc'[r] \in {"min", "fill", "reduce"} /\ pc[r] = "check" /\ errs'[r] = errs[r]
        /\ opts[r].validate = asked.validate
    BY <2>0, IterateGoes, OptsHere
  <2>2. ~asked.validate => localErrs'[r] = localErrs[r]
    BY <1>7, <2>1, CheckHere
  <2> QED
    BY <1>1, <2>1, <2>2 DEF Within, Tails
<1>8. CASE Reduce(r)
  <2>1. /\ pc'[r] \in {"max", "avg", "stats", "error sum"} \/ (pc'[r] = "row" /\ ~opts[r].validate)
        /\ pc[r] \in {"min", "max", "avg", "stats"} /\ errs'[r] = errs[r]
        /\ localErrs'[r] = localErrs[r]
    BY <1>8, ReduceHere
  <2>2. pc[r] # "start"
    BY <2>1
  <2>3. opts[r].validate = asked.validate
    BY <2>2, OptsHere
  <2> QED
    BY <1>1, <2>1, <2>3 DEF Within, Tails
<1>9. CASE PrintRow(r)
  <2>1. /\ pc'[r] = "row barrier" /\ pc[r] = "row" /\ errs'[r] = errs[r]
        /\ localErrs'[r] = localErrs[r]
    BY <1>9, PrintRowHere
  <2> QED
    BY <1>1, <2>1 DEF Within, Tails
<1> QED
  BY <1>2, <1>3, <1>4, <1>5, <1>6, <1>7, <1>8, <1>9 DEF Moves

LEMMA DataMoves ==
  ASSUME TypeInv, NEW r \in Procs, DataAt(r), Moves(r)
  PROVE  DataAt(r)'
<1>1. asked' = asked
  BY MovesHere
<1>2. CASE Start(r) \/ OpenPart(r)
  BY <1>2, StartHere, OpenPartHere DEF DataAt, Filled
<1>3. CASE NextSize(r) \/ Double(r)
  BY <1>3, NextSizeHere, DoubleHere, CloseLoopHere DEF DataAt, Filled
<1>4. CASE Fill(r) /\ ended' = ended
  <2>1. /\ pc[r] = "fill" /\ iter'[r] = iter[r]
        /\ opts[r].in_place = 0 => sbuf'[r] = iter[r] + 1
        /\ opts[r].in_place # 0 => rbuf'[r] = iter[r] + 1
    BY <1>4, FillHere
  <2>2. opts[r].in_place = asked.in_place
    BY <2>1, OptsHere
  <2> QED
    BY <1>1, <2>1, <2>2 DEF DataAt
<1>5. CASE Check(r)
  <2>1. pc[r] = "check" /\ pc'[r] = Iterate(opts[r], iter[r] + 1)
    BY <1>5, CheckHere
  <2>2. opts[r].validate = asked.validate
    BY <2>1, OptsHere
  <2>3. asked.validate => pc'[r] \in {"min", "fill"}
    BY <2>1, <2>2 DEF Iterate
  <2> QED
    BY <1>1, <2>3 DEF DataAt, Filled
<1>6. CASE Reduce(r) \/ PrintRow(r)
  <2>1. pc'[r] \in {"max", "avg", "stats", "error sum", "row", "row barrier"}
    BY <1>6, ReduceHere, PrintRowHere
  <2> QED
    BY <2>1 DEF DataAt, Filled
<1> QED
  BY <1>2, <1>3, <1>4, <1>5, <1>6 DEF Moves

LEMMA ErrorTogether ==
  ASSUME TypeInv, PlaceInv, ErrorInv, DataInv, Barrier \/ Warmup \/ Allreduce \/ SumErrors
  PROVE  ErrorInv' /\ DataInv'
<1>1. asked' = asked /\ iter' = iter /\ localErrs' = localErrs /\ sbuf' = sbuf /\ Procs' = Procs
  BY BarrierHere, WarmupHere, AllreduceHere, SumErrorsHere
<1>2. SUFFICES ASSUME NEW r \in Procs PROVE ErrorAt(r)' /\ DataAt(r)'
  BY <1>1 DEF ErrorInv, DataInv
<1>3. ErrorAt(r) /\ DataAt(r) /\ PlaceAt(r)
  BY DEF ErrorInv, DataInv, PlaceInv
<1>4. CASE Barrier
  <2>1. errs' = errs /\ rbuf' = rbuf
    BY <1>4, BarrierHere
  <2>2. PICK label \in Barriers : pc[r] = label /\ pc'[r] = Onward(opts[r], label)
    BY <1>4, BarrierHere
  <2>3. opts[r].validate = asked.validate
    BY <2>2, OptsHere DEF Barriers
  <2>4. CASE label = "begin"
    <3>1. pc'[r] \in {"min", "fill", "reduce"} /\ (asked.validate => pc'[r] # "reduce")
      BY <2>2, <2>3, <2>4 DEF Onward, Iterate
    <3> QED
      BY <1>1, <1>3, <2>1, <2>2, <2>4, <3>1 DEF ErrorAt, DataAt, Within, Tails, Filled
  <2>5. CASE label \in {"warmup barrier", "before"}
    <3>1. pc'[r] \in {"warmup", "reduce"}
      BY <2>2, <2>5 DEF Onward
    <3> QED
      BY <1>1, <1>3, <2>1, <2>2, <2>5, <3>1 DEF ErrorAt, DataAt, Within, Tails, Filled
  <2>6. CASE label = "after"
    <3>1. pc'[r] = "check"
      BY <2>2, <2>6 DEF Onward
    <3> QED
      BY <1>1, <1>3, <2>1, <2>2, <2>6, <3>1 DEF ErrorAt, DataAt, Within, Tails, Filled
  <2>7. CASE label = "row barrier"
    <3>1. pc'[r] = "double"
      BY <2>2, <2>7 DEF Onward
    <3> QED
      BY <1>1, <1>3, <2>1, <2>2, <2>7, <3>1 DEF ErrorAt, DataAt, Within, Tails, Filled
  <2> QED
    BY <2>4, <2>5, <2>6, <2>7 DEF Barriers
<1>5. CASE Warmup
  <2>1. pc[r] = "warmup" /\ pc'[r] \in {"warmup barrier", "before"} /\ errs' = errs
    BY <1>5, WarmupHere
  <2>2. asked.warmup_validation # 0
    <3>1. warm[r] < asked.warmup_validation /\ warm[r] \in Nat /\ asked.warmup_validation \in Nat
      BY <1>3, <2>1, ValuesHere, OptsHere DEF PlaceAt
    <3> QED
      BY <3>1
  <2> QED
    BY <1>1, <1>3, <2>1, <2>2 DEF ErrorAt, DataAt, Within, Tails, Filled
<1>6. CASE Allreduce
  <2>1. pc[r] = "reduce" /\ pc'[r] = "after" /\ errs' = errs
    BY <1>6, AllreduceHere
  <2> QED
    BY <1>1, <1>3, <2>1 DEF ErrorAt, DataAt, Within, Tails, Filled
<1>7. CASE SumErrors
  <2>1. pc[r] = "error sum" /\ pc'[r] = "row" /\ errs'[r] = SumFunction(localErrs)
    BY <1>7, SumErrorsHere
  <2>2. asked.validate
    BY <1>3, <2>1 DEF PlaceAt
  <2>3. SumFunction(localErrs) = 0 => localErrs[r] = 0
    BY ErrorSum
  <2> QED
    BY <1>1, <2>1, <2>2, <2>3 DEF ErrorAt, DataAt, Within, Tails, Filled
<1> QED
  BY <1>4, <1>5, <1>6, <1>7

LEMMA ErrorNext ==
  ASSUME TypeInv, PlaceInv, ErrorInv, DataInv, [Next]_vars
  PROVE  ErrorInv' /\ DataInv'
<1>1. CASE Quiet
  BY <1>1, QuietHere, ErrorSame DEF ErrorInv, DataInv
<1>2. ASSUME NEW r \in Procs, Moves(r)
      PROVE  ErrorInv' /\ DataInv'
  <2>1. \A q \in Procs \ {r} : ErrorAt(q)' /\ DataAt(q)'
    BY <1>2, MovesHere, ErrorSame DEF ErrorInv, DataInv
  <2>2. ErrorAt(r)' /\ DataAt(r)'
    BY <1>2, ErrorMoves, DataMoves DEF ErrorInv, DataInv
  <2> QED
    BY <1>2, <2>1, <2>2, MovesHere DEF ErrorInv, DataInv
<1> QED
  BY <1>1, <1>2, Steps, ErrorTogether

LEMMA RoundInit == Init => RoundInv
<1>1. SUFFICES ASSUME Init PROVE RoundInv
  OBVIOUS
<1>2. Root \in Procs
  BY <1>1, ProcsFinite DEF Init
<1>3. Len(rows) = 0 /\ wrong = {} /\ round[Root] = 0 /\ pc[Root] = "start"
  BY <1>1, <1>2 DEF Init
<1> QED
  BY <1>3 DEF RoundInv, Unprinted, Within, Tails

LEMMA RowsFacts ==
  ASSUME TypeInv
  PROVE  /\ Len(rows) \in Nat /\ DOMAIN rows = 1 .. Len(rows) /\ Root \in Procs
         /\ wrong \subseteq Nat
<1>1. \E S : rows \in Seq(S)
  BY DEF TypeInv
<1>2. Len(rows) \in Nat /\ DOMAIN rows = 1 .. Len(rows)
  BY <1>1
<1> QED
  BY <1>2, ProcsFinite DEF TypeInv

\* The row rank 0 prints.
LEMMA RowPrinted ==
  ASSUME TypeInv, PrintRow(Root)
  PROVE  /\ Len(rows') = Len(rows) + 1 /\ DOMAIN rows' = 1 .. Len(rows) + 1
         /\ \A n \in 1 .. Len(rows) : rows'[n] = rows[n]
         /\ LET row == rows'[Len(rows) + 1]
            IN  /\ row.type = typ[Root] /\ row.size = size[Root] /\ row.place = Place(Root)
                /\ row.tail = (IF opts[Root].tail_lat THEN TailLat(Root) ELSE <<>>)
                /\ row.status = (IF ~opts[Root].validate THEN "none"
                                 ELSE IF errs[Root] > 0 THEN "Fail" ELSE "Pass")
<1>1. Root \in Procs
  BY ProcsFinite DEF TypeInv
<1>2. PICK row :
        /\ rows' = Append(rows, row)
        /\ row.type = typ[Root] /\ row.size = size[Root] /\ row.place = Place(Root)
        /\ row.tail = (IF opts[Root].tail_lat THEN TailLat(Root) ELSE <<>>)
        /\ row.status = (IF ~opts[Root].validate THEN "none"
                         ELSE IF errs[Root] > 0 THEN "Fail" ELSE "Pass")
  BY <1>1, PrintRowGoes
<1>3. PICK S : rows \in Seq(S)
  BY DEF TypeInv
<1> QED
  BY <1>2, <1>3, Longer

LEMMA RoundMoves ==
  ASSUME TypeInv, RoundInv, NEW r \in Procs, Moves(r)
  PROVE  RoundInv'
<1>1. /\ wrong' = wrong /\ Len(rows) \in Nat /\ Root \in Procs /\ wrong \subseteq Nat
      /\ round[Root] \in Nat
  BY MovesHere, RowsFacts DEF TypeInv
<1>2. Root' = Root
  BY DEF Root
<1>3. CASE r # Root
  <2>1. round'[Root] = round[Root] /\ pc'[Root] = pc[Root]
    BY <1>1, <1>3, MovesHere DEF Same
  <2>2. rows' = rows
    <3>1. CASE PrintRow(r)
      BY <1>3, <3>1, PrintRowGoes
    <3>2. CASE ~PrintRow(r)
      BY <3>2, StartHere, OpenPartHere, NextSizeHere, DoubleHere, FillHere, CheckHere, ReduceHere
         DEF Moves
    <3> QED
      BY <3>1, <3>2
  <2> QED
    BY <1>1, <1>2, <2>1, <2>2 DEF RoundInv
<1>4. CASE r = Root
  <2>1. CASE Start(r) \/ OpenPart(r) \/ Double(r)
    <3>1. /\ pc[r] \in {"start", "part", "double"} /\ pc'[r] \in {"start", "part", "finish", "size"}
          /\ round'[r] = round[r] /\ rows' = rows
      BY <2>1, StartHere, OpenPartHere, DoubleHere, CloseLoopHere
    <3> QED
      BY <1>1, <1>2, <1>4, <3>1 DEF RoundInv, Unprinted, Within, Tails
  <2>2. CASE NextSize(r)
    <3>1. /\ pc[r] = "size" /\ rows' = rows
          /\ \/ pc'[r] \in {"part", "size"} /\ round'[r] = round[r]
             \/ pc'[r] = "begin" /\ round'[r] = round[r] + 1
      BY <2>2, NextSizeHere, CloseLoopHere
    <3>2. CASE pc'[r] \in {"part", "size"} /\ round'[r] = round[r]
      BY <1>1, <1>2, <1>4, <3>1, <3>2 DEF RoundInv, Unprinted, Within, Tails
    <3>3. CASE pc'[r] = "begin" /\ round'[r] = round[r] + 1
      <4>1. round[Root] = Len(rows) /\ \A n \in wrong : n <= Len(rows)
        BY <1>1, <1>4, <3>1 DEF RoundInv, Unprinted, Within, Tails
      <4> QED
        BY <1>1, <1>2, <1>4, <3>1, <3>3, <4>1 DEF RoundInv, Unprinted, Within, Tails
    <3> QED
      BY <3>1, <3>2, <3>3
  <2>3. CASE (Fill(r) /\ ended' = ended) \/ Check(r) \/ Reduce(r)
    <3>1. /\ pc[r] \in Within \ {"row barrier"} /\ pc'[r] \in Within \ {"row barrier"}
          /\ round'[r] = round[r] /\ rows' = rows
      <4>1. CASE Fill(r) /\ ended' = ended
        <5>1. pc[r] = "fill" /\ pc'[r] \in {"warmup barrier", "before"} /\ round'[r] = round[r]
              /\ rows' = rows
          BY <4>1, FillHere
        <5> QED
          BY <5>1 DEF Within, Tails
      <4>2. CASE Check(r)
        <5>1. pc[r] = "check" /\ pc'[r] = Iterate(opts[r], iter[r] + 1) /\ round'[r] = round[r]
              /\ rows' = rows
          BY <4>2, CheckHere
        <5>2. pc'[r] \in {"min", "fill", "reduce"}
          BY <5>1, IterateGoes
        <5> QED
          BY <5>1, <5>2 DEF Within, Tails
      <4>3. CASE Reduce(r)
        <5>1. /\ pc[r] \in {"min", "max", "avg", "stats"}
              /\ pc'[r] \in {"max", "avg", "stats", "error sum", "row"}
              /\ round'[r] = round[r] /\ rows' = rows
          BY <4>3, ReduceHere
        <5> QED
          BY <5>1 DEF Within, Tails
      <4> QED
        BY <2>3, <4>1, <4>2, <4>3
    <3>2. pc[r] \in Unprinted \ {"begin"} /\ pc'[r] \in Unprinted \ {"begin"}
      BY <3>1 DEF Unprinted, Within, Tails
    <3> QED
      BY <1>1, <1>2, <1>4, <3>1, <3>2 DEF RoundInv
  <2>4. CASE PrintRow(r)
    <3>1. pc[r] = "row" /\ pc'[r] = "row barrier" /\ round'[r] = round[r]
      BY <2>4, PrintRowHere
    <3>2. Len(rows') = Len(rows) + 1
      BY <1>4, <2>4, RowPrinted
    <3>3. pc[r] \in Unprinted /\ pc'[r] \notin Unprinted
      BY <3>1 DEF Unprinted, Within, Tails
    <3>4. round[Root] = Len(rows) + 1 /\ \A n \in wrong : n <= Len(rows) \/ n = Len(rows) + 1
      BY <1>1, <1>4, <3>3 DEF RoundInv
    <3>5. round'[Root] = Len(rows') /\ pc'[Root] \notin Unprinted
      BY <1>4, <3>1, <3>2, <3>3, <3>4
    <3>6. \A n \in wrong' : n <= Len(rows')
      <4>1. \A n \in Nat : n <= Len(rows) \/ n = Len(rows) + 1 => n <= Len(rows) + 1
        BY <1>1
      <4> QED
        BY <1>1, <3>2, <3>4, <4>1
    <3> QED
      BY <1>1, <1>2, <3>2, <3>5, <3>6 DEF RoundInv
  <2> QED
    BY <2>1, <2>2, <2>3, <2>4 DEF Moves
<1> QED
  BY <1>3, <1>4

LEMMA RoundNext ==
  ASSUME TypeInv, RoundInv, [Next]_vars
  PROVE  RoundInv'
<1>1. /\ Len(rows) \in Nat /\ Root \in Procs /\ wrong \subseteq Nat /\ round[Root] \in Nat
      /\ Root' = Root
  BY RowsFacts DEF TypeInv, Root
<1>2. CASE Quiet
  BY <1>1, <1>2, QuietHere DEF RoundInv
<1>3. CASE Barrier
  <2>1. PICK label \in Barriers : pc[Root] = label /\ pc'[Root] = Onward(opts[Root], label)
    BY <1>1, <1>3, BarrierHere
  <2>2. round' = round /\ rows' = rows /\ wrong' = wrong
    BY <1>3, BarrierHere
  <2>3. pc[Root] \in Unprinted <=> pc'[Root] \in Unprinted \ {"begin"}
    BY <2>1, IterateGoes DEF Onward, Barriers, Unprinted, Within, Tails
  <2>4. \A n \in wrong : n <= Len(rows) \/ (n = Len(rows) + 1 /\ pc'[Root] \in Unprinted \ {"begin"})
    BY <2>3 DEF RoundInv
  <2>5. round[Root] = Len(rows) + (IF pc'[Root] \in Unprinted THEN 1 ELSE 0)
    <3>1. pc'[Root] # "begin"
      BY <2>1, IterateGoes DEF Onward, Barriers
    <3>2. pc[Root] \in Unprinted <=> pc'[Root] \in Unprinted
      BY <2>3, <3>1
    <3> QED
      BY <3>2 DEF RoundInv
  <2> QED
    BY <1>1, <2>2, <2>4, <2>5 DEF RoundInv
<1>4. CASE Warmup \/ SumErrors
  <2>1. /\ round' = round /\ rows' = rows /\ wrong' = wrong
        /\ pc[Root] \in {"warmup", "error sum"} /\ pc'[Root] \in {"warmup barrier", "before", "row"}
    BY <1>1, <1>4, WarmupHere, SumErrorsHere
  <2>2. pc[Root] \in Unprinted \ {"begin"} /\ pc'[Root] \in Unprinted \ {"begin"}
    BY <2>1 DEF Unprinted, Within, Tails
  <2> QED
    BY <1>1, <2>1, <2>2 DEF RoundInv
<1>5. CASE Allreduce
  <2>1. /\ round' = round /\ rows' = rows /\ wrong' \in {wrong, wrong \cup {round[Root]}}
        /\ pc[Root] = "reduce" /\ pc'[Root] = "after"
    BY <1>1, <1>5, AllreduceHere, AllreduceGoes
  <2>2. pc[Root] \in Unprinted \ {"begin"} /\ pc'[Root] \in Unprinted \ {"begin"}
    BY <2>1 DEF Unprinted, Within, Tails
  <2> QED
    BY <1>1, <2>1, <2>2 DEF RoundInv
<1> QED
  BY <1>2, <1>3, <1>4, <1>5, Steps, RoundMoves

\* A round has come out wrong if some rank has counted an error of it or is
\* about to, and only if, where the comparison is exact.
Exact == asked.dtypes[typ[Root]] # "MPI_FLOAT"
Bad(r) == localErrs[r] # 0 \/ (pc[r] \in {"after", "check"} /\ rbuf[r] # (iter[r] + 1) * np)
Trusted == ~Untrusted([type |-> typ[Root], size |-> size[Root]])
VerdictInv ==
  asked.validate /\ pc[Root] \in Within /\ Trusted =>
    /\ pc[Root] \notin {"row", "row barrier"} =>
         /\ (\E r \in Procs : Bad(r)) => round[Root] \in wrong
         /\ Exact /\ round[Root] \in wrong => \E r \in Procs : Bad(r)
    /\ pc[Root] = "row" =>
         /\ errs[Root] # 0 => round[Root] \in wrong
         /\ Exact /\ round[Root] \in wrong => errs[Root] # 0

LEMMA TrustedFacts ==
  ASSUME TypeInv, asked.validate, Trusted
  PROVE  /\ \/ asked.in_place = 0
            \/ asked.in_place = 1 /\ asked.warmup_validation = 0
         /\ ~(asked.dtypes[typ[Root]] = "MPI_INT" /\ size[Root] % 4 # 0)
<1>1. asked.warmup_validation \in Nat
  BY DEF TypeInv, Processed, AskedType
<1>2. ~Untrusted([type |-> typ[Root], size |-> size[Root]])
  BY DEF Trusted
<1> QED
  BY <1>1, <1>2 DEF Untrusted

LEMMA BadMoves ==
  ASSUME TypeInv, NEW r \in Procs, asked.validate, TogetherInv, pc[r] \in Within, Trusted,
         (Fill(r) /\ ended' = ended) \/ Check(r) \/ Reduce(r) \/ PrintRow(r)
  PROVE  (Bad(r)' => Bad(r)) /\ (Exact /\ Bad(r) => Bad(r)')
<1>1. CASE Fill(r) /\ ended' = ended
  <2>1. pc[r] = "fill" /\ pc'[r] \in {"warmup barrier", "before"} /\ localErrs'[r] = localErrs[r]
    BY <1>1, FillHere
  <2> QED
    BY <2>1 DEF Bad
<1>2. CASE Check(r)
  <2>1. pc[r] = "check" /\ pc'[r] = Iterate(opts[r], iter[r] + 1)
    BY <1>2, CheckHere
  <2>2. pc'[r] \in {"min", "fill", "reduce"}
    BY <2>1, IterateGoes
  <2>3. opts[r].validate = asked.validate /\ opts[r].dtypes = asked.dtypes
    BY <2>1, OptsHere
  <2>4. typ[r] = typ[Root] /\ size[r] = size[Root]
    BY RowsFacts DEF TogetherInv, Agree
  <2>5. ~Ragged(r) /\ (Exact => dtype(r) # "MPI_FLOAT")
    <3>1. dtype(r) = asked.dtypes[typ[Root]] /\ TypeSize["MPI_INT"] = 4
      BY <2>3, <2>4 DEF dtype, TypeSize
    <3> QED
      BY <2>4, <3>1, TrustedFacts DEF Ragged, Exact
  <2>6. \/ localErrs'[r] = localErrs[r] + 1 /\ rbuf[r] # (iter[r] + 1) * np
        \/ localErrs'[r] = localErrs[r] /\ (rbuf[r] = (iter[r] + 1) * np \/ ~Exact)
    BY <1>2, <2>3, <2>5, CheckHere
  <2>7. localErrs[r] \in Nat
    BY ValuesHere
  <2>8. CASE localErrs'[r] = localErrs[r] + 1 /\ rbuf[r] # (iter[r] + 1) * np
    BY <2>1, <2>7, <2>8 DEF Bad
  <2>9. CASE localErrs'[r] = localErrs[r] /\ (rbuf[r] = (iter[r] + 1) * np \/ ~Exact)
    BY <2>1, <2>2, <2>9 DEF Bad
  <2> QED
    BY <2>6, <2>8, <2>9
<1>3. CASE Reduce(r) \/ PrintRow(r)
  <2>1. /\ pc[r] \in {"min", "max", "avg", "stats", "row"}
        /\ pc'[r] \in {"max", "avg", "stats", "error sum", "row", "row barrier"}
        /\ localErrs'[r] = localErrs[r]
    BY <1>3, ReduceHere, PrintRowHere
  <2> QED
    BY <2>1 DEF Bad
<1> QED
  BY <1>1, <1>2, <1>3

LEMMA VerdictMoves ==
  ASSUME TypeInv, PlaceInv, PathInv, TogetherInv, VerdictInv, NEW r \in Procs, Moves(r)
  PROVE  VerdictInv'
<1>1. /\ Root \in Procs /\ Root' = Root /\ asked' = asked /\ np' = np /\ Procs' = Procs
      /\ wrong' = wrong /\ \A q \in Procs \ {r} : Same(q)
  BY MovesHere, RowsFacts DEF Root
<1>2. SUFFICES ASSUME asked.validate, pc'[Root] \in Within, Trusted'
               PROVE  /\ pc'[Root] \notin {"row", "row barrier"} =>
                           /\ (\E q \in Procs : Bad(q)') => round'[Root] \in wrong
                           /\ Exact' /\ round'[Root] \in wrong => \E q \in Procs : Bad(q)'
                      /\ pc'[Root] = "row" =>
                           /\ errs'[Root] # 0 => round'[Root] \in wrong
                           /\ Exact' /\ round'[Root] \in wrong => errs'[Root] # 0
  BY <1>1 DEF VerdictInv
<1>3. pc[r] \in Within
  <2>1. SUFFICES ASSUME pc[r] \notin Within PROVE FALSE
    OBVIOUS
  <2>2. Start(r) \/ OpenPart(r) \/ NextSize(r) \/ Double(r)
    BY <2>1, MovesApart
  <2>3. pc'[r] \notin Within
    BY <1>1, <2>1, <2>2, PathAlone
  <2>4. pc[Root] \notin Within
    BY <1>1, <2>1 DEF TogetherInv
  <2> QED
    BY <1>1, <1>2, <2>3, <2>4 DEF Same
<1>4. (Fill(r) /\ ended' = ended) \/ Check(r) \/ Reduce(r) \/ PrintRow(r)
  BY <1>3, MovesApart
<1>5. typ'[r] = typ[r] /\ size'[r] = size[r] /\ round'[r] = round[r] /\ errs'[r] = errs[r]
  BY <1>4, FillHere, CheckHere, ReduceHere, PrintRowHere
<1>6. typ'[Root] = typ[Root] /\ size'[Root] = size[Root] /\ round'[Root] = round[Root]
      /\ errs'[Root] = errs[Root]
  BY <1>1, <1>5 DEF Same
<1>7. Trusted /\ Exact' = Exact
  BY <1>1, <1>2, <1>6 DEF Trusted, Untrusted, Exact
<1>8. pc[Root] \in Within
  BY <1>1, <1>3 DEF TogetherInv
<1>9. \A q \in Procs : (Bad(q)' => Bad(q)) /\ (Exact /\ Bad(q) => Bad(q)')
  <2>1. \A q \in Procs \ {r} : Bad(q)' <=> Bad(q)
    BY <1>1 DEF Same, Bad
  <2>2. (Bad(r)' => Bad(r)) /\ (Exact /\ Bad(r) => Bad(r)')
    BY <1>2, <1>3, <1>4, <1>7, BadMoves
  <2> QED
    BY <2>1, <2>2
<1>10. /\ pc'[Root] \notin {"row", "row barrier"} => pc[Root] \notin {"row", "row barrier"}
       /\ pc'[Root] = "row" => pc[Root] = "row"
  <2>1. CASE r # Root
    BY <1>1, <2>1 DEF Same
  <2>2. CASE r = Root
    <3>1. CASE Fill(r) /\ ended' = ended
      BY <2>2, <3>1, FillHere
    <3>2. CASE Check(r)
      <4>1. pc[r] = "check" /\ pc'[r] = Iterate(opts[r], iter[r] + 1)
        BY <3>2, CheckHere
      <4> QED
        BY <2>2, <4>1, IterateGoes
    <3>3. CASE Reduce(r)
      <4>1. pc[r] \in {"min", "max", "avg", "stats"} /\ pc[r] # "start"
        BY <3>3, ReduceHere
      <4>2. opts[r].validate
        BY <1>2, <4>1, OptsHere
      <4> QED
        BY <2>2, <3>3, <4>1, <4>2, ReduceHere
    <3>4. CASE PrintRow(r)
      BY <2>2, <3>4, PrintRowHere
    <3> QED
      BY <1>4, <3>1, <3>2, <3>3, <3>4
  <2> QED
    BY <2>1, <2>2
<1> QED
  BY <1>2, <1>6, <1>7, <1>8, <1>9, <1>10 DEF VerdictInv

\* All contributions to the measured call are those of the iteration.
LEMMA SumMeasured ==
  ASSUME TypeInv, PlaceInv, TogetherInv, DataInv, asked.validate, Trusted,
         \A r \in Procs : pc[r] = "reduce"
  PROVE  /\ Sum(IF opts[Root].in_place = 1 THEN rbuf ELSE sbuf) = (iter[Root] + 1) * np
         /\ \A r \in Procs : iter[r] = iter[Root]
<1>1. Root \in Procs /\ np \in NumProcs /\ iter[Root] + 1 \in Nat
  <2>1. Root \in Procs /\ np \in NumProcs
    BY RowsFacts DEF TypeInv
  <2>2. iter[Root] \in Nat
    BY <2>1, ValuesHere
  <2> QED
    BY <2>1, <2>2
<1>2. \A r \in Procs : iter[r] = iter[Root]
  <2>1. \A r \in Procs : Checked(r) = Checked(Root)
    BY <1>1 DEF TogetherInv, Agree, Within
  <2>2. \A r \in Procs : iter[r] \in Nat
    BY ValuesHere
  <2> QED
    BY <1>1, <2>1, <2>2 DEF Checked
<1>3. opts[Root].in_place = asked.in_place
  BY <1>1, OptsHere
<1>4. CASE asked.in_place = 0
  <2>1. \A r \in Procs : sbuf[r] = iter[Root] + 1
    BY <1>2, <1>4 DEF DataInv, DataAt, Filled
  <2>2. sbuf \in [Procs -> Nat \cup {Junk}]
    BY DEF TypeInv
  <2>3. Sum(sbuf) = (iter[Root] + 1) * np
    BY <1>1, <2>1, <2>2, SumInside
  <2> QED
    BY <1>2, <1>3, <1>4, <2>3
<1>5. CASE asked.in_place = 1 /\ asked.warmup_validation = 0
  <2>1. \A r \in Procs : rbuf[r] = iter[Root] + 1
    <3>1. asked.in_place # 0 /\ asked.warmup_validation = 0
      BY <1>5
    <3>2. \A r \in Procs : DataAt(r) /\ pc[r] \in Filled
      BY DEF DataInv, Filled
    <3> QED
      BY <1>2, <3>1, <3>2 DEF DataAt
  <2>2. rbuf \in [Procs -> Nat \cup {Junk}]
    BY DEF TypeInv
  <2>3. Sum(rbuf) = (iter[Root] + 1) * np
    BY <1>1, <2>1, <2>2, SumInside
  <2> QED
    BY <1>2, <1>3, <1>5, <2>3
<1> QED
  BY <1>4, <1>5, TrustedFacts

LEMMA VerdictAllreduce ==
  ASSUME TypeInv, PlaceInv, TogetherInv, DataInv, VerdictInv, Allreduce
  PROVE  VerdictInv'
<1>1. /\ Root \in Procs /\ Root' = Root /\ Procs' = Procs
      /\ \A r \in Procs : pc[r] = "reduce" /\ pc'[r] = "after"
      /\ UNCHANGED <<np, asked, typ, size, iter, round, localErrs>>
  BY RowsFacts, AllreduceHere DEF Root
<1>2. SUFFICES ASSUME asked.validate, Trusted
               PROVE  /\ (\E r \in Procs : Bad(r)') => round[Root] \in wrong'
                      /\ Exact /\ round[Root] \in wrong' => \E r \in Procs : Bad(r)'
  BY <1>1 DEF VerdictInv, Trusted, Untrusted, Exact
<1>3. opts[Root].validate
  BY <1>1, <1>2, OptsHere
<1>4. PICK sum : /\ sum = Sum(IF opts[Root].in_place = 1 THEN rbuf ELSE sbuf)
                 /\ rbuf' \in Results(sum)
                 /\ wrong' = IF Corrupt(sum, rbuf') THEN wrong \cup {round[Root]} ELSE wrong
  BY <1>3, AllreduceGoes
<1>5. sum = (iter[Root] + 1) * np /\ \A r \in Procs : iter[r] = iter[Root]
  BY <1>1, <1>2, <1>4, SumMeasured
<1>6. Corrupt(sum, rbuf') <=> \E r \in Procs : rbuf'[r] # (iter[r] + 1) * np
  BY <1>5 DEF Corrupt
<1>7. /\ (\E r \in Procs : localErrs[r] # 0) => round[Root] \in wrong
      /\ Exact /\ round[Root] \in wrong => \E r \in Procs : localErrs[r] # 0
  BY <1>1, <1>2 DEF VerdictInv, Bad, Within
<1>8. \A r \in Procs : Bad(r)' <=> localErrs[r] # 0 \/ rbuf'[r] # (iter[r] + 1) * np
  BY <1>1 DEF Bad
<1> QED
  BY <1>4, <1>6, <1>7, <1>8

LEMMA VerdictNext ==
  ASSUME TypeInv, PlaceInv, PathInv, TogetherInv, ErrorInv, DataInv, RoundInv, VerdictInv,
         [Next]_vars
  PROVE  VerdictInv'
<1>1. Root \in Procs /\ Root' = Root /\ Len(rows) \in Nat
  BY RowsFacts DEF Root
<1>2. CASE Quiet
  <2>1. /\ UNCHANGED <<np, asked, pc, typ, size, iter, round, localErrs, errs, rbuf, wrong>>
        /\ Procs' = Procs
    BY <1>2, QuietHere
  <2>2. (\A r \in Procs : Bad(r)' <=> Bad(r)) /\ (Trusted' <=> Trusted) /\ Exact' = Exact
    BY <1>1, <2>1 DEF Bad, Trusted, Untrusted, Exact
  <2> QED
    BY <1>1, <2>1, <2>2 DEF VerdictInv
<1>3. CASE Barrier
  <2>1. PICK label \in Barriers :
          \A r \in Procs : pc[r] = label /\ pc'[r] = Onward(opts[r], label)
    BY <1>3, BarrierHere
  <2>2. UNCHANGED <<np, asked, typ, size, iter, round, localErrs, errs, rbuf, wrong>> /\ Procs' = Procs
    BY <1>3, BarrierHere
  <2>3. (Trusted' <=> Trusted) /\ Exact' = Exact
    BY <1>1, <2>2 DEF Trusted, Untrusted, Exact
  <2>4. CASE label = "begin"
    <3>1. \A r \in Procs : pc'[r] \in {"min", "fill", "reduce"}
      BY <2>1, <2>4, IterateGoes DEF Onward
    <3>2. \A r \in Procs : localErrs[r] = 0
      BY <2>1, <2>4 DEF ErrorInv, ErrorAt
    <3>3. round[Root] \notin wrong
      <4>1. pc[Root] \in Unprinted /\ pc[Root] \notin Unprinted \ {"begin"}
        BY <1>1, <2>1, <2>4 DEF Unprinted
      <4>2. round[Root] = Len(rows) + 1 /\ \A n \in wrong : n <= Len(rows)
        BY <4>1 DEF RoundInv
      <4>3. ~(Len(rows) + 1 <= Len(rows))
        BY <1>1
      <4> QED
        BY <4>2, <4>3
    <3>4. \A r \in Procs : ~Bad(r)'
      BY <2>2, <3>1, <3>2 DEF Bad
    <3> QED
      BY <1>1, <2>2, <3>1, <3>3, <3>4 DEF VerdictInv
  <2>5. CASE label # "begin"
    <3>1. /\ label = "row barrier" => pc'[Root] = "double"
          /\ label # "row barrier" => pc'[Root] \in {"warmup", "reduce", "check"}
          /\ pc[Root] = label
      BY <1>1, <2>1, <2>5 DEF Onward, Barriers
    <3>2. \A r \in Procs : Bad(r)' <=> Bad(r)
      <4>1. \A r \in Procs : pc[r] \in {"after", "check"} <=> pc'[r] \in {"after", "check"}
        BY <2>1, <2>5 DEF Onward, Barriers
      <4> QED
        BY <2>2, <4>1 DEF Bad
    <3>3. CASE label = "row barrier"
      BY <1>1, <3>1, <3>3 DEF VerdictInv, Within, Tails
    <3>4. CASE label # "row barrier"
      <4>1. pc[Root] \in Within /\ pc[Root] \notin {"row", "row barrier"} /\ pc'[Root] # "row"
        BY <2>5, <3>1, <3>4, <2>1 DEF Barriers, Within, Tails
      <4> QED
        BY <1>1, <2>2, <2>3, <3>2, <4>1 DEF VerdictInv
    <3> QED
      BY <3>3, <3>4
  <2> QED
    BY <2>4, <2>5
<1>4. CASE Warmup
  <2>1. /\ \A r \in Procs : pc[r] = "warmup" /\ pc'[r] \in {"warmup barrier", "before"}
        /\ UNCHANGED <<np, asked, typ, size, iter, round, localErrs, errs, wrong>> /\ Procs' = Procs
    BY <1>4, WarmupHere
  <2>2. \A r \in Procs : Bad(r)' <=> Bad(r)
    BY <2>1 DEF Bad
  <2>3. (Trusted' <=> Trusted) /\ Exact' = Exact
    BY <1>1, <2>1 DEF Trusted, Untrusted, Exact
  <2> QED
    BY <1>1, <2>1, <2>2, <2>3 DEF VerdictInv, Within
<1>5. CASE SumErrors
  <2>1. /\ \A r \in Procs : pc[r] = "error sum" /\ pc'[r] = "row" /\ errs'[r] = SumFunction(localErrs)
        /\ UNCHANGED <<np, asked, typ, size, round, localErrs, wrong>> /\ Procs' = Procs
    BY <1>5, SumErrorsHere
  <2>2. (\E r \in Procs : Bad(r)) <=> SumFunction(localErrs) # 0
    BY <2>1, ErrorSum DEF Bad
  <2>3. (Trusted' <=> Trusted) /\ Exact' = Exact
    BY <1>1, <2>1 DEF Trusted, Untrusted, Exact
  <2> QED
    BY <1>1, <2>1, <2>2, <2>3 DEF VerdictInv, Within, Tails
<1> QED
  BY <1>2, <1>3, <1>4, <1>5, Steps, VerdictMoves, VerdictAllreduce

\* Only rank 0's printing makes the table longer.
LEMMA RowsStay ==
  ASSUME TypeInv, [Next]_vars, ~PrintRow(Root)
  PROVE  rows' = rows
<1>1. ASSUME NEW r \in Procs, Moves(r)
      PROVE  rows' = rows
  <2>1. CASE PrintRow(r)
    <3>1. r # Root
      BY <2>1
    <3> QED
      BY <2>1, <3>1, PrintRowGoes
  <2>2. CASE ~PrintRow(r)
    BY <1>1, <2>2, StartHere, OpenPartHere, NextSizeHere, DoubleHere, FillHere, CheckHere,
       ReduceHere DEF Moves
  <2> QED
    BY <2>1, <2>2
<1>2. CASE Quiet
  BY <1>2, QuietHere
<1> QED
  BY <1>1, <1>2, Steps, BarrierHere, WarmupHere, AllreduceHere, SumErrorsHere

\* Wrong sums are those of the round that is measured.
LEMMA WrongStays ==
  ASSUME TypeInv, RoundInv, [Next]_vars
  PROVE  \A n \in 1 .. Len(rows) : n \in wrong' <=> n \in wrong
<1>1. Len(rows) \in Nat /\ Root \in Procs
  BY RowsFacts
<1>2. CASE Allreduce
  <2>1. wrong' \in {wrong, wrong \cup {round[Root]}} /\ pc[Root] = "reduce"
    BY <1>1, <1>2, AllreduceHere, AllreduceGoes
  <2>2. pc[Root] \in Unprinted
    BY <2>1 DEF Unprinted, Within, Tails
  <2>3. round[Root] = Len(rows) + 1
    BY <2>2 DEF RoundInv
  <2> QED
    BY <1>1, <2>1, <2>3
<1>3. CASE ~Allreduce
  <2>1. wrong' = wrong
    BY <1>3, Steps, QuietHere, MovesHere, BarrierHere, WarmupHere, SumErrorsHere
  <2> QED
    BY <2>1
<1> QED
  BY <1>2, <1>3

LEMMA AskedStays ==
  ASSUME TypeInv, [Next]_vars
  PROVE  asked' = asked /\ np' = np /\ Procs' = Procs
BY Steps, QuietHere, MovesHere, BarrierHere, WarmupHere, AllreduceHere, SumErrorsHere DEF Procs

LEMMA StatusNext ==
  ASSUME Lockstep, RoundInv, VerdictInv, StatusExact, [Next]_vars
  PROVE  StatusExact'
<1> USE DEF Lockstep
<1>1. Len(rows) \in Nat /\ DOMAIN rows = 1 .. Len(rows) /\ Root \in Procs /\ asked' = asked
  BY RowsFacts, AskedStays
<1>2. \A row : Untrusted(row)' <=> Untrusted(row)
  BY <1>1 DEF Untrusted
<1>3. \A n \in 1 .. Len(rows) : rows[n].status # "none" /\ ~Untrusted(rows[n])
        => /\ rows[n].status = "Fail" => n \in wrong'
           /\ n \in wrong' /\ asked.dtypes[rows[n].type] # "MPI_FLOAT" => rows[n].status = "Fail"
  BY <1>1, WrongStays DEF StatusExact
<1>4. CASE ~PrintRow(Root)
  <2>1. rows' = rows
    BY <1>4, RowsStay
  <2> QED
    BY <1>1, <1>2, <1>3, <2>1 DEF StatusExact
<1>5. CASE PrintRow(Root)
  <2> DEFINE n == Len(rows) + 1
  <2>1. /\ DOMAIN rows' = 1 .. n /\ (\A m \in 1 .. Len(rows) : rows'[m] = rows[m])
        /\ rows'[n].type = typ[Root] /\ rows'[n].size = size[Root]
        /\ rows'[n].status = (IF ~opts[Root].validate THEN "none"
                              ELSE IF errs[Root] > 0 THEN "Fail" ELSE "Pass")
    BY <1>5, RowPrinted
  <2>2. pc[Root] = "row" /\ wrong' = wrong /\ errs[Root] \in Nat
    BY <1>1, <1>5, PrintRowHere, ValuesHere
  <2>3. opts[Root].validate = asked.validate
    BY <1>1, <2>2, OptsHere
  <2>4. round[Root] = n
    <3>1. pc[Root] \in Unprinted
      BY <2>2 DEF Unprinted, Within, Tails
    <3> QED
      BY <3>1 DEF RoundInv
  <2>5. ASSUME rows'[n].status # "none", ~Untrusted(rows'[n])
        PROVE  /\ rows'[n].status = "Fail" => n \in wrong
               /\ n \in wrong /\ asked.dtypes[rows'[n].type] # "MPI_FLOAT"
                    => rows'[n].status = "Fail"
    <3>1. asked.validate /\ pc[Root] \in Within
      BY <2>1, <2>2, <2>3, <2>5 DEF Within, Tails
    <3>2. Trusted
      BY <2>1, <2>5 DEF Trusted, Untrusted
    <3>3. /\ errs[Root] # 0 => n \in wrong
          /\ n \in wrong /\ asked.dtypes[rows'[n].type] # "MPI_FLOAT" => errs[Root] # 0
      BY <2>1, <2>2, <2>4, <3>1, <3>2 DEF VerdictInv, Exact
    <3>4. rows'[n].status = "Fail" <=> errs[Root] # 0
      BY <2>1, <2>2, <2>3, <3>1
    <3> QED
      BY <3>3, <3>4
  <2>6. \A m \in 1 .. n : m \in 1 .. Len(rows) \/ m = n
    BY <1>1
  <2> HIDE DEF n
  <2>7. SUFFICES ASSUME NEW m \in 1 .. n, rows'[m].status # "none", ~Untrusted(rows'[m])
                 PROVE  /\ rows'[m].status = "Fail" => m \in wrong'
                        /\ m \in wrong' /\ asked.dtypes[rows'[m].type] # "MPI_FLOAT"
                             => rows'[m].status = "Fail"
    BY <1>1, <1>2, <2>1 DEF StatusExact
  <2>8. CASE m = n
    BY <2>2, <2>5, <2>7, <2>8
  <2>9. CASE m \in 1 .. Len(rows)
    <3>1. rows'[m] = rows[m]
      BY <2>1, <2>9
    <3> QED
      BY <1>3, <2>7, <2>9, <3>1
  <2> QED
    BY <2>6, <2>8, <2>9
<1> QED
  BY <1>4, <1>5

Validation == ErrorInv /\ DataInv /\ RoundInv /\ VerdictInv /\ StatusExact

LEMMA ValidationNext ==
  ASSUME Lockstep, Validation, [Next]_vars
  PROVE  Validation'
<1>1. TypeInv /\ PlaceInv /\ PathInv /\ TogetherInv
  BY DEF Lockstep
<1>2. ErrorInv /\ DataInv /\ RoundInv /\ VerdictInv /\ StatusExact
  BY DEF Validation
<1>3. ErrorInv' /\ DataInv'
  BY <1>1, <1>2, ErrorNext
<1>4. RoundInv' /\ VerdictInv'
  BY <1>1, <1>2, RoundNext, VerdictNext
<1>5. StatusExact'
  BY <1>2, StatusNext
<1> QED
  BY <1>3, <1>4, <1>5 DEF Validation

LEMMA ValidationInit == Init => Validation
<1>1. SUFFICES ASSUME Init PROVE Validation
  OBVIOUS
<1>2. Root \in Procs
  BY <1>1, ProcsFinite DEF Init
<1>3. VerdictInv
  BY <1>1, <1>2 DEF Init, VerdictInv, Within, Tails
<1>4. StatusExact
  BY <1>1 DEF Init, StatusExact
<1> QED
  BY <1>1, <1>3, <1>4, ErrorInit, RoundInit DEF Validation

THEOREM ValidationAlways == Spec => [](Lockstep /\ Validation)
<1>1. Init => Lockstep /\ Validation
  BY TypeInit, PlaceInit, PathInit, RootInit, ValidationInit DEF Lockstep
<1>2. Lockstep /\ Validation /\ [Next]_vars => Lockstep' /\ Validation'
  BY TypeNext, PlaceNext, TogetherNext, RootNext, ValidationNext DEF Lockstep
<1> QED
  BY <1>1, <1>2, PTL DEF Spec

\* The verdict of a row is about the measured reductions of its own size: it
\* says Fail only if one of them came out wrong at some rank, and if so, unless
\* the values are floats, which are compared by whole numbers; all this unless
\* the command line makes validation untrustworthy.
THEOREM StatusOfRound == Spec => []StatusExact
<1>1. Lockstep /\ Validation => StatusExact
  BY DEF Validation
<1> QED
  BY <1>1, ValidationAlways, PTL

-----------------------------------------------------------------------------
(***************************************************************************)
(* The samples.  The array has a place for each iteration asked for; those *)
(* a rank has been through in this round hold samples of this round, the   *)
(* others may be older or zero.                                            *)
(***************************************************************************)
SampleAt(r) ==
  asked.tail_lat =>
    /\ pc[r] # "start" => DOMAIN lat[r] = 1 .. asked.iterations
    /\ pc[r] \in Within =>
         \A i \in 1 .. asked.iterations : i + opts[r].skip <= iter[r] => lat[r][i] = round[r]
SampleInv == \A r \in Procs : SampleAt(r)

\* A step from one place of an iteration to another that takes no sample.
LEMMA SampleKept ==
  ASSUME NEW r \in Procs, SampleAt(r), asked' = asked, lat'[r] = lat[r],
         opts'[r] = opts[r], iter'[r] = iter[r], round'[r] = round[r],
         pc'[r] # "start" => pc[r] # "start", pc'[r] \in Within => pc[r] \in Within
  PROVE  SampleAt(r)'
BY DEF SampleAt

\* The sample of an iteration goes to its place in the array.
LEMMA SampleCheck ==
  ASSUME TypeInv, PlaceInv, NEW r \in Procs, SampleAt(r), Check(r)
  PROVE  SampleAt(r)'
<1>1. SUFFICES ASSUME asked.tail_lat
               PROVE  /\ DOMAIN lat'[r] = 1 .. asked.iterations
                      /\ \A i \in 1 .. asked.iterations :
                           i + opts[r].skip <= iter[r] + 1 => lat'[r][i] = round[r]
  BY CheckHere DEF SampleAt
<1>2. pc[r] = "check" /\ pc[r] \in Within /\ pc[r] \notin Tails
  BY CheckHere DEF Within, Tails
<1>3. /\ opts[r].iterations \in Nat \ {0} /\ opts[r].skip \in Nat /\ asked.iterations \in Nat
      /\ opts[r].iterations <= asked.iterations /\ opts[r].tail_lat = asked.tail_lat
      /\ iter[r] \in Nat
  BY <1>2, OptsHere, ValuesHere
<1>4. iter[r] < opts[r].iterations + opts[r].skip
  BY <1>2 DEF PlaceInv, PlaceAt
<1>5. /\ DOMAIN lat[r] = 1 .. asked.iterations
      /\ \A i \in 1 .. asked.iterations : i + opts[r].skip <= iter[r] => lat[r][i] = round[r]
  BY <1>1, <1>2 DEF SampleAt
<1> DEFINE here == iter[r] - opts[r].skip + 1
<1>6. lat'[r] = IF iter[r] >= opts[r].skip /\ opts[r].tail_lat
                THEN [i \in DOMAIN lat[r] \cup {here} |-> IF i = here THEN round[r] ELSE lat[r][i]]
                ELSE lat[r]
  BY CheckHere
<1>7. CASE iter[r] >= opts[r].skip
  <2>1. here \in 1 .. asked.iterations
    BY <1>3, <1>4, <1>7
  <2>2. DOMAIN lat[r] \cup {here} = 1 .. asked.iterations
    BY <1>5, <2>1
  <2>3. lat'[r] = [i \in 1 .. asked.iterations |-> IF i = here THEN round[r] ELSE lat[r][i]]
    BY <1>1, <1>3, <1>6, <1>7, <2>2
  <2>4. \A i \in 1 .. asked.iterations :
          i + opts[r].skip <= iter[r] + 1 => i = here \/ i + opts[r].skip <= iter[r]
    BY <1>3
  <2> HIDE DEF here
  <2> QED
    BY <1>5, <2>3, <2>4
<1>8. CASE ~(iter[r] >= opts[r].skip)
  <2>1. \A i \in 1 .. asked.iterations : ~(i + opts[r].skip <= iter[r] + 1)
    BY <1>3, <1>8
  <2> QED
    BY <1>5, <1>6, <1>8, <2>1
<1> QED
  BY <1>7, <1>8

LEMMA SampleMoves ==
  ASSUME TypeInv, PlaceInv, NEW r \in Procs, SampleAt(r), Moves(r)
  PROVE  SampleAt(r)'
<1>1. asked' = asked
  BY MovesHere
<1>2. CASE Start(r)
  <2>1. pc'[r] \in {"part", "start"} /\ pc'[r] \notin Within
    BY <1>2, StartHere DEF Within, Tails
  <2>2. pc'[r] = "part" =>
          lat'[r] = IF asked.tail_lat THEN [i \in 1 .. asked.iterations |-> 0] ELSE <<>>
    BY <1>2, StartHere
  <2> QED
    BY <1>1, <2>1, <2>2 DEF SampleAt
<1>3. CASE OpenPart(r) \/ NextSize(r) \/ Double(r)
  <2>1. /\ pc[r] \in {"part", "size", "double"} /\ lat'[r] = lat[r]
        /\ pc'[r] \in {"part", "size", "begin", "finish"}
    BY <1>3, OpenPartHere, NextSizeHere, DoubleHere, CloseLoopHere
  <2>2. pc[r] # "start" /\ pc'[r] \notin Within
    BY <2>1 DEF Within, Tails
  <2> QED
    BY <1>1, <2>1, <2>2 DEF SampleAt
<1>4. CASE (Fill(r) /\ ended' = ended) \/ Reduce(r) \/ PrintRow(r)
  <2>1. /\ pc[r] \in {"fill", "min", "max", "avg", "stats", "row"}
        /\ lat'[r] = lat[r] /\ opts'[r] = opts[r] /\ iter'[r] = iter[r] /\ round'[r] = round[r]
    BY <1>4, FillHere, ReduceHere, PrintRowHere
  <2>2. pc[r] \in Within /\ pc[r] # "start"
    BY <2>1 DEF Within, Tails
  <2> QED
    BY <1>1, <2>1, <2>2, SampleKept
<1> QED
  BY <1>2, <1>3, <1>4, SampleCheck DEF Moves

LEMMA SampleNext ==
  ASSUME TypeInv, PlaceInv, SampleInv, [Next]_vars
  PROVE  SampleInv'
<1>1. asked' = asked /\ Procs' = Procs
  BY AskedStays
<1>2. CASE Quiet
  BY <1>1, <1>2, QuietHere, SampleKept DEF SampleInv
<1>3. ASSUME NEW r \in Procs, Moves(r)
      PROVE  SampleInv'
  <2>1. \A q \in Procs \ {r} : SampleAt(q)'
    BY <1>1, <1>3, MovesHere, SampleKept DEF SampleInv, Same
  <2>2. SampleAt(r)'
    BY <1>3, SampleMoves DEF SampleInv
  <2> QED
    BY <1>1, <2>1, <2>2 DEF SampleInv
<1>4. CASE Barrier
  <2>1. PICK label \in Barriers :
          \A r \in Procs : pc[r] = label /\ pc'[r] = Onward(opts[r], label)
    BY <1>4, BarrierHere
  <2>2. UNCHANGED <<opts, iter, round, lat>>
    BY <1>4, BarrierHere
  <2>3. CASE label = "begin"
    <3>1. ASSUME NEW r \in Procs
          PROVE  SampleAt(r)'
      <4>1. iter[r] = 0 /\ pc[r] = "begin" /\ pc[r] # "start"
        BY <2>1, <2>3 DEF PlaceInv, PlaceAt
      <4>2. opts[r].skip \in Nat /\ asked.iterations \in Nat
        BY <4>1, OptsHere
      <4>3. \A i \in 1 .. asked.iterations : ~(i + opts[r].skip <= iter[r])
        BY <4>1, <4>2
      <4> QED
        BY <1>1, <2>2, <4>1, <4>3 DEF SampleInv, SampleAt
    <3> QED
      BY <1>1, <3>1 DEF SampleInv
  <2>4. CASE label # "begin"
    <3>1. \A r \in Procs : pc[r] \in Within /\ pc[r] # "start"
      BY <2>1, <2>4 DEF Barriers, Within, Tails
    <3> QED
      BY <1>1, <2>2, <3>1, SampleKept DEF SampleInv
  <2> QED
    BY <2>3, <2>4
<1>5. CASE Warmup \/ Allreduce \/ SumErrors
  <2>1. /\ \A r \in Procs : pc[r] \in {"warmup", "reduce", "error sum"}
        /\ UNCHANGED <<opts, iter, round, lat>>
    BY <1>5, WarmupHere, AllreduceHere, SumErrorsHere
  <2>2. \A r \in Procs : pc[r] \in Within /\ pc[r] # "start"
    BY <2>1 DEF Within, Tails
  <2> QED
    BY <1>1, <2>1, <2>2, SampleKept DEF SampleInv
<1> QED
  BY <1>2, <1>3, <1>4, <1>5, Steps

\* When rank 0 prints, each part of the array that is sorted is of this round.
LEMMA SamplesOfRound ==
  ASSUME Lockstep, SampleInv, asked.tail_lat, pc[Root] = "row"
  PROVE  {lat[q][i] : q \in Procs, i \in 1 .. opts[Root].iterations} = {round[Root]}
<1> USE DEF Lockstep
<1>1. Root \in Procs /\ pc[Root] \in Within /\ pc[Root] \in Tails \ {"min"} /\ pc[Root] # "start"
  BY RowsFacts DEF Within, Tails
<1>2. /\ opts[Root].iterations \in Nat \ {0} /\ opts[Root].skip \in Nat
      /\ asked.iterations \in Nat /\ opts[Root].iterations <= asked.iterations
  BY <1>1, OptsHere
<1>3. ASSUME NEW q \in Procs, NEW i \in 1 .. opts[Root].iterations
      PROVE  lat[q][i] = round[Root]
  <2>1. pc[q] \in Tails /\ pc[q] \in Within
    BY <1>1 DEF RootInv, Within
  <2>2. round[q] = round[Root] /\ opts[q] = opts[Root]
    BY <1>1 DEF TogetherInv, Agree
  <2>3. iter[q] = opts[Root].iterations + opts[Root].skip
    BY <2>1, <2>2 DEF PlaceInv, PlaceAt
  <2>4. i \in 1 .. asked.iterations /\ i + opts[q].skip <= iter[q]
    BY <1>2, <2>2, <2>3
  <2> QED
    BY <2>1, <2>2, <2>4 DEF SampleInv, SampleAt
<1>4. 1 \in 1 .. opts[Root].iterations
  BY <1>2
<1> QED
  BY <1>1, <1>3, <1>4

LEMMA TailNext ==
  ASSUME Lockstep, RoundInv, SampleInv, TailFresh, SampleInv', TypeInv', [Next]_vars
  PROVE  TailFresh'
<1> USE DEF Lockstep
<1>1. /\ Len(rows) \in Nat /\ DOMAIN rows = 1 .. Len(rows) /\ Root \in Procs
      /\ asked' = asked /\ Procs' = Procs
  BY RowsFacts, AskedStays
<1>2. \A p : TooFew(p)' <=> TooFew(p)
  BY <1>1 DEF TooFew
<1>3. ASSUME NEW r \in Procs, opts'[r].tail_lat, pc'[r] # "start"
      PROVE  DOMAIN lat'[r] = 1 .. asked.iterations
  <2>1. opts'[r] \in {asked, Large(asked)} /\ asked \in Processed
    BY <1>1, <1>3 DEF TypeInv
  <2>2. opts'[r].tail_lat = asked.tail_lat
    BY <2>1, OptionFacts
  <2> QED
    BY <1>1, <1>3, <2>2 DEF SampleInv, SampleAt
<1>4. \A n \in 1 .. Len(rows) : \A k \in DOMAIN rows[n].tail :
        rows[n].tail[k] = {n} \/ (rows[n].tail[k] = {} /\ TooFew(asked.percentiles[k]))
  BY <1>1 DEF TailFresh
<1>5. CASE ~PrintRow(Root)
  <2>1. rows' = rows
    BY <1>5, RowsStay
  <2> QED
    BY <1>1, <1>2, <1>3, <1>4, <2>1 DEF TailFresh
<1>6. CASE PrintRow(Root)
  <2> DEFINE n == Len(rows) + 1
             o == opts[Root]
  <2>1. /\ DOMAIN rows' = 1 .. n /\ (\A m \in 1 .. Len(rows) : rows'[m] = rows[m])
        /\ rows'[n].tail = (IF o.tail_lat THEN TailLat(Root) ELSE <<>>)
    BY <1>6, RowPrinted
  <2>2. pc[Root] = "row" /\ pc[Root] # "start"
    BY <1>1, <1>6, PrintRowHere
  <2>3. /\ o.tail_lat = asked.tail_lat /\ o.percentiles = asked.percentiles
        /\ o.iterations \in Nat \ {0} /\ o.iterations \in {asked.iterations, asked.iterations_large}
        /\ asked \in Processed
    BY <1>1, <2>2, OptsHere
  <2>4. round[Root] = n
    <3>1. pc[Root] \in Unprinted
      BY <2>2 DEF Unprinted, Within, Tails
    <3> QED
      BY <3>1 DEF RoundInv
  <2>5. ASSUME NEW k \in DOMAIN rows'[n].tail
        PROVE  \/ rows'[n].tail[k] = {n}
               \/ rows'[n].tail[k] = {} /\ TooFew(asked.percentiles[k])
    <3> DEFINE below == (o.iterations * o.percentiles[k]) \div 100 = 0
    <3>1. asked.tail_lat
      BY <2>1, <2>3, <2>5
    <3>2. {lat[q][i] : q \in Procs, i \in 1 .. o.iterations} = {n}
      <4> HIDE DEF Lockstep, n
      <4>1. Lockstep
        BY DEF Lockstep
      <4>2. {lat[q][i] : q \in Procs, i \in 1 .. opts[Root].iterations} = {round[Root]}
        BY <2>2, <3>1, <4>1, SamplesOfRound
      <4> QED
        BY <2>4, <4>2
    <3>3. rows'[n].tail = TailLat(Root)
      BY <2>1, <2>3, <3>1
    <3>4. k \in DOMAIN o.percentiles /\ rows'[n].tail[k] = (IF below THEN {} ELSE {n})
      <4> DEFINE samples == {lat[q][i] : q \in Procs, i \in 1 .. o.iterations}
                 given == {j \in DOMAIN o.percentiles : j <= StatMaxNum}
      <4>1. TailLat(Root) = [j \in given |->
              IF (o.iterations * o.percentiles[j]) \div 100 = 0 THEN {} ELSE samples]
        BY DEF TailLat
      <4> HIDE DEF n, o
      <4>2. samples = {n}
        BY <3>2
      <4> HIDE DEF samples
      <4>3. k \in given
        BY <2>5, <3>3, <4>1
      <4> QED
        BY <3>3, <4>1, <4>2, <4>3
    <3>5. ASSUME below
          PROVE  TooFew(asked.percentiles[k])
      <4>1. asked.ret = "PO_OKAY"
        BY <1>1, <2>2 DEF PlaceInv, PlaceAt
      <4>2. asked.percentiles[k] \in 0 .. 100
        BY <2>3, <3>4, <4>1 DEF Processed
      <4>3. o.iterations * asked.percentiles[k] \in Nat
        <5> HIDE DEF o
        <5>1. \A x \in Nat, y \in 0 .. 100 : x * y \in Nat
          OBVIOUS
        <5> QED
          BY <2>3, <4>2, <5>1
      <4>4. \A x \in Nat : x \div 100 = 0 => x < 100
        OBVIOUS
      <4>5. o.iterations * asked.percentiles[k] < 100
        <5> HIDE DEF o
        <5> QED
          BY <2>3, <3>5, <4>3, <4>4
      <4> QED
        BY <2>3, <4>5 DEF TooFew
    <3> QED
      BY <3>4, <3>5
  <2>6. \A m \in 1 .. n : m \in 1 .. Len(rows) \/ m = n
    BY <1>1
  <2> HIDE DEF n, o
  <2> QED
    BY <1>1, <1>2, <1>3, <1>4, <2>1, <2>5, <2>6 DEF TailFresh
<1> QED
  BY <1>5, <1>6

LEMMA TailInit == Init => SampleInv /\ TailFresh
BY DEF Init, SampleInv, SampleAt, TailFresh, Within, Tails

\* The tail latencies of a row are samples of that row from every rank,
\* although the array is kept from row to row and the number of iterations
\* changes after its allocation; no sample is stored outside it.
THEOREM TailsAreFresh == Spec => []TailFresh
<1>1. Init => SampleInv /\ TailFresh
  BY TailInit
<1>2. /\ Lockstep /\ Validation /\ Lockstep' /\ SampleInv /\ TailFresh /\ [Next]_vars
      => SampleInv' /\ TailFresh'
  BY SampleNext, TailNext DEF Lockstep, Validation
<1> QED
  BY <1>1, <1>2, ValidationAlways, PTL DEF Spec
-----------------------------------------------------------------------------
(***************************************************************************)
(* The order of the sizes: what rank 0 has printed of the datatype it is   *)
(* at lies below the size it is at, and in the CPU half of a tuning run    *)
(* within the threshold.                                                   *)
(***************************************************************************)
Behind(row) ==
  /\ row.type <= typ[Root] /\ row.type \in Nat /\ row.size \in Nat \ {0}
  /\ row.type = typ[Root] =>
       /\ pc[Root] \in Unprinted \cup {"size"} => row.size < size[Root]
       /\ pc[Root] \in {"row barrier", "double"} => row.size <= size[Root]
       /\ pc[Root] = "part" => part[Root] = "rocm"
       /\ part[Root] = "cpu" \/ (pc[Root] = "part" /\ asked.tuning) => row.size <= asked.threshold
SizeInv == \A n \in DOMAIN rows : Behind(rows[n])

LEMMA LessOrEqual ==
  ASSUME NEW x \in Nat, NEW y \in Nat, x < y
  PROVE  x <= y
OBVIOUS

\* A step that leaves rank 0 between the same rows.
LEMMA BehindSame ==
  ASSUME NEW row, Behind(row), asked' = asked, typ'[Root] = typ[Root],
         part'[Root] = part[Root], size'[Root] = size[Root], pc'[Root] # "part",
         pc'[Root] \in Unprinted \cup {"size"} => pc[Root] \in Unprinted \cup {"size"},
         pc'[Root] \in {"row barrier", "double"} =>
           pc[Root] \in Unprinted \cup {"size", "row barrier", "double"},
         size[Root] \in Nat
  PROVE  Behind(row)'
<1>1. Root' = Root
  BY DEF Root
<1>2. row.size < size[Root] => row.size <= size[Root]
  <2>1. row.size \in Nat
    BY DEF Behind
  <2> QED
    BY <2>1, LessOrEqual
<1> QED
  BY <1>1, <1>2 DEF Behind

\* The end of a loop: the second half has only the sizes of the first behind
\* it, the next datatype none.
LEMMA BehindClosed ==
  ASSUME TypeInv, PlaceInv, CloseLoop(Root), asked' = asked, NEW row, Behind(row),
         pc[Root] \in {"size", "double"}
  PROVE  Behind(row)'
<1>1. Root' = Root /\ Root \in Procs /\ pc[Root] # "start"
  BY RowsFacts DEF Root
<1>2. pc'[Root] = "part" /\ pc'[Root] \notin Unprinted
  BY <1>1, CloseLoopHere DEF Unprinted, Within, Tails
<1>3. typ[Root] \in Nat /\ (part[Root] = "all" <=> ~asked.tuning)
  BY <1>1, ValuesHere DEF PlaceInv, PlaceAt
<1>4. CASE part[Root] = "cpu" /\ part'[Root] = "rocm" /\ typ'[Root] = typ[Root]
  BY <1>1, <1>2, <1>4 DEF Behind
<1>5. CASE typ'[Root] = typ[Root] + 1
  <2>1. row.type # typ'[Root] /\ row.type <= typ'[Root]
    <3>1. row.type \in Nat /\ row.type <= typ[Root]
      BY DEF Behind
    <3> QED
      BY <1>3, <1>5, <3>1
  <2> QED
    BY <1>1, <2>1 DEF Behind
<1> QED
  BY <1>1, <1>4, <1>5, CloseLoopHere

LEMMA BehindMoves ==
  ASSUME TypeInv, PlaceInv, Moves(Root), ~Start(Root), NEW row, Behind(row)
  PROVE  Behind(row)'
<1>1. /\ Root' = Root /\ Root \in Procs /\ asked' = asked
      /\ size[Root] \in Nat /\ typ[Root] \in Nat \ {0}
  BY MovesHere, RowsFacts, ValuesHere DEF Root
<1>2. CASE OpenPart(Root)
  <2>1. pc[Root] = "part" /\ typ'[Root] = typ[Root] /\ part'[Root] = part[Root]
    BY <1>1, <1>2, OpenPartHere
  <2>2. CASE pc'[Root] = "finish"
    BY <1>1, <2>1, <2>2 DEF Behind, Unprinted, Within, Tails
  <2>3. CASE pc'[Root] = "size"
    <3>1. size'[Root] = StartSize(opts[Root], part[Root])
      BY <1>1, <1>2, <2>3, OpenPartHere
    <3>2. CASE row.type # typ[Root]
      BY <1>1, <2>1, <3>2 DEF Behind
    <3>3. CASE row.type = typ[Root]
      <4>1. part[Root] = "rocm" /\ asked.tuning
        <5>1. part[Root] = "rocm"
          BY <2>1, <3>3 DEF Behind
        <5>2. asked.tuning \in BOOLEAN /\ (part[Root] = "all" <=> ~asked.tuning)
          BY <1>1, <2>1, OptsHere DEF PlaceInv, PlaceAt
        <5> QED
          BY <5>1, <5>2
      <4>2. row.size <= asked.threshold /\ row.size \in Nat \ {0} /\ asked.threshold \in Nat
        BY <1>1, <2>1, <3>3, <4>1, OptsHere DEF Behind
      <4>3. size'[Root] = asked.threshold * 2
        <5>1. StartSize(opts[Root], part[Root]) = StartSize(asked, part[Root])
          BY <1>1, <2>1, OptsHere
        <5> QED
          BY <3>1, <4>1, <5>1 DEF StartSize
      <4>4. row.size < size'[Root]
        BY <4>2, <4>3
      <4> QED
        BY <1>1, <2>1, <2>3, <4>1, <4>4 DEF Behind, Unprinted, Within, Tails
    <3> QED
      BY <3>2, <3>3
  <2> QED
    BY <1>1, <1>2, <2>2, <2>3, OpenPartHere
<1>3. CASE NextSize(Root)
  <2>1. pc[Root] = "size"
    BY <1>1, <1>3, NextSizeHere
  <2>2. CASE CloseLoop(Root)
    BY <1>1, <2>1, <2>2, BehindClosed
  <2>3. CASE /\ size'[Root] = size[Root] * 2 /\ pc'[Root] = "size"
             /\ part'[Root] = part[Root] /\ typ'[Root] = typ[Root]
    <3>1. row.size < size[Root] => row.size < size'[Root]
      <4>1. row.size \in Nat
        BY DEF Behind
      <4> QED
        BY <1>1, <2>3, <4>1
    <3> QED
      BY <1>1, <2>1, <2>3, <3>1 DEF Behind
  <2>4. CASE /\ size'[Root] = size[Root] /\ pc'[Root] = "begin"
             /\ part'[Root] = part[Root] /\ typ'[Root] = typ[Root]
    BY <1>1, <2>1, <2>4, BehindSame
  <2> QED
    BY <1>1, <1>3, <2>2, <2>3, <2>4, NextSizeHere
<1>4. CASE Double(Root)
  <2>1. pc[Root] = "double"
    BY <1>1, <1>4, DoubleHere
  <2>2. CASE CloseLoop(Root)
    BY <1>1, <2>1, <2>2, BehindClosed
  <2>3. CASE /\ size'[Root] = size[Root] * 2 /\ pc'[Root] = "size"
             /\ part'[Root] = part[Root] /\ typ'[Root] = typ[Root]
    <3>1. size[Root] > 0
      BY <1>1, <2>1 DEF PlaceInv, PlaceAt, Measuring
    <3>2. row.size <= size[Root] => row.size < size'[Root]
      <4>1. row.size \in Nat
        BY DEF Behind
      <4> QED
        BY <1>1, <2>3, <3>1, <4>1
    <3> QED
      BY <1>1, <2>1, <2>3, <3>2 DEF Behind
  <2> QED
    BY <1>1, <1>4, <2>2, <2>3, DoubleHere
<1>5. CASE (Fill(Root) /\ ended' = ended) \/ Check(Root) \/ Reduce(Root) \/ PrintRow(Root)
  <2>1. /\ typ'[Root] = typ[Root] /\ part'[Root] = part[Root] /\ size'[Root] = size[Root]
        /\ pc[Root] \in {"fill", "check", "min", "max", "avg", "stats", "row"}
        /\ pc'[Root] # "part" /\ pc'[Root] # "size"
    <3>1. CASE Fill(Root) /\ ended' = ended
      BY <1>1, <3>1, FillHere
    <3>2. CASE Check(Root)
      <4>1. pc'[Root] \in {"min", "fill", "reduce"}
        BY <1>1, <3>2, CheckTo
      <4> QED
        BY <1>1, <3>2, <4>1, CheckHere
    <3>3. CASE Reduce(Root)
      <4>1. pc'[Root] \in {"max", "avg", "stats", "error sum", "row"}
        BY <1>1, <3>3, ReduceHere
      <4> QED
        BY <1>1, <3>3, <4>1, ReduceHere
    <3>4. CASE PrintRow(Root)
      BY <1>1, <3>4, PrintRowHere
    <3> QED
      BY <1>5, <3>1, <3>2, <3>3, <3>4
  <2>2. pc[Root] \in Unprinted
    BY <2>1 DEF Unprinted, Within, Tails
  <2> QED
    BY <1>1, <2>1, <2>2, BehindSame
<1> QED
  BY <1>2, <1>3, <1>4, <1>5 DEF Moves

LEMMA BehindNext ==
  ASSUME TypeInv, PlaceInv, RoundInv, [Next]_vars, Len(rows) # 0, NEW row, Behind(row)
  PROVE  Behind(row)'
<1>1. /\ Root' = Root /\ Root \in Procs /\ asked' = asked /\ size[Root] \in Nat
  BY AskedStays, RowsFacts, ValuesHere DEF Root
<1>2. CASE Quiet
  <2>1. UNCHANGED <<pc, typ, part, size>>
    BY <1>2, QuietHere
  <2> QED
    BY <1>1, <2>1 DEF Behind
<1>3. ASSUME NEW r \in Procs, Moves(r)
      PROVE  Behind(row)'
  <2>1. CASE r # Root
    <3>1. /\ pc'[Root] = pc[Root] /\ typ'[Root] = typ[Root] /\ part'[Root] = part[Root]
          /\ size'[Root] = size[Root]
      BY <1>1, <1>3, <2>1, MovesHere DEF Same
    <3> QED
      BY <1>1, <3>1 DEF Behind
  <2>2. CASE r = Root
    <3>1. ~Start(Root)
      <4>1. SUFFICES ASSUME Start(Root) PROVE FALSE
        OBVIOUS
      <4>2. pc[Root] = "start" /\ pc[Root] \notin Unprinted
        BY <1>1, <4>1, StartHere DEF Unprinted, Within, Tails
      <4>3. round[Root] = 0
        BY <1>1, <4>2 DEF PlaceInv, PlaceAt
      <4>4. round[Root] = Len(rows) + 0
        BY <4>2 DEF RoundInv
      <4> QED
        BY <4>3, <4>4, RowsFacts
    <3> QED
      BY <1>3, <2>2, <3>1, BehindMoves
  <2> QED
    BY <2>1, <2>2
<1>4. CASE Barrier
  <2>1. PICK label \in Barriers : pc[Root] = label /\ pc'[Root] = Onward(opts[Root], label)
    BY <1>1, <1>4, BarrierHere
  <2>2. typ' = typ /\ part' = part /\ size' = size
    BY <1>4, BarrierHere
  <2>3. /\ pc[Root] \in Unprinted \cup {"row barrier"} /\ pc'[Root] \notin {"part", "size"}
        /\ pc'[Root] \in Unprinted => pc[Root] \in Unprinted
    BY <2>1, IterateGoes DEF Onward, Barriers, Unprinted, Within, Tails
  <2> QED
    BY <1>1, <2>2, <2>3, BehindSame
<1>5. CASE Warmup \/ Allreduce \/ SumErrors
  <2>1. /\ typ' = typ /\ part' = part /\ size' = size
        /\ pc[Root] \in {"warmup", "reduce", "error sum"}
        /\ pc'[Root] \in {"warmup barrier", "before", "after", "row"}
    BY <1>1, <1>5, WarmupHere, AllreduceHere, SumErrorsHere
  <2>2. pc[Root] \in Unprinted /\ pc'[Root] # "part"
    BY <2>1 DEF Unprinted, Within, Tails
  <2> QED
    BY <1>1, <2>1, <2>2, BehindSame
<1> QED
  BY <1>2, <1>3, <1>4, <1>5, Steps

LEMMA SizesNext ==
  ASSUME TypeInv, PlaceInv, RoundInv, SizeInv, SizesAscend, [Next]_vars
  PROVE  SizeInv' /\ SizesAscend'
<1>1. /\ Root' = Root /\ Root \in Procs /\ asked' = asked
      /\ Len(rows) \in Nat /\ DOMAIN rows = 1 .. Len(rows)
      /\ size[Root] \in Nat /\ typ[Root] \in Nat \ {0} /\ part[Root] \in Parts
  BY AskedStays, RowsFacts, ValuesHere DEF Root
<1>2. \A n \in 1 .. Len(rows) : \A row : row = rows[n] => Behind(row)'
  <2>1. SUFFICES ASSUME NEW n \in 1 .. Len(rows), NEW row, row = rows[n]
                 PROVE  Behind(row)'
    OBVIOUS
  <2>2. Behind(row) /\ Len(rows) # 0
    BY <1>1, <2>1 DEF SizeInv
  <2> QED
    BY <2>2, BehindNext
<1>3. CASE ~PrintRow(Root)
  <2>1. rows' = rows
    BY <1>3, RowsStay
  <2>2. SizeInv'
    BY <1>1, <1>2, <2>1 DEF SizeInv, Behind
  <2>3. SizesAscend'
    BY <1>1, <2>1 DEF SizesAscend
  <2> QED
    BY <2>2, <2>3
<1>4. CASE PrintRow(Root)
  <2> DEFINE n == Len(rows) + 1
  <2>1. /\ DOMAIN rows' = 1 .. n /\ (\A m \in 1 .. Len(rows) : rows'[m] = rows[m])
        /\ rows'[n].type = typ[Root] /\ rows'[n].size = size[Root]
        /\ rows'[n].place = Place(Root)
    BY <1>4, RowPrinted
  <2>2. /\ pc[Root] = "row" /\ pc'[Root] = "row barrier" /\ pc[Root] # "start"
        /\ typ'[Root] = typ[Root] /\ size'[Root] = size[Root] /\ part'[Root] = part[Root]
    BY <1>1, <1>4, PrintRowHere
  <2>3. pc[Root] \in Unprinted /\ pc[Root] \in Measuring /\ pc'[Root] \notin Unprinted
    BY <2>2 DEF Unprinted, Measuring, Within, Tails
  <2>4. /\ size[Root] > 0 /\ size[Root] <= EndSize(asked, part[Root])
        /\ part[Root] = "rocm" => size[Root] >= 2 * asked.threshold
        /\ part[Root] = "all" <=> ~asked.tuning
    BY <1>1, <2>2, <2>3 DEF PlaceInv, PlaceAt
  <2>5. asked.threshold \in Nat /\ asked.tuning \in BOOLEAN
    BY <1>1, <2>2, OptsHere
  <2>6. \A m \in 1 .. n : m \in 1 .. Len(rows) \/ m = n
    BY <1>1
  <2>7. \A m \in 1 .. Len(rows) : rows[m].type = typ[Root] => rows[m].size < size[Root]
    BY <1>1, <2>3 DEF SizeInv, Behind
  <2>8. part[Root] = "cpu" => size[Root] <= asked.threshold
    BY <2>4 DEF EndSize
  <2>9. asked.tuning => (Place(Root) = "NONE" <=> size[Root] <= asked.threshold)
    <3>1. CASE part[Root] = "cpu"
      BY <2>8, <3>1 DEF Place
    <3>2. CASE part[Root] = "rocm"
      <4>1. ~(size[Root] <= asked.threshold)
        BY <1>1, <2>4, <2>5, <3>2
      <4> QED
        BY <3>2, <4>1 DEF Place
    <3> QED
      BY <1>1, <2>4, <3>1, <3>2 DEF Parts
  <2>10. \A row : row = rows'[n] => Behind(row)'
    <3>1. /\ typ[Root] <= typ[Root] /\ typ[Root] \in Nat /\ size[Root] \in Nat \ {0}
          /\ size[Root] <= size[Root]
      BY <1>1, <2>4
    <3> HIDE DEF n
    <3> QED
      BY <1>1, <2>1, <2>2, <2>3, <2>8, <3>1 DEF Behind
  <2>11. \A k, m \in 1 .. Len(rows) :
          k < m /\ rows[k].type = rows[m].type => rows[k].size < rows[m].size
    BY <1>1 DEF SizesAscend
  <2>12. ~(n < n)
    BY <1>1
  <2> HIDE DEF n
  <2>13. SizeInv'
    BY <1>1, <1>2, <2>1, <2>6, <2>10 DEF SizeInv, Behind
  <2>14. \A k, m \in DOMAIN rows' :
           k < m /\ rows'[k].type = rows'[m].type => rows'[k].size < rows'[m].size
    <3>1. SUFFICES ASSUME NEW k \in 1 .. n, NEW m \in 1 .. n, k < m,
                          rows'[k].type = rows'[m].type
                   PROVE  rows'[k].size < rows'[m].size
      BY <2>1
    <3>2. k \in 1 .. Len(rows)
      <4>1. CASE m = n
        BY <2>6, <2>12, <3>1, <4>1
      <4>2. CASE m \in 1 .. Len(rows)
        BY <2>6, <2>11, <3>1, <4>2
      <4> QED
        BY <2>6, <4>1, <4>2
    <3>3. CASE m = n
      BY <2>1, <2>7, <3>1, <3>2, <3>3
    <3>4. CASE m \in 1 .. Len(rows)
      BY <2>1, <2>11, <3>1, <3>2, <3>4
    <3> QED
      BY <2>6, <3>3, <3>4
  <2>15. \A m \in DOMAIN rows' :
           asked.tuning => (rows'[m].place = "NONE" <=> rows'[m].size <= asked.threshold)
    BY <1>1, <2>1, <2>6, <2>9 DEF SizesAscend
  <2> QED
    BY <1>1, <2>13, <2>14, <2>15 DEF SizesAscend
<1> QED
  BY <1>3, <1>4

LEMMA SizesInit == Init => SizeInv /\ SizesAscend
BY DEF Init, SizeInv, SizesAscend

\* The sizes of a datatype grow from row to row over both halves of a tuning
\* run, in CPU buffers up to the threshold and in ROCm buffers beyond it.
THEOREM SizesGrow == Spec => []SizesAscend
<1>1. Init => SizeInv /\ SizesAscend
  BY SizesInit
<1>2. Lockstep /\ Validation /\ SizeInv /\ SizesAscend /\ [Next]_vars => SizeInv' /\ SizesAscend'
  BY SizesNext DEF Lockstep, Validation
<1> QED
  BY <1>1, <1>2, ValidationAlways, PTL DEF Spec

=============================================================================
