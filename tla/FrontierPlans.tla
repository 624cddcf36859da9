---------------------------- MODULE FrontierPlans ----------------------------
(***************************************************************************)
(* The plans of the study's scripts, for any number of nodes and any       *)
(* ladder of sizes: which commands they consist of, in which order, and    *)
(* which modules every launch finds loaded.                                *)
(***************************************************************************)
EXTENDS FrontierJob, SumLemmas, SequenceTheorems

(***************************************************************************)
(* Induction up to n, by the least number that is not in G.                *)
(***************************************************************************)
LEMMA UpTo ==
  ASSUME NEW n \in Nat, NEW G, 0 \in G, \A k \in 1 .. n : k - 1 \in G => k \in G
  PROVE  \A k \in 0 .. n : k \in G
<1> DEFINE Bad == {k \in 0 .. n : k \notin G}
<1>1. SUFFICES ASSUME Bad # {} PROVE FALSE
  OBVIOUS
<1>2. PICK k \in Bad : \A m \in Bad : k <= m
  <2>1. Bad \in SUBSET Nat
    OBVIOUS
  <2> HIDE DEF Bad
  <2> QED
    BY <1>1, <2>1, Least
<1>3. k \in 1 .. n /\ k - 1 \in 0 .. n /\ k - 1 \notin Bad
  BY <1>2
<1> QED
  BY <1>2, <1>3

(***************************************************************************)
(* A function that is given at 0 and goes on from each number to the next  *)
(* exists.  Go[<<k, x>>] is what follows x at k.                           *)
(***************************************************************************)
GoesOn(f, n, start, Go) ==
  f = [k \in 0 .. n |-> IF k = 0 THEN start ELSE Go[<<k, f[k - 1]>>]]

LEMMA SomeGoesOn ==
  ASSUME NEW T, NEW start \in T, NEW m \in Nat, NEW Go \in [(1 .. m) \X T -> T]
  PROVE  \E f \in [0 .. m -> T] : GoesOn(f, m, start, Go)
<1> DEFINE G == {n \in Nat : \E f \in [0 .. n -> T] : GoesOn(f, n, start, Go)}
<1>1. 0 \in G
  <2>1. GoesOn([k \in 0 .. 0 |-> start], 0, start, Go)
    BY DEF GoesOn
  <2>2. [k \in 0 .. 0 |-> start] \in [0 .. 0 -> T]
    OBVIOUS
  <2> QED
    BY <2>1, <2>2
<1>2. ASSUME NEW n \in 1 .. m, n - 1 \in G
      PROVE  n \in G
  <2>1. PICK f \in [0 .. n - 1 -> T] : GoesOn(f, n - 1, start, Go)
    BY <1>2
  <2> DEFINE g == [k \in 0 .. n |-> IF k < n THEN f[k] ELSE Go[<<n, f[n - 1]>>]]
  <2>2. f[n - 1] \in T /\ <<n, f[n - 1]>> \in (1 .. m) \X T
    OBVIOUS
  <2>3. g \in [0 .. n -> T]
    BY <2>2
  <2>4. ASSUME NEW k \in 0 .. n
        PROVE  g[k] = IF k = 0 THEN start ELSE Go[<<k, g[k - 1]>>]
    <3>1. CASE k = n
      BY <3>1
    <3>2. CASE k < n
      <4>1. f[k] = IF k = 0 THEN start ELSE Go[<<k, f[k - 1]>>]
        BY <2>1, <3>2 DEF GoesOn
      <4>2. k # 0 => k - 1 \in 0 .. n /\ k - 1 < n
        BY <3>2
      <4> QED
        BY <3>2, <4>1, <4>2
    <3> QED
      BY <3>1, <3>2
  <2> HIDE DEF g
  <2>5. g = [k \in 0 .. n |-> IF k = 0 THEN start ELSE Go[<<k, g[k - 1]>>]]
    BY <2>3, <2>4
  <2>6. GoesOn(g, n, start, Go)
    BY <2>5 DEF GoesOn
  <2> QED
    BY <2>3, <2>6
<1> HIDE DEF G
<1>3. m \in G
  BY <1>1, <1>2, UpTo
<1> QED
  BY <1>3 DEF G

(***************************************************************************)
(* FlattenSeq of the community modules: what holds of nothing and goes on  *)
(* holding as each sequence is appended holds of the whole.                *)
(***************************************************************************)
Flat(ss) ==
  CHOOSE f : f = [i \in 1 .. Len(ss) |-> IF i = 1 THEN ss[i] ELSE f[i - 1] \o ss[i]]

LEMMA FlattenSeqDef ==
  ASSUME NEW ss, Len(ss) # 0
  PROVE  FlattenSeq(ss) = Flat(ss)[Len(ss)]
BY DEF FlattenSeq, Flat

LEMMA SomeFlat ==
  ASSUME NEW U, NEW ss \in Seq(Seq(U))
  PROVE  Flat(ss) = [i \in 1 .. Len(ss) |->
                       IF i = 1 THEN ss[i] ELSE Flat(ss)[i - 1] \o ss[i]]
<1> DEFINE n == Len(ss)
           Go == [kp \in (1 .. n) \X Seq(U) |-> kp[2] \o ss[kp[1]]]
<1>1. n \in Nat /\ \A i \in 1 .. n : ss[i] \in Seq(U)
  OBVIOUS
<1>2. Go \in [(1 .. n) \X Seq(U) -> Seq(U)]
  BY <1>1
<1>3. <<>> \in Seq(U)
  OBVIOUS
<1>4. \A k \in 1 .. n, p \in Seq(U) : Go[<<k, p>>] = p \o ss[k]
  OBVIOUS
<1> HIDE DEF n, Go
<1>5. PICK f \in [0 .. n -> Seq(U)] : GoesOn(f, n, <<>>, Go)
  BY <1>1, <1>2, <1>3, SomeGoesOn
<1>6. ASSUME NEW k \in 1 .. n PROVE f[k] = f[k - 1] \o ss[k]
  <2>1. k \in 0 .. n /\ k # 0 /\ k - 1 \in 0 .. n
    BY <1>1
  <2>2. f[k] = Go[<<k, f[k - 1]>>]
    BY <1>5, <2>1 DEF GoesOn
  <2>3. f[k - 1] \in Seq(U)
    BY <2>1
  <2> QED
    BY <1>4, <2>2, <2>3
<1>7. f[0] = <<>>
  BY <1>1, <1>5 DEF GoesOn
<1> DEFINE g == [i \in 1 .. n |-> f[i]]
<1>8. ASSUME NEW i \in 1 .. n
      PROVE  g[i] = IF i = 1 THEN ss[i] ELSE g[i - 1] \o ss[i]
  <2>1. CASE i = 1
    <3>1. f[1] = f[1 - 1] \o ss[1] /\ ss[1] \in Seq(U)
      BY <1>1, <1>6, <2>1
    <3>2. f[1 - 1] = <<>>
      BY <1>7
    <3> QED
      BY <2>1, <3>1, <3>2
  <2>2. CASE i # 1
    <3>1. i - 1 \in 1 .. n
      BY <1>1, <2>2
    <3> QED
      BY <1>6, <2>2, <3>1
  <2> QED
    BY <2>1, <2>2
<1>9. g = [i \in 1 .. n |-> IF i = 1 THEN ss[i] ELSE g[i - 1] \o ss[i]]
  BY <1>8
<1> HIDE DEF g
<1>10. \E h : h = [i \in 1 .. n |-> IF i = 1 THEN ss[i] ELSE h[i - 1] \o ss[i]]
  BY <1>9
<1> QED
  BY <1>10 DEF Flat, n

LEMMA Flattened ==
  ASSUME NEW U, NEW ss \in Seq(Seq(U)), NEW G, <<>> \in G[0],
         \A k \in 1 .. Len(ss) : \A p \in Seq(U) : p \in G[k - 1] => p \o ss[k] \in G[k]
  PROVE  FlattenSeq(ss) \in Seq(U) /\ FlattenSeq(ss) \in G[Len(ss)]
<1>1. CASE Len(ss) = 0
  <2>1. ss = <<>>
    BY <1>1
  <2>2. FlattenSeq(ss) = <<>>
    BY <1>1, <2>1 DEF FlattenSeq
  <2> QED
    BY <1>1, <2>2
<1>2. CASE Len(ss) # 0
  <2> DEFINE n == Len(ss)
             f == Flat(ss)
             H == {k \in Nat : k > 0 /\ k <= n => f[k] \in Seq(U) /\ f[k] \in G[k]}
  <2>1. n \in Nat /\ \A i \in 1 .. n : ss[i] \in Seq(U)
    OBVIOUS
  <2>2. f = [i \in 1 .. n |-> IF i = 1 THEN ss[i] ELSE f[i - 1] \o ss[i]]
    BY SomeFlat
  <2> HIDE DEF f, n
  <2>3. ASSUME NEW k \in 1 .. n, k - 1 \in H
        PROVE  k \in H
    <3>1. CASE k = 1
      <4>1. f[1] = ss[1] /\ ss[1] \in Seq(U)
        BY <2>1, <2>2, <3>1
      <4>2. <<>> \o ss[1] \in G[1] /\ <<>> \o ss[1] = ss[1]
        <5>1. <<>> \in Seq(U)
          OBVIOUS
        <5>2. 1 \in 1 .. n
          BY <2>1, <3>1
        <5>3. 1 - 1 = 0
          OBVIOUS
        <5>4. <<>> \in G[1 - 1]
          BY <5>3
        <5>5. <<>> \o ss[1] \in G[1]
          BY <5>1, <5>2, <5>4 DEF n
        <5> QED
          BY <4>1, <5>5
      <4> QED
        BY <2>1, <3>1, <4>1, <4>2
    <3>2. CASE k # 1
      <4>1. f[k - 1] \in Seq(U) /\ f[k - 1] \in G[k - 1]
        BY <2>1, <2>3, <3>2
      <4>2. f[k] = f[k - 1] \o ss[k] /\ ss[k] \in Seq(U)
        BY <2>1, <2>2, <3>2
      <4>3. f[k] \in G[k]
        BY <4>1, <4>2 DEF n
      <4>4. f[k] \in Seq(U)
        BY <4>1, <4>2
      <4> QED
        BY <2>1, <4>3, <4>4
    <3> QED
      BY <3>1, <3>2
  <2>4. 0 \in H
    OBVIOUS
  <2> HIDE DEF H
  <2>5. n \in H
    <3>1. n \in Nat /\ n \in 0 .. n
      BY <2>1
    <3>2. \A k \in 1 .. n : k - 1 \in H => k \in H
      BY <2>3
    <3> QED
      BY <2>4, <3>1, <3>2, UpTo
  <2>6. n > 0
    BY <1>2, <2>1 DEF n
  <2>7. f[n] \in Seq(U) /\ f[n] \in G[n]
    BY <2>1, <2>5, <2>6 DEF H
  <2> QED
    BY <1>2, <2>7, FlattenSeqDef DEF f, n
<1> QED
  BY <1>1, <1>2

-----------------------------------------------------------------------------
(***************************************************************************)
(* The commands of the plans.  A launch of the own build either has no way *)
(* to RCCL in its settings, or measures RCCL, or is two-level.             *)
(***************************************************************************)
LoadSet == {Load("mine"), Load("cray"), Load("plugin")}
HeaderSet(F) == {New(f) : f \in F} \cup {Mark(f) : f \in F}
CheckSet == {Check("passed"), Check("failed")}

Lists(lo) == Seq(lo .. Unlimited)

MpichAlgorithms ==
  {"recursive_doubling", "smp", "recexch", "reduce_scatter_allgather", "tree"}
PlainSettings ==
  {Automatic(StockMpir), Compositions} \cup {Forced(a) : a \in MpichAlgorithms}

SplitScripts == {"run_csel_auto", "run_hybrid_prod", "run_hybrid_test", "run_csel_confirm"}
SplitSettings(j) ==
  CASE j.script = "run_csel_auto" ->
         TwoLevel(32 * KiB, allreduce_ch4_hybrid, allreduce_mpir_hybrid)
    [] j.script = "run_hybrid_prod" ->
         TwoLevel(16 * KiB, allreduce_ch4_prod, allreduce_mpir_prod)
    [] j.script = "run_hybrid_test" ->
         TwoLevel(64 * KiB, allreduce_ch4_percomm, allreduce_mpir_percomm)
    [] j.script = "run_csel_confirm" ->
         TwoLevel(j.split, AlphaUpto(j.split), CclAbove(j.split))

PlainSet(F) ==
  {Measure(f, "osu_mine", b, s, st) :
     f \in F \ (RcclFiles \cup TwoLevelFiles), b \in {"host", "device"}, s \in Lists(0),
     st \in PlainSettings}
RcclSet(F) ==
  {OnDevice(f, s, ForcedCcl) : f \in F \cap RcclFiles, s \in Lists(0)} \cup
  {OnDevice(f, s, Automatic(allreduce_rccl_auto)) : f \in F \cap RcclFiles, s \in Lists(1)}
SplitSet(j, F) ==
  {OnDevice(f, s, SplitSettings(j)) :
     f \in {g \in F \cap TwoLevelFiles : j.script \in SplitScripts}, s \in Lists(0)}
CraySet(F) == {Cray(f, s) : f \in F \cap {"D_cray_gpuaware"}, s \in Lists(0)}
TestSet(F) ==
  {Measure(f, "rccl_tests", "device", s, NotOurs) : f \in F \cap {"E_rccl_tests"}, s \in Lists(0)}

LaunchSet(j, F) == PlainSet(F) \cup RcclSet(F) \cup SplitSet(j, F) \cup CraySet(F) \cup TestSet(F)
CommandSet(j, F) == LoadSet \cup HeaderSet(F) \cup LaunchSet(j, F) \cup CheckSet

LEMMA CommandOps ==
  ASSUME NEW j, NEW F, NEW c \in CommandSet(j, F)
  PROVE  /\ c.op \in {"load", "header", "launch", "check"}
         /\ c.op = "load" => c \in LoadSet /\ c.what \in {"mine", "cray", "plugin"}
         /\ c.op = "header" => c \in HeaderSet(F) /\ c.file \in F /\ c.append \in BOOLEAN
         /\ c.op = "launch" => c \in LaunchSet(j, F) /\ c.file \in F
         /\ c.op = "check" => c \in CheckSet
<1>1. CASE c \in LoadSet
  BY <1>1 DEF LoadSet, Load
<1>2. CASE c \in HeaderSet(F)
  <2>1. PICK f \in F : c = New(f) \/ c = Mark(f)
    BY <1>2 DEF HeaderSet
  <2>2. CASE c = New(f)
    <3>1. c.op = "header" /\ c.file = f
      BY <2>2 DEF New
    <3>2. c.append = FALSE
      BY <2>2 DEF New
    <3> QED
      BY <1>2, <3>1, <3>2
  <2>3. CASE c = Mark(f)
    <3>1. c.op = "header" /\ c.file = f
      BY <2>3 DEF Mark
    <3>2. c.append = TRUE
      BY <2>3 DEF Mark
    <3> QED
      BY <1>2, <3>1, <3>2
  <2> QED
    BY <2>1, <2>2, <2>3
<1>3. CASE c \in LaunchSet(j, F)
  <2>1. c.op = "launch" /\ c.file \in F
    BY <1>3 DEF LaunchSet, PlainSet, RcclSet, SplitSet, CraySet, TestSet, OnDevice, Cray, Measure
  <2> QED
    BY <1>3, <2>1
<1>4. CASE c \in CheckSet
  BY <1>4 DEF CheckSet, Check
<1> QED
  BY <1>1, <1>2, <1>3, <1>4 DEF CommandSet

\* What a launch measures, with which settings.
LEMMA LaunchKinds ==
  ASSUME NEW j, NEW F, NEW c \in LaunchSet(j, F)
  PROVE  /\ c.op = "launch" /\ c.file \in F
         /\ c.sizes \in Seq(0 .. Unlimited)
         /\ c.program \in {"osu_mine", "osu_cray", "rccl_tests"}
         /\ c.program = "osu_mine" =>
              \/ c.file \notin RcclFiles \cup TwoLevelFiles /\ c.settings \in PlainSettings
              \/ c.file \in RcclFiles /\ c.buffer = "device" /\ c.settings = ForcedCcl
              \/ /\ c.file \in RcclFiles /\ c.buffer = "device"
                 /\ c.settings = Automatic(allreduce_rccl_auto) /\ c.sizes \in Seq(1 .. Unlimited)
              \/ /\ c.file \in TwoLevelFiles /\ c.buffer = "device"
                 /\ j.script \in SplitScripts /\ c.settings = SplitSettings(j)
<1>1. Lists(0) = Seq(0 .. Unlimited) /\ Lists(1) = Seq(1 .. Unlimited)
  BY DEF Lists
<1>2. Seq(1 .. Unlimited) \subseteq Seq(0 .. Unlimited)
  <2>1. 1 .. Unlimited \subseteq 0 .. Unlimited
    OBVIOUS
  <2> QED
    BY <2>1, SeqMonotonic
<1>3. CASE c \in PlainSet(F)
  BY <1>1, <1>3 DEF PlainSet, Measure
<1>4. CASE c \in RcclSet(F)
  BY <1>1, <1>2, <1>4 DEF RcclSet, OnDevice, Measure
<1>5. CASE c \in SplitSet(j, F)
  BY <1>1, <1>5 DEF SplitSet, OnDevice, Measure
<1>6. CASE c \in CraySet(F)
  BY <1>1, <1>6 DEF CraySet, Cray, Measure
<1>7. CASE c \in TestSet(F)
  BY <1>1, <1>7 DEF TestSet, Measure
<1> QED
  BY <1>3, <1>4, <1>5, <1>6, <1>7 DEF LaunchSet

-----------------------------------------------------------------------------
(***************************************************************************)
(* What the plans have to be like, in parts that can be put together.      *)
(***************************************************************************)
HasHeader(p) ==
  \A i \in DOMAIN p : p[i].op = "launch" =>
    \E h \in DOMAIN p : h < i /\ p[h].op = "header" /\ p[h].file = p[i].file

KeepsRows(p) ==
  \A i, k \in DOMAIN p :
    i < k /\ p[i].op = "launch" /\ p[k].op = "header" /\ ~p[k].append => p[i].file # p[k].file

Appends(p) == \A i \in DOMAIN p : p[i].op = "header" => p[i].append

Part(j, F) == {p \in Seq(CommandSet(j, F)) : HasHeader(p) /\ KeepsRows(p)}

\* The elements of a sequence put together of two.
LEMMA Concat ==
  ASSUME NEW S, NEW p \in Seq(S), NEW q \in Seq(S)
  PROVE  /\ p \o q \in Seq(S)
         /\ Len(p) \in Nat /\ Len(q) \in Nat /\ Len(p \o q) = Len(p) + Len(q)
         /\ DOMAIN p = 1 .. Len(p) /\ DOMAIN q = 1 .. Len(q)
         /\ DOMAIN (p \o q) = 1 .. Len(p) + Len(q)
         /\ \A i \in 1 .. Len(p) : (p \o q)[i] = p[i]
         /\ \A i \in 1 .. Len(q) : (p \o q)[Len(p) + i] = q[i]
         /\ \A i \in DOMAIN (p \o q) : i \in DOMAIN p \/ i - Len(p) \in DOMAIN q
  OBVIOUS

LEMMA Join ==
  ASSUME NEW S, NEW p \in Seq(S), NEW q \in Seq(S),
         HasHeader(p), HasHeader(q), KeepsRows(p), KeepsRows(q),
         \/ Appends(q)
         \/ \A i \in DOMAIN p, k \in DOMAIN q :
              p[i].op = "launch" /\ q[k].op = "header" => p[i].file # q[k].file
  PROVE  HasHeader(p \o q) /\ KeepsRows(p \o q)
<1> DEFINE n == Len(p)
           r == p \o q
<1>1. /\ n \in Nat /\ Len(q) \in Nat
      /\ DOMAIN p = 1 .. n /\ DOMAIN q = 1 .. Len(q) /\ DOMAIN r = 1 .. n + Len(q)
      /\ \A i \in 1 .. n : r[i] = p[i]
      /\ \A i \in 1 .. Len(q) : r[n + i] = q[i]
  BY Concat
<1> HIDE DEF n, r
<1>2. ASSUME NEW i \in DOMAIN r, i > n
      PROVE  i - n \in DOMAIN q /\ r[i] = q[i - n]
  <2>1. i - n \in 1 .. Len(q) /\ n + (i - n) = i
    BY <1>1, <1>2
  <2> QED
    BY <1>1, <2>1
<1>3. \A i \in DOMAIN r : i \in Int /\ (i <= n => i \in DOMAIN p /\ r[i] = p[i])
  BY <1>1
<1>4. ASSUME NEW i \in DOMAIN r, r[i].op = "launch"
      PROVE  \E h \in DOMAIN r : h < i /\ r[h].op = "header" /\ r[h].file = r[i].file
  <2>1. CASE i <= n
    <3>1. PICK h \in DOMAIN p : h < i /\ p[h].op = "header" /\ p[h].file = p[i].file
      BY <1>3, <1>4, <2>1 DEF HasHeader
    <3>2. h \in DOMAIN r /\ r[h] = p[h] /\ r[i] = p[i]
      BY <1>1, <1>3, <2>1, <3>1
    <3> QED
      BY <3>1, <3>2
  <2>2. CASE i > n
    <3>1. r[i] = q[i - n] /\ i - n \in DOMAIN q
      BY <1>2, <2>2
    <3>2. PICK h \in DOMAIN q : h < i - n /\ q[h].op = "header" /\ q[h].file = q[i - n].file
      BY <1>4, <3>1 DEF HasHeader
    <3>3. n + h \in DOMAIN r /\ r[n + h] = q[h] /\ n + h < i
      BY <1>1, <1>3, <3>2
    <3> QED
      BY <3>1, <3>2, <3>3
  <2> QED
    BY <1>1, <1>3, <2>1, <2>2
<1>5. ASSUME NEW i \in DOMAIN r, NEW k \in DOMAIN r, i < k,
             r[i].op = "launch", r[k].op = "header", ~r[k].append
      PROVE  r[i].file # r[k].file
  <2>1. CASE k <= n
    <3>1. i <= n
      BY <1>1, <1>3, <1>5, <2>1
    <3>2. r[i] = p[i] /\ r[k] = p[k] /\ i \in DOMAIN p /\ k \in DOMAIN p
      BY <1>3, <2>1, <3>1
    <3> QED
      BY <1>5, <3>2 DEF KeepsRows
  <2>2. CASE k > n /\ i > n
    <3>1. r[i] = q[i - n] /\ r[k] = q[k - n] /\ i - n \in DOMAIN q /\ k - n \in DOMAIN q
      BY <1>2, <2>2
    <3>2. i - n < k - n
      BY <1>1, <1>3, <1>5
    <3> QED
      BY <1>5, <3>1, <3>2 DEF KeepsRows
  <2>3. CASE k > n /\ i <= n
    <3>1. r[i] = p[i] /\ r[k] = q[k - n] /\ i \in DOMAIN p /\ k - n \in DOMAIN q
      BY <1>2, <1>3, <2>3
    <3>2. ~Appends(q)
      BY <1>5, <3>1 DEF Appends
    <3> QED
      BY <1>5, <3>1, <3>2
  <2> QED
    BY <1>1, <1>3, <2>1, <2>2, <2>3
<1> QED
  BY <1>4, <1>5 DEF HasHeader, KeepsRows, r

LEMMA CommandsGrow ==
  ASSUME NEW j, NEW F, NEW G, F \subseteq G
  PROVE  Seq(CommandSet(j, F)) \subseteq Seq(CommandSet(j, G))
<1>1. ASSUME NEW c \in CommandSet(j, F)
      PROVE  c \in CommandSet(j, G)
  <2>1. HeaderSet(F) \subseteq HeaderSet(G)
    BY DEF HeaderSet
  <2>2. PlainSet(F) \subseteq PlainSet(G)
    BY DEF PlainSet
  <2>3. RcclSet(F) \subseteq RcclSet(G)
    BY DEF RcclSet
  <2>4. SplitSet(j, F) \subseteq SplitSet(j, G)
    BY DEF SplitSet
  <2>5. CraySet(F) \subseteq CraySet(G)
    BY DEF CraySet
  <2>6. TestSet(F) \subseteq TestSet(G)
    BY DEF TestSet
  <2> QED
    BY <1>1, <2>1, <2>2, <2>3, <2>4, <2>5, <2>6 DEF CommandSet, LaunchSet
<1>2. CommandSet(j, F) \subseteq CommandSet(j, G)
  BY <1>1
<1> HIDE DEF CommandSet
<1> QED
  BY <1>2, SeqMonotonic

\* Parts that write to different files, or of which the second appends.
LEMMA JoinParts ==
  ASSUME NEW j, NEW F, NEW G, NEW p \in Part(j, F), NEW q \in Part(j, G),
         F \cap G = {} \/ Appends(q)
  PROVE  p \o q \in Part(j, F \cup G)
<1> DEFINE S == CommandSet(j, F \cup G)
<1>1. /\ p \in Seq(CommandSet(j, F)) /\ HasHeader(p) /\ KeepsRows(p)
      /\ q \in Seq(CommandSet(j, G)) /\ HasHeader(q) /\ KeepsRows(q)
  BY DEF Part
<1>2. p \in Seq(S) /\ q \in Seq(S)
  <2>1. F \subseteq F \cup G /\ G \subseteq F \cup G
    OBVIOUS
  <2> HIDE DEF S
  <2> QED
    BY <1>1, <2>1, CommandsGrow DEF S
<1>3. ASSUME NEW i \in DOMAIN p, NEW k \in DOMAIN q, p[i].op = "launch", q[k].op = "header"
      PROVE  p[i].file \in F /\ q[k].file \in G
  <2>1. p[i] \in CommandSet(j, F) /\ q[k] \in CommandSet(j, G)
    BY <1>1
  <2> QED
    BY <1>3, <2>1, CommandOps
<1>4. HasHeader(p \o q) /\ KeepsRows(p \o q)
  <2> HIDE DEF S
  <2>1. CASE Appends(q)
    BY <1>1, <1>2, <2>1, Join
  <2>2. CASE F \cap G = {}
    <3>1. \A i \in DOMAIN p, k \in DOMAIN q :
            p[i].op = "launch" /\ q[k].op = "header" => p[i].file # q[k].file
      BY <1>3, <2>2
    <3> QED
      BY <1>1, <1>2, <3>1, Join
  <2> QED
    BY <2>1, <2>2
<1>5. p \o q \in Seq(S)
  BY <1>2
<1> QED
  BY <1>4, <1>5 DEF Part

(***************************************************************************)
(* The modules a command finds: those of the last load that resets, base,  *)
(* and the network plugin if that is loaded after it.                      *)
(***************************************************************************)
Before(p, i, base, plugged) ==
  \E b \in DOMAIN p :
    /\ b < i /\ p[b] = Load(base)
    /\ \A c \in DOMAIN p : b < c /\ c < i /\ p[c].op = "load" => p[c] = Load("plugin")
    /\ plugged <=> \E c \in DOMAIN p : b < c /\ c < i /\ p[c].op = "load"

InContext(p, base, plugged) == Before(p, Len(p) + 1, base, plugged)

\* What a launch asks of them.
Fits(launch, base, plugged) ==
  /\ launch.program = "osu_cray" <=> base = "cray"
  /\ MayUseRccl(launch) => plugged
  /\ launch.file \in Baselines => ~plugged

SetUpAt(p, i) ==
  \E base \in {"mine", "cray"}, plugged \in BOOLEAN :
    Fits(p[i], base, plugged) /\ Before(p, i, base, plugged)

SetUp(p) == \A i \in DOMAIN p : p[i].op = "launch" => SetUpAt(p, i)

NoLoads(p) == \A i \in DOMAIN p : p[i].op # "load"
Suits(p, base, plugged) == \A i \in DOMAIN p : p[i].op = "launch" => Fits(p[i], base, plugged)

LEMMA BeforePrefix ==
  ASSUME NEW S, NEW p \in Seq(S), NEW q \in Seq(S), NEW i \in 1 .. Len(p) + 1,
         NEW base, NEW plugged, Before(p, i, base, plugged)
  PROVE  Before(p \o q, i, base, plugged)
<1> DEFINE n == Len(p)
           r == p \o q
<1>1. /\ n \in Nat /\ Len(q) \in Nat
      /\ DOMAIN p = 1 .. n /\ DOMAIN r = 1 .. n + Len(q)
      /\ \A c \in 1 .. n : r[c] = p[c]
  BY Concat
<1>2. PICK b \in DOMAIN p :
        /\ b < i /\ p[b] = Load(base)
        /\ \A c \in DOMAIN p : b < c /\ c < i /\ p[c].op = "load" => p[c] = Load("plugin")
        /\ plugged <=> \E c \in DOMAIN p : b < c /\ c < i /\ p[c].op = "load"
  BY DEF Before
<1> HIDE DEF n, r
<1>3. i \in 1 .. n + 1
  BY DEF n
<1>4. \A c \in DOMAIN r : c < i => c \in DOMAIN p /\ r[c] = p[c]
  BY <1>1, <1>3
<1>5. \A c \in DOMAIN p : c \in DOMAIN r /\ r[c] = p[c]
  BY <1>1
<1>6. b \in DOMAIN r /\ b < i /\ r[b] = Load(base)
  BY <1>2, <1>5
<1>7. \A c \in DOMAIN r : b < c /\ c < i /\ r[c].op = "load" => r[c] = Load("plugin")
  BY <1>2, <1>4
<1>8. (\E c \in DOMAIN r : b < c /\ c < i /\ r[c].op = "load")
        <=> \E c \in DOMAIN p : b < c /\ c < i /\ p[c].op = "load"
  BY <1>4, <1>5
<1> QED
  BY <1>2, <1>6, <1>7, <1>8 DEF Before, r

LEMMA BeforeQuiet ==
  ASSUME NEW S, NEW p \in Seq(S), NEW q \in Seq(S), NoLoads(q),
         NEW base, NEW plugged, InContext(p, base, plugged),
         NEW i \in Len(p) + 1 .. Len(p) + Len(q) + 1
  PROVE  Before(p \o q, i, base, plugged)
<1> DEFINE n == Len(p)
           r == p \o q
<1>1. /\ n \in Nat /\ Len(q) \in Nat
      /\ DOMAIN p = 1 .. n /\ DOMAIN q = 1 .. Len(q) /\ DOMAIN r = 1 .. n + Len(q)
      /\ \A c \in 1 .. n : r[c] = p[c]
      /\ \A c \in 1 .. Len(q) : r[n + c] = q[c]
  BY Concat
<1>2. PICK b \in DOMAIN p :
        /\ b < n + 1 /\ p[b] = Load(base)
        /\ \A c \in DOMAIN p : b < c /\ c < n + 1 /\ p[c].op = "load" => p[c] = Load("plugin")
        /\ plugged <=> \E c \in DOMAIN p : b < c /\ c < n + 1 /\ p[c].op = "load"
  BY DEF Before, InContext
<1> HIDE DEF n, r
<1>3. i \in Int /\ i > n
  BY <1>1 DEF n
<1>4. ASSUME NEW c \in DOMAIN r, r[c].op = "load"
      PROVE  c \in DOMAIN p /\ r[c] = p[c] /\ c < n + 1
  <2>1. CASE c <= n
    BY <1>1, <2>1
  <2>2. CASE c > n
    <3>1. c - n \in 1 .. Len(q) /\ n + (c - n) = c
      BY <1>1, <2>2
    <3>2. r[c] = q[c - n] /\ c - n \in DOMAIN q
      BY <1>1, <3>1
    <3> QED
      BY <1>4, <3>2 DEF NoLoads
  <2> QED
    BY <1>1, <2>1, <2>2
<1>5. \A c \in DOMAIN p : c \in DOMAIN r /\ r[c] = p[c] /\ c < i /\ c < n + 1
  BY <1>1, <1>3
<1>6. b \in DOMAIN r /\ b < i /\ r[b] = Load(base)
  BY <1>2, <1>5
<1>7. \A c \in DOMAIN r : b < c /\ c < i /\ r[c].op = "load" => r[c] = Load("plugin")
  BY <1>2, <1>4
<1>8. (\E c \in DOMAIN r : b < c /\ c < i /\ r[c].op = "load")
        <=> \E c \in DOMAIN p : b < c /\ c < n + 1 /\ p[c].op = "load"
  BY <1>4, <1>5
<1> QED
  BY <1>2, <1>6, <1>7, <1>8 DEF Before, r

\* A part that loads nothing, after one that leaves the modules it needs.
LEMMA SetUpBlock ==
  ASSUME NEW S, NEW p \in Seq(S), NEW q \in Seq(S), NoLoads(q), SetUp(p),
         NEW base \in {"mine", "cray"}, NEW plugged \in BOOLEAN,
         InContext(p, base, plugged), Suits(q, base, plugged)
  PROVE  SetUp(p \o q) /\ InContext(p \o q, base, plugged)
<1> DEFINE n == Len(p)
           r == p \o q
<1>1. /\ n \in Nat /\ Len(q) \in Nat /\ Len(r) = n + Len(q)
      /\ DOMAIN p = 1 .. n /\ DOMAIN q = 1 .. Len(q) /\ DOMAIN r = 1 .. n + Len(q)
      /\ \A c \in 1 .. n : r[c] = p[c]
      /\ \A c \in 1 .. Len(q) : r[n + c] = q[c]
  BY Concat
<1>2. \A i \in n + 1 .. n + Len(q) + 1 : Before(r, i, base, plugged)
  BY BeforeQuiet
<1>3. ASSUME NEW i \in DOMAIN p, SetUpAt(p, i)
      PROVE  SetUpAt(r, i)
  <2>1. PICK b \in {"mine", "cray"}, g \in BOOLEAN : Fits(p[i], b, g) /\ Before(p, i, b, g)
    BY <1>3 DEF SetUpAt
  <2>2. i \in 1 .. Len(p) + 1
    BY <1>1
  <2>3. Before(r, i, b, g)
    BY <2>1, <2>2, BeforePrefix
  <2>4. r[i] = p[i]
    BY <1>1
  <2> HIDE DEF r
  <2> QED
    BY <2>1, <2>3, <2>4 DEF SetUpAt
<1> HIDE DEF n, r
<1>4. ASSUME NEW i \in DOMAIN r, r[i].op = "launch"
      PROVE  SetUpAt(r, i)
  <2>1. CASE i <= n
    <3>1. i \in DOMAIN p /\ r[i] = p[i]
      BY <1>1, <2>1
    <3>2. SetUpAt(p, i)
      BY <1>4, <3>1 DEF SetUp
    <3> QED
      BY <1>3, <3>1, <3>2
  <2>2. CASE i > n
    <3>1. i - n \in 1 .. Len(q) /\ n + (i - n) = i /\ i \in n + 1 .. n + Len(q) + 1
      BY <1>1, <2>2
    <3>2. r[i] = q[i - n] /\ i - n \in DOMAIN q
      BY <1>1, <3>1
    <3>3. Fits(r[i], base, plugged)
      BY <1>4, <3>2 DEF Suits
    <3>4. Before(r, i, base, plugged)
      BY <1>2, <3>1
    <3> QED
      BY <3>3, <3>4 DEF SetUpAt
  <2> QED
    BY <1>1, <2>1, <2>2
<1>5. InContext(r, base, plugged)
  <2>1. n + Len(q) + 1 \in n + 1 .. n + Len(q) + 1
    BY <1>1
  <2> QED
    BY <1>1, <1>2, <2>1 DEF InContext
<1> QED
  BY <1>4, <1>5 DEF SetUp, r

LEMMA SetUpPrefix ==
  ASSUME NEW S, NEW p \in Seq(S), NEW q \in Seq(S), SetUp(p),
         \A i \in DOMAIN q : q[i].op # "launch"
  PROVE  SetUp(p \o q)
<1> DEFINE n == Len(p)
           r == p \o q
<1>1. /\ n \in Nat /\ Len(q) \in Nat
      /\ DOMAIN p = 1 .. n /\ DOMAIN q = 1 .. Len(q) /\ DOMAIN r = 1 .. n + Len(q)
      /\ \A c \in 1 .. n : r[c] = p[c]
      /\ \A c \in 1 .. Len(q) : r[n + c] = q[c]
  BY Concat
<1>2. ASSUME NEW i \in DOMAIN r, r[i].op = "launch"
      PROVE  SetUpAt(r, i)
  <2> HIDE DEF n, r
  <2>1. CASE i > n
    <3>1. i - n \in 1 .. Len(q) /\ n + (i - n) = i
      BY <1>1, <2>1
    <3>2. r[i] = q[i - n] /\ i - n \in DOMAIN q
      BY <1>1, <3>1
    <3> QED
      BY <1>2, <3>2
  <2>2. CASE i <= n
    <3>1. i \in DOMAIN p /\ r[i] = p[i] /\ i \in 1 .. n + 1
      BY <1>1, <2>2
    <3>2. SetUpAt(p, i)
      BY <1>2, <3>1 DEF SetUp
    <3>3. PICK b \in {"mine", "cray"}, g \in BOOLEAN : Fits(p[i], b, g) /\ Before(p, i, b, g)
      BY <3>2 DEF SetUpAt
    <3>4. Before(r, i, b, g)
      BY <3>1, <3>3, BeforePrefix DEF r, n
    <3> QED
      BY <3>1, <3>3, <3>4 DEF SetUpAt
  <2> QED
    BY <1>1, <2>1, <2>2
<1> QED
  BY <1>2 DEF SetUp

LEMMA ContextOfLoad ==
  ASSUME NEW S, NEW p \in Seq(S), NEW what, Load(what) \in S
  PROVE  InContext(p \o <<Load(what)>>, what, FALSE)
<1> DEFINE n == Len(p)
           r == p \o <<Load(what)>>
<1>1. /\ n \in Nat /\ Len(r) = n + 1 /\ DOMAIN r = 1 .. n + 1 /\ r[n + 1] = Load(what)
  OBVIOUS
<1> HIDE DEF n, r
<1>2. n + 1 \in DOMAIN r /\ n + 1 < Len(r) + 1
  BY <1>1
<1>3. \A c \in DOMAIN r : ~(n + 1 < c)
  BY <1>1
<1> QED
  BY <1>1, <1>2, <1>3 DEF InContext, Before, r

LEMMA ContextOfPlugin ==
  ASSUME NEW S, NEW p \in Seq(S), Load("plugin") \in S, NEW base, InContext(p, base, FALSE)
  PROVE  InContext(p \o <<Load("plugin")>>, base, TRUE)
<1> DEFINE n == Len(p)
           r == p \o <<Load("plugin")>>
<1>1. /\ n \in Nat /\ Len(r) = n + 1 /\ DOMAIN r = 1 .. n + 1 /\ r[n + 1] = Load("plugin")
      /\ DOMAIN p = 1 .. n /\ \A c \in 1 .. n : r[c] = p[c]
  OBVIOUS
<1>2. PICK b \in DOMAIN p :
        /\ p[b] = Load(base)
        /\ \A c \in DOMAIN p : b < c /\ c < n + 1 /\ p[c].op = "load" => p[c] = Load("plugin")
  BY DEF InContext, Before
<1> HIDE DEF n, r
<1>3. b \in DOMAIN r /\ r[b] = Load(base) /\ b < n + 1 /\ b < n + 1 + 1
  BY <1>1, <1>2
<1>4. ASSUME NEW c \in DOMAIN r, b < c, r[c].op = "load"
      PROVE  r[c] = Load("plugin")
  <2>1. CASE c = n + 1
    BY <1>1, <2>1
  <2>2. CASE c # n + 1
    <3>1. c \in DOMAIN p /\ c < n + 1 /\ r[c] = p[c]
      BY <1>1, <2>2
    <3> QED
      BY <1>2, <1>4, <3>1
  <2> QED
    BY <2>1, <2>2
<1>5. \E c \in DOMAIN r : b < c /\ c < n + 1 + 1 /\ r[c].op = "load"
  <2>1. n + 1 \in DOMAIN r /\ n + 1 < n + 1 + 1 /\ r[n + 1].op = "load"
    BY <1>1 DEF Load
  <2> QED
    BY <1>3, <2>1
<1>6. Before(r, n + 1 + 1, base, TRUE)
  BY <1>3, <1>4, <1>5 DEF Before
<1> QED
  BY <1>1, <1>6 DEF InContext, r

-----------------------------------------------------------------------------
(***************************************************************************)
(* A plan grows by loads and by blocks of launches that suit them.         *)
(***************************************************************************)
Settled(j, F) == {p \in Part(j, F) : SetUp(p)}
Stage(j, F, base, plugged) == {p \in Settled(j, F) : InContext(p, base, plugged)}
Block(j, F, base, plugged) == {p \in Part(j, F) : NoLoads(p) /\ Suits(p, base, plugged)}

LEMMA NothingSettled == ASSUME NEW j PROVE <<>> \in Settled(j, {})
BY DEF Settled, Part, HasHeader, KeepsRows, SetUp

LEMMA LoadIsPart ==
  ASSUME NEW j, NEW what \in {"mine", "cray", "plugin"}
  PROVE  /\ <<Load(what)>> \in Part(j, {}) /\ Appends(<<Load(what)>>)
         /\ \A F : Load(what) \in CommandSet(j, F)
         /\ \A i \in DOMAIN <<Load(what)>> : <<Load(what)>>[i].op # "launch"
<1> DEFINE q == <<Load(what)>>
<1>1. \A F : Load(what) \in CommandSet(j, F)
  BY DEF CommandSet, LoadSet
<1>2. Load(what) \in CommandSet(j, {})
  BY <1>1
<1>3. q \in Seq(CommandSet(j, {}))
  BY <1>2
<1>4. \A i \in DOMAIN q : q[i].op = "load"
  BY DEF Load
<1> HIDE DEF q
<1>5. HasHeader(q) /\ KeepsRows(q) /\ Appends(q)
  BY <1>4 DEF HasHeader, KeepsRows, Appends
<1> QED
  BY <1>1, <1>3, <1>4, <1>5 DEF Part, q

LEMMA StageLoad ==
  ASSUME NEW j, NEW F, NEW p \in Settled(j, F), NEW what \in {"mine", "cray"}
  PROVE  p \o <<Load(what)>> \in Stage(j, F, what, FALSE)
<1> DEFINE q == <<Load(what)>>
<1>1. p \in Part(j, F) /\ SetUp(p) /\ p \in Seq(CommandSet(j, F))
  BY DEF Settled, Part
<1>2. /\ q \in Part(j, {}) /\ Appends(q) /\ \A i \in DOMAIN q : q[i].op # "launch"
      /\ Load(what) \in CommandSet(j, F)
  BY LoadIsPart
<1>3. q \in Seq(CommandSet(j, F))
  BY <1>2
<1>4. InContext(p \o q, what, FALSE)
  BY <1>1, <1>2, ContextOfLoad
<1> HIDE DEF q
<1>5. p \o q \in Part(j, F \cup {})
  BY <1>1, <1>2, JoinParts
<1>6. SetUp(p \o q)
  BY <1>1, <1>2, <1>3, SetUpPrefix
<1> QED
  BY <1>4, <1>5, <1>6 DEF Stage, Settled, q

LEMMA StagePlugin ==
  ASSUME NEW j, NEW F, NEW base, NEW p \in Stage(j, F, base, FALSE)
  PROVE  p \o <<Load("plugin")>> \in Stage(j, F, base, TRUE)
<1> DEFINE q == <<Load("plugin")>>
<1>1. /\ p \in Part(j, F) /\ SetUp(p) /\ p \in Seq(CommandSet(j, F))
      /\ InContext(p, base, FALSE)
  BY DEF Stage, Settled, Part
<1>2. /\ q \in Part(j, {}) /\ Appends(q) /\ \A i \in DOMAIN q : q[i].op # "launch"
      /\ Load("plugin") \in CommandSet(j, F)
  BY LoadIsPart
<1>3. q \in Seq(CommandSet(j, F))
  BY <1>2
<1>4. InContext(p \o q, base, TRUE)
  BY <1>1, <1>2, ContextOfPlugin
<1> HIDE DEF q
<1>5. p \o q \in Part(j, F \cup {})
  BY <1>1, <1>2, JoinParts
<1>6. SetUp(p \o q)
  BY <1>1, <1>2, <1>3, SetUpPrefix
<1> QED
  BY <1>4, <1>5, <1>6 DEF Stage, Settled, q

LEMMA StageRccl ==
  ASSUME NEW j, NEW F, NEW p \in Settled(j, F)
  PROVE  p \o UseRccl \in Stage(j, F, "mine", TRUE)
<1>1. (p \o <<Load("mine")>>) \o <<Load("plugin")>> \in Stage(j, F, "mine", TRUE)
  BY StageLoad, StagePlugin
<1>2. UseRccl = <<Load("mine")>> \o <<Load("plugin")>>
  BY DEF UseRccl
<1>3. /\ p \in Seq(CommandSet(j, F))
      /\ <<Load("mine")>> \in Seq(CommandSet(j, F))
      /\ <<Load("plugin")>> \in Seq(CommandSet(j, F))
  <2>1. Load("mine") \in CommandSet(j, F) /\ Load("plugin") \in CommandSet(j, F)
    BY LoadIsPart
  <2> QED
    BY <2>1 DEF Settled, Part
<1>4. p \o (<<Load("mine")>> \o <<Load("plugin")>>)
        = (p \o <<Load("mine")>>) \o <<Load("plugin")>>
  BY <1>3, ConcatAssociative
<1> QED
  BY <1>1, <1>2, <1>4

LEMMA StageBlock ==
  ASSUME NEW j, NEW F, NEW G, NEW base \in {"mine", "cray"}, NEW plugged \in BOOLEAN,
         NEW p \in Stage(j, F, base, plugged), NEW q \in Block(j, G, base, plugged),
         F \cap G = {} \/ Appends(q)
  PROVE  p \o q \in Stage(j, F \cup G, base, plugged)
<1>1. /\ p \in Part(j, F) /\ SetUp(p) /\ p \in Seq(CommandSet(j, F))
      /\ InContext(p, base, plugged)
  BY DEF Stage, Settled, Part
<1>2. /\ q \in Part(j, G) /\ NoLoads(q) /\ Suits(q, base, plugged)
      /\ q \in Seq(CommandSet(j, G))
  BY DEF Block, Part
<1>3. p \o q \in Part(j, F \cup G)
  BY <1>1, <1>2, JoinParts
<1>4. p \in Seq(CommandSet(j, F \cup G)) /\ q \in Seq(CommandSet(j, F \cup G))
  <2>1. F \subseteq F \cup G /\ G \subseteq F \cup G
    OBVIOUS
  <2> QED
    BY <1>1, <1>2, <2>1, CommandsGrow
<1>5. SetUp(p \o q) /\ InContext(p \o q, base, plugged)
  BY <1>1, <1>2, <1>4, SetUpBlock
<1> QED
  BY <1>3, <1>5 DEF Stage, Settled

LEMMA BlockJoin ==
  ASSUME NEW j, NEW F, NEW G, NEW base, NEW plugged,
         NEW p \in Block(j, F, base, plugged), NEW q \in Block(j, G, base, plugged),
         F \cap G = {} \/ Appends(q)
  PROVE  /\ p \o q \in Block(j, F \cup G, base, plugged)
         /\ Appends(p) /\ Appends(q) => Appends(p \o q)
<1> DEFINE S == CommandSet(j, F \cup G)
<1>1. /\ p \in Part(j, F) /\ NoLoads(p) /\ Suits(p, base, plugged)
      /\ q \in Part(j, G) /\ NoLoads(q) /\ Suits(q, base, plugged)
      /\ p \in Seq(CommandSet(j, F)) /\ q \in Seq(CommandSet(j, G))
  BY DEF Block, Part
<1>2. p \o q \in Part(j, F \cup G)
  BY <1>1, JoinParts
<1>3. p \in Seq(S) /\ q \in Seq(S)
  <2>1. F \subseteq F \cup G /\ G \subseteq F \cup G
    OBVIOUS
  <2> QED
    BY <1>1, <2>1, CommandsGrow
<1> HIDE DEF S
<1>4. ASSUME NEW i \in DOMAIN (p \o q)
      PROVE  \/ i \in DOMAIN p /\ (p \o q)[i] = p[i]
             \/ i - Len(p) \in DOMAIN q /\ (p \o q)[i] = q[i - Len(p)]
  <2>1. /\ Len(p) \in Nat /\ Len(q) \in Nat
        /\ DOMAIN p = 1 .. Len(p) /\ DOMAIN q = 1 .. Len(q)
        /\ DOMAIN (p \o q) = 1 .. Len(p) + Len(q)
        /\ \A k \in 1 .. Len(p) : (p \o q)[k] = p[k]
        /\ \A k \in 1 .. Len(q) : (p \o q)[Len(p) + k] = q[k]
    BY <1>3, Concat
  <2>2. CASE i > Len(p)
    <3>1. i - Len(p) \in 1 .. Len(q) /\ Len(p) + (i - Len(p)) = i
      BY <2>1, <2>2
    <3> QED
      BY <2>1, <3>1
  <2> QED
    BY <2>1, <2>2
<1>5. NoLoads(p \o q)
  BY <1>1, <1>4 DEF NoLoads
<1>6. Suits(p \o q, base, plugged)
  BY <1>1, <1>4 DEF Suits
<1>7. Appends(p) /\ Appends(q) => Appends(p \o q)
  BY <1>4 DEF Appends
<1> QED
  BY <1>2, <1>5, <1>6, <1>7 DEF Block

\* A launch below the header of its file.
LEMMA BlockOfLaunch ==
  ASSUME NEW j, NEW f, NEW c \in LaunchSet(j, {f}), NEW base, NEW plugged,
         Fits(c, base, plugged)
  PROVE  /\ <<New(f), c>> \in Block(j, {f}, base, plugged)
         /\ <<Mark(f), c>> \in Block(j, {f}, base, plugged) /\ Appends(<<Mark(f), c>>)
<1>1. c.op = "launch" /\ c.file = f
  BY LaunchKinds
<1>2. ASSUME NEW h \in HeaderSet({f}), h.op = "header", h.file = f
      PROVE  <<h, c>> \in Block(j, {f}, base, plugged) /\ (h.append => Appends(<<h, c>>))
  <2> DEFINE q == <<h, c>>
  <2>1. h \in CommandSet(j, {f}) /\ c \in CommandSet(j, {f})
    BY DEF CommandSet
  <2>2. q \in Seq(CommandSet(j, {f}))
    BY <2>1
  <2>3. DOMAIN q = {1, 2} /\ q[1] = h /\ q[2] = c
    OBVIOUS
  <2> HIDE DEF q
  <2>4. HasHeader(q)
    BY <1>1, <1>2, <2>3 DEF HasHeader
  <2>5. KeepsRows(q)
    BY <1>1, <1>2, <2>3 DEF KeepsRows
  <2>6. NoLoads(q)
    BY <1>1, <1>2, <2>3 DEF NoLoads
  <2>7. Suits(q, base, plugged)
    BY <1>1, <1>2, <2>3 DEF Suits
  <2>8. h.append => Appends(q)
    BY <1>1, <2>3 DEF Appends
  <2> QED
    BY <2>2, <2>4, <2>5, <2>6, <2>7, <2>8 DEF Block, Part, q
<1>3. New(f) \in HeaderSet({f}) /\ New(f).op = "header" /\ New(f).file = f
  BY DEF HeaderSet, New
<1>4. Mark(f) \in HeaderSet({f}) /\ Mark(f).op = "header" /\ Mark(f).file = f /\ Mark(f).append
  BY DEF HeaderSet, Mark
<1> QED
  BY <1>2, <1>3, <1>4

LEMMA NothingIsBlock ==
  ASSUME NEW j, NEW base, NEW plugged
  PROVE  <<>> \in Block(j, {}, base, plugged) /\ Appends(<<>>)
BY DEF Block, Part, HasHeader, KeepsRows, NoLoads, Suits, Appends

LEMMA HeaderIsBlock ==
  ASSUME NEW j, NEW f, NEW base, NEW plugged
  PROVE  <<New(f)>> \in Block(j, {f}, base, plugged)
<1> DEFINE q == <<New(f)>>
<1>1. New(f) \in CommandSet(j, {f}) /\ New(f).op = "header"
  BY DEF CommandSet, HeaderSet, New
<1>2. q \in Seq(CommandSet(j, {f}))
  BY <1>1
<1>3. DOMAIN q = {1} /\ q[1] = New(f)
  OBVIOUS
<1> HIDE DEF q
<1>4. HasHeader(q) /\ KeepsRows(q) /\ NoLoads(q) /\ Suits(q, base, plugged)
  BY <1>1, <1>3 DEF HasHeader, KeepsRows, NoLoads, Suits
<1> QED
  BY <1>2, <1>4 DEF Block, Part, q

\* One launch after the other into the same file.
Marked(f, c, n) == [i \in 1 .. n |-> <<Mark(f), c[i]>>]

LEMMA FlattenedBlock ==
  ASSUME NEW j, NEW f, NEW base, NEW plugged, NEW n \in Nat, NEW c,
         \A i \in 1 .. n : c[i] \in LaunchSet(j, {f}) /\ Fits(c[i], base, plugged)
  PROVE  /\ FlattenSeq(Marked(f, c, n)) \in Block(j, {f}, base, plugged)
         /\ Appends(FlattenSeq(Marked(f, c, n)))
<1> DEFINE ss == [i \in 1 .. n |-> <<Mark(f), c[i]>>]
           B == {p \in Block(j, {f}, base, plugged) : Appends(p)}
           U == CommandSet(j, {f})
           G == [i \in 0 .. n |-> B]
<1>1. ASSUME NEW i \in 1 .. n PROVE ss[i] \in B
  BY BlockOfLaunch
<1>2. B \subseteq Seq(U)
  BY DEF Block, Part
<1>3. ASSUME NEW p \in B, NEW q \in B PROVE p \o q \in B
  <2>1. {f} \cup {f} = {f}
    OBVIOUS
  <2> QED
    BY <2>1, BlockJoin
<1>4. <<>> \in B
  <2>1. <<>> \in Seq(U)
    OBVIOUS
  <2> QED
    BY <2>1 DEF Block, Part, HasHeader, KeepsRows, NoLoads, Suits, Appends
<1> HIDE DEF B, U
<1>5. ss \in Seq(Seq(U)) /\ Len(ss) = n
  <2>1. \A i \in 1 .. n : <<Mark(f), c[i]>> \in Seq(U)
    BY <1>1, <1>2
  <2>2. ss \in Seq(Seq(U))
    BY <2>1, IsASeq
  <2>3. ss \in [1 .. n -> Seq(U)]
    BY <2>1
  <2> QED
    BY <2>2, <2>3, LenProperties
<1>6. <<>> \in G[0]
  BY <1>4
<1>7. \A k \in 1 .. n : \A p \in Seq(U) : p \in G[k - 1] => p \o ss[k] \in G[k]
  <2>1. ASSUME NEW k \in 1 .. n, NEW p \in G[k - 1] PROVE p \o ss[k] \in G[k]
    <3>1. k - 1 \in 0 .. n /\ k \in 0 .. n
      OBVIOUS
    <3>2. p \in B /\ ss[k] \in B
      BY <1>1, <3>1
    <3> HIDE DEF ss
    <3>3. p \o ss[k] \in B
      BY <1>3, <3>2
    <3> QED
      BY <3>1, <3>3
  <2> QED
    BY <2>1
<1> HIDE DEF ss, G
<1>8. FlattenSeq(ss) \in G[n]
  BY <1>5, <1>6, <1>7, Flattened
<1>9. FlattenSeq(ss) \in B
  BY <1>8 DEF G
<1> QED
  BY <1>9 DEF B, ss, Marked

-----------------------------------------------------------------------------
(***************************************************************************)
(* The sizes of a sweep are those of the ladder from lo to hi.             *)
(***************************************************************************)
LEMMA DownwardClosed ==
  ASSUME NEW n \in Nat, NEW I, I \subseteq 1 .. n,
         \A i \in I, k \in 1 .. n : k < i => k \in I
  PROVE  /\ Cardinality(I) \in 0 .. n
         /\ \A k \in 1 .. n : k \in I <=> k <= Cardinality(I)
<1> DEFINE Out == {k \in 1 .. n + 1 : k \notin I}
<1>1. Out \in SUBSET Nat /\ n + 1 \in Out
  OBVIOUS
<1>2. PICK m \in Out : \A k \in Out : m <= k
  <2> HIDE DEF Out
  <2>1. Out # {}
    BY <1>1
  <2> QED
    BY <1>1, <2>1, Least
<1>3. m \in 1 .. n + 1 /\ m \notin I
  BY <1>2
<1>4. ASSUME NEW k \in 1 .. n, k < m PROVE k \in I
  <2>1. k \in 1 .. n + 1 /\ ~(m <= k)
    BY <1>3, <1>4
  <2> QED
    BY <1>2, <2>1
<1>5. ASSUME NEW k \in I PROVE k < m
  <2>1. k \in 1 .. n /\ (m < k => m \in 1 .. n)
    BY <1>3
  <2> QED
    BY <1>3, <2>1
<1>6. I = 1 .. m - 1
  <2>1. ASSUME NEW k \in I PROVE k \in 1 .. m - 1
    BY <1>3, <1>5
  <2>2. ASSUME NEW k \in 1 .. m - 1 PROVE k \in I
    BY <1>3, <1>4
  <2> QED
    BY <2>1, <2>2
<1>7. Cardinality(I) = m - 1
  <2>1. 1 \in Int /\ m - 1 \in Int /\ m - 1 - 1 + 1 = m - 1 /\ (1 > m - 1 => m - 1 = 0)
    BY <1>3
  <2>2. Cardinality(1 .. m - 1) = IF 1 > m - 1 THEN 0 ELSE m - 1 - 1 + 1
    BY <2>1, FS_Interval
  <2> QED
    BY <1>6, <2>1, <2>2
<1> QED
  BY <1>3, <1>6, <1>7

LEMMA SweepSizes ==
  ASSUME NEW lo \in Nat, NEW hi \in Nat
  PROVE  /\ Sweep(lo, hi) \in Seq(lo .. hi)
         /\ \A i, k \in DOMAIN Sweep(lo, hi) : i < k => Sweep(lo, hi)[i] < Sweep(lo, hi)[k]
<1> DEFINE n == Len(Ladder)
           Below == {i \in DOMAIN Ladder : Ladder[i] < lo}
           Within == {i \in DOMAIN Ladder : Ladder[i] <= hi}
           a == Cardinality(Below)
           b == Cardinality(Within)
<1>1. /\ n \in Nat /\ DOMAIN Ladder = 1 .. n /\ \A i \in 1 .. n : Ladder[i] \in Nat
      /\ \A i, k \in 1 .. n : i < k => Ladder[i] < Ladder[k]
  BY LadderAscends
<1> HIDE DEF n
<1>2. a \in 0 .. n /\ \A k \in 1 .. n : k \in Below <=> k <= a
  <2>1. Below \subseteq 1 .. n
    BY <1>1
  <2>2. ASSUME NEW i \in Below, NEW k \in 1 .. n, k < i PROVE k \in Below
    <3>1. Ladder[k] < Ladder[i] /\ Ladder[i] < lo /\ Ladder[k] \in Nat /\ Ladder[i] \in Nat
      BY <1>1, <2>2
    <3> QED
      BY <1>1, <3>1
  <2> HIDE DEF Below
  <2> QED
    BY <1>1, <2>1, <2>2, DownwardClosed
<1>3. b \in 0 .. n /\ \A k \in 1 .. n : k \in Within <=> k <= b
  <2>1. Within \subseteq 1 .. n
    BY <1>1
  <2>2. ASSUME NEW i \in Within, NEW k \in 1 .. n, k < i PROVE k \in Within
    <3>1. Ladder[k] < Ladder[i] /\ Ladder[i] <= hi /\ Ladder[k] \in Nat /\ Ladder[i] \in Nat
      BY <1>1, <2>2
    <3> QED
      BY <1>1, <3>1
  <2> HIDE DEF Within
  <2> QED
    BY <1>1, <2>1, <2>2, DownwardClosed
<1>4. Sweep(lo, hi) = SubSeq(Ladder, a + 1, b)
  BY DEF Sweep
<1>5. ASSUME NEW i \in a + 1 .. b
      PROVE  i \in 1 .. n /\ Ladder[i] \in lo .. hi
  <2> HIDE DEF a, b, Below, Within
  <2>1. i \in 1 .. n /\ ~(i <= a) /\ i <= b
    BY <1>1, <1>2, <1>3
  <2>3. i \notin Below /\ i \in Within
    BY <1>2, <1>3, <2>1
  <2> USE DEF Below, Within
  <2>2. Ladder[i] \in Nat /\ ~(Ladder[i] < lo) /\ Ladder[i] <= hi
    BY <1>1, <2>1, <2>3
  <2> QED
    BY <2>1, <2>2
<1> HIDE DEF a, b
<1> DEFINE s == SubSeq(Ladder, a + 1, b)
<1>6. /\ s \in Seq(lo .. hi)
      /\ Len(s) = IF a + 1 <= b THEN b - (a + 1) + 1 ELSE 0
      /\ \A i \in 1 .. b - (a + 1) + 1 : s[i] = Ladder[(a + 1) + i - 1]
  <2>1. a + 1 \in Int /\ b \in Int
    BY <1>2, <1>3
  <2>2. \A i \in a + 1 .. b : Ladder[i] \in lo .. hi
    BY <1>5
  <2> HIDE DEF s
  <2> QED
    BY <2>1, <2>2, SubSeqProperties DEF s
<1> HIDE DEF s
<1>7. ASSUME NEW i \in DOMAIN s, NEW k \in DOMAIN s, i < k
      PROVE  s[i] < s[k]
  <2>1. DOMAIN s = 1 .. Len(s)
    BY <1>6
  <2>2. /\ i \in 1 .. b - (a + 1) + 1 /\ k \in 1 .. b - (a + 1) + 1
        /\ (a + 1) + i - 1 = a + i /\ (a + 1) + k - 1 = a + k
        /\ a + i \in 1 .. n /\ a + k \in 1 .. n /\ a + i < a + k
    <3> HIDE DEF Below, Within
    <3>1. a \in 0 .. n /\ b \in 0 .. n /\ n \in Nat
      BY <1>1, <1>2, <1>3
    <3>2. i \in 1 .. b - (a + 1) + 1 /\ k \in 1 .. b - (a + 1) + 1
      BY <1>6, <2>1, <3>1
    <3> QED
      BY <1>7, <3>1, <3>2
  <2>3. s[i] = Ladder[a + i] /\ s[k] = Ladder[a + k]
    BY <1>6, <2>2
  <2> QED
    BY <1>1, <2>2, <2>3
<1> QED
  BY <1>4, <1>6, <1>7 DEF s

LEMMA SweepList ==
  ASSUME NEW lo \in Nat, NEW hi \in Nat, hi <= Unlimited
  PROVE  Sweep(lo, hi) \in Lists(0) /\ (lo >= 1 => Sweep(lo, hi) \in Lists(1))
<1>1. Sweep(lo, hi) \in Seq(lo .. hi)
  BY SweepSizes
<1>2. Unlimited \in Nat
  BY DEF Unlimited, GiB, MiB, KiB
<1>3. lo .. hi \subseteq 0 .. Unlimited /\ (lo >= 1 => lo .. hi \subseteq 1 .. Unlimited)
  BY <1>2
<1> QED
  BY <1>1, <1>3, SeqMonotonic DEF Lists

-----------------------------------------------------------------------------
(***************************************************************************)
(* What each kind of launch asks of the modules.                           *)
(***************************************************************************)
LEMMA PlainFits ==
  ASSUME NEW F, NEW c \in PlainSet(F), NEW plugged \in BOOLEAN, plugged => c.file \notin Baselines
  PROVE  Fits(c, "mine", plugged)
<1>1. c.program = "osu_mine" /\ c.settings \in PlainSettings
  BY DEF PlainSet, Measure
<1>2. ASSUME NEW st \in PlainSettings
      PROVE  st.algorithm # "ccl" /\ \A k \in DOMAIN st.mpir : st.mpir[k].leaf # "ccl"
  <2>1. StockMpir = <<Otherwise("stock")>> /\ Otherwise("stock").leaf = "stock"
    BY DEF StockMpir, Otherwise, Upto, Rule
  <2>2. \A k \in DOMAIN StockMpir : StockMpir[k].leaf # "ccl"
    BY <2>1
  <2>3. CASE st = Automatic(StockMpir)
    <3>1. st.algorithm = "auto" /\ st.mpir = StockMpir
      BY <2>3 DEF Automatic, Settings
    <3> QED
      BY <2>2, <3>1
  <2>4. CASE st = Compositions
    <3>1. st.algorithm = "auto" /\ st.mpir = StockMpir
      BY <2>4 DEF Compositions, TwoLevel, Settings
    <3> QED
      BY <2>2, <3>1
  <2>5. ASSUME NEW a \in MpichAlgorithms, st = Forced(a)
        PROVE  st.algorithm # "ccl" /\ st.mpir = StockMpir
    BY <2>5 DEF Forced, Settings, MpichAlgorithms
  <2> QED
    BY <2>2, <2>3, <2>4, <2>5 DEF PlainSettings
<1>3. ~MayUseRccl(c)
  BY <1>1, <1>2 DEF MayUseRccl
<1> QED
  BY <1>1, <1>3 DEF Fits

LEMMA OthersFit ==
  ASSUME NEW j, NEW F
  PROVE  /\ \A c \in RcclSet(F) \cup SplitSet(j, F) \cup TestSet(F) : Fits(c, "mine", TRUE)
         /\ \A c \in CraySet(F) : Fits(c, "cray", FALSE)
<1>1. ASSUME NEW c \in RcclSet(F) \cup SplitSet(j, F) \cup TestSet(F)
      PROVE  Fits(c, "mine", TRUE)
  <2>1. c.program \in {"osu_mine", "rccl_tests"}
    BY DEF RcclSet, SplitSet, TestSet, OnDevice, Measure
  <2>2. c.file \notin Baselines
    BY DEF RcclSet, SplitSet, TestSet, OnDevice, Measure, Baselines, RcclFiles, TwoLevelFiles
  <2> QED
    BY <2>1, <2>2 DEF Fits
<1>2. ASSUME NEW c \in CraySet(F)
      PROVE  Fits(c, "cray", FALSE)
  <2>1. c.program = "osu_cray" /\ c.settings = Automatic(StockMpir)
    BY DEF CraySet, Cray, Measure, NotOurs
  <2>2. c.settings.algorithm = "auto" /\ c.settings.mpir = <<Otherwise("stock")>>
    BY <2>1 DEF Automatic, Settings, StockMpir
  <2>3. Otherwise("stock").leaf = "stock"
    BY DEF Otherwise, Upto, Rule
  <2>4. ~MayUseRccl(c)
    BY <2>1, <2>2, <2>3 DEF MayUseRccl
  <2> QED
    BY <2>1, <2>4 DEF Fits
<1> QED
  BY <1>1, <1>2

\* A header and a launch below it, as blocks.
LEMMA FreshPlain ==
  ASSUME NEW j, NEW f, f \notin RcclFiles \cup TwoLevelFiles, NEW b \in {"host", "device"},
         NEW s \in Lists(0), NEW st \in PlainSettings,
         NEW plugged \in BOOLEAN, plugged => f \notin Baselines
  PROVE  /\ <<New(f), Measure(f, "osu_mine", b, s, st)>> \in Block(j, {f}, "mine", plugged)
         /\ <<Mark(f), Measure(f, "osu_mine", b, s, st)>> \in Block(j, {f}, "mine", plugged)
<1> DEFINE c == Measure(f, "osu_mine", b, s, st)
<1>1. c \in PlainSet({f}) /\ c.file = f
  BY DEF PlainSet, Measure
<1> HIDE DEF c
<1>2. c \in LaunchSet(j, {f})
  BY <1>1 DEF LaunchSet
<1>3. Fits(c, "mine", plugged)
  BY <1>1, PlainFits
<1> QED
  BY <1>2, <1>3, BlockOfLaunch DEF c

LEMMA FreshRccl ==
  ASSUME NEW j, NEW f \in RcclFiles, NEW s,
         NEW st, \/ s \in Lists(0) /\ st = ForcedCcl
                 \/ s \in Lists(1) /\ st = Automatic(allreduce_rccl_auto)
  PROVE  /\ Fresh(f, s, st) \in Block(j, {f}, "mine", TRUE)
         /\ OnDevice(f, s, st) \in LaunchSet(j, {f}) /\ Fits(OnDevice(f, s, st), "mine", TRUE)
<1> DEFINE c == OnDevice(f, s, st)
<1>1. c \in RcclSet({f})
  BY DEF RcclSet
<1> HIDE DEF c
<1>2. c \in LaunchSet(j, {f})
  BY <1>1 DEF LaunchSet
<1>3. Fits(c, "mine", TRUE)
  BY <1>1, OthersFit
<1> QED
  BY <1>2, <1>3, BlockOfLaunch DEF c, Fresh

LEMMA FreshSplit ==
  ASSUME NEW j, j.script \in SplitScripts, NEW f \in TwoLevelFiles, NEW s \in Lists(0)
  PROVE  Fresh(f, s, SplitSettings(j)) \in Block(j, {f}, "mine", TRUE)
<1> DEFINE c == OnDevice(f, s, SplitSettings(j))
<1>1. c \in SplitSet(j, {f})
  BY DEF SplitSet
<1> HIDE DEF c
<1>2. c \in LaunchSet(j, {f})
  BY <1>1 DEF LaunchSet
<1>3. Fits(c, "mine", TRUE)
  BY <1>1, OthersFit
<1> QED
  BY <1>2, <1>3, BlockOfLaunch DEF c, Fresh

LEMMA FreshOther ==
  ASSUME NEW j, NEW s \in Lists(0)
  PROVE  /\ <<New("D_cray_gpuaware"), Cray("D_cray_gpuaware", s)>>
              \in Block(j, {"D_cray_gpuaware"}, "cray", FALSE)
         /\ Cray("D_cray_gpuaware", s) \in LaunchSet(j, {"D_cray_gpuaware"})
         /\ Fits(Cray("D_cray_gpuaware", s), "cray", FALSE)
         /\ <<New("E_rccl_tests"), Measure("E_rccl_tests", "rccl_tests", "device", s, NotOurs)>>
              \in Block(j, {"E_rccl_tests"}, "mine", TRUE)
<1>1. Cray("D_cray_gpuaware", s) \in CraySet({"D_cray_gpuaware"})
  BY DEF CraySet
<1>2. /\ Cray("D_cray_gpuaware", s) \in LaunchSet(j, {"D_cray_gpuaware"})
      /\ Fits(Cray("D_cray_gpuaware", s), "cray", FALSE)
  BY <1>1, OthersFit DEF LaunchSet
<1> DEFINE c == Measure("E_rccl_tests", "rccl_tests", "device", s, NotOurs)
<1>3. c \in TestSet({"E_rccl_tests"})
  BY DEF TestSet
<1> HIDE DEF c
<1>4. c \in LaunchSet(j, {"E_rccl_tests"}) /\ Fits(c, "mine", TRUE)
  BY <1>3, OthersFit DEF LaunchSet
<1> QED
  BY <1>2, <1>4, BlockOfLaunch DEF c

-----------------------------------------------------------------------------
(***************************************************************************)
(* The plans of the nine scripts.                                          *)
(***************************************************************************)
LEMMA Bounds ==
  /\ Unlimited \in Nat /\ KiB \in Nat /\ MiB \in Nat /\ GiB \in Nat
  /\ 1 <= KiB /\ KiB <= 64 * KiB /\ 256 * KiB <= MiB /\ 256 * MiB <= GiB
  /\ CPU_MAX \in Nat /\ CPU_MAX <= Unlimited /\ GPU_MAX \in Nat /\ GPU_MAX <= Unlimited
  /\ 256 * MiB \in Nat /\ 256 * MiB <= Unlimited
  /\ 256 * KiB \in Nat /\ 256 * KiB <= Unlimited
  /\ 64 * KiB \in Nat /\ 64 * KiB <= Unlimited
  /\ 1 * KiB \in Nat /\ 4 * GiB \in Nat /\ 4 * GiB <= Unlimited
BY DEF Unlimited, GiB, MiB, KiB, CPU_MAX, GPU_MAX

LEMMA CrayMax ==
  ASSUME NEW nodes
  PROVE  CRAY_MAX(nodes) \in Nat /\ CRAY_MAX(nodes) <= Unlimited
BY DEF CRAY_MAX, Unlimited, GiB, MiB, KiB, GPU_MAX

\* The first block and the later ones of a plan.
LEMMA FirstStage ==
  ASSUME NEW j
  PROVE  UseMine \in Stage(j, {}, "mine", FALSE) /\ UseRccl \in Stage(j, {}, "mine", TRUE)
<1>1. /\ <<>> \o <<Load("mine")>> \in Stage(j, {}, "mine", FALSE)
      /\ <<>> \o UseRccl \in Stage(j, {}, "mine", TRUE)
  BY NothingSettled, StageLoad, StageRccl
<1>2. <<>> \o <<Load("mine")>> = UseMine /\ <<>> \o UseRccl = UseRccl
  BY DEF UseMine, UseRccl
<1> QED
  BY <1>1, <1>2

\* The next block with the loads before it, however the script groups them.
LEMMA NextBlock ==
  ASSUME NEW j, NEW F, NEW G, NEW p \in Settled(j, F), NEW base \in {"mine", "cray"},
         NEW q \in Block(j, G, base, FALSE), F \cap G = {} \/ Appends(q)
  PROVE  /\ p \o <<Load(base)>> \o q \in Settled(j, F \cup G)
         /\ p \o <<Load(base)>> \o q \in Stage(j, F \cup G, base, FALSE)
         /\ p \o (<<Load(base)>> \o q) = p \o <<Load(base)>> \o q
<1>1. p \o <<Load(base)>> \in Stage(j, F, base, FALSE)
  BY StageLoad
<1>2. p \o <<Load(base)>> \o q \in Stage(j, F \cup G, base, FALSE)
  BY <1>1, StageBlock
<1> DEFINE S == CommandSet(j, F \cup G)
<1>3. p \in Seq(S) /\ q \in Seq(S)
  <2>1. p \in Seq(CommandSet(j, F)) /\ q \in Seq(CommandSet(j, G))
    BY DEF Settled, Block, Part
  <2>2. F \subseteq F \cup G /\ G \subseteq F \cup G
    OBVIOUS
  <2> QED
    BY <2>1, <2>2, CommandsGrow
<1>4. Load(base) \in S
  BY LoadIsPart
<1> HIDE DEF S
<1>5. p \o (<<Load(base)>> \o q) = p \o <<Load(base)>> \o q
  <2>1. <<Load(base)>> \in Seq(S)
    BY <1>4
  <2> QED
    BY <1>3, <2>1, ConcatAssociative
<1> QED
  BY <1>2, <1>5 DEF Stage

LEMMA NextRccl ==
  ASSUME NEW j, NEW F, NEW G, NEW p \in Settled(j, F),
         NEW q \in Block(j, G, "mine", TRUE), F \cap G = {} \/ Appends(q)
  PROVE  /\ p \o UseRccl \o q \in Settled(j, F \cup G)
         /\ p \o UseRccl \o q \in Stage(j, F \cup G, "mine", TRUE)
         /\ p \o (UseRccl \o q) = p \o UseRccl \o q
<1>1. p \o UseRccl \in Stage(j, F, "mine", TRUE)
  BY StageRccl
<1>2. p \o UseRccl \o q \in Stage(j, F \cup G, "mine", TRUE)
  BY <1>1, StageBlock
<1> DEFINE S == CommandSet(j, F \cup G)
<1>3. p \in Seq(S) /\ q \in Seq(S)
  <2>1. p \in Seq(CommandSet(j, F)) /\ q \in Seq(CommandSet(j, G))
    BY DEF Settled, Block, Part
  <2>2. F \subseteq F \cup G /\ G \subseteq F \cup G
    OBVIOUS
  <2> QED
    BY <2>1, <2>2, CommandsGrow
<1>4. Load("mine") \in S /\ Load("plugin") \in S
  BY LoadIsPart
<1> HIDE DEF S
<1>5. p \o (UseRccl \o q) = p \o UseRccl \o q
  <2>1. UseRccl \in Seq(S)
    BY <1>4 DEF UseRccl
  <2> QED
    BY <1>3, <2>1, ConcatAssociative
<1> QED
  BY <1>2, <1>5 DEF Stage

LEMMA AllreducePlan ==
  ASSUME NEW j
  PROVE  \E F : Allreduce(j) \in Settled(j, F)
<1> DEFINE A == <<New("A_mpich_host"),
                  Measure("A_mpich_host", "osu_mine", "host", Sweep(0, CPU_MAX),
                          Automatic(StockMpir))>>
           B == Fresh("B_mpich_dev", Sweep(0, CPU_MAX), Compositions)
           C == Fresh("C_mpich_rccl", Sweep(0, GPU_MAX), ForcedCcl)
           D == <<New("D_cray_gpuaware"), Cray("D_cray_gpuaware", Sweep(0, CRAY_MAX(j.nodes)))>>
           E == <<New("E_rccl_tests"),
                  Measure("E_rccl_tests", "rccl_tests", "device", Sweep(1, GPU_MAX), NotOurs)>>
           p1 == UseMine \o A
           p2 == p1 \o UseMine \o B
           p3 == p2 \o UseRccl \o C
           p4 == p3 \o (IF j.cray THEN UseCray \o D ELSE <<>>)
           p5 == p4 \o (IF j.nodes <= 8 THEN UseRccl \o E ELSE <<>>)
           FA == {} \cup {"A_mpich_host"}
           FB == FA \cup {"B_mpich_dev"}
           FC == FB \cup {"C_mpich_rccl"}
           FD == FC \cup {"D_cray_gpuaware"}
<1>1. /\ Sweep(0, CPU_MAX) \in Lists(0) /\ Sweep(0, GPU_MAX) \in Lists(0)
      /\ Sweep(0, CRAY_MAX(j.nodes)) \in Lists(0) /\ Sweep(1, GPU_MAX) \in Lists(0)
  BY Bounds, CrayMax, SweepList
<1>2. Automatic(StockMpir) \in PlainSettings /\ Compositions \in PlainSettings
  BY DEF PlainSettings
<1>3. A \in Block(j, {"A_mpich_host"}, "mine", FALSE)
  BY <1>1, <1>2, FreshPlain DEF RcclFiles, TwoLevelFiles
<1>4. B \in Block(j, {"B_mpich_dev"}, "mine", FALSE)
  BY <1>1, <1>2, FreshPlain DEF RcclFiles, TwoLevelFiles, Fresh, OnDevice
<1>5. C \in Block(j, {"C_mpich_rccl"}, "mine", TRUE)
  BY <1>1, FreshRccl DEF RcclFiles
<1>6. D \in Block(j, {"D_cray_gpuaware"}, "cray", FALSE)
  BY <1>1, FreshOther
<1>7. E \in Block(j, {"E_rccl_tests"}, "mine", TRUE)
  BY <1>1, FreshOther
<1>8. Allreduce(j) = p5
  BY DEF Allreduce
<1>9. /\ {} \cap {"A_mpich_host"} = {} /\ FA \cap {"B_mpich_dev"} = {}
      /\ FB \cap {"C_mpich_rccl"} = {} /\ FC \cap {"D_cray_gpuaware"} = {}
      /\ FC \cap {"E_rccl_tests"} = {} /\ FD \cap {"E_rccl_tests"} = {}
  OBVIOUS
<1> HIDE DEF A, B, C, D, E, FA, FB, FC, FD
<1>10. p1 \in Settled(j, FA)
  BY <1>3, <1>9, FirstStage, StageBlock DEF FA, Stage
<1> HIDE DEF p1
<1>11. p2 \in Settled(j, FB)
  BY <1>4, <1>9, <1>10, NextBlock DEF UseMine, FB
<1> HIDE DEF p2
<1>12. p3 \in Settled(j, FC)
  BY <1>5, <1>9, <1>11, NextRccl DEF FC
<1> HIDE DEF p3
<1>13. \A F : \A p \in Settled(j, F) : p \o <<>> = p
  BY DEF Settled, Part
<1>14. p4 \in Settled(j, FC) \/ p4 \in Settled(j, FD)
  <2>1. p3 \o (UseCray \o D) \in Settled(j, FD)
    <3> DEFINE load == <<Load("cray")>>
    <3>1. p3 \o load \o D \in Settled(j, FD)
      BY <1>6, <1>9, <1>12, NextBlock DEF FD
    <3>2. p3 \o (load \o D) = p3 \o load \o D
      BY <1>6, <1>9, <1>12, NextBlock
    <3> QED
      BY <3>1, <3>2 DEF UseCray
  <2> QED
    BY <1>12, <1>13, <2>1
<1> HIDE DEF p4
<1>15. ASSUME NEW F, p4 \in Settled(j, F), F \cap {"E_rccl_tests"} = {}
       PROVE  \E G : p5 \in Settled(j, G)
  <2>1. p4 \o (UseRccl \o E) \in Settled(j, F \cup {"E_rccl_tests"})
    <3>1. p4 \o UseRccl \o E \in Settled(j, F \cup {"E_rccl_tests"})
      BY <1>7, <1>15, NextRccl
    <3>2. p4 \o (UseRccl \o E) = p4 \o UseRccl \o E
      BY <1>7, <1>15, NextRccl
    <3> QED
      BY <3>1, <3>2
  <2> QED
    BY <1>13, <1>15, <2>1
<1> QED
  BY <1>8, <1>9, <1>14, <1>15

LEMMA Singletons ==
  ASSUME NEW sizes \in Seq(0 .. Unlimited)
  PROVE  /\ Len(sizes) \in Nat /\ DOMAIN sizes = 1 .. Len(sizes)
         /\ \A i \in 1 .. Len(sizes) : <<sizes[i]>> \in Lists(0)
<1>1. ASSUME NEW i \in 1 .. Len(sizes)
      PROVE  <<sizes[i]>> \in Lists(0)
  <2>1. sizes[i] \in 0 .. Unlimited
    BY <1>1, ElementOfSeq
  <2> QED
    BY <2>1 DEF Lists
<1> QED
  BY <1>1

LEMMA RcclOneByOne ==
  ASSUME NEW j, NEW sizes \in Seq(0 .. Unlimited), NEW f \in RcclFiles
  PROVE  /\ OneByOne(sizes, f, LAMBDA s : OnDevice(f, s, ForcedCcl)) \in Block(j, {f}, "mine", TRUE)
         /\ Appends(OneByOne(sizes, f, LAMBDA s : OnDevice(f, s, ForcedCcl)))
<1> DEFINE n == Len(sizes)
<1>A. n \in Nat /\ DOMAIN sizes = 1 .. n
  BY Singletons
<1>B. ASSUME NEW i \in 1 .. n
      PROVE  <<sizes[i]>> \in Lists(0)
  BY Singletons
<1> HIDE DEF n
<1> DEFINE c == [i \in 1 .. n |-> OnDevice(f, <<sizes[i]>>, ForcedCcl)]
<1>1. \A i \in 1 .. n : c[i] \in LaunchSet(j, {f}) /\ Fits(c[i], "mine", TRUE)
  BY <1>B, FreshRccl
<1>2. OneByOne(sizes, f, LAMBDA s : OnDevice(f, s, ForcedCcl))
        = FlattenSeq(Marked(f, c, n))
  <2>1. \A i \in 1 .. n : c[i] = OnDevice(f, <<sizes[i]>>, ForcedCcl)
    OBVIOUS
  <2>2. [i \in DOMAIN sizes |-> <<Mark(f), OnDevice(f, <<sizes[i]>>, ForcedCcl)>>]
          = [i \in 1 .. n |-> <<Mark(f), c[i]>>]
    BY <1>A, <2>1
  <2> QED
    BY <2>2 DEF OneByOne, Marked
<1> HIDE DEF c
<1>3. /\ FlattenSeq(Marked(f, c, n)) \in Block(j, {f}, "mine", TRUE)
      /\ Appends(FlattenSeq(Marked(f, c, n)))
  BY <1>A, <1>1, FlattenedBlock
<1> QED
  BY <1>2, <1>3

LEMMA CrayOneByOne ==
  ASSUME NEW j, NEW sizes \in Seq(0 .. Unlimited), NEW f, f = "D_cray_gpuaware"
  PROVE  /\ OneByOne(sizes, f, LAMBDA s : Cray(f, s)) \in Block(j, {f}, "cray", FALSE)
         /\ Appends(OneByOne(sizes, f, LAMBDA s : Cray(f, s)))
<1> DEFINE n == Len(sizes)
<1>A. n \in Nat /\ DOMAIN sizes = 1 .. n
  BY Singletons
<1>B. ASSUME NEW i \in 1 .. n
      PROVE  <<sizes[i]>> \in Lists(0)
  BY Singletons
<1> HIDE DEF n
<1> DEFINE c == [i \in 1 .. n |-> Cray(f, <<sizes[i]>>)]
<1>1. \A i \in 1 .. n : c[i] \in LaunchSet(j, {f}) /\ Fits(c[i], "cray", FALSE)
  BY <1>B, FreshOther
<1>2. OneByOne(sizes, f, LAMBDA s : Cray(f, s))
        = FlattenSeq(Marked(f, c, n))
  <2>1. \A i \in 1 .. n : c[i] = Cray(f, <<sizes[i]>>)
    OBVIOUS
  <2>2. [i \in DOMAIN sizes |-> <<Mark(f), Cray(f, <<sizes[i]>>)>>]
          = [i \in 1 .. n |-> <<Mark(f), c[i]>>]
    BY <1>A, <2>1
  <2> QED
    BY <2>2 DEF OneByOne, Marked
<1> HIDE DEF c
<1>3. /\ FlattenSeq(Marked(f, c, n)) \in Block(j, {f}, "cray", FALSE)
      /\ Appends(FlattenSeq(Marked(f, c, n)))
  BY <1>A, <1>1, FlattenedBlock
<1> QED
  BY <1>2, <1>3

LEMMA CompositionOneByOne ==
  ASSUME NEW j, NEW sizes \in Seq(0 .. Unlimited), NEW f, f \notin RcclFiles \cup TwoLevelFiles
  PROVE  /\ OneByOne(sizes, f, LAMBDA s : OnDevice(f, s, Compositions)) \in Block(j, {f}, "mine", FALSE)
         /\ Appends(OneByOne(sizes, f, LAMBDA s : OnDevice(f, s, Compositions)))
<1> DEFINE n == Len(sizes)
<1>A. n \in Nat /\ DOMAIN sizes = 1 .. n
  BY Singletons
<1>B. ASSUME NEW i \in 1 .. n
      PROVE  <<sizes[i]>> \in Lists(0)
  BY Singletons
<1> HIDE DEF n
<1> DEFINE c == [i \in 1 .. n |-> OnDevice(f, <<sizes[i]>>, Compositions)]
<1>1. ASSUME NEW i \in 1 .. n
      PROVE  c[i] \in LaunchSet(j, {f}) /\ Fits(c[i], "mine", FALSE)
  <2>1. <<sizes[i]>> \in Lists(0)
    BY <1>B
  <2>2. c[i] = Measure(f, "osu_mine", "device", <<sizes[i]>>, Compositions)
    BY DEF OnDevice
  <2> HIDE DEF c
  <2>3. Compositions \in PlainSettings /\ f \in {f} \ (RcclFiles \cup TwoLevelFiles)
    BY DEF PlainSettings
  <2>4. c[i] \in PlainSet({f})
    BY <2>1, <2>2, <2>3 DEF PlainSet
  <2> QED
    BY <2>4, PlainFits DEF LaunchSet
<1>2. OneByOne(sizes, f, LAMBDA s : OnDevice(f, s, Compositions))
        = FlattenSeq(Marked(f, c, n))
  <2>1. \A i \in 1 .. n : c[i] = OnDevice(f, <<sizes[i]>>, Compositions)
    OBVIOUS
  <2>2. [i \in DOMAIN sizes |-> <<Mark(f), OnDevice(f, <<sizes[i]>>, Compositions)>>]
          = [i \in 1 .. n |-> <<Mark(f), c[i]>>]
    BY <1>A, <2>1
  <2> QED
    BY <2>2 DEF OneByOne, Marked
<1> HIDE DEF c
<1>3. /\ FlattenSeq(Marked(f, c, n)) \in Block(j, {f}, "mine", FALSE)
      /\ Appends(FlattenSeq(Marked(f, c, n)))
  BY <1>A, <1>1, FlattenedBlock
<1> QED
  BY <1>2, <1>3

LEMMA GradientSizes == Gradients \in Seq(0 .. Unlimited)
<1>1. /\ 3276800 \in Int /\ 12778516 \in Int /\ 85000000 \in Int
      /\ 0 <= 3276800 /\ 0 <= 12778516 /\ 0 <= 85000000
  BY SMT
<1>2. /\ 3276800 <= Unlimited /\ 12778516 <= Unlimited /\ 85000000 <= Unlimited
      /\ Unlimited \in Int
  BY SMT DEF Unlimited, GiB, MiB, KiB
<1>3. /\ 3276800 \in 0 .. Unlimited /\ 12778516 \in 0 .. Unlimited
      /\ 85000000 \in 0 .. Unlimited
  BY <1>1, <1>2, SMT
<1> QED
  BY <1>3, SMT DEF Gradients

\* The launches of the slow baseline come last.
LEMMA MlSyncParts ==
  ASSUME NEW j
  PROVE  \E F : \E p \in Settled(j, F), q \in Block(j, {"B_mpich_dev"}, "mine", FALSE) :
           /\ F \cap {"B_mpich_dev"} = {}
           /\ MlSync(j) = p \o UseMine \o q
<1> DEFINE C == OneByOne(Gradients, "C_mpich_rccl", LAMBDA s : OnDevice("C_mpich_rccl", s, ForcedCcl))
           D == OneByOne(Gradients, "D_cray_gpuaware", LAMBDA s : Cray("D_cray_gpuaware", s))
           H == <<New("D_cray_gpuaware")>>
           B == OneByOne(Gradients, "B_mpich_dev", LAMBDA s : OnDevice("B_mpich_dev", s, Compositions))
           p1 == UseRccl \o C
           p2 == p1 \o (IF j.nodes <= 512 THEN UseCray \o D ELSE H)
           p3 == p2 \o UseMine \o B
           FC == {} \cup {"C_mpich_rccl"}
           FD == FC \cup {"D_cray_gpuaware"}
<1>1. Gradients \in Seq(0 .. Unlimited)
  BY GradientSizes
<1>2. C \in Block(j, {"C_mpich_rccl"}, "mine", TRUE)
  BY <1>1, RcclOneByOne DEF RcclFiles
<1>3. D \in Block(j, {"D_cray_gpuaware"}, "cray", FALSE)
  BY <1>1, CrayOneByOne
<1>4. B \in Block(j, {"B_mpich_dev"}, "mine", FALSE)
  BY <1>1, CompositionOneByOne DEF RcclFiles, TwoLevelFiles
<1>5. H \in Block(j, {"D_cray_gpuaware"}, "mine", TRUE)
  BY HeaderIsBlock
<1>6. MlSync(j) = p3
  BY DEF MlSync
<1>7. /\ {} \cap {"C_mpich_rccl"} = {} /\ FC \cap {"D_cray_gpuaware"} = {}
      /\ FD \cap {"B_mpich_dev"} = {}
  OBVIOUS
<1> HIDE DEF B, C, D, H, FC, FD
<1>8. p1 \in Stage(j, FC, "mine", TRUE)
  BY <1>2, <1>7, FirstStage, StageBlock DEF FC
<1> HIDE DEF p1
<1>9. p2 \in Settled(j, FD)
  <2>1. p1 \o H \in Stage(j, FD, "mine", TRUE)
    BY <1>5, <1>7, <1>8, StageBlock DEF FD
  <2>2. p1 \in Settled(j, FC)
    BY <1>8 DEF Stage
  <2>3. p1 \o (UseCray \o D) \in Settled(j, FD)
    <3> DEFINE load == <<Load("cray")>>
    <3>1. p1 \o load \o D \in Settled(j, FD)
      BY <1>3, <1>7, <2>2, NextBlock DEF FD
    <3>2. p1 \o (load \o D) = p1 \o load \o D
      BY <1>3, <1>7, <2>2, NextBlock
    <3> QED
      BY <3>1, <3>2 DEF UseCray
  <2> QED
    BY <2>1, <2>3 DEF Stage
<1> HIDE DEF p2
<1> QED
  BY <1>4, <1>6, <1>7, <1>9

LEMMA MlSyncPlan ==
  ASSUME NEW j
  PROVE  \E F : MlSync(j) \in Settled(j, F)
<1>1. PICK F : \E p \in Settled(j, F), q \in Block(j, {"B_mpich_dev"}, "mine", FALSE) :
        /\ F \cap {"B_mpich_dev"} = {}
        /\ MlSync(j) = p \o UseMine \o q
  BY MlSyncParts
<1>2. PICK p \in Settled(j, F), q \in Block(j, {"B_mpich_dev"}, "mine", FALSE) :
        /\ F \cap {"B_mpich_dev"} = {}
        /\ MlSync(j) = p \o UseMine \o q
  BY <1>1
<1>3. p \o UseMine \o q \in Settled(j, F \cup {"B_mpich_dev"})
  BY <1>2, NextBlock DEF UseMine
<1> QED
  BY <1>2, <1>3

\* Largest first.
LEMMA SizesFall ==
  /\ SIZES \in Seq(0 .. Unlimited)
  /\ \A i \in DOMAIN SIZES, k \in DOMAIN SIZES : i < k => SIZES[i] > SIZES[k]
<1> DEFINE s == Sweep(1 * KiB, 4 * GiB)
           n == Len(s)
<1>1. s \in Seq(0 .. Unlimited)
  BY Bounds, SweepList DEF Lists
<1>2. /\ \A i, k \in DOMAIN s : i < k => s[i] < s[k]
      /\ s \in Seq(Nat)
  <2>1. 1 * KiB \in Nat /\ 4 * GiB \in Nat
    BY Bounds
  <2>2. s \in Seq(1 * KiB .. 4 * GiB) /\ \A i, k \in DOMAIN s : i < k => s[i] < s[k]
    BY <2>1, SweepSizes
  <2>3. 1 * KiB .. 4 * GiB \subseteq Nat
    BY <2>1
  <2> HIDE DEF s
  <2> QED
    BY <2>2, <2>3, SeqMonotonic
<1>3. SIZES = [i \in 1 .. n |-> s[n - i + 1]]
  BY DEF SIZES, Reverse
<1> HIDE DEF s
<1>4. n \in Nat /\ DOMAIN s = 1 .. n
  BY <1>1, LenProperties
<1> HIDE DEF n
<1>5. ASSUME NEW i \in 1 .. n
      PROVE  n - i + 1 \in DOMAIN s /\ s[n - i + 1] \in 0 .. Unlimited /\ s[n - i + 1] \in Nat
  <2>1. n - i + 1 \in 1 .. n
    BY <1>4
  <2> QED
    BY <1>1, <1>2, <1>4, <2>1, ElementOfSeq DEF n
<1>6. SIZES \in Seq(0 .. Unlimited)
  BY <1>3, <1>4, <1>5, IsASeq
<1>7. ASSUME NEW i \in 1 .. n, NEW k \in 1 .. n, i < k
      PROVE  s[n - i + 1] > s[n - k + 1]
  <2>1. n - k + 1 < n - i + 1
    BY <1>4, <1>7
  <2>2. s[n - k + 1] < s[n - i + 1]
    BY <1>2, <1>5, <2>1
  <2> QED
    BY <1>5, <2>2
<1> QED
  BY <1>3, <1>6, <1>7

LEMMA RcclSweepPlan ==
  ASSUME NEW j
  PROVE  \E F : RcclSweep(j) \in Settled(j, F)
<1> DEFINE H == <<New("C_mpich_rccl")>>
           C == OneByOne(SIZES, "C_mpich_rccl", LAMBDA s : OnDevice("C_mpich_rccl", s, ForcedCcl))
           F == {} \cup {"C_mpich_rccl"}
<1>1. SIZES \in Seq(0 .. Unlimited)
  BY SizesFall
<1>2. C \in Block(j, {"C_mpich_rccl"}, "mine", TRUE) /\ Appends(C)
  <2>1. "C_mpich_rccl" \in RcclFiles
    BY DEF RcclFiles
  <2>2. C \in Block(j, {"C_mpich_rccl"}, "mine", TRUE)
    BY <1>1, <2>1, RcclOneByOne
  <2>3. Appends(C)
    BY <1>1, <2>1, RcclOneByOne
  <2> QED
    BY <2>2, <2>3
<1>3. H \in Block(j, {"C_mpich_rccl"}, "mine", TRUE)
  BY HeaderIsBlock
<1>4. RcclSweep(j) = UseRccl \o H \o C
  BY DEF RcclSweep
<1>5. {} \cap {"C_mpich_rccl"} = {}
  OBVIOUS
<1> HIDE DEF C, H, F
<1>6. UseRccl \o H \in Stage(j, F, "mine", TRUE)
  BY <1>3, <1>5, FirstStage, StageBlock DEF F
<1>7. UseRccl \o H \o C \in Stage(j, F \cup {"C_mpich_rccl"}, "mine", TRUE)
  BY <1>2, <1>6, StageBlock
<1> QED
  BY <1>4, <1>7 DEF Stage

LEMMA CselAutoPlan ==
  ASSUME NEW j, j.script = "run_csel_auto"
  PROVE  \E F : CselAuto(j) \in Settled(j, F)
<1> DEFINE sizes == Sweep(1, 256 * MiB)
           A == Fresh("AUTO_default", sizes, Automatic(StockMpir))
           B == Fresh("AUTO_hmem", sizes, Automatic(StockMpir))
           C == Fresh("AUTO_json", sizes, Automatic(allreduce_rccl_auto))
           D == Fresh("C_forced", sizes, ForcedCcl)
           E == Fresh("AUTO_hybrid", sizes, SplitSettings(j))
           p1 == UseMine \o A
           p2 == p1 \o B
           p3 == p2 \o <<Load("plugin")>>
           p4 == p3 \o C
           p5 == p4 \o D
           p6 == p5 \o E
           FA == {} \cup {"AUTO_default"}
           FB == FA \cup {"AUTO_hmem"}
           FC == FB \cup {"AUTO_json"}
           FD == FC \cup {"C_forced"}
           FE == FD \cup {"AUTO_hybrid"}
<1>1. sizes \in Lists(0) /\ sizes \in Lists(1)
  BY Bounds, SweepList
<1>2. Automatic(StockMpir) \in PlainSettings
  BY DEF PlainSettings
<1>3. SplitSettings(j) = TwoLevel(32 * KiB, allreduce_ch4_hybrid, allreduce_mpir_hybrid)
  BY DEF SplitSettings
<1>4. CselAuto(j) = p6
  BY <1>3 DEF CselAuto
<1> HIDE DEF sizes
<1>5. A \in Block(j, {"AUTO_default"}, "mine", FALSE)
  BY <1>1, <1>2, FreshPlain DEF RcclFiles, TwoLevelFiles, Fresh, OnDevice
<1>6. B \in Block(j, {"AUTO_hmem"}, "mine", FALSE)
  BY <1>1, <1>2, FreshPlain DEF RcclFiles, TwoLevelFiles, Fresh, OnDevice
<1>7. C \in Block(j, {"AUTO_json"}, "mine", TRUE)
  BY <1>1, FreshRccl DEF RcclFiles
<1>8. D \in Block(j, {"C_forced"}, "mine", TRUE)
  BY <1>1, FreshRccl DEF RcclFiles
<1>9. E \in Block(j, {"AUTO_hybrid"}, "mine", TRUE)
  <2>1. "AUTO_hybrid" \in TwoLevelFiles /\ j.script \in SplitScripts
    BY DEF TwoLevelFiles, SplitScripts
  <2> QED
    BY <1>1, <2>1, FreshSplit
<1>10. /\ {} \cap {"AUTO_default"} = {} /\ FA \cap {"AUTO_hmem"} = {}
       /\ FB \cap {"AUTO_json"} = {} /\ FC \cap {"C_forced"} = {}
       /\ FD \cap {"AUTO_hybrid"} = {}
  OBVIOUS
<1> HIDE DEF A, B, C, D, E, FA, FB, FC, FD, FE
<1>11. p1 \in Stage(j, FA, "mine", FALSE)
  BY <1>5, <1>10, FirstStage, StageBlock DEF FA
<1> HIDE DEF p1
<1>12. p2 \in Stage(j, FB, "mine", FALSE)
  BY <1>6, <1>10, <1>11, StageBlock DEF FB
<1> HIDE DEF p2
<1>13. p3 \in Stage(j, FB, "mine", TRUE)
  BY <1>12, StagePlugin
<1> HIDE DEF p3
<1>14. p4 \in Stage(j, FC, "mine", TRUE)
  BY <1>7, <1>10, <1>13, StageBlock DEF FC
<1> HIDE DEF p4
<1>15. p5 \in Stage(j, FD, "mine", TRUE)
  BY <1>8, <1>10, <1>14, StageBlock DEF FD
<1> HIDE DEF p5
<1>16. p6 \in Stage(j, FE, "mine", TRUE)
  BY <1>9, <1>10, <1>15, StageBlock DEF FE
<1> QED
  BY <1>4, <1>16 DEF Stage

\* The three scripts that compare a two-level selection with RCCL.
LEMMA HybridPlan ==
  ASSUME NEW j, j.script \in SplitScripts, NEW sizes \in Lists(0)
  PROVE  \E F : Hybrid(sizes, SplitSettings(j)) \in Settled(j, F)
<1> DEFINE A == Fresh("HYBRID", sizes, SplitSettings(j))
           B == Fresh("RCCL", sizes, ForcedCcl)
           FA == {} \cup {"HYBRID"}
<1>1. A \in Block(j, {"HYBRID"}, "mine", TRUE)
  BY FreshSplit DEF TwoLevelFiles
<1>2. B \in Block(j, {"RCCL"}, "mine", TRUE)
  BY FreshRccl DEF RcclFiles
<1>3. Hybrid(sizes, SplitSettings(j)) = UseRccl \o A \o B
  BY DEF Hybrid
<1>4. {} \cap {"HYBRID"} = {} /\ FA \cap {"RCCL"} = {}
  OBVIOUS
<1> HIDE DEF A, B, FA
<1>5. UseRccl \o A \in Stage(j, FA, "mine", TRUE)
  BY <1>1, <1>4, FirstStage, StageBlock DEF FA
<1>6. UseRccl \o A \o B \in Stage(j, FA \cup {"RCCL"}, "mine", TRUE)
  BY <1>2, <1>4, <1>5, StageBlock
<1> QED
  BY <1>3, <1>6 DEF Stage

LEMMA HybridPlans ==
  ASSUME NEW j
  PROVE  /\ j.script = "run_hybrid_prod" => \E F : HybridProd(j) \in Settled(j, F)
         /\ j.script = "run_hybrid_test" => \E F : HybridTest(j) \in Settled(j, F)
         /\ j.script = "run_csel_confirm" /\ j.split \in 0 .. Unlimited =>
              \E F : CselConfirm(j) \in Settled(j, F)
<1> DEFINE window == Sweep(1 * KiB, 256 * KiB)
<1>1. window \in Lists(0)
  BY Bounds, SweepList
<1>a. /\ "run_hybrid_prod" \in SplitScripts /\ "run_hybrid_test" \in SplitScripts
      /\ "run_csel_confirm" \in SplitScripts
  BY DEF SplitScripts
<1> HIDE DEF window
<1>2. ASSUME j.script = "run_hybrid_prod"
      PROVE  \E F : HybridProd(j) \in Settled(j, F)
  <2>1. HybridProd(j) = Hybrid(window, SplitSettings(j))
    BY <1>2 DEF HybridProd, SplitSettings, window
  <2> QED
    BY <1>1, <1>2, <1>a, <2>1, HybridPlan
<1>3. ASSUME j.script = "run_hybrid_test"
      PROVE  \E F : HybridTest(j) \in Settled(j, F)
  <2>1. HybridTest(j) = Hybrid(window, SplitSettings(j))
    BY <1>3 DEF HybridTest, SplitSettings, window
  <2> QED
    BY <1>1, <1>3, <1>a, <2>1, HybridPlan
<1>4. ASSUME j.script = "run_csel_confirm", j.split \in 0 .. Unlimited
      PROVE  \E F : CselConfirm(j) \in Settled(j, F)
  <2> DEFINE sizes == Sweep(j.split \div 32, j.split)
  <2>1. j.split \div 32 \in Nat /\ j.split \in Nat /\ j.split <= Unlimited
    BY <1>4, Bounds
  <2>2. sizes \in Lists(0)
    BY <2>1, SweepList
  <2>3. CselConfirm(j) = Hybrid(sizes, SplitSettings(j))
    BY <1>4 DEF CselConfirm, SplitSettings
  <2> HIDE DEF sizes
  <2> QED
    BY <1>4, <1>a, <2>2, <2>3, HybridPlan
<1> QED
  BY <1>2, <1>3, <1>4

LEMMA LabelsDiffer ==
  /\ DOMAIN Labels = 1 .. 9 /\ Len(Labels) = 9 /\ DOMAIN Algorithms = 1 .. 9
  /\ \A i \in 1 .. 9, k \in 1 .. 9 : i < k => Labels[i] # Labels[k]
<1>1. DOMAIN Labels = 1 .. 9 /\ Len(Labels) = 9 /\ DOMAIN Algorithms = 1 .. 9
  BY DEF Labels, Algorithms
<1>2. ASSUME NEW i \in 1 .. 9, NEW k \in 1 .. 9, i < k
      PROVE  Labels[i] # Labels[k]
  <2>1. i \in {1, 2, 3, 4, 5, 6, 7, 8}
    BY <1>2
  <2> QED
    BY <1>2, <2>1 DEF Labels
<1> QED
  BY <1>1, <1>2

LEMMA SmallAlgBlock ==
  ASSUME NEW j, NEW s \in Lists(0), NEW i \in 1 .. 9
  PROVE  Fresh(Labels[i], s, Forced(Algorithms[i])) \in Block(j, {Labels[i]}, "mine", TRUE)
<1>1. CASE i = 9
  <2>1. Labels[i] = "rccl" /\ Forced(Algorithms[i]) = ForcedCcl
    BY <1>1 DEF Labels, Algorithms, ForcedCcl
  <2> QED
    BY <2>1, FreshRccl DEF RcclFiles
<1>2. CASE i # 9
  <2>1. i \in {1, 2, 3, 4, 5, 6, 7, 8}
    BY <1>2
  <2>2. Algorithms[i] \in MpichAlgorithms
    BY <2>1 DEF Algorithms, MpichAlgorithms
  <2>3. Forced(Algorithms[i]) \in PlainSettings
    BY <2>2 DEF PlainSettings
  <2>4. /\ Labels[i] \notin RcclFiles \cup TwoLevelFiles
        /\ Labels[i] \notin Baselines
    BY <2>1 DEF Labels, RcclFiles, TwoLevelFiles, Baselines
  <2> QED
    BY <2>3, <2>4, FreshPlain DEF Fresh, OnDevice
<1> QED
  BY <1>1, <1>2

LEMMA SmallAlgPlan ==
  ASSUME NEW j
  PROVE  \E F : SmallAlg(j) \in Settled(j, F)
<1> DEFINE s == Sweep(1, 64 * KiB)
           b == [i \in 1 .. 9 |-> Fresh(Labels[i], s, Forced(Algorithms[i]))]
           written == [k \in 0 .. 9 |-> {Labels[m] : m \in 1 .. k}]
           U == CommandSet(j, written[9])
           G == [k \in 0 .. 9 |-> Block(j, written[k], "mine", TRUE)]
<1>1. SmallAlg(j) = UseRccl \o FlattenSeq(b)
  <2>1. DOMAIN Labels = 1 .. 9
    BY LabelsDiffer
  <2> QED
    BY <2>1 DEF SmallAlg
<1>2. s \in Lists(0)
  BY Bounds, SweepList
<1>3. ASSUME NEW i \in 1 .. 9
      PROVE  b[i] \in Block(j, {Labels[i]}, "mine", TRUE)
  BY <1>2, <1>3, SmallAlgBlock
<1>4. Len(b) = 9 /\ DOMAIN b = 1 .. 9 /\ b = [i \in 1 .. 9 |-> b[i]]
  OBVIOUS
<1>a. ASSUME NEW k \in 0 .. 9
      PROVE  G[k] = Block(j, written[k], "mine", TRUE)
  OBVIOUS
<1>b. \A k \in 0 .. 9 : written[k] = {Labels[m] : m \in 1 .. k}
  OBVIOUS
<1> HIDE DEF s, b, written, G, U
<1>5. b \in Seq(Seq(U))
  <2>1. ASSUME NEW i \in 1 .. 9
        PROVE  b[i] \in Seq(U)
    <3>1. b[i] \in Seq(CommandSet(j, {Labels[i]}))
      BY <1>3 DEF Block, Part
    <3>2. {Labels[i]} \subseteq written[9]
      BY <1>b
    <3> QED
      BY <3>1, <3>2, CommandsGrow DEF U
  <2>2. [i \in 1 .. 9 |-> b[i]] \in Seq(Seq(U))
    BY <2>1, IsASeq
  <2> QED
    BY <1>4, <2>2
<1>6. <<>> \in G[0]
  <2>1. written[0] = {}
    BY <1>b
  <2> QED
    <3>1. 0 \in 0 .. 9
      OBVIOUS
    <3>2. G[0] = Block(j, written[0], "mine", TRUE)
      BY <1>a, <3>1
    <3> QED
      BY <2>1, <3>2, NothingIsBlock
<1>7. ASSUME NEW k \in 1 .. 9, NEW p \in G[k - 1]
      PROVE  p \o b[k] \in G[k]
  <2>1. p \in Block(j, written[k - 1], "mine", TRUE)
    <3>1. k - 1 \in 0 .. 9
      OBVIOUS
    <3> QED
      BY <1>a, <1>7, <3>1
  <2>2. written[k - 1] \cap {Labels[k]} = {}
    <3>1. Labels[k] \notin written[k - 1]
      BY <1>b, LabelsDiffer
    <3> QED
      BY <3>1
  <2>3. written[k - 1] \cup {Labels[k]} = written[k]
    <3>1. 1 .. k = (1 .. k - 1) \cup {k}
      OBVIOUS
    <3> QED
      BY <1>b, <3>1
  <2>4. p \o b[k] \in Block(j, written[k - 1] \cup {Labels[k]}, "mine", TRUE)
    BY <1>3, <2>1, <2>2, BlockJoin
  <2> QED
    <3>1. k \in 0 .. 9
      OBVIOUS
    <3>2. G[k] = Block(j, written[k], "mine", TRUE)
      BY <1>a, <3>1
    <3> QED
      BY <2>3, <2>4, <3>2
<1>8. FlattenSeq(b) \in G[9]
  <2>1. \A k \in 1 .. Len(b) : \A p \in Seq(U) : p \in G[k - 1] => p \o b[k] \in G[k]
    BY <1>4, <1>7
  <2>2. FlattenSeq(b) \in G[Len(b)]
    BY <1>5, <1>6, <2>1, Flattened
  <2> QED
    BY <1>4, <2>2
<1>9. FlattenSeq(b) \in Block(j, written[9], "mine", TRUE)
  <2>1. 9 \in 0 .. 9
    OBVIOUS
  <2>2. G[9] = Block(j, written[9], "mine", TRUE)
    BY <1>a, <2>1
  <2> QED
    BY <1>8, <2>2
<1>10. {} \cap written[9] = {}
  OBVIOUS
<1>11. UseRccl \o FlattenSeq(b) \in Stage(j, {} \cup written[9], "mine", TRUE)
  BY <1>9, <1>10, FirstStage, StageBlock
<1> QED
  BY <1>1, <1>11 DEF Stage

LEMMA ValidatePlan ==
  ASSUME NEW j
  PROVE  \E F : Validate(j) \in Settled(j, F)
<1> DEFINE C == [i \in 1 .. 12 |-> Check("passed")]
           L == <<Check("failed")>>
<1>1. C \in Seq(CommandSet(j, {})) /\ L \in Seq(CommandSet(j, {}))
  <2>1. Check("passed") \in CommandSet(j, {}) /\ Check("failed") \in CommandSet(j, {})
    BY DEF CommandSet, CheckSet
  <2>2. C \in [1 .. 12 -> CommandSet(j, {})] /\ L \in [1 .. 1 -> CommandSet(j, {})]
    BY <2>1
  <2> QED
    BY <2>2, IsASeq
<1>2. /\ \A i \in DOMAIN C : C[i].op = "check"
      /\ \A i \in DOMAIN L : L[i].op = "check"
  BY DEF Check
<1>3. Validate(j) = UseMine \o C \o L
  BY DEF Validate
<1> HIDE DEF C, L
<1>4. /\ C \in Block(j, {}, "mine", FALSE) /\ L \in Block(j, {}, "mine", FALSE)
  BY <1>1, <1>2 DEF Block, Part, HasHeader, KeepsRows, NoLoads, Suits
<1>5. {} \cap {} = {}
  OBVIOUS
<1>6. UseMine \o C \in Stage(j, {} \cup {}, "mine", FALSE)
  BY <1>4, <1>5, FirstStage, StageBlock
<1>7. UseMine \o C \o L \in Stage(j, {} \cup {} \cup {}, "mine", FALSE)
  BY <1>4, <1>5, <1>6, StageBlock
<1> QED
  BY <1>3, <1>7 DEF Stage

LEMMA Planned ==
  ASSUME NEW j \in DOMAIN Jobs
  PROVE  \E F : Plans[j] \in Settled(Jobs[j], F)
<1>1. Plans[j] = Plan(Jobs[j])
  BY DEF Plans
<1>2. /\ Jobs[j].script \in Scripts
      /\ Jobs[j].split \in 0 .. Unlimited
  BY StudyConstants
<1>3. CASE Jobs[j].script = "run_allreduce"
  <2>1. Plan(Jobs[j]) = Allreduce(Jobs[j])
    BY <1>3 DEF Plan
  <2> QED
    BY <1>1, <2>1, AllreducePlan
<1>4. CASE Jobs[j].script = "run_ml_sync"
  <2>1. Plan(Jobs[j]) = MlSync(Jobs[j])
    BY <1>4 DEF Plan
  <2> QED
    BY <1>1, <2>1, MlSyncPlan
<1>5. CASE Jobs[j].script = "run_rccl_8192_sweep"
  <2>1. Plan(Jobs[j]) = RcclSweep(Jobs[j])
    BY <1>5 DEF Plan
  <2> QED
    BY <1>1, <2>1, RcclSweepPlan
<1>6. CASE Jobs[j].script = "run_csel_auto"
  <2>1. Plan(Jobs[j]) = CselAuto(Jobs[j])
    BY <1>6 DEF Plan
  <2> QED
    BY <1>1, <1>6, <2>1, CselAutoPlan
<1>7. CASE Jobs[j].script = "run_hybrid_prod"
  <2>1. Plan(Jobs[j]) = HybridProd(Jobs[j])
    BY <1>7 DEF Plan
  <2> QED
    BY <1>1, <1>7, <2>1, HybridPlans
<1>8. CASE Jobs[j].script = "run_hybrid_test"
  <2>1. Plan(Jobs[j]) = HybridTest(Jobs[j])
    BY <1>8 DEF Plan
  <2> QED
    BY <1>1, <1>8, <2>1, HybridPlans
<1>9. CASE Jobs[j].script = "run_csel_confirm"
  <2>1. Plan(Jobs[j]) = CselConfirm(Jobs[j])
    BY <1>9 DEF Plan
  <2> QED
    BY <1>1, <1>2, <1>9, <2>1, HybridPlans
<1>10. CASE Jobs[j].script = "run_smallalg_probe"
  <2>1. Plan(Jobs[j]) = SmallAlg(Jobs[j])
    BY <1>10 DEF Plan
  <2> QED
    BY <1>1, <2>1, SmallAlgPlan
<1>11. CASE Jobs[j].script = "validate"
  <2>1. Plan(Jobs[j]) = Validate(Jobs[j])
    BY <1>11 DEF Plan
  <2> QED
    BY <1>1, <2>1, ValidatePlan
<1> QED
  BY <1>2, <1>3, <1>4, <1>5, <1>6, <1>7, <1>8, <1>9, <1>10, <1>11 DEF Scripts

-----------------------------------------------------------------------------
(***************************************************************************)
(* The order of the launches in the two jobs that rely on it.              *)
(***************************************************************************)
Launched(p, s) == \E i \in DOMAIN p : p[i].op = "launch" /\ s \in Range(p[i].sizes)

\* The sizes fall from each launch to the next, and a launch has one size.
Falling(p) ==
  \A i \in DOMAIN p, k \in DOMAIN p :
    i <= k /\ p[i].op = "launch" /\ p[k].op = "launch" =>
      \A s \in Range(p[i].sizes), t \in Range(p[k].sizes) : ~(s < t) /\ (i < k => s > t)

LEMMA FallingJoin ==
  ASSUME NEW S, NEW p \in Seq(S), NEW q \in Seq(S), Falling(p), Falling(q),
         \A s, t : Launched(p, s) /\ Launched(q, t) => s > t /\ ~(s < t)
  PROVE  /\ Falling(p \o q)
         /\ \A s : Launched(p \o q, s) => Launched(p, s) \/ Launched(q, s)
<1> DEFINE r == p \o q
           m == Len(p)
<1>1. /\ m \in Nat /\ Len(q) \in Nat /\ DOMAIN p = 1 .. m /\ DOMAIN q = 1 .. Len(q)
      /\ DOMAIN r = 1 .. m + Len(q)
  BY Concat
<1>2. \A i \in 1 .. m : r[i] = p[i]
  BY Concat
<1>3. ASSUME NEW i \in DOMAIN r, i \notin 1 .. m
      PROVE  i - m \in DOMAIN q /\ r[i] = q[i - m]
  <2>1. i - m \in 1 .. Len(q) /\ m + (i - m) = i
    BY <1>1, <1>3
  <2> QED
    BY <1>1, <2>1, Concat
<1> HIDE DEF r, m
<1>4. ASSUME NEW i \in DOMAIN r, r[i].op = "launch", NEW s \in Range(r[i].sizes)
      PROVE  Launched(p, s) \/ Launched(q, s)
  BY <1>1, <1>2, <1>3, <1>4 DEF Launched
<1>5. ASSUME NEW i \in DOMAIN r, NEW k \in DOMAIN r, i <= k,
             r[i].op = "launch", r[k].op = "launch",
             NEW s \in Range(r[i].sizes), NEW t \in Range(r[k].sizes)
      PROVE  ~(s < t) /\ (i < k => s > t)
  <2>1. CASE i \in 1 .. m /\ k \in 1 .. m
    <3>1. r[i] = p[i] /\ r[k] = p[k] /\ i \in DOMAIN p /\ k \in DOMAIN p
      BY <1>1, <1>2, <2>1
    <3> QED
      BY <1>5, <3>1 DEF Falling
  <2>2. CASE i \in 1 .. m /\ k \notin 1 .. m
    <3>1. Launched(p, s)
      BY <1>1, <1>2, <1>5, <2>2 DEF Launched
    <3>2. Launched(q, t)
      BY <1>3, <1>5, <2>2 DEF Launched
    <3> QED
      BY <3>1, <3>2
  <2>3. CASE i \notin 1 .. m /\ k \notin 1 .. m
    <3>1. /\ r[i] = q[i - m] /\ r[k] = q[k - m]
          /\ i - m \in DOMAIN q /\ k - m \in DOMAIN q
      BY <1>3, <2>3
    <3>2. i - m <= k - m /\ (i < k => i - m < k - m)
      BY <1>1, <1>5
    <3> QED
      BY <1>5, <3>1, <3>2 DEF Falling
  <2>4. ~(i \notin 1 .. m /\ k \in 1 .. m)
    BY <1>1, <1>5
  <2> QED
    BY <2>1, <2>2, <2>3, <2>4
<1>6. Falling(r)
  BY <1>5 DEF Falling
<1>7. \A s : Launched(r, s) => Launched(p, s) \/ Launched(q, s)
  BY <1>4 DEF Launched
<1> QED
  BY <1>6, <1>7 DEF r

\* One launch for each of falling sizes.
LEMMA FallingOneByOne ==
  ASSUME NEW f, NEW n \in Nat, NEW size \in [1 .. n -> Nat], NEW c,
         \A i \in 1 .. n : c[i].op = "launch" /\ c[i].sizes = <<size[i]>>,
         \A i \in 1 .. n, k \in 1 .. n : i < k => size[i] > size[k]
  PROVE  Falling(FlattenSeq(Marked(f, c, n)))
<1> DEFINE ss == Marked(f, c, n)
           U == {Mark(f)} \cup {c[i] : i \in 1 .. n}
           G == [k \in 0 .. n |->
                   {p \in Seq(U) : /\ Falling(p)
                                   /\ \A s : Launched(p, s) => \E i \in 1 .. k : s = size[i]}]
<1>1. ASSUME NEW i \in 1 .. n
      PROVE  /\ ss[i] \in Seq(U) /\ Falling(ss[i])
             /\ \A s : Launched(ss[i], s) => s = size[i]
  <2>1. ss[i] = <<Mark(f), c[i]>>
    BY DEF Marked
  <2>2. <<Mark(f), c[i]>> \in Seq(U)
    OBVIOUS
  <2> DEFINE q == <<Mark(f), c[i]>>
  <2>3. /\ DOMAIN q = 1 .. 2 /\ q[1].op = "header" /\ q[2] = c[i]
    BY DEF Mark
  <2> HIDE DEF q
  <2>4. c[i].op = "launch" /\ Range(c[i].sizes) = {size[i]}
    <3>1. c[i].sizes = <<size[i]>>
      OBVIOUS
    <3>2. Range(<<size[i]>>) = {size[i]}
      BY DEF Range
    <3> QED
      BY <3>1, <3>2
  <2>5. \A k \in DOMAIN q : q[k].op = "launch" => k = 2
    <3>1. \A k \in 1 .. 2 : k = 1 \/ k = 2
      OBVIOUS
    <3> QED
      BY <2>3, <3>1
  <2>6. \A s : Launched(q, s) => s = size[i]
    BY <2>3, <2>4, <2>5 DEF Launched
  <2>7. Falling(q)
    <3>1. size[i] \in Nat /\ ~(size[i] < size[i])
      OBVIOUS
    <3> QED
      BY <2>3, <2>4, <2>5, <3>1 DEF Falling
  <2> QED
    BY <2>1, <2>2, <2>6, <2>7 DEF q
<1>2. ASSUME NEW k \in 0 .. n, NEW p
      PROVE  p \in G[k] <=> /\ p \in Seq(U) /\ Falling(p)
                            /\ \A s : Launched(p, s) => \E i \in 1 .. k : s = size[i]
  OBVIOUS
<1>3. ss = [i \in 1 .. n |-> ss[i]] /\ Len(ss) = n
  BY DEF Marked
<1> HIDE DEF ss, U, G
<1>4. ss \in Seq(Seq(U))
  <2>1. [i \in 1 .. n |-> ss[i]] \in Seq(Seq(U))
    BY <1>1, IsASeq
  <2> QED
    BY <1>3, <2>1
<1>5. <<>> \in G[0]
  <2>1. <<>> \in Seq(U) /\ DOMAIN <<>> = {} /\ 0 \in 0 .. n
    OBVIOUS
  <2>2. Falling(<<>>) /\ \A s : ~Launched(<<>>, s)
    BY <2>1 DEF Falling, Launched
  <2> QED
    BY <1>2, <2>1, <2>2
<1>6. ASSUME NEW k \in 1 .. n, NEW p \in Seq(U), p \in G[k - 1]
      PROVE  p \o ss[k] \in G[k]
  <2>1. k - 1 \in 0 .. n /\ k \in 0 .. n
    OBVIOUS
  <2>2. Falling(p) /\ \A s : Launched(p, s) => \E i \in 1 .. k - 1 : s = size[i]
    BY <1>2, <1>6, <2>1
  <2>3. ASSUME NEW i \in 1 .. k - 1
        PROVE  size[i] > size[k] /\ ~(size[i] < size[k])
    <3>1. i \in 1 .. n /\ i < k
      OBVIOUS
    <3>2. size[i] > size[k] /\ size[i] \in Nat /\ size[k] \in Nat
      BY <3>1
    <3> QED
      BY <3>2
  <2>a. \A s : Launched(ss[k], s) => s = size[k]
    BY <1>1
  <2>4. \A s, t : Launched(p, s) /\ Launched(ss[k], t) => s > t /\ ~(s < t)
    <3>1. ASSUME NEW s, NEW t, Launched(p, s), Launched(ss[k], t)
          PROVE  s > t /\ ~(s < t)
      <4>1. PICK i \in 1 .. k - 1 : s = size[i]
        BY <2>2, <3>1
      <4>2. t = size[k]
        BY <2>a, <3>1
      <4> QED
        BY <2>3, <4>1, <4>2
    <3> QED
      BY <3>1
  <2>5. /\ Falling(p \o ss[k])
        /\ \A s : Launched(p \o ss[k], s) => Launched(p, s) \/ Launched(ss[k], s)
    BY <1>1, <2>2, <2>4, FallingJoin
  <2>6. p \o ss[k] \in Seq(U)
    BY <1>1, Concat
  <2>7. ASSUME NEW s, Launched(p \o ss[k], s)
        PROVE  \E i \in 1 .. k : s = size[i]
    <3>1. CASE Launched(p, s)
      <4>1. PICK i \in 1 .. k - 1 : s = size[i]
        BY <2>2, <3>1
      <4>2. i \in 1 .. k
        OBVIOUS
      <4> QED
        BY <4>1, <4>2
    <3>2. CASE Launched(ss[k], s)
      <4>1. s = size[k]
        BY <2>a, <3>2
      <4>2. k \in 1 .. k
        OBVIOUS
      <4> QED
        BY <4>1, <4>2
    <3> QED
      BY <2>5, <2>7, <3>1, <3>2
  <2> QED
    BY <1>2, <2>1, <2>5, <2>6, <2>7
<1>7. FlattenSeq(ss) \in G[n]
  <2>1. \A k \in 1 .. Len(ss) : \A p \in Seq(U) : p \in G[k - 1] => p \o ss[k] \in G[k]
    BY <1>3, <1>6
  <2>2. FlattenSeq(ss) \in G[Len(ss)]
    BY <1>4, <1>5, <2>1, Flattened
  <2> QED
    BY <1>3, <2>2
<1>8. n \in 0 .. n
  OBVIOUS
<1>9. Falling(FlattenSeq(ss))
  BY <1>2, <1>7, <1>8
<1> QED
  BY <1>9 DEF ss

LEMMA ThreeLong ==
  ASSUME NEW x, NEW y, NEW z
  PROVE  <<x, y>> \o <<z>> = <<x, y, z>>
<1> DEFINE S == {x, y, z}
           r == <<x, y>> \o <<z>>
<1>1. <<x, y>> \in Seq(S) /\ <<z>> \in Seq(S) /\ <<x, y, z>> \in Seq(S)
  OBVIOUS
<1>2. /\ Len(<<x, y>>) = 2 /\ Len(<<z>>) = 1 /\ DOMAIN <<x, y, z>> = 1 .. 3
      /\ <<x, y>>[1] = x /\ <<x, y>>[2] = y /\ <<z>>[1] = z
      /\ <<x, y, z>>[1] = x /\ <<x, y, z>>[2] = y /\ <<x, y, z>>[3] = z
  OBVIOUS
<1>3. /\ r \in Seq(S) /\ DOMAIN r = 1 .. 2 + 1
      /\ \A i \in 1 .. 2 : r[i] = <<x, y>>[i]
      /\ \A i \in 1 .. 1 : r[2 + i] = <<z>>[i]
  <2> HIDE DEF S
  <2> QED
    BY <1>1, <1>2, Concat
<1> HIDE DEF S, r
<1>4. DOMAIN r = 1 .. 3 /\ r[1] = x /\ r[2] = y /\ r[3] = z
  <2>1. 1 \in 1 .. 2 /\ 2 \in 1 .. 2 /\ 1 \in 1 .. 1 /\ 2 + 1 = 3
    OBVIOUS
  <2> QED
    BY <1>2, <1>3, <2>1
<1>5. \A i \in 1 .. 3 : i = 1 \/ i = 2 \/ i = 3
  OBVIOUS
<1>6. r = [i \in 1 .. 3 |-> r[i]]
  BY <1>3, <1>4, LenProperties
<1>7. r = <<x, y, z>>
  BY <1>2, <1>4, <1>5, <1>6
<1> QED
  BY <1>7 DEF r

\* The sweep of 8192 nodes measures the sizes from the largest to the smallest.
LEMMA SweepOrder ==
  ASSUME NEW j
  PROVE  Falling(RcclSweep(j))
<1> DEFINE f == "C_mpich_rccl"
           n == Len(SIZES)
           c == [i \in 1 .. n |-> OnDevice(f, <<SIZES[i]>>, ForcedCcl)]
           C == OneByOne(SIZES, f, LAMBDA s : OnDevice(f, s, ForcedCcl))
           H == <<New(f)>>
           p == UseRccl \o H
           S == CommandSet(j, {f})
<1>1. SIZES \in Seq(0 .. Unlimited) /\ n \in Nat /\ DOMAIN SIZES = 1 .. n
  BY SizesFall, Singletons
<1>2. RcclSweep(j) = p \o C
  BY DEF RcclSweep
<1>3. C = FlattenSeq(Marked(f, c, n))
  <2>1. \A i \in 1 .. n : c[i] = OnDevice(f, <<SIZES[i]>>, ForcedCcl)
    OBVIOUS
  <2>2. [i \in DOMAIN SIZES |-> <<Mark(f), OnDevice(f, <<SIZES[i]>>, ForcedCcl)>>]
          = [i \in 1 .. n |-> <<Mark(f), c[i]>>]
    BY <1>1, <2>1
  <2> QED
    BY <2>2 DEF OneByOne, Marked
<1>4. Falling(C)
  <2>1. \A i \in 1 .. n : c[i].op = "launch" /\ c[i].sizes = <<SIZES[i]>>
    BY DEF OnDevice, Measure
  <2> HIDE DEF c, n, f
  <2>2. SIZES \in [1 .. n -> Nat]
    <3>1. SIZES = [i \in 1 .. n |-> SIZES[i]]
      BY <1>1 DEF n
    <3>2. \A i \in 1 .. n : SIZES[i] \in 0 .. Unlimited
      BY <1>1, ElementOfSeq DEF n
    <3>3. \A i \in 1 .. n : SIZES[i] \in Nat
      BY <3>2
    <3> QED
      BY <3>1, <3>3
  <2>3. \A i \in 1 .. n, k \in 1 .. n : i < k => SIZES[i] > SIZES[k]
    BY <1>1, SizesFall
  <2>4. Falling(FlattenSeq(Marked(f, c, n)))
    BY <1>1, <2>1, <2>2, <2>3, FallingOneByOne
  <2> QED
    BY <1>3, <2>4
<1>5. C \in Seq(S) /\ H \in Seq(S)
  <2>1. f \in RcclFiles
    BY DEF RcclFiles
  <2>2. C \in Block(j, {f}, "mine", TRUE)
    BY <1>1, <2>1, RcclOneByOne
  <2>3. H \in Block(j, {f}, "mine", TRUE)
    BY HeaderIsBlock
  <2> HIDE DEF C, H
  <2> QED
    BY <2>2, <2>3 DEF Block, Part
<1>6. p \in Seq(S)
  <2>1. Load("mine") \in S /\ Load("plugin") \in S
    BY LoadIsPart
  <2>2. UseRccl \in Seq(S)
    <3> HIDE DEF S
    <3> QED
      BY <2>1 DEF UseRccl
  <2> QED
    BY <1>5, <2>2, Concat
<1>7. \A i \in DOMAIN p : p[i].op # "launch"
  <2>1. \A x, y, z : <<x, y>> \o <<z>> = <<x, y, z>>
    BY ThreeLong
  <2>2. p = <<Load("mine"), Load("plugin"), New(f)>>
    BY <2>1 DEF UseRccl
  <2>3. Load("mine").op = "load" /\ Load("plugin").op = "load" /\ New(f).op = "header"
    BY DEF Load, New
  <2> HIDE DEF p
  <2>4. \A x, y, z : \A i \in DOMAIN <<x, y, z>> :
          \/ <<x, y, z>>[i] = x \/ <<x, y, z>>[i] = y \/ <<x, y, z>>[i] = z
    OBVIOUS
  <2>5. ASSUME NEW i \in DOMAIN p
        PROVE  p[i].op # "launch"
    <3>1. p[i] = Load("mine") \/ p[i] = Load("plugin") \/ p[i] = New(f)
      BY <2>2, <2>4
    <3> QED
      BY <2>3, <3>1
  <2> QED
    BY <2>5
<1> HIDE DEF C, H, p, S
<1>8. Falling(p) /\ \A s : ~Launched(p, s)
  BY <1>7 DEF Falling, Launched
<1> QED
  BY <1>2, <1>4, <1>5, <1>6, <1>8, FallingJoin

\* In the gradient job the slow baseline comes after everything else.
LEMMA BaselineLast ==
  ASSUME NEW j, NEW i \in DOMAIN MlSync(j), NEW k \in DOMAIN MlSync(j),
         MlSync(j)[i].op = "launch", MlSync(j)[k].op = "launch",
         MlSync(j)[i].file # "B_mpich_dev", MlSync(j)[k].file = "B_mpich_dev"
  PROVE  i < k
<1>1. PICK F : \E p \in Settled(j, F), q \in Block(j, {"B_mpich_dev"}, "mine", FALSE) :
        /\ F \cap {"B_mpich_dev"} = {}
        /\ MlSync(j) = p \o UseMine \o q
  BY MlSyncParts
<1>2. PICK p \in Settled(j, F), q \in Block(j, {"B_mpich_dev"}, "mine", FALSE) :
        /\ F \cap {"B_mpich_dev"} = {}
        /\ MlSync(j) = p \o UseMine \o q
  BY <1>1
<1> DEFINE G == F \cup {"B_mpich_dev"}
           S == CommandSet(j, G)
           r == MlSync(j)
           b == p \o UseMine
<1>3. b \in Seq(CommandSet(j, F)) /\ q \in Seq(CommandSet(j, {"B_mpich_dev"}))
  <2>1. b \in Stage(j, F, "mine", FALSE)
    BY StageLoad DEF UseMine
  <2> HIDE DEF b
  <2> QED
    BY <2>1 DEF Stage, Settled, Block, Part
<1>4. r = b \o q
  BY <1>2
<1> HIDE DEF S, r, b
<1>5. b \in Seq(S) /\ q \in Seq(S)
  <2>1. F \subseteq G /\ {"B_mpich_dev"} \subseteq G
    OBVIOUS
  <2> HIDE DEF G
  <2> QED
    BY <1>3, <2>1, CommandsGrow DEF S
<1>6. /\ DOMAIN r = 1 .. Len(b) + Len(q) /\ Len(b) \in Nat /\ Len(q) \in Nat
      /\ \A h \in 1 .. Len(b) : r[h] = b[h]
      /\ \A h \in 1 .. Len(q) : r[Len(b) + h] = q[h]
  <2>1. /\ DOMAIN (b \o q) = 1 .. Len(b) + Len(q) /\ Len(b) \in Nat /\ Len(q) \in Nat
        /\ \A h \in 1 .. Len(b) : (b \o q)[h] = b[h]
        /\ \A h \in 1 .. Len(q) : (b \o q)[Len(b) + h] = q[h]
    BY <1>5, Concat
  <2> QED
    BY <1>4, <2>1
<1>7. ASSUME NEW h \in DOMAIN r, r[h].op = "launch"
      PROVE  /\ h \in 1 .. Len(b) => r[h].file # "B_mpich_dev"
             /\ h \notin 1 .. Len(b) => r[h].file = "B_mpich_dev"
  <2>1. ASSUME h \in 1 .. Len(b)
        PROVE  r[h].file # "B_mpich_dev"
    <3>1. r[h] = b[h]
      BY <1>6, <2>1
    <3>2. b[h] \in CommandSet(j, F)
      BY <1>3, <2>1, ElementOfSeq
    <3> QED
      BY <1>2, <1>7, <3>1, <3>2, CommandOps
  <2>2. ASSUME h \notin 1 .. Len(b)
        PROVE  r[h].file = "B_mpich_dev"
    <3> DEFINE m == h - Len(b)
    <3>1. m \in 1 .. Len(q) /\ Len(b) + m = h
      BY <1>6, <2>2
    <3> HIDE DEF m
    <3>2. r[h] = q[m]
      BY <1>6, <3>1
    <3>3. q[m] \in CommandSet(j, {"B_mpich_dev"})
      BY <1>3, <3>1, ElementOfSeq
    <3> QED
      BY <1>7, <3>2, <3>3, CommandOps
  <2> QED
    BY <2>1, <2>2
<1>8. i \in 1 .. Len(b) /\ k \notin 1 .. Len(b)
  BY <1>7 DEF r
<1> QED
  BY <1>6, <1>8 DEF r

-----------------------------------------------------------------------------
(***************************************************************************)
(* The launches of run_allreduce: one for each file.                       *)
(***************************************************************************)
\* The launches of a plan are in L, each once.
LaunchesOnce(p, L) ==
  /\ \A i \in DOMAIN p : p[i].op = "launch" => p[i] \in L
  /\ \A i, k \in DOMAIN p : p[i].op = "launch" /\ p[k] = p[i] => i = k

LEMMA OnceJoin ==
  ASSUME NEW S, NEW p \in Seq(S), NEW q \in Seq(S), NEW L, NEW M, L \cap M = {},
         LaunchesOnce(p, L), LaunchesOnce(q, M)
  PROVE  p \o q \in Seq(S) /\ LaunchesOnce(p \o q, L \cup M)
<1> DEFINE r == p \o q
           m == Len(p)
<1>1. /\ m \in Nat /\ Len(q) \in Nat /\ DOMAIN p = 1 .. m /\ DOMAIN q = 1 .. Len(q)
      /\ DOMAIN r = 1 .. m + Len(q) /\ r \in Seq(S)
  BY Concat
<1>2. \A i \in 1 .. m : r[i] = p[i]
  BY Concat
<1>3. ASSUME NEW i \in DOMAIN r, i \notin 1 .. m
      PROVE  i - m \in DOMAIN q /\ r[i] = q[i - m]
  <2>1. i - m \in 1 .. Len(q) /\ m + (i - m) = i
    BY <1>1, <1>3
  <2> QED
    BY <1>1, <2>1, Concat
<1> HIDE DEF r, m
<1>4. ASSUME NEW i \in DOMAIN r, r[i].op = "launch"
      PROVE  IF i \in 1 .. m THEN r[i] \in L ELSE r[i] \in M
  BY <1>1, <1>2, <1>3, <1>4 DEF LaunchesOnce
<1>5. ASSUME NEW i \in DOMAIN r, NEW k \in DOMAIN r, r[i].op = "launch", r[k] = r[i]
      PROVE  i = k
  <2>1. i \in 1 .. m <=> k \in 1 .. m
    BY <1>4, <1>5
  <2>2. CASE i \in 1 .. m
    BY <1>1, <1>2, <1>5, <2>1, <2>2 DEF LaunchesOnce
  <2>3. CASE i \notin 1 .. m
    <3>1. /\ i - m \in DOMAIN q /\ r[i] = q[i - m]
          /\ k - m \in DOMAIN q /\ r[k] = q[k - m]
      BY <1>3, <2>1, <2>3
    <3>2. i - m = k - m
      BY <1>5, <3>1 DEF LaunchesOnce
    <3> QED
      BY <1>1, <3>2
  <2> QED
    BY <2>2, <2>3
<1>6. LaunchesOnce(r, L \cup M)
  BY <1>4, <1>5 DEF LaunchesOnce
<1> QED
  BY <1>1, <1>6 DEF r

\* Loads, and a header with the launch below it.
LEMMA OncePieces ==
  ASSUME NEW S
  PROVE  /\ \A x \in S : x.op # "launch" => <<x>> \in Seq(S) /\ LaunchesOnce(<<x>>, {})
         /\ \A x, y \in S : x.op # "launch" /\ y.op # "launch" =>
              <<x, y>> \in Seq(S) /\ LaunchesOnce(<<x, y>>, {})
         /\ \A x, y \in S : x.op # "launch" =>
              <<x, y>> \in Seq(S) /\ LaunchesOnce(<<x, y>>, {y})
         /\ <<>> \in Seq(S) /\ LaunchesOnce(<<>>, {})
<1>1. ASSUME NEW x \in S, x.op # "launch"
      PROVE  <<x>> \in Seq(S) /\ LaunchesOnce(<<x>>, {})
  <2>1. <<x>> \in Seq(S) /\ DOMAIN <<x>> = {1} /\ <<x>>[1] = x
    OBVIOUS
  <2> QED
    BY <1>1, <2>1 DEF LaunchesOnce
<1>2. ASSUME NEW x \in S, NEW y \in S, x.op # "launch"
      PROVE  /\ <<x, y>> \in Seq(S) /\ LaunchesOnce(<<x, y>>, {y})
             /\ y.op # "launch" => LaunchesOnce(<<x, y>>, {})
  <2>1. <<x, y>> \in Seq(S) /\ DOMAIN <<x, y>> = {1, 2} /\ <<x, y>>[1] = x /\ <<x, y>>[2] = y
    OBVIOUS
  <2> QED
    BY <1>2, <2>1 DEF LaunchesOnce
<1>3. <<>> \in Seq(S) /\ DOMAIN <<>> = {}
  OBVIOUS
<1> QED
  BY <1>1, <1>2, <1>3 DEF LaunchesOnce

LEMMA OnceMore ==
  ASSUME NEW S, NEW p \in Seq(S), NEW q \in Seq(S), NEW r \in Seq(S), NEW L, NEW x,
         x \notin L, LaunchesOnce(p, L), LaunchesOnce(q, {}), LaunchesOnce(r, {x})
  PROVE  /\ p \o q \o r \in Seq(S) /\ LaunchesOnce(p \o q \o r, L \cup {x})
         /\ q \o r \in Seq(S) /\ LaunchesOnce(q \o r, {x})
<1>1. L \cap {} = {} /\ L \cup {} = L /\ L \cap {x} = {} /\ {} \cap {x} = {} /\ {} \cup {x} = {x}
  OBVIOUS
<1>2. p \o q \in Seq(S) /\ LaunchesOnce(p \o q, L)
  BY <1>1, OnceJoin
<1>3. p \o q \o r \in Seq(S) /\ LaunchesOnce(p \o q \o r, L \cup {x})
  BY <1>1, <1>2, OnceJoin
<1>4. q \o r \in Seq(S) /\ LaunchesOnce(q \o r, {x})
  BY <1>1, OnceJoin
<1> QED
  BY <1>3, <1>4

\* What run_allreduce launches.
AllreduceLaunches(j) ==
  {Measure("A_mpich_host", "osu_mine", "host", Sweep(0, CPU_MAX), Automatic(StockMpir)),
   OnDevice("B_mpich_dev", Sweep(0, CPU_MAX), Compositions),
   OnDevice("C_mpich_rccl", Sweep(0, GPU_MAX), ForcedCcl),
   Cray("D_cray_gpuaware", Sweep(0, CRAY_MAX(j.nodes))),
   Measure("E_rccl_tests", "rccl_tests", "device", Sweep(1, GPU_MAX), NotOurs)}

LEMMA AllreduceOnce ==
  ASSUME NEW j
  PROVE  LaunchesOnce(Allreduce(j), AllreduceLaunches(j))
<1> DEFINE a == Measure("A_mpich_host", "osu_mine", "host", Sweep(0, CPU_MAX),
                        Automatic(StockMpir))
           b == OnDevice("B_mpich_dev", Sweep(0, CPU_MAX), Compositions)
           c == OnDevice("C_mpich_rccl", Sweep(0, GPU_MAX), ForcedCcl)
           d == Cray("D_cray_gpuaware", Sweep(0, CRAY_MAX(j.nodes)))
           e == Measure("E_rccl_tests", "rccl_tests", "device", Sweep(1, GPU_MAX), NotOurs)
           S == {Load("mine"), Load("plugin"), Load("cray"), New("A_mpich_host"),
                 New("B_mpich_dev"), New("C_mpich_rccl"), New("D_cray_gpuaware"),
                 New("E_rccl_tests"), a, b, c, d, e}
           A == <<New("A_mpich_host"), a>>
           B == <<New("B_mpich_dev"), b>>
           C == <<New("C_mpich_rccl"), c>>
           D == <<New("D_cray_gpuaware"), d>>
           E == <<New("E_rccl_tests"), e>>
           p1 == UseMine \o A
           p2 == p1 \o UseMine \o B
           p3 == p2 \o UseRccl \o C
           D1 == IF j.cray THEN UseCray \o D ELSE <<>>
           p4 == p3 \o D1
           E1 == IF j.nodes <= 8 THEN UseRccl \o E ELSE <<>>
           p5 == p4 \o E1
<1>1. Allreduce(j) = p5
  BY DEF Allreduce, Fresh
<1>2. /\ a.file = "A_mpich_host" /\ b.file = "B_mpich_dev" /\ c.file = "C_mpich_rccl"
      /\ d.file = "D_cray_gpuaware" /\ e.file = "E_rccl_tests"
  BY DEF Measure, OnDevice, Cray
<1>3. AllreduceLaunches(j) = {a, b, c, d, e}
  BY DEF AllreduceLaunches
<1>4. /\ \A what : Load(what).op # "launch"
      /\ \A f : New(f).op # "launch"
  BY DEF Load, New
<1> HIDE DEF a, b, c, d, e
<1>5. /\ Load("mine") \in S /\ Load("plugin") \in S /\ Load("cray") \in S
      /\ New("A_mpich_host") \in S /\ New("B_mpich_dev") \in S /\ New("C_mpich_rccl") \in S
      /\ New("D_cray_gpuaware") \in S /\ New("E_rccl_tests") \in S
      /\ a \in S /\ b \in S /\ c \in S /\ d \in S /\ e \in S
  OBVIOUS
<1> HIDE DEF S
<1>6. /\ UseMine \in Seq(S) /\ LaunchesOnce(UseMine, {})
      /\ UseRccl \in Seq(S) /\ LaunchesOnce(UseRccl, {})
      /\ UseCray \in Seq(S) /\ LaunchesOnce(UseCray, {})
  BY <1>4, <1>5, OncePieces DEF UseMine, UseRccl, UseCray
<1>7. /\ A \in Seq(S) /\ LaunchesOnce(A, {a}) /\ B \in Seq(S) /\ LaunchesOnce(B, {b})
      /\ C \in Seq(S) /\ LaunchesOnce(C, {c}) /\ D \in Seq(S) /\ LaunchesOnce(D, {d})
      /\ E \in Seq(S) /\ LaunchesOnce(E, {e})
  BY <1>4, <1>5, OncePieces
<1>8. <<>> \in Seq(S) /\ \A L : LaunchesOnce(<<>>, L)
  BY OncePieces DEF LaunchesOnce
<1> HIDE DEF A, B, C, D, E
<1>9. p1 \in Seq(S) /\ LaunchesOnce(p1, {a})
  <2>1. a \notin {}
    OBVIOUS
  <2> QED
    BY <1>6, <1>7, <1>8, <2>1, OnceMore
<1> HIDE DEF p1
<1>10. p2 \in Seq(S) /\ LaunchesOnce(p2, {a} \cup {b})
  <2>1. b \notin {a}
    BY <1>2
  <2> QED
    BY <1>6, <1>7, <1>9, <2>1, OnceMore
<1> HIDE DEF p2
<1>11. p3 \in Seq(S) /\ LaunchesOnce(p3, {a} \cup {b} \cup {c})
  <2>1. c \notin {a} \cup {b}
    BY <1>2
  <2> QED
    BY <1>6, <1>7, <1>10, <2>1, OnceMore
<1> HIDE DEF p3
<1>12. D1 \in Seq(S) /\ LaunchesOnce(D1, {d})
  <2>1. d \notin {}
    OBVIOUS
  <2>2. UseCray \o D \in Seq(S) /\ LaunchesOnce(UseCray \o D, {d})
    BY <1>6, <1>7, <1>8, <2>1, OnceMore
  <2> QED
    BY <1>8, <2>2
<1>13. E1 \in Seq(S) /\ LaunchesOnce(E1, {e})
  <2>1. e \notin {}
    OBVIOUS
  <2>2. UseRccl \o E \in Seq(S) /\ LaunchesOnce(UseRccl \o E, {e})
    BY <1>6, <1>7, <1>8, <2>1, OnceMore
  <2> QED
    BY <1>8, <2>2
<1> HIDE DEF D1, E1
<1>14. p4 \in Seq(S) /\ LaunchesOnce(p4, {a} \cup {b} \cup {c} \cup {d})
  <2>1. ({a} \cup {b} \cup {c}) \cap {d} = {}
    BY <1>2
  <2> QED
    BY <1>11, <1>12, <2>1, OnceJoin
<1> HIDE DEF p4
<1>15. LaunchesOnce(p5, {a} \cup {b} \cup {c} \cup {d} \cup {e})
  <2>1. ({a} \cup {b} \cup {c} \cup {d}) \cap {e} = {}
    BY <1>2
  <2> QED
    BY <1>13, <1>14, <2>1, OnceJoin
<1>16. {a} \cup {b} \cup {c} \cup {d} \cup {e} = {a, b, c, d, e}
  OBVIOUS
<1> QED
  BY <1>1, <1>3, <1>15, <1>16

\* Each into a file of its own, in ascending sizes.
LEMMA AllreduceFiles ==
  ASSUME NEW j, NEW x \in AllreduceLaunches(j)
  PROVE  /\ \A y \in AllreduceLaunches(j) : y.file = x.file => y = x
         /\ x.file # "E_rccl_tests" =>
              \E hi \in Nat : x.sizes = Sweep(0, hi)
         /\ x.file \in {"A_mpich_host", "B_mpich_dev"} => x.sizes = Sweep(0, CPU_MAX)
<1>1. CPU_MAX \in Nat /\ GPU_MAX \in Nat /\ CRAY_MAX(j.nodes) \in Nat
  BY Bounds, CrayMax
<1> QED
  BY <1>1 DEF AllreduceLaunches, Measure, OnDevice, Cray

=============================================================================
