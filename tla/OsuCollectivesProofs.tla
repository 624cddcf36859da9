------------------------ MODULE OsuCollectivesProofs ------------------------
(***************************************************************************)
(* What holds of the benchmarks over osu_util_mpi.c for every job they are *)
(* made for, any number of ranks, iterations, elements and faults.         *)
(***************************************************************************)
EXTENDS OsuCollectives, SumLemmas, SequenceTheorems

-----------------------------------------------------------------------------
(***************************************************************************)
(* Where a rank can be, by the kind of benchmark.                          *)
(***************************************************************************)
Loop == {"fill", "call", "check", "checked"}
Inside == {"send", "recv", "use", "win free"}
Places(j) ==
  {"start"} \cup CASE j.bench = "COLLECTIVE" -> {"cart", "radius", "graph"} \cup Loop
                   [] j.bench = "PT2PT" -> {"allocate", "release"} \cup Loop
                   [] j.bench = "ONE_SIDED" -> {"allocate", "window", "release"} \cup Inside
Labels ==
  {"start", "cart", "radius", "graph", "allocate", "window", "release"} \cup Loop \cup Inside

Ends == {"no", "success", "failure", "lost"}

TypeInv ==
  /\ job \in Jobs /\ pc \in [Procs -> Places(job)] /\ ended \in [Procs -> Ends]
  /\ killed \in BOOLEAN /\ faults \in 0 .. MaxFaults

LEMMA JobIs ==
  ASSUME job \in Jobs
  PROVE  /\ WellMade(job)
         /\ job.np \in Nat \ {0} /\ job.iters \in Nat \ {0} /\ job.len \in Nat
         /\ job.bench \in {"COLLECTIVE", "PT2PT", "ONE_SIDED"}
         /\ job.bench = "COLLECTIVE" => ~OneSided(job)
         /\ job.bench = "PT2PT" => ~OneSided(job) /\ ~Neighborhood /\ ~Reduces
         /\ job.bench = "ONE_SIDED" => OneSided(job) /\ ~Neighborhood /\ job.np = 2
         /\ Places(job) \subseteq Labels
<1>1. WellMade(job)
  BY CollectivesConstants
<1>2. /\ job.bench \in {"COLLECTIVE", "PT2PT", "ONE_SIDED"}
      /\ job.bench = "COLLECTIVE" => ~OneSided(job)
      /\ job.bench = "PT2PT" => ~OneSided(job) /\ job.subtype \in {"LAT", "MBW_MR"}
      /\ job.bench = "ONE_SIDED" => OneSided(job) /\ job.subtype = "LAT" /\ job.np = 2
  BY <1>1 DEF WellMade, OneSided
<1>3. Places(job) \subseteq Labels
  BY <1>2 DEF Places, Labels
<1> QED
  BY <1>1, <1>2, <1>3 DEF WellMade, Neighborhood, Neighbors, Reduces

\* The job of a behaviour does not change.
LEMMA SameJob ==
  ASSUME [Next]_vars
  PROVE  job' = job
BY DEF Next, Progress, Start, Radius, Allocate, Send, Receive, Access, Release, CartCreate,
       GraphCreate, WinCreate, WinFree, Fill, Collective, Validate, Again, Launcher, Overrun,
       Stray, Over, vars

(***************************************************************************)
(* Every action leaves a rank at a place of its kind of benchmark.         *)
(***************************************************************************)
LEMMA PlacesOf ==
  ASSUME job \in Jobs
  PROVE  /\ "start" \in Places(job)
         /\ job.bench = "COLLECTIVE" => {"cart", "radius", "graph"} \cup Loop \subseteq Places(job)
         /\ job.bench = "PT2PT" => {"allocate", "release"} \cup Loop \subseteq Places(job)
         /\ job.bench = "ONE_SIDED" =>
              {"allocate", "window", "release"} \cup Inside \subseteq Places(job)
         /\ Loop \cap Places(job) # {} => job.bench # "ONE_SIDED"
         /\ {"cart", "radius", "graph"} \cap Places(job) # {} => job.bench = "COLLECTIVE"
         /\ {"allocate", "release"} \cap Places(job) # {} => job.bench # "COLLECTIVE"
         /\ ({"window"} \cup Inside) \cap Places(job) # {} => job.bench = "ONE_SIDED"
BY JobIs DEF Places, Loop, Inside

LEMMA GotoType ==
  ASSUME TypeInv, NEW r \in Procs, NEW label \in Places(job), Goto(r, label)
  PROVE  pc' \in [Procs -> Places(job)]
BY DEF TypeInv, Goto

LEMMA LeaveType ==
  ASSUME TypeInv, NEW r \in Procs, NEW how \in Ends, Leave(r, how)
  PROVE  ended' \in [Procs -> Ends]
BY DEF TypeInv, Leave

LEMMA Everybody ==
  ASSUME TypeInv, NEW label, AllAt(label)
  PROVE  /\ ~killed /\ 0 \in Procs /\ label \in Places(job)
         /\ \A r \in Procs : pc[r] = label /\ ended[r] = "no"
<1>1. 0 \in Procs
  BY JobIs DEF TypeInv, Procs
<1> QED
  BY <1>1 DEF TypeInv, AllAt, At

LEMMA TypeStart ==
  ASSUME TypeInv, NEW r \in Procs, Start(r)
  PROVE  TypeInv'
<1>1. job' = job /\ Procs' = Procs /\ Places(job)' = Places(job)
  BY DEF Start, Procs
<1>2. pc' \in [Procs -> Places(job)]
  <2>1. CASE UNCHANGED pc
    BY <2>1 DEF TypeInv
  <2>2. CASE Neighborhood /\ Goto(r, "graph")
    BY <2>2, JobIs, PlacesOf, GotoType DEF TypeInv, Neighborhood
  <2>3. CASE Goto(r, IF Neighborhood THEN "cart"
                     ELSE IF job.bench = "COLLECTIVE" THEN "fill" ELSE "allocate")
    <3>1. (IF Neighborhood THEN "cart" ELSE IF job.bench = "COLLECTIVE" THEN "fill" ELSE "allocate")
             \in Places(job)
      BY JobIs, PlacesOf DEF TypeInv, Loop
    <3> QED
      BY <2>3, <3>1, GotoType
  <2> QED
    BY <2>1, <2>2, <2>3 DEF Start
<1>3. ended' \in [Procs -> Ends]
  <2>1. UNCHANGED ended \/ Leave(r, "failure")
    BY DEF Start
  <2> QED
    BY <2>1, LeaveType DEF TypeInv, Ends
<1> QED
  BY <1>1, <1>2, <1>3 DEF TypeInv, Start

LEMMA TypeRadius ==
  ASSUME TypeInv, NEW r \in Procs, Radius(r)
  PROVE  TypeInv'
<1>1. job' = job /\ Procs' = Procs /\ Places(job)' = Places(job)
  BY DEF Radius, Procs
<1>2. "graph" \in Places(job)
  <2>1. "radius" \in Places(job)
    BY DEF Radius, At, TypeInv
  <2> QED
    BY <2>1, PlacesOf DEF TypeInv
<1>3. pc' \in [Procs -> Places(job)] /\ ended' \in [Procs -> Ends]
  <2>1. (UNCHANGED pc \/ Goto(r, "graph")) /\ (UNCHANGED ended \/ Leave(r, "success"))
    BY DEF Radius
  <2> QED
    BY <2>1, <1>2, GotoType, LeaveType DEF TypeInv, Ends
<1> QED
  BY <1>1, <1>3 DEF TypeInv, Radius

LEMMA TypeAllocate ==
  ASSUME TypeInv, NEW r \in Procs, Allocate(r)
  PROVE  TypeInv'
<1>1. job' = job /\ Procs' = Procs /\ Places(job)' = Places(job)
  BY DEF Allocate, Procs
<1>2. (IF OneSided(job) THEN "window" ELSE "fill") \in Places(job)
  <2>1. "allocate" \in Places(job)
    BY DEF Allocate, At, TypeInv
  <2> QED
    BY <2>1, PlacesOf, JobIs DEF TypeInv, Loop
<1>3. pc' \in [Procs -> Places(job)] /\ ended' \in [Procs -> Ends]
  <2>1. /\ UNCHANGED pc \/ Goto(r, IF OneSided(job) THEN "window" ELSE "fill")
        /\ UNCHANGED ended \/ Leave(r, "failure")
    BY DEF Allocate
  <2> QED
    BY <2>1, <1>2, GotoType, LeaveType DEF TypeInv, Ends
<1>4. faults' \in 0 .. MaxFaults /\ killed' = killed
  BY CollectivesConstants DEF Allocate, TypeInv
<1> QED
  BY <1>1, <1>3, <1>4 DEF TypeInv

\* A step of one rank within a benchmark of two sides.
LEMMA TypeTwoSides ==
  ASSUME TypeInv, NEW r \in Procs, Send(r) \/ Receive(r) \/ Access(r)
  PROVE  TypeInv'
<1>1. job' = job /\ Procs' = Procs /\ Places(job)' = Places(job)
  BY DEF Send, Receive, Access, Procs
<1>2. Inside \subseteq Places(job)
  <2>1. Inside \cap Places(job) # {}
    BY DEF Send, Receive, Access, At, TypeInv, Inside
  <2> QED
    BY <2>1, PlacesOf DEF TypeInv
<1>3. \E label \in Inside : Goto(r, label)
  BY DEF Send, Receive, Access, Inside
<1> QED
  BY <1>1, <1>2, <1>3, GotoType DEF TypeInv, Send, Receive, Access

LEMMA TypeRelease ==
  ASSUME TypeInv, NEW r \in Procs, Release(r)
  PROVE  TypeInv'
<1>1. job' = job /\ Procs' = Procs /\ Places(job)' = Places(job)
  BY DEF Release, Procs
<1>2. \E how \in Ends : Leave(r, how)
  BY DEF Release, Ends
<1>3. faults' \in 0 .. MaxFaults /\ killed' = killed /\ pc' = pc
  BY CollectivesConstants DEF Release, TypeInv
<1> QED
  BY <1>1, <1>2, <1>3, LeaveType DEF TypeInv

\* A step of all ranks together.
LEMMA TypeTogether ==
  ASSUME TypeInv,
         CartCreate \/ GraphCreate \/ WinCreate \/ WinFree \/ Fill \/ Collective \/ Validate \/ Again
  PROVE  TypeInv'
<1>1. job' = job /\ Procs' = Procs /\ Places(job)' = Places(job)
  BY DEF CartCreate, GraphCreate, WinCreate, WinFree, Fill, Collective, Validate, Again, Procs
<1>2. killed' = killed /\ faults' \in 0 .. MaxFaults
  <2>1. killed' = killed /\ (UNCHANGED faults \/ (faults < MaxFaults /\ faults' = faults + 1))
    BY DEF CartCreate, GraphCreate, WinCreate, WinFree, Fill, Collective, Validate, Again
  <2> QED
    BY <2>1, CollectivesConstants DEF TypeInv
<1>3. ended' \in [Procs -> Ends]
  BY DEF CartCreate, GraphCreate, WinCreate, WinFree, Fill, Collective, Validate, Again,
         TypeInv, Ends
<1>4. pc' \in [Procs -> Places(job)]
  <2>1. CASE CartCreate
    BY <2>1, Everybody, PlacesOf DEF CartCreate, AllGoto, TypeInv
  <2>2. CASE GraphCreate
    BY <2>2, Everybody, PlacesOf DEF GraphCreate, AllGoto, TypeInv, Loop
  <2>3. CASE WinCreate
    BY <2>3, Everybody, PlacesOf DEF WinCreate, TypeInv, Inside
  <2>4. CASE WinFree
    BY <2>4, Everybody, PlacesOf DEF WinFree, AllGoto, TypeInv, Inside
  <2>5. CASE Fill \/ Collective \/ Validate
    <3>1. Loop \cap Places(job) # {}
      BY <2>5, Everybody DEF Fill, Collective, Validate, Loop
    <3>2. Loop \subseteq Places(job)
      BY <3>1, PlacesOf, JobIs DEF TypeInv
    <3>3. \E label \in Loop : AllGoto(label)
      BY <2>5 DEF Fill, Collective, Validate, Loop
    <3> QED
      BY <3>2, <3>3 DEF AllGoto
  <2>6. CASE Again
    <3>1. Loop \cap Places(job) # {}
      BY <2>6, Everybody DEF Again, Loop
    <3>2. Loop \subseteq Places(job)
      BY <3>1, PlacesOf, JobIs DEF TypeInv
    <3>3. AllGoto("fill") \/ (job.bench = "PT2PT" /\ AllGoto("release")) \/ UNCHANGED pc
      BY <2>6 DEF Again
    <3> QED
      BY <3>2, <3>3, PlacesOf DEF AllGoto, TypeInv, Loop
  <2> QED
    BY <2>1, <2>2, <2>3, <2>4, <2>5, <2>6
<1> QED
  BY <1>1, <1>2, <1>3, <1>4 DEF TypeInv

LEMMA TypeKeeps ==
  ASSUME TypeInv, [Next]_vars
  PROVE  TypeInv'
<1>1. CASE \E r \in Procs : Overrun(r) \/ Stray(r)
  <2>1. PICK r \in Procs : Overrun(r) \/ Stray(r)
    BY <1>1
  <2>2. Leave(r, "lost")
    BY <2>1 DEF Overrun, Stray
  <2>3. ended' \in [Procs -> Ends]
    BY <2>2, LeaveType DEF Ends
  <2> QED
    BY <2>1, <2>3 DEF Overrun, Stray, TypeInv, Procs, Places
<1>2. CASE Launcher
  BY <1>2 DEF Launcher, TypeInv, Procs, Places
<1>3. CASE UNCHANGED vars
  BY <1>3 DEF vars, TypeInv, Procs, Places
<1> QED
  BY <1>1, <1>2, <1>3, TypeStart, TypeRadius, TypeAllocate, TypeTwoSides, TypeRelease,
     TypeTogether DEF Next, Progress, Over

LEMMA TypeAtFirst ==
  ASSUME Init
  PROVE  TypeInv
<1>1. job \in Jobs /\ killed = FALSE /\ faults = 0
  BY DEF Init
<1>2. pc \in [Procs -> Places(job)] /\ ended \in [Procs -> Ends]
  BY <1>1, PlacesOf DEF Init, Ends
<1>3. faults \in 0 .. MaxFaults
  BY <1>1, CollectivesConstants
<1>4. killed \in BOOLEAN
  BY <1>1
<1> QED
  BY <1>1, <1>2, <1>3, <1>4 DEF TypeInv

-----------------------------------------------------------------------------
(***************************************************************************)
(* The blocks a rank is given, and what it frees of them.  With two ranks  *)
(* the lower half of the ranks is rank 0, so Letter tells the letter of a  *)
(* rank in every kind of benchmark.                                        *)
(***************************************************************************)
Given(r) == [name \in BufferNames(job) |-> AllocatedBlock(job, r, name)]
GivenBlocks(r) == {Given(r)[name] : name \in BufferNames(job)} \ {Wild}

Allocator(letter) == IF letter = "D" THEN "device" ELSE "host"

LEMMA TwoRanks ==
  ASSUME job.np = 2
  PROVE  Procs = {0, 1} /\ \A r \in Procs : Letter(job, r) = IF r = 0 THEN job.src ELSE job.dst
<1>1. Procs = {0, 1} /\ Pairs(job) = 1
  BY DEF Procs, Pairs
<1> QED
  BY <1>1 DEF Letter

LEMMA DeviceThere ==
  ASSUME job \in Jobs, NEW r \in Procs, Letter(job, r) = "D"
  PROVE  job.accel # "NONE"
<1>1. job.accel = setAccel(setAccel(job.accel, job.src), job.dst)
  BY JobIs DEF WellMade
<1>2. job.src = "D" \/ job.dst = "D"
  BY DEF Letter
<1> QED
  BY <1>1, <1>2 DEF setAccel

\* Buffers of a message: on the device exactly if the letter says so.
LEMMA GivenMessage ==
  ASSUME job \in Jobs, job.bench = "PT2PT", NEW r \in Procs
  PROVE  /\ BufferNames(job) = {"sbuf", "rbuf"}
         /\ \A name \in {"sbuf", "rbuf"} : \E size \in Nat :
              /\ Given(r)[name] = Block(r, name, Allocator(Letter(job, r)), size)
              /\ size >= Bytes(job)
<1>1. /\ job.call \in {"pt2pt", "pt2pt_size", "mul", "mul_size"}
      /\ job.call \in {"pt2pt", "pt2pt_size"} => job.np = 2
      /\ Bytes(job) <= MaxMessageSize
  BY JobIs DEF WellMade
<1>2. Bytes(job) \in Nat /\ MaxMessageSize \in Nat
  <2>1. job.len \in Nat /\ SizeOfType[job.dtype] \in Nat
    BY JobIs DEF WellMade, SizeOfType
  <2> QED
    BY <2>1, MemoryConstants DEF Bytes
<1>3. BufferNames(job) = {"sbuf", "rbuf"}
  BY <1>1 DEF BufferNames
<1> DEFINE L == Letter(job, r)
           small == AtLeastOne(Bytes(job))
<1>4. small \in Nat /\ small >= Bytes(job)
  BY <1>2 DEF AtLeastOne
<1>5. ASSUME NEW name \in {"sbuf", "rbuf"}
      PROVE  Given(r)[name] \in {Pt2ptBlock(r, name, L, MaxMessageSize),
                                 Pt2ptBlock(r, name, L, small)}
  <2>1. Given(r)[name] = AllocatedBlock(job, r, name)
    BY <1>3 DEF Given
  <2>2. CASE job.call = "mul"
    BY <2>1, <2>2 DEF AllocatedBlock, AllocatePt2ptMul, Letter
  <2>3. CASE job.call = "mul_size"
    BY <2>1, <2>3 DEF AllocatedBlock, AllocatePt2ptMulSize, Letter
  <2>4. CASE job.call = "pt2pt"
    BY <1>1, <2>1, <2>4, TwoRanks DEF AllocatedBlock, AllocatePt2pt
  <2>5. CASE job.call = "pt2pt_size"
    BY <1>1, <2>1, <2>5, TwoRanks DEF AllocatedBlock, AllocatePt2ptSize
  <2> QED
    BY <1>1, <2>2, <2>3, <2>4, <2>5
<1> HIDE DEF L, small
<1>6. ASSUME NEW name \in {"sbuf", "rbuf"}, NEW size \in {MaxMessageSize, small}
      PROVE  \E s \in Nat : /\ Pt2ptBlock(r, name, L, size) = Block(r, name, Allocator(L), s)
                            /\ s >= Bytes(job)
  <2>1. CASE L = "D"
    <3>1. Pt2ptBlock(r, name, L, size) = Block(r, name, Allocator(L), MaxMessageSize)
      BY <2>1 DEF Pt2ptBlock, Allocator
    <3> QED
      BY <3>1, <1>1, <1>2
  <2>2. CASE L # "D"
    <3>1. Pt2ptBlock(r, name, L, size) = Block(r, name, Allocator(L), size)
      BY <2>2 DEF Pt2ptBlock, Allocator
    <3>2. size \in Nat /\ size >= Bytes(job)
      BY <1>1, <1>2, <1>4
    <3> QED
      BY <3>1, <3>2
  <2> QED
    BY <2>1, <2>2
<1>7. \A name \in {"sbuf", "rbuf"} : \E size \in Nat :
        /\ Given(r)[name] = Block(r, name, Allocator(L), size)
        /\ size >= Bytes(job)
  BY <1>5, <1>6
<1> QED
  BY <1>3, <1>7 DEF L

\* Buffers of a benchmark of one side: all of one place, and win_base only if
\* MPI does not bring it; a letter nobody knows brings nothing.
LEMMA GivenOneSided ==
  ASSUME job \in Jobs, job.bench = "ONE_SIDED", NEW r \in Procs, NEW name \in BufferNames(job)
  PROVE  /\ "win_base" \in BufferNames(job)
         /\ Given(r)[name] =
              IF /\ Letter(job, r) \in {"H", "D"}
                 /\ ~(job.call = "one_sided" /\ name = "win_base" /\ Brought(job))
              THEN Block(r, name, Allocator(Letter(job, r)), Bytes(job)) ELSE Wild
<1>1. job.call \in {"one_sided", "atomic"}
  BY JobIs DEF OneSided
<1>2. Letter(job, r) = (IF r = 0 THEN job.src ELSE job.dst)
  BY JobIs, TwoRanks
<1>3. "win_base" \in BufferNames(job)
  BY <1>1 DEF BufferNames
<1>4. Given(r)[name] = AllocatedBlock(job, r, name)
  BY DEF Given
<1>5. Brought(job) => Letter(job, r) = "H"
  BY <1>2 DEF Brought, PureHost
<1>6. CASE job.call = "one_sided"
  BY <1>2, <1>3, <1>4, <1>5, <1>6
     DEF AllocatedBlock, AllocateOneSided, DeviceBlockOneSided, Allocator
<1>7. CASE job.call = "atomic"
  BY <1>2, <1>3, <1>4, <1>7 DEF AllocatedBlock, AllocateAtomic, DeviceBlockOneSided, Allocator
<1> QED
  BY <1>1, <1>6, <1>7

LEMMA BlockIs ==
  ASSUME NEW r \in Procs, NEW name, NEW by, NEW size, job \in Jobs
  PROVE  /\ Block(r, name, by, size).rank = r /\ Block(r, name, by, size).name = name
         /\ Block(r, name, by, size).by = by /\ Block(r, name, by, size).size = size
         /\ Block(r, name, by, size) # Wild
<1>1. Wild.rank = -1
  BY DEF Wild, Block
<1>2. r # -1
  BY JobIs DEF Procs
<1>3. Block(r, name, by, size).rank = r
  BY DEF Block
<1>4. Block(r, name, by, size) # Wild
  BY <1>1, <1>2, <1>3
<1> QED
  BY <1>4 DEF Block

\* A block knows whose it is, and comes from one of two allocators.
LEMMA GivenKnowsOwner ==
  ASSUME job \in Jobs, job.bench # "COLLECTIVE", NEW r \in Procs, NEW name \in BufferNames(job)
  PROVE  \/ Given(r)[name] = Wild
         \/ /\ Given(r)[name].rank = r /\ Given(r)[name].name = name
            /\ Given(r)[name].by \in {"host", "device"}
<1>1. ASSUME NEW L, NEW size
      PROVE  /\ Block(r, name, Allocator(L), size).rank = r
             /\ Block(r, name, Allocator(L), size).name = name
             /\ Block(r, name, Allocator(L), size).by \in {"host", "device"}
  BY DEF Block, Allocator
<1>2. Given(r)[name] = Wild \/ \E L, size : Given(r)[name] = Block(r, name, Allocator(L), size)
  <2>1. CASE job.bench = "PT2PT"
    BY <2>1, GivenMessage
  <2>2. CASE job.bench = "ONE_SIDED"
    BY <2>2, GivenOneSided
  <2> QED
    BY <2>1, <2>2, JobIs
<1> QED
  BY <1>1, <1>2

\* Which variables are freed.
Freed(r) ==
  IF job.bench = "ONE_SIDED" /\ (IF job.call = "one_sided" THEN Brought(job) ELSE Letter(job, r) = "H")
  THEN BufferNames(job) \ {"win_base"} ELSE BufferNames(job)

LEMMA FreesAre ==
  ASSUME job \in Jobs, job.bench # "COLLECTIVE", NEW r \in Procs, Letter(job, r) \in {"H", "D"}
  PROVE  Frees(job, r) = {<<Allocator(Letter(job, r)), name>> : name \in Freed(r)}
<1> DEFINE L == Letter(job, r)
           All == {<<Allocator(L), name>> : name \in Freed(r)}
<1>1. \A names : FreeAs(L, names) = {<<Allocator(L), name>> : name \in names}
  BY DEF FreeAs, Allocator
<1>2. SUFFICES (CASE job.call = "one_sided" -> FreeOneSided(job, r)
                  [] job.call = "atomic" -> FreeAtomic(job, r)
                  [] job.call \in {"mul", "mul_size"} -> FreePt2ptMul(job, r, BufferNames(job))
                  [] OTHER -> FreeMemory(job, r, BufferNames(job))) = All
  <2>1. \A f \in All : f[1] = "device" => job.accel # "NONE"
    BY DeviceThere DEF Allocator
  <2> QED
    BY <2>1 DEF Frees
<1>3. CASE job.bench = "PT2PT"
  <2>1. /\ job.call \in {"pt2pt", "pt2pt_size", "mul", "mul_size"}
        /\ job.call \in {"pt2pt", "pt2pt_size"} => job.np = 2
    BY <1>3, JobIs DEF WellMade
  <2>2. Freed(r) = BufferNames(job)
    BY <1>3 DEF Freed
  <2>3. CASE job.call \in {"mul", "mul_size"}
    BY <1>1, <2>2, <2>3 DEF FreePt2ptMul, Letter
  <2>4. CASE job.call \in {"pt2pt", "pt2pt_size"}
    BY <1>1, <2>1, <2>2, <2>4, TwoRanks DEF FreeMemory
  <2> QED
    BY <2>1, <2>3, <2>4
<1>4. CASE job.bench = "ONE_SIDED"
  <2>1. job.call \in {"one_sided", "atomic"} /\ job.np = 2
    BY <1>4, JobIs DEF OneSided
  <2>2. L = (IF r = 0 THEN job.src ELSE job.dst) /\ r \in {0, 1}
    BY <2>1, TwoRanks
  <2>3. CASE job.call = "one_sided"
    <3>1. BufferNames(job) = {"user_buf", "win_base"}
      BY <2>3 DEF BufferNames
    <3>2. FreeOneSided(job, r) = FreeAs(L, Freed(r))
      <4>1. Freed(r) = IF Brought(job) THEN {"user_buf"} ELSE {"user_buf", "win_base"}
        BY <3>1, <1>4, <2>3 DEF Freed
      <4> QED
        BY <4>1, <2>2 DEF FreeOneSided, FreeMemory
    <3> QED
      BY <3>2, <1>1, <2>3
  <2>4. CASE job.call = "atomic"
    <3>1. FreeAtomic(job, r) = All
      BY <1>4, <2>2, <2>4 DEF FreeAtomic, Freed, Allocator
    <3> QED
      BY <3>1, <2>4
  <2> QED
    BY <2>1, <2>3, <2>4
<1> QED
  BY <1>3, <1>4, JobIs

-----------------------------------------------------------------------------
(***************************************************************************)
(* The life of the memory of a rank: nothing, what it was given, that and  *)
(* what MPI brings to the window, what it was given again, and in the end  *)
(* what nobody frees.                                                      *)
(***************************************************************************)
Before == {"start", "cart", "radius", "graph", "allocate"}
Mine(r) == {b \in heap : b.rank = r}
Base(r) ==
  IF Brought(job) THEN Block(r, "win_base", "MPI", Bytes(job)) ELSE Given(r)["win_base"]
BroughtTo(r) == IF Brought(job) THEN {Base(r)} ELSE {}
Windowed(r) ==
  IF job.bench = "ONE_SIDED" THEN [Given(r) EXCEPT !["win_base"] = Base(r)] ELSE Given(r)

Held(r) ==
  /\ pc[r] \in Before \/ job.bench = "COLLECTIVE" => Mine(r) = {}
  /\ job.bench # "COLLECTIVE" /\ pc[r] \in Loop \cup {"window"} =>
       ptr[r] = Given(r) /\ Mine(r) = GivenBlocks(r)
  /\ pc[r] \in Inside =>
       /\ ptr[r] = Windowed(r) /\ window[r] = Base(r)
       /\ Mine(r) = GivenBlocks(r) \cup BroughtTo(r)
  /\ pc[r] = "release" => ptr[r] = Windowed(r)
  /\ pc[r] = "release" /\ ended[r] = "no" => Mine(r) = GivenBlocks(r)
  /\ ended[r] = "success" => job.bench = "COLLECTIVE" \/ pc[r] = "release"
  /\ pc[r] = "release" /\ ended[r] = "success" /\ KnownLetters => Mine(r) = LeftBehind(r)

\* The window exists for all ranks or for none.
InStep == \A r, q \in Procs : pc[r] \in Inside => pc[q] \in Inside

\* The two addresses of a dynamic window, on their way and arrived.
Exchange ==
  /\ pc[0] = "send" => pc[1] = "recv" /\ mail[0] = <<>> /\ mail[1] = <<>>
  /\ pc[0] = "recv" =>
       \/ pc[1] = "recv" /\ mail[0] = <<>> /\ mail[1] = <<Base(0)>>
       \/ pc[1] = "send" /\ mail[0] = <<>> /\ mail[1] = <<>> /\ disp_remote[1] = Base(0)
       \/ /\ pc[1] \in {"use", "win free"} /\ disp_remote[1] = Base(0)
          /\ mail[0] = <<Base(1)>> /\ mail[1] = <<>>
  /\ pc[0] \in {"use", "win free"} =>
       /\ pc[1] \in {"use", "win free"}
       /\ disp_remote[0] = Base(1) /\ disp_remote[1] = Base(0)

Posted ==
  /\ \A r \in Procs : pc[r] \notin Inside \cup {"release"} => mail[r] = <<>>
  /\ job.bench = "ONE_SIDED" /\ job.win = "DYNAMIC" => Exchange

Shapes ==
  /\ DOMAIN ptr = Procs /\ DOMAIN window = Procs
  /\ DOMAIN mail = Procs /\ DOMAIN disp_remote = Procs

MemoryInv ==
  /\ TypeInv /\ Shapes
  /\ \A r \in Procs : Held(r)
  /\ InStep /\ Posted
  /\ KnownLetters => misuse = {}

\* What is freed was given, by the allocator that takes it back, and the window
\* has not replaced it.
LEMMA FreedWasGiven ==
  ASSUME job \in Jobs, job.bench # "COLLECTIVE", KnownLetters,
         NEW r \in Procs, NEW name \in Freed(r)
  PROVE  /\ Letter(job, r) \in {"H", "D"}
         /\ name \in BufferNames(job) /\ Given(r)[name] \in GivenBlocks(r)
         /\ Given(r)[name].by = Allocator(Letter(job, r))
         /\ Windowed(r)[name] = Given(r)[name]
<1>1. Letter(job, r) \in {"H", "D"}
  BY DEF KnownLetters, Letter
<1>2. name \in BufferNames(job)
  BY DEF Freed
<1>3. ASSUME NEW L, NEW size
      PROVE  Block(r, name, L, size).by = L /\ Block(r, name, L, size).rank = r
  BY DEF Block
<1>4. CASE job.bench = "PT2PT"
  <2>1. PICK size : Given(r)[name] = Block(r, name, Allocator(Letter(job, r)), size)
    BY <1>2, <1>4, GivenMessage
  <2>3. Given(r)[name] # Wild
    BY <2>1, BlockIs
  <2> QED
    BY <1>1, <1>2, <1>3, <1>4, <2>1, <2>3 DEF GivenBlocks, Windowed
<1>5. CASE job.bench = "ONE_SIDED"
  <2>1. job.call \in {"one_sided", "atomic"}
    BY <1>5, JobIs DEF OneSided
  <2>2. ~(job.call = "one_sided" /\ name = "win_base" /\ Brought(job))
    BY <1>5 DEF Freed
  <2>3. Given(r)[name] = Block(r, name, Allocator(Letter(job, r)), Bytes(job))
    BY <1>1, <1>2, <1>5, <2>2, GivenOneSided
  <2>5. Given(r)[name] # Wild
    BY <2>3, BlockIs
  <2>6. Letter(job, r) = (IF r = 0 THEN job.src ELSE job.dst)
    BY <1>5, JobIs, TwoRanks
  <2>7. name = "win_base" => ~Brought(job)
    BY <1>5, <2>1, <2>2, <2>6 DEF Freed, Brought, PureHost
  <2>8. Windowed(r)[name] = Given(r)[name]
    <3>1. DOMAIN Given(r) = BufferNames(job)
      BY DEF Given
    <3>2. Windowed(r) = [n \in BufferNames(job) |-> IF n = "win_base" THEN Base(r) ELSE Given(r)[n]]
      BY <1>5, <3>1 DEF Windowed
    <3> QED
      BY <1>2, <2>7, <3>2 DEF Base
  <2> QED
    BY <1>1, <1>2, <1>3, <2>3, <2>5, <2>8 DEF GivenBlocks
<1> QED
  BY <1>4, <1>5, JobIs

LEMMA LeftOfGiven ==
  ASSUME job \in Jobs, job.bench # "COLLECTIVE", KnownLetters, NEW r \in Procs
  PROVE  GivenBlocks(r) \ {Given(r)[name] : name \in Freed(r)} = LeftBehind(r)
<1> DEFINE rest == GivenBlocks(r) \ {Given(r)[name] : name \in Freed(r)}
<1>1. CASE Freed(r) = BufferNames(job)
  <2>1. rest = {}
    BY <1>1 DEF GivenBlocks
  <2>2. LeftBehind(r) = {}
    <3>1. CASE job.bench = "ONE_SIDED"
      <4>1. job.call = "atomic" => Letter(job, r) # "H"
        BY <1>1, <3>1, GivenOneSided, JobIs DEF Freed, BufferNames
      <4>2. Letter(job, r) = (IF r = 0 THEN job.src ELSE job.dst)
        BY <3>1, JobIs, TwoRanks
      <4> QED
        BY <4>1, <4>2 DEF LeftBehind
    <3>2. CASE job.bench # "ONE_SIDED"
      BY <3>2 DEF LeftBehind
    <3> QED
      BY <3>1, <3>2
  <2> QED
    BY <2>1, <2>2
<1>2. CASE Freed(r) # BufferNames(job)
  <2>1. /\ job.bench = "ONE_SIDED" /\ Freed(r) = BufferNames(job) \ {"win_base"}
        /\ IF job.call = "one_sided" THEN Brought(job) ELSE Letter(job, r) = "H"
    BY <1>2 DEF Freed
  <2>2. job.call \in {"one_sided", "atomic"} /\ Letter(job, r) = (IF r = 0 THEN job.src ELSE job.dst)
    BY <2>1, JobIs, TwoRanks DEF OneSided
  <2>3. "win_base" \in BufferNames(job)
    BY <2>2 DEF BufferNames
  <2>4. \A name \in BufferNames(job) \ {"win_base"} : Given(r)[name] # Given(r)["win_base"]
                                                       \/ Given(r)["win_base"] = Wild
    BY <2>1, <2>3, GivenKnowsOwner
  <2>5. rest = {Given(r)["win_base"]} \ {Wild}
    BY <2>1, <2>3, <2>4 DEF GivenBlocks
  <2>6. CASE job.call = "one_sided"
    <3>1. Given(r)["win_base"] = Wild
      BY <2>1, <2>3, <2>6, GivenOneSided
    <3> QED
      BY <2>5, <2>6, <3>1 DEF LeftBehind
  <2>7. CASE job.call = "atomic"
    <3>1. Given(r)["win_base"] = Block(r, "win_base", "host", Bytes(job))
      BY <2>1, <2>3, <2>7, GivenOneSided DEF Allocator
    <3>3. Given(r)["win_base"] # Wild
      BY <3>1, BlockIs
    <3> QED
      BY <2>1, <2>2, <2>5, <2>7, <3>1, <3>3 DEF LeftBehind
  <2> QED
    BY <2>2, <2>6, <2>7
<1> QED
  BY <1>1, <1>2

-----------------------------------------------------------------------------
(***************************************************************************)
(* Steps that leave the memory of a rank alone.                            *)
(***************************************************************************)
\* Where a rank may go without its memory having changed.
Drifts(q) ==
  \/ pc'[q] = pc[q] /\ (ended'[q] = ended[q] \/ ended'[q] \in {"failure", "lost"})
  \/ ended'[q] = ended[q] /\ pc[q] \in Before /\ pc'[q] \in Before
  \/ ended'[q] = ended[q] /\ pc[q] \in Loop /\ pc'[q] \in Loop
  \/ ended'[q] = ended[q] /\ pc[q] \in Inside /\ pc'[q] \in Inside
  \/ job.bench = "PT2PT" /\ ended'[q] = "no" /\ pc[q] \in Loop /\ pc'[q] = "release"
  \/ job.bench = "COLLECTIVE" /\ pc'[q] \in Before \cup Loop

LEMMA HeldDrifts ==
  ASSUME TypeInv, NEW q \in Procs, Held(q), Drifts(q), UNCHANGED <<job, heap, ptr, window>>
  PROVE  Held(q)'
<1>1. /\ Given(q)' = Given(q) /\ GivenBlocks(q)' = GivenBlocks(q) /\ Base(q)' = Base(q)
      /\ BroughtTo(q)' = BroughtTo(q) /\ Windowed(q)' = Windowed(q) /\ Mine(q)' = Mine(q)
      /\ LeftBehind(q)' = LeftBehind(q) /\ (KnownLetters)' = KnownLetters
      /\ job' = job /\ ptr' = ptr /\ window' = window
  BY DEF Given, GivenBlocks, Base, BroughtTo, Windowed, Mine, LeftBehind, KnownLetters
<1>2. pc[q] \in Places(job)
  BY DEF TypeInv
<1> USE <1>1 DEF Held
<1>3. CASE pc'[q] = pc[q] /\ (ended'[q] = ended[q] \/ ended'[q] \in {"failure", "lost"})
  BY <1>3
<1>4. CASE ended'[q] = ended[q] /\ pc[q] \in Before /\ pc'[q] \in Before
  BY <1>4 DEF Before, Loop, Inside
<1>5. CASE ended'[q] = ended[q] /\ pc[q] \in Loop /\ pc'[q] \in Loop
  BY <1>5 DEF Before, Loop, Inside
<1>6. CASE ended'[q] = ended[q] /\ pc[q] \in Inside /\ pc'[q] \in Inside
  BY <1>6, PlacesOf, <1>2 DEF Before, Loop, Inside, TypeInv
<1>7. CASE job.bench = "PT2PT" /\ ended'[q] = "no" /\ pc[q] \in Loop /\ pc'[q] = "release"
  BY <1>7 DEF Before, Loop, Inside, Windowed
<1>8. CASE job.bench = "COLLECTIVE" /\ pc'[q] \in Before \cup Loop
  BY <1>8 DEF Before, Loop, Inside
<1> QED
  BY <1>3, <1>4, <1>5, <1>6, <1>7, <1>8 DEF Drifts

\* The window and the exchange of addresses are not touched.
Stays(q) == pc[q] \in Inside \cup {"release"} \/ pc'[q] \in Inside => pc'[q] = pc[q]
Still == UNCHANGED <<job, mail, disp_remote>> /\ \A q \in Procs : Stays(q)

LEMMA PostedStill ==
  ASSUME TypeInv, InStep, Posted, Still
  PROVE  InStep' /\ Posted'
<1>1. Procs' = Procs /\ job' = job /\ mail' = mail /\ disp_remote' = disp_remote
  BY DEF Still, Procs
<1>2. \A r : Base(r)' = Base(r)
  BY <1>1 DEF Base, Given
<1>3. InStep'
  BY <1>1 DEF InStep, Still, Stays
<1>4. \A r \in Procs : pc'[r] \notin Inside \cup {"release"} => mail[r] = <<>>
  BY DEF Posted, Still, Stays
<1>5. ASSUME job.bench = "ONE_SIDED", job.win = "DYNAMIC" PROVE Exchange'
  <2>1. Procs = {0, 1}
    BY <1>5, JobIs, TwoRanks DEF TypeInv
  <2>2. \A q \in {0, 1} : pc'[q] \in Inside => pc'[q] = pc[q]
    BY <2>1 DEF Still, Stays
  <2>3. \A q \in {0, 1} : pc[q] \in Inside => pc'[q] = pc[q]
    BY <2>1 DEF Still, Stays
  <2>4. Exchange
    BY <1>5 DEF Posted
  <2>5. pc'[0] \in Inside \/ pc[0] \in Inside => pc'[0] = pc[0]
    BY <2>2, <2>3
  <2>6. pc'[1] \in Inside \/ pc[1] \in Inside => pc'[1] = pc[1]
    BY <2>2, <2>3
  <2> QED
    BY <1>1, <1>2, <2>4, <2>5, <2>6 DEF Exchange, Inside
<1> QED
  BY <1>1, <1>3, <1>4, <1>5 DEF Posted

\* The steps that change no memory: all but those that allocate, send, receive,
\* open and close the window or free.
Quiet ==
  \/ \E r \in Procs : \/ Start(r) \/ Radius(r) \/ Overrun(r) \/ Stray(r)
                      \/ Allocate(r) /\ Leave(r, "failure") /\ UNCHANGED <<pc, memory>>
                      \/ Release(r) /\ Leave(r, "failure") /\ UNCHANGED memory
  \/ CartCreate \/ GraphCreate \/ Fill \/ Collective \/ Validate \/ Again \/ Launcher
  \/ UNCHANGED vars

LEMMA QuietDrifts ==
  ASSUME MemoryInv, Quiet
  PROVE  UNCHANGED memory /\ Still /\ \A q \in Procs : Drifts(q)
<1> USE DEF MemoryInv
<1> DEFINE Calm(q) == Drifts(q) /\ Stays(q)
<1>1. UNCHANGED <<job, memory>>
  BY DEF Quiet, Start, Radius, Overrun, Stray, Allocate, Release, CartCreate, GraphCreate,
         Fill, Collective, Validate, Again, Launcher, vars
<1>2. /\ job \in Jobs /\ DOMAIN pc = Procs /\ DOMAIN ended = Procs
      /\ \A q \in Procs : pc[q] \in Places(job)
  BY DEF TypeInv
<1>3. ASSUME NEW r \in Procs, NEW label \in Before \cup Loop, Goto(r, label), UNCHANGED ended,
             pc[r] \in Before, label \in Loop => job.bench = "COLLECTIVE"
      PROVE  \A q \in Procs : Calm(q)
  <2>1. pc'[r] = label /\ \A q \in Procs \ {r} : pc'[q] = pc[q]
    BY <1>2, <1>3 DEF Goto
  <2> QED
    BY <1>3, <2>1 DEF Drifts, Stays, Before, Loop, Inside
<1>4. ASSUME NEW r \in Procs, NEW how \in {"failure", "lost"}, Leave(r, how), UNCHANGED pc
      PROVE  \A q \in Procs : Calm(q)
  BY <1>2, <1>4 DEF Leave, Drifts, Stays
<1>5. ASSUME NEW r \in Procs, Start(r) PROVE \A q \in Procs : Calm(q)
  <2>1. pc[r] = "start"
    BY <1>5 DEF Start, At
  <2>2. CASE Leave(r, "failure") /\ UNCHANGED pc
    BY <1>4, <2>2
  <2>3. CASE Goto(r, "graph") /\ UNCHANGED ended
    BY <1>3, <2>1, <2>3 DEF Before, Loop
  <2>4. CASE Goto(r, IF Neighborhood THEN "cart"
                     ELSE IF job.bench = "COLLECTIVE" THEN "fill" ELSE "allocate") /\ UNCHANGED ended
    BY <1>3, <2>1, <2>4 DEF Before, Loop
  <2> QED
    BY <1>5, <2>2, <2>3, <2>4 DEF Start
<1>6. ASSUME NEW r \in Procs, Radius(r) PROVE \A q \in Procs : Calm(q)
  <2>1. pc[r] = "radius" /\ job.bench = "COLLECTIVE"
    BY <1>2, <1>6, PlacesOf DEF Radius, At
  <2>2. CASE Leave(r, "success") /\ UNCHANGED pc
    BY <1>2, <2>1, <2>2 DEF Leave, Drifts, Stays, Before
  <2>3. CASE Goto(r, "graph") /\ UNCHANGED ended
    BY <1>3, <2>1, <2>3 DEF Before, Loop
  <2> QED
    BY <1>6, <2>2, <2>3 DEF Radius
<1>7. ASSUME NEW r \in Procs,
             \/ Overrun(r) \/ Stray(r)
             \/ Allocate(r) /\ Leave(r, "failure") /\ UNCHANGED <<pc, memory>>
             \/ Release(r) /\ Leave(r, "failure") /\ UNCHANGED memory
      PROVE  \A q \in Procs : Calm(q)
  <2>1. UNCHANGED pc /\ (Leave(r, "failure") \/ Leave(r, "lost"))
    BY <1>7 DEF Overrun, Stray, Release
  <2> QED
    BY <1>4, <2>1
<1>8. ASSUME CartCreate PROVE \A q \in Procs : Calm(q)
  <2>1. \A q \in Procs : pc[q] = "cart" /\ pc'[q] = "radius" /\ ended'[q] = ended[q]
    BY <1>8, Everybody DEF CartCreate, AllGoto
  <2>2. ASSUME NEW q \in Procs PROVE Drifts(q) /\ Stays(q)
    BY <2>1 DEF Drifts, Stays, Before, Inside
  <2> QED
    BY <2>2
<1>9. ASSUME GraphCreate PROVE \A q \in Procs : Calm(q)
  <2>1. job.bench = "COLLECTIVE"
    BY <1>2, <1>9, Everybody, PlacesOf DEF GraphCreate
  <2>2. \A q \in Procs : pc[q] = "graph" /\ pc'[q] = "fill"
    BY <1>9, Everybody DEF GraphCreate, AllGoto
  <2>3. ASSUME NEW q \in Procs PROVE Drifts(q) /\ Stays(q)
    BY <2>1, <2>2 DEF Drifts, Stays, Before, Loop, Inside
  <2> QED
    BY <2>3
<1>10. ASSUME Fill \/ Collective \/ Validate PROVE \A q \in Procs : Calm(q)
  <2>1. UNCHANGED ended /\ (\A q \in Procs : pc[q] \in Loop) /\ \E label \in Loop : AllGoto(label)
    BY <1>10, Everybody DEF Fill, Collective, Validate, Loop
  <2>2. ended' = ended /\ \A q \in Procs : pc[q] \in Loop /\ pc'[q] \in Loop
    BY <2>1 DEF AllGoto
  <2>3. ASSUME NEW q \in Procs PROVE Drifts(q) /\ Stays(q)
    BY <2>2 DEF Drifts, Stays, Loop, Inside
  <2> QED
    BY <2>3
<1>11. ASSUME Again PROVE \A q \in Procs : Calm(q)
  <2>1. \A q \in Procs : pc[q] = "checked" /\ ended[q] = "no"
    BY <1>11, Everybody DEF Again
  <2>2. job.bench \in {"COLLECTIVE", "PT2PT"}
    BY <1>2, <1>11, Everybody, PlacesOf, JobIs DEF Again, Loop
  <2>3. \/ UNCHANGED ended /\ AllGoto("fill")
        \/ job.bench = "PT2PT" /\ AllGoto("release") /\ UNCHANGED ended
        \/ job.bench = "COLLECTIVE" /\ UNCHANGED pc
    BY <1>11, <2>2 DEF Again
  <2> QED
    BY <2>1, <2>3 DEF AllGoto, Drifts, Stays, Before, Loop, Inside
<1>12. ASSUME Launcher \/ UNCHANGED vars PROVE \A q \in Procs : Calm(q)
  BY <1>12 DEF Launcher, vars, Drifts, Stays
<1>13. \A q \in Procs : Calm(q)
  BY <1>5, <1>6, <1>7, <1>8, <1>9, <1>10, <1>11, <1>12 DEF Quiet
<1> QED
  BY <1>1, <1>13 DEF Still, memory

LEMMA MemoryQuiet ==
  ASSUME MemoryInv, Quiet, TypeInv'
  PROVE  MemoryInv'
<1>1. UNCHANGED memory /\ Still /\ \A q \in Procs : Drifts(q)
  BY QuietDrifts
<1>2. job' = job /\ Procs' = Procs /\ (KnownLetters)' = KnownLetters
  BY <1>1 DEF Still, Procs, KnownLetters
<1>3. \A q \in Procs : Held(q)'
  BY <1>1, <1>2, HeldDrifts DEF MemoryInv, memory
<1>4. InStep' /\ Posted'
  BY <1>1, PostedStill DEF MemoryInv
<1>5. Shapes'
  BY <1>1, <1>2 DEF MemoryInv, Shapes, memory
<1> QED
  BY <1>1, <1>2, <1>3, <1>4, <1>5 DEF MemoryInv, memory

-----------------------------------------------------------------------------
(***************************************************************************)
(* Steps that change memory.                                               *)
(***************************************************************************)
\* What a step of another rank does not change for q.
LEMMA HeldElsewhere ==
  ASSUME TypeInv, NEW q \in Procs, Held(q), job' = job,
         pc'[q] = pc[q], ended'[q] = ended[q], ptr'[q] = ptr[q], window'[q] = window[q],
         Mine(q)' = Mine(q)
  PROVE  Held(q)'
<1>1. /\ Given(q)' = Given(q) /\ GivenBlocks(q)' = GivenBlocks(q) /\ Base(q)' = Base(q)
      /\ BroughtTo(q)' = BroughtTo(q) /\ Windowed(q)' = Windowed(q)
      /\ LeftBehind(q)' = LeftBehind(q) /\ (KnownLetters)' = KnownLetters
  BY DEF Given, GivenBlocks, Base, BroughtTo, Windowed, LeftBehind, KnownLetters
<1> QED
  BY <1>1 DEF Held

\* A block of what r was given is of rank r.
LEMMA GivenOwner ==
  ASSUME job \in Jobs, job.bench # "COLLECTIVE", NEW r \in Procs, NEW b \in GivenBlocks(r)
  PROVE  b.rank = r /\ b.by \in {"host", "device"}
<1>1. PICK name \in BufferNames(job) : b = Given(r)[name] /\ b # Wild
  BY DEF GivenBlocks
<1> QED
  BY <1>1, GivenKnowsOwner

LEMMA MemoryAllocated ==
  ASSUME MemoryInv, TypeInv', NEW r \in Procs, At(r, "allocate"), AllocateMemory(job, r),
         Goto(r, IF OneSided(job) THEN "window" ELSE "fill"), UNCHANGED <<job, ended>>
  PROVE  MemoryInv'
<1>1. /\ pc[r] = "allocate" /\ ended[r] = "no" /\ job \in Jobs /\ job.bench # "COLLECTIVE"
      /\ DOMAIN pc = Procs /\ DOMAIN ptr = Procs
  BY PlacesOf DEF MemoryInv, Shapes, TypeInv, At
<1>2. /\ job' = job /\ Procs' = Procs /\ (KnownLetters)' = KnownLetters
      /\ UNCHANGED <<window, disp_remote, mail, misuse>>
  BY DEF Procs, KnownLetters, AllocateMemory
<1>3. ptr' = [ptr EXCEPT ![r] = Given(r)] /\ heap' = heap \cup GivenBlocks(r)
  BY DEF AllocateMemory, Given, GivenBlocks
<1>4. \A q \in Procs \ {r} : pc'[q] = pc[q] /\ ptr'[q] = ptr[q]
  BY <1>1, <1>3 DEF Goto
<1>5. pc'[r] = (IF OneSided(job) THEN "window" ELSE "fill") /\ ptr'[r] = Given(r)
  BY <1>1, <1>3 DEF Goto
<1>6. \A q \in Procs \ {r} : Mine(q)' = Mine(q)
  BY <1>1, <1>3, GivenOwner DEF Mine
<1>7. Mine(r) = {}
  BY <1>1 DEF MemoryInv, Held, Before
<1>8. Mine(r)' = GivenBlocks(r)
  BY <1>1, <1>3, <1>7, GivenOwner DEF Mine
<1>9. Held(r)'
  <2>1. Given(r)' = Given(r) /\ GivenBlocks(r)' = GivenBlocks(r)
    BY <1>2 DEF Given, GivenBlocks
  <2> QED
    BY <1>1, <1>2, <1>5, <1>8, <2>1 DEF Held, Before, Loop, Inside
<1>10. \A q \in Procs : Held(q)'
  BY <1>2, <1>4, <1>6, <1>9, HeldElsewhere DEF MemoryInv
<1>11. Still
  BY <1>1, <1>2, <1>4, <1>5 DEF Still, Stays, Inside
<1>12. InStep' /\ Posted'
  BY <1>11, PostedStill DEF MemoryInv
<1> QED
  BY <1>2, <1>3, <1>10, <1>12 DEF MemoryInv, Shapes

LEMMA MemoryWindow ==
  ASSUME MemoryInv, TypeInv', WinCreate
  PROVE  MemoryInv'
<1>1. /\ job \in Jobs /\ DOMAIN ptr = Procs
      /\ \A r \in Procs : pc[r] = "window" /\ ended[r] = "no"
  BY Everybody DEF MemoryInv, Shapes, TypeInv, WinCreate
<1>2. job.bench = "ONE_SIDED" /\ Procs = {0, 1}
  BY <1>1, Everybody, PlacesOf, JobIs, TwoRanks DEF WinCreate, MemoryInv, TypeInv
<1>3. /\ job' = job /\ ended' = ended /\ Procs' = Procs /\ (KnownLetters)' = KnownLetters
      /\ UNCHANGED <<disp_remote, mail, misuse>>
  BY DEF WinCreate, CreateWindow, Procs, KnownLetters
<1>4. \A r \in Procs : ptr[r] = Given(r) /\ Mine(r) = GivenBlocks(r)
  BY <1>1, <1>2 DEF MemoryInv, Held
<1>5. \A r \in Procs : /\ Given(r)' = Given(r) /\ GivenBlocks(r)' = GivenBlocks(r)
                       /\ Base(r)' = Base(r) /\ BroughtTo(r)' = BroughtTo(r)
                       /\ Windowed(r)' = Windowed(r)
  BY <1>3 DEF Given, GivenBlocks, Base, BroughtTo, Windowed
<1>6. window' = [r \in Procs |-> Base(r)]
  <2>1. window' = [r \in Procs |-> IF Brought(job) THEN Block(r, "win_base", "MPI", Bytes(job))
                                   ELSE ptr[r].win_base]
    BY <1>1 DEF WinCreate, CreateWindow
  <2> QED
    BY <1>4, <2>1 DEF Base
<1>7. ptr' = [r \in Procs |-> [ptr[r] EXCEPT !.win_base = window'[r]]]
  BY <1>1 DEF WinCreate, CreateWindow
<1>8. \A r \in Procs : window'[r] = Base(r) /\ ptr'[r] = Windowed(r)
  BY <1>2, <1>4, <1>6, <1>7 DEF Windowed
<1>9. heap' = heap \cup UNION {BroughtTo(r) : r \in Procs}
  <2>1. heap' = IF Brought(job) THEN heap \cup {window'[r] : r \in Procs} ELSE heap
    BY <1>1 DEF WinCreate, CreateWindow
  <2> QED
    BY <1>6, <2>1 DEF BroughtTo
<1>10. \A r \in Procs : \A b \in BroughtTo(r) : b.rank = r
  BY <1>1, BlockIs DEF BroughtTo, Base
<1>11. \A r \in Procs : Mine(r)' = GivenBlocks(r) \cup BroughtTo(r)
  BY <1>4, <1>9, <1>10 DEF Mine
<1>12. \A r \in Procs : pc'[r] \in {"use", "send", "recv"}
  BY DEF WinCreate
<1>13. ASSUME NEW r \in Procs PROVE Held(r)'
  <2>1. pc'[r] \in {"use", "send", "recv"} /\ ended'[r] = "no"
    BY <1>1, <1>3, <1>12
  <2> QED
    BY <1>2, <1>3, <1>5, <1>8, <1>11, <2>1 DEF Held, Before, Loop, Inside
<1>14. InStep'
  BY <1>3, <1>12 DEF InStep, Inside
<1>15. Posted'
  <2>1. \A r \in Procs : mail[r] = <<>>
    BY <1>1 DEF MemoryInv, Posted, Inside
  <2>2. job.win = "DYNAMIC" => pc'[0] = "send" /\ pc'[1] = "recv"
    BY <1>2 DEF WinCreate
  <2>3. job.win = "DYNAMIC" => Exchange'
    BY <1>2, <1>3, <2>1, <2>2 DEF Exchange
  <2> QED
    BY <1>3, <1>12, <2>3 DEF Posted, Inside
<1> QED
  BY <1>1, <1>3, <1>6, <1>7, <1>13, <1>14, <1>15 DEF MemoryInv, Shapes

LEMMA MemoryWindowFreed ==
  ASSUME MemoryInv, TypeInv', WinFree
  PROVE  MemoryInv'
<1>1. /\ job \in Jobs /\ DOMAIN window = Procs
      /\ \A r \in Procs : pc[r] = "win free" /\ ended[r] = "no"
  BY Everybody DEF MemoryInv, Shapes, TypeInv, WinFree
<1>2. job.bench = "ONE_SIDED" /\ Procs = {0, 1}
  BY <1>1, Everybody, PlacesOf, JobIs, TwoRanks DEF WinFree, MemoryInv, TypeInv, Inside
<1>3. /\ job' = job /\ ended' = ended /\ Procs' = Procs /\ (KnownLetters)' = KnownLetters
      /\ UNCHANGED <<ptr, disp_remote, mail, misuse>>
      /\ heap' = {b \in heap : b.by # "MPI"} /\ window' = [r \in Procs |-> Wild]
  BY <1>1 DEF WinFree, FreeWindow, Procs, KnownLetters
<1>4. \A r \in Procs : ptr[r] = Windowed(r) /\ Mine(r) = GivenBlocks(r) \cup BroughtTo(r)
  BY <1>1 DEF MemoryInv, Held, Inside
<1>5. \A r \in Procs : GivenBlocks(r)' = GivenBlocks(r) /\ Windowed(r)' = Windowed(r)
  BY <1>3 DEF Given, GivenBlocks, Base, Windowed
<1>6. \A r \in Procs : \A b \in BroughtTo(r) : b.by = "MPI"
  <2>1. \A r \in Procs : Block(r, "win_base", "MPI", Bytes(job)).by = "MPI"
    BY DEF Block
  <2> QED
    BY <2>1 DEF BroughtTo, Base
<1>7. \A r \in Procs : Mine(r)' = GivenBlocks(r)
  <2>1. ASSUME NEW r \in Procs PROVE Mine(r)' = {b \in Mine(r) : b.by # "MPI"}
    BY <1>3 DEF Mine
  <2>2. \A r \in Procs : \A b \in GivenBlocks(r) : b.by # "MPI"
    BY <1>1, <1>2, GivenOwner
  <2> QED
    BY <1>4, <1>6, <2>1, <2>2
<1>8. \A r \in Procs : pc'[r] = "release" /\ ended'[r] = "no"
  BY <1>1, <1>3 DEF WinFree, AllGoto
<1>9. ASSUME NEW r \in Procs PROVE Held(r)'
  BY <1>2, <1>3, <1>4, <1>5, <1>7, <1>8 DEF Held, Before, Loop, Inside
<1>10. InStep'
  BY <1>3, <1>8 DEF InStep, Inside
<1>11. Posted'
  BY <1>2, <1>3, <1>8 DEF Posted, Exchange, Inside
<1> QED
  BY <1>3, <1>9, <1>10, <1>11 DEF MemoryInv, Shapes

LEMMA OneLetter ==
  ASSUME NEW x
  PROVE  Head(<<x>>) = x /\ Tail(<<x>>) = <<>>
OBVIOUS

LEMMA MemoryExchanged ==
  ASSUME MemoryInv, TypeInv', NEW r \in Procs, Send(r) \/ Receive(r) \/ Access(r)
  PROVE  MemoryInv'
<1>1. /\ job \in Jobs /\ DOMAIN pc = Procs /\ DOMAIN mail = Procs /\ DOMAIN disp_remote = Procs
      /\ pc[r] \in {"send", "recv", "use"} /\ ended' = ended
  BY DEF MemoryInv, Shapes, TypeInv, Send, Receive, Access, At
<1>2. job.bench = "ONE_SIDED" /\ Procs = {0, 1}
  <2>1. pc[r] \in Places(job)
    BY DEF MemoryInv, TypeInv
  <2>2. job.bench = "ONE_SIDED"
    BY ONLY <1>1, <2>1, PlacesOf DEF Inside
  <2>3. OneSided(job)
    BY ONLY <1>1, <2>2, JobIs
  <2>4. job.np = 2
    BY ONLY <1>1, <2>2, JobIs
  <2> QED
    BY ONLY <2>2, <2>4, TwoRanks
<1>3. /\ job' = job /\ Procs' = Procs /\ (KnownLetters)' = KnownLetters
      /\ UNCHANGED <<heap, ptr, window, misuse>>
  BY DEF Send, Receive, Access, SendAddress, ReceiveAddress, memory, Procs, KnownLetters
<1>4. pc'[r] \in Inside /\ \A q \in Procs \ {r} : pc'[q] = pc[q]
  BY <1>1 DEF Send, Receive, Access, Goto, Inside
<1>5. \A q \in Procs : Drifts(q)
  BY <1>1, <1>4 DEF Drifts, Inside
<1>6. \A q \in Procs : Held(q)'
  BY <1>3, <1>5, HeldDrifts DEF MemoryInv
<1>7. \A q \in Procs : pc[q] \in Inside /\ pc'[q] \in Inside
  BY <1>1, <1>4 DEF MemoryInv, InStep, Inside
<1>8. InStep'
  BY <1>3, <1>7 DEF InStep
<1>9. DOMAIN mail' = Procs /\ DOMAIN disp_remote' = Procs
  BY <1>1 DEF Send, Receive, Access, SendAddress, ReceiveAddress, memory
<1>10. \A q : Base(q)' = Base(q)
  BY <1>3 DEF Base, Given
<1>11. ptr[r].win_base = Base(r)
  <2>1. ptr[r] = Windowed(r)
    BY <1>7 DEF MemoryInv, Held
  <2>2. "win_base" \in DOMAIN Given(r)
    BY <1>1, <1>2, JobIs DEF Given, BufferNames, OneSided
  <2> QED
    BY <1>2, <2>1, <2>2 DEF Windowed
<1>12. ASSUME job.win = "DYNAMIC" PROVE Exchange'
  <2>1. Exchange
    BY <1>2, <1>12 DEF MemoryInv, Posted
  <2>2. r \in {0, 1} /\ 0 \in DOMAIN pc /\ 1 \in DOMAIN pc
    BY <1>1, <1>2
  <2>3. CASE Send(r)
    <3>1. /\ pc[r] = "send" /\ pc' = [pc EXCEPT ![r] = IF r = 0 THEN "recv" ELSE "use"]
          /\ mail' = [mail EXCEPT ![Peer(r)] = Append(@, Base(r))]
          /\ disp_remote' = disp_remote
      BY <1>11, <2>3 DEF Send, At, Goto, SendAddress
    <3>2. CASE r = 0
      <4>1. pc'[0] = "recv" /\ pc'[1] = "recv" /\ mail[0] = <<>> /\ mail[1] = <<>>
        BY <2>1, <2>2, <3>1, <3>2 DEF Exchange
      <4>2. mail'[0] = <<>> /\ mail'[1] = <<Base(0)>>
        BY <1>1, <1>2, <3>1, <3>2, <4>1 DEF Peer
      <4> QED
        BY <1>10, <4>1, <4>2 DEF Exchange
    <3>3. CASE r = 1
      <4>1. pc[0] = "recv" /\ mail[0] = <<>> /\ mail[1] = <<>> /\ disp_remote[1] = Base(0)
        BY <1>2, <1>7, <2>1, <3>1, <3>3 DEF Exchange, Inside
      <4>2. pc'[0] = "recv" /\ pc'[1] = "use"
        BY <2>2, <3>1, <3>3, <4>1
      <4>3. mail'[0] = <<Base(1)>> /\ mail'[1] = <<>>
        BY <1>1, <1>2, <3>1, <3>3, <4>1 DEF Peer
      <4> QED
        BY <1>10, <3>1, <4>1, <4>2, <4>3 DEF Exchange
    <3> QED
      BY <2>2, <3>2, <3>3
  <2>4. CASE Receive(r)
    <3>1. /\ pc[r] = "recv" /\ pc' = [pc EXCEPT ![r] = IF r = 0 THEN "use" ELSE "send"]
          /\ mail[r] # <<>> /\ mail' = [mail EXCEPT ![r] = Tail(mail[r])]
          /\ disp_remote' = [disp_remote EXCEPT ![r] = Head(mail[r])]
      BY <2>4 DEF Receive, At, Goto, ReceiveAddress
    <3>2. CASE r = 0
      <4>1. /\ pc[1] \in {"use", "win free"} /\ disp_remote[1] = Base(0)
            /\ mail[0] = <<Base(1)>>
        BY <2>1, <3>1, <3>2 DEF Exchange
      <4>2. pc'[0] = "use" /\ pc'[1] = pc[1]
        BY <2>2, <3>1, <3>2
      <4>3. disp_remote' = [disp_remote EXCEPT ![0] = Base(1)]
        <5>1. Head(mail[0]) = Base(1)
          BY <4>1, OneLetter
        <5> QED
          BY <3>1, <3>2, <5>1
      <4>4. disp_remote'[0] = Base(1) /\ disp_remote'[1] = disp_remote[1]
        BY <1>1, <1>2, <4>3
      <4> QED
        BY <1>10, <4>1, <4>2, <4>4 DEF Exchange
    <3>3. CASE r = 1
      <4>1. pc[0] = "recv" /\ mail[0] = <<>> /\ mail[1] = <<Base(0)>>
        BY <1>2, <1>7, <2>1, <3>1, <3>3 DEF Exchange, Inside
      <4>2. pc'[0] = "recv" /\ pc'[1] = "send"
        BY <2>2, <3>1, <3>3, <4>1
      <4>3. disp_remote'[1] = Base(0) /\ mail'[0] = <<>> /\ mail'[1] = <<>>
        BY <1>1, <1>2, <3>1, <3>3, <4>1
      <4> QED
        BY <1>10, <4>1, <4>2, <4>3 DEF Exchange
    <3> QED
      BY <2>2, <3>2, <3>3
  <2>5. CASE Access(r)
    <3>0. Peer(r) \in Procs \ {r} /\ Peer(r) = IF r = 0 THEN 1 ELSE 0
      BY <1>2 DEF Peer
    <3>1. /\ pc[r] = "use" /\ pc'[r] = "win free" /\ pc'[Peer(r)] = pc[Peer(r)]
          /\ mail' = mail /\ disp_remote' = disp_remote
      BY <1>1, <1>4, <2>5, <3>0 DEF Access, At, Goto, memory
    <3>2. CASE r = 0
      <4>1. pc[0] = "use" /\ pc'[0] = "win free" /\ pc'[1] = pc[1]
        BY <3>0, <3>1, <3>2
      <4> QED
        BY <1>10, <2>1, <3>1, <4>1 DEF Exchange
    <3>3. CASE r = 1
      <4>1. pc[1] = "use" /\ pc'[1] = "win free" /\ pc'[0] = pc[0]
        BY <3>0, <3>1, <3>3
      <4> QED
        BY <1>10, <2>1, <3>1, <4>1 DEF Exchange
    <3> QED
      BY <2>2, <3>2, <3>3
  <2> QED
    BY <2>3, <2>4, <2>5
<1>13. Posted'
  BY <1>3, <1>7, <1>12 DEF Posted
<1> QED
  BY <1>3, <1>6, <1>8, <1>9, <1>13 DEF MemoryInv, Shapes

LEMMA FreesBuffers ==
  ASSUME job \in Jobs, job.bench # "COLLECTIVE", NEW r \in Procs, NEW f \in Frees(job, r)
  PROVE  f[2] \in BufferNames(job)
<1>1. ASSUME NEW letter, NEW names, names \subseteq BufferNames(job), f \in FreeAs(letter, names)
      PROVE  f[2] \in BufferNames(job)
  BY <1>1 DEF FreeAs
<1>2. ASSUME NEW names, names \subseteq BufferNames(job), f \in FreeMemory(job, r, names)
      PROVE  f[2] \in BufferNames(job)
  BY <1>1, <1>2 DEF FreeMemory
<1>3. CASE job.call = "one_sided"
  <2>1. BufferNames(job) = {"user_buf", "win_base"}
    BY <1>3 DEF BufferNames
  <2>2. f \in FreeOneSided(job, r)
    BY <1>3 DEF Frees
  <2> QED
    BY <1>2, <2>1, <2>2 DEF FreeOneSided
<1>4. CASE job.call = "atomic"
  BY <1>4 DEF Frees, FreeAtomic
<1>5. CASE job.call \in {"mul", "mul_size"}
  BY <1>1, <1>5 DEF Frees, FreePt2ptMul
<1>6. CASE job.call \notin {"one_sided", "atomic", "mul", "mul_size"}
  BY <1>2, <1>6 DEF Frees
<1> QED
  BY <1>3, <1>4, <1>5, <1>6

LEMMA WindowedOwner ==
  ASSUME job \in Jobs, job.bench # "COLLECTIVE", NEW r \in Procs, NEW name \in BufferNames(job)
  PROVE  Windowed(r)[name].rank \in {r, -1}
<1>1. Wild.rank = -1
  BY DEF Wild, Block
<1>2. \A n \in BufferNames(job) : Given(r)[n].rank \in {r, -1}
  BY <1>1, GivenKnowsOwner
<1>3. CASE job.bench = "PT2PT"
  BY <1>2, <1>3 DEF Windowed
<1>4. CASE job.bench = "ONE_SIDED"
  <2>1. "win_base" \in BufferNames(job)
    BY <1>4, GivenOneSided
  <2>2. Base(r).rank \in {r, -1}
    BY <1>2, <2>1, BlockIs DEF Base
  <2>3. Windowed(r)[name] \in {Given(r)[name], Base(r)}
    BY <1>4 DEF Windowed, Given
  <2> QED
    BY <1>2, <2>2, <2>3
<1> QED
  BY <1>3, <1>4, JobIs

\* Everything that is freed is there and goes back to where it came from.
LEMMA MemoryReleased ==
  ASSUME MemoryInv, TypeInv', NEW r \in Procs, NEW how \in {"success", "lost"},
         At(r, "release"), ReleaseMemory(job, r), Leave(r, how), UNCHANGED <<job, pc>>,
         how = "lost" => misuse' # misuse
  PROVE  MemoryInv'
<1>1. /\ pc[r] = "release" /\ ended[r] = "no" /\ job \in Jobs /\ job.bench # "COLLECTIVE"
      /\ DOMAIN ended = Procs
  BY PlacesOf DEF MemoryInv, TypeInv, At
<1>2. /\ job' = job /\ Procs' = Procs /\ (KnownLetters)' = KnownLetters
      /\ UNCHANGED <<ptr, window, disp_remote, mail, pc>>
      /\ ended'[r] = how /\ \A q \in Procs \ {r} : ended'[q] = ended[q]
  BY <1>1 DEF ReleaseMemory, Leave, Procs, KnownLetters
<1>3. ptr[r] = Windowed(r) /\ Mine(r) = GivenBlocks(r)
  BY <1>1 DEF MemoryInv, Held
<1> DEFINE Right(f) == ptr[r][f[2]] \in heap /\ ptr[r][f[2]].by = f[1]
           Gone == {ptr[r][f[2]] : f \in {f \in Frees(job, r) : Right(f)}}
<1>4. /\ heap' = heap \ Gone
      /\ misuse' = misuse \cup {<<r, f[2]>> : f \in {f \in Frees(job, r) : ~Right(f)}}
  BY DEF ReleaseMemory
<1> HIDE DEF Right, Gone
<1>5. \A b \in Gone : b \in Mine(r) \/ b.rank # r
  BY DEF Gone, Right, Mine
<1>6. ASSUME KnownLetters
      PROVE  misuse' = misuse /\ Mine(r)' = LeftBehind(r)
  <2>1. Frees(job, r) = {<<Allocator(Letter(job, r)), name>> : name \in Freed(r)}
    <3>1. Letter(job, r) \in {"H", "D"}
      BY <1>6 DEF KnownLetters, Letter
    <3> QED
      BY <1>1, <3>1, FreesAre
  <2>2. \A name \in Freed(r) : /\ ptr[r][name] = Given(r)[name] /\ Given(r)[name] \in heap
                               /\ Given(r)[name].by = Allocator(Letter(job, r))
    BY <1>1, <1>3, <1>6, FreedWasGiven DEF Mine
  <2>3. \A f \in Frees(job, r) : Right(f)
    BY <2>1, <2>2 DEF Right
  <2>4. Gone = {Given(r)[name] : name \in Freed(r)}
    <3>1. Gone = {ptr[r][f[2]] : f \in Frees(job, r)}
      BY <2>3 DEF Gone
    <3>2. Gone = {ptr[r][name] : name \in Freed(r)}
      <4>1. \A f \in Frees(job, r) : f[2] \in Freed(r)
        BY <2>1
      <4>2. \A name \in Freed(r) : <<Allocator(Letter(job, r)), name>> \in Frees(job, r)
        BY <2>1
      <4>3. \A name \in Freed(r) : \E f \in Frees(job, r) : f[2] = name
        BY <4>2
      <4> QED
        BY <3>1, <4>1, <4>3
    <3> QED
      BY <2>2, <3>2
  <2>5. Mine(r)' = Mine(r) \ Gone
    BY <1>4 DEF Mine
  <2>6. Mine(r)' = LeftBehind(r)
    BY <1>1, <1>3, <1>6, <2>4, <2>5, LeftOfGiven
  <2>7. misuse' = misuse
    BY <1>4, <2>3
  <2> QED
    BY <2>6, <2>7
<1>7. \A b \in Gone : b.rank \in {r, -1}
  <2>1. \A f \in Frees(job, r) : f[2] \in BufferNames(job)
    BY <1>1, FreesBuffers
  <2>2. \A name \in BufferNames(job) : ptr[r][name].rank \in {r, -1}
    BY <1>1, <1>3, WindowedOwner
  <2> QED
    BY <2>1, <2>2 DEF Gone
<1>8. ASSUME NEW q \in Procs \ {r} PROVE Mine(q)' = Mine(q)
  <2>1. q # -1
    BY <1>1, JobIs DEF Procs
  <2> QED
    BY <1>4, <1>7, <2>1 DEF Mine
<1>9. \A q \in Procs \ {r} : Held(q)'
  BY <1>2, <1>8, HeldElsewhere DEF MemoryInv
<1>10. Held(r)'
  <2>1. Windowed(r)' = Windowed(r) /\ LeftBehind(r)' = LeftBehind(r)
    BY <1>2 DEF Windowed, Given, Base, LeftBehind
  <2> QED
    BY <1>1, <1>2, <1>3, <1>6, <2>1 DEF Held, Before, Loop, Inside
<1>11. InStep' /\ Posted'
  <2>1. Still
    BY <1>2 DEF Still, Stays
  <2> QED
    BY <2>1, PostedStill DEF MemoryInv
<1> QED
  BY <1>2, <1>6, <1>9, <1>10, <1>11 DEF MemoryInv, Shapes

LEMMA MemoryKeeps ==
  ASSUME MemoryInv, [Next]_vars
  PROVE  MemoryInv'
<1>1. TypeInv'
  BY TypeKeeps DEF MemoryInv
<1>2. ASSUME NEW r \in Procs, Allocate(r) PROVE MemoryInv'
  <2>1. CASE /\ AllocateMemory(job, r)
             /\ Goto(r, IF OneSided(job) THEN "window" ELSE "fill") /\ UNCHANGED <<ended, faults>>
    BY <1>1, <1>2, <2>1, MemoryAllocated DEF Allocate
  <2>2. CASE Leave(r, "failure") /\ UNCHANGED <<pc, memory>>
    BY <1>1, <1>2, <2>2, MemoryQuiet DEF Quiet
  <2> QED
    BY <1>2, <2>1, <2>2 DEF Allocate
<1>3. ASSUME NEW r \in Procs, Release(r) PROVE MemoryInv'
  <2>1. CASE /\ ReleaseMemory(job, r)
             /\ \E how \in {"success"} \cup IF misuse' = misuse THEN {} ELSE {"lost"} : Leave(r, how)
    BY <1>1, <1>3, <2>1, MemoryReleased DEF Release
  <2>2. CASE Leave(r, "failure") /\ UNCHANGED memory
    BY <1>1, <1>3, <2>2, MemoryQuiet DEF Quiet
  <2> QED
    BY <1>3, <2>1, <2>2 DEF Release
<1>4. ASSUME NEW r \in Procs, Start(r) \/ Radius(r) \/ Overrun(r) \/ Stray(r) PROVE MemoryInv'
  BY <1>1, <1>4, MemoryQuiet DEF Quiet
<1>5. ASSUME CartCreate \/ GraphCreate \/ Fill \/ Collective \/ Validate \/ Again \/ Launcher
               \/ UNCHANGED vars
      PROVE  MemoryInv'
  BY <1>1, <1>5, MemoryQuiet DEF Quiet
<1> QED
  BY <1>1, <1>2, <1>3, <1>4, <1>5, MemoryWindow, MemoryWindowFreed, MemoryExchanged
     DEF Next, Progress, Over

LEMMA MemoryAtFirst ==
  ASSUME Init
  PROVE  MemoryInv
<1>1. TypeInv
  BY TypeAtFirst
<1>2. /\ heap = {} /\ misuse = {} /\ \A r \in Procs : mail[r] = <<>>
      /\ \A r \in Procs : pc[r] = "start" /\ ended[r] = "no"
  BY DEF Init, MemoryInit, Procs
<1>3. Shapes
  BY DEF Init, MemoryInit, Procs, Shapes
<1>4. ASSUME NEW r \in Procs PROVE Held(r)
  BY <1>2 DEF Held, Before, Loop, Inside, Mine
<1>5. job.bench = "ONE_SIDED" => Procs = {0, 1}
  BY <1>1, JobIs, TwoRanks DEF TypeInv
<1>6. InStep /\ Posted
  BY <1>2, <1>5 DEF InStep, Posted, Exchange, Inside
<1> QED
  BY <1>1, <1>2, <1>3, <1>4, <1>6 DEF MemoryInv

-----------------------------------------------------------------------------
(***************************************************************************)
(* What the benchmarks promise of their memory.                            *)
(***************************************************************************)
\* The inductive invariant of the memory of all ranks holds always.
THEOREM MemoryHolds == Spec => []MemoryInv
<1>1. Init => MemoryInv
  BY MemoryAtFirst
<1>2. MemoryInv /\ [Next]_vars => MemoryInv'
  BY MemoryKeeps
<1> QED
  BY <1>1, <1>2, PTL DEF Spec

LEMMA BuffersAreThere ==
  ASSUME MemoryInv
  PROVE  BuffersThere
<1> SUFFICES ASSUME NEW r \in Procs, job.bench = "PT2PT",
                    At(r, "fill") \/ At(r, "call") \/ At(r, "check"),
                    NEW name \in {"sbuf", "rbuf"}
             PROVE  /\ ptr[r][name] \in heap /\ ptr[r][name].size >= Bytes(job)
                    /\ ptr[r][name].by = "device" <=> Letter(job, r) = "D"
  BY DEF BuffersThere
<1>1. job \in Jobs /\ pc[r] \in Loop
  BY DEF MemoryInv, TypeInv, At, Loop
<1>2. ptr[r] = Given(r) /\ Mine(r) = GivenBlocks(r)
  BY <1>1 DEF MemoryInv, Held
<1>3. PICK size \in Nat : /\ Given(r)[name] = Block(r, name, Allocator(Letter(job, r)), size)
                          /\ size >= Bytes(job)
  BY <1>1, GivenMessage
<1>4. name \in BufferNames(job)
  BY <1>1, GivenMessage
<1>5. /\ Given(r)[name].by = Allocator(Letter(job, r)) /\ Given(r)[name].size = size
      /\ Given(r)[name] # Wild
  BY <1>1, <1>3, BlockIs
<1>6. Given(r)[name] \in heap
  BY <1>2, <1>4, <1>5 DEF GivenBlocks, Mine
<1> QED
  BY <1>2, <1>3, <1>5, <1>6 DEF Allocator

\* The buffers of a message are there, large enough and on the right side in
\* every iteration, for every number of pairs, size of a message and
\* placement of the two sides (allocate_memory_pt2pt and its variants).
THEOREM BuffersStay == Spec => []BuffersThere
BY MemoryHolds, BuffersAreThere, PTL

LEMMA WindowIsAlive ==
  ASSUME MemoryInv
  PROVE  WindowAlive
<1> SUFFICES ASSUME NEW r \in Procs, At(r, "use"), KnownLetters
             PROVE  /\ Target(job, r) \in heap
                    /\ Target(job, r).rank = Peer(r) /\ Target(job, r).name = "win_base"
  BY DEF WindowAlive
<1>1. job \in Jobs /\ pc[r] = "use"
  BY DEF MemoryInv, TypeInv, At
<1>2. job.bench = "ONE_SIDED" /\ Procs = {0, 1}
  <2>1. pc[r] \in Places(job) /\ pc[r] \in Inside
    BY <1>1 DEF MemoryInv, TypeInv, Inside
  <2> QED
    BY <1>1, <2>1, PlacesOf, JobIs, TwoRanks
<1> DEFINE q == Peer(r)
<1>3. q \in Procs
  BY <1>2 DEF Peer
<1>4. pc[q] \in Inside
  BY <1>1, <1>3 DEF MemoryInv, InStep, Inside
<1>5. window[q] = Base(q) /\ Mine(q) = GivenBlocks(q) \cup BroughtTo(q)
  BY <1>3, <1>4 DEF MemoryInv, Held
<1>6. Target(job, r) = Base(q)
  <2>1. CASE job.win = "DYNAMIC"
    <3>1. Exchange
      BY <1>2, <2>1 DEF MemoryInv, Posted
    <3>2. r \in {0, 1} /\ q = IF r = 0 THEN 1 ELSE 0
      BY <1>2 DEF Peer
    <3>3. CASE r = 0
      BY <1>1, <2>1, <3>1, <3>2, <3>3 DEF Exchange, Target
    <3>4. CASE r = 1
      <4>1. disp_remote[1] = Base(0)
        BY <1>1, <1>4, <3>1, <3>2, <3>4 DEF Exchange, Inside
      <4> QED
        BY <2>1, <3>2, <3>4, <4>1 DEF Target
    <3> QED
      BY <3>2, <3>3, <3>4
  <2>2. CASE job.win # "DYNAMIC"
    BY <1>5, <2>2 DEF Target
  <2> QED
    BY <2>1, <2>2
<1>7. Base(q) \in Mine(q) /\ Base(q).name = "win_base"
  <2>1. CASE Brought(job)
    BY <1>1, <1>3, <1>5, <2>1, BlockIs DEF Base, BroughtTo
  <2>2. CASE ~Brought(job)
    <3>1. "win_base" \in BufferNames(job) /\ Letter(job, q) \in {"H", "D"}
      BY <1>1, <1>2, JobIs DEF OneSided, BufferNames, KnownLetters, Letter
    <3>2. Base(q) = Block(q, "win_base", Allocator(Letter(job, q)), Bytes(job))
      BY <1>1, <1>2, <1>3, <2>2, <3>1, GivenOneSided DEF Base
    <3>3. Base(q) = Given(q)["win_base"] /\ Base(q) # Wild /\ Base(q).name = "win_base"
      BY <1>1, <1>3, <2>2, <3>2, BlockIs DEF Base
    <3> QED
      BY <1>5, <3>1, <3>3 DEF GivenBlocks
  <2> QED
    BY <2>1, <2>2
<1> QED
  BY <1>6, <1>7 DEF Mine

\* Nobody reaches into memory that is gone or somebody else's: as long as a
\* rank puts, gets or updates, the window of the other rank is there
\* (allocate_one_sided, allocate_atomic_memory, free_memory_one_sided).
THEOREM WindowStays == Spec => []WindowAlive
BY MemoryHolds, WindowIsAlive, PTL

LEMMA MemoryIsBalanced ==
  ASSUME MemoryInv
  PROVE  MemoryBalanced
<1> SUFFICES ASSUME KnownLetters, NEW r \in Procs, ended[r] = "success"
             PROVE  Mine(r) = LeftBehind(r)
  BY DEF MemoryBalanced, MemoryInv, Mine
<1>1. CASE job.bench = "COLLECTIVE"
  BY <1>1 DEF MemoryInv, Held, LeftBehind
<1>2. CASE job.bench # "COLLECTIVE"
  BY <1>2 DEF MemoryInv, Held
<1> QED
  BY <1>1, <1>2

\* A rank frees what it was given, once and by the right allocator, whatever
\* the two letters, the window and the other rank: at its end it has left
\* nothing but the one block of atomics (free_memory_one_sided,
\* free_atomic_memory and the pairs of free_memory_pt2pt).
THEOREM MemoryReturned == Spec => []MemoryBalanced
BY MemoryHolds, MemoryIsBalanced, PTL

-----------------------------------------------------------------------------
(***************************************************************************)
(* The grid: numbers of a mixed radix.  Products(s)[k] is the number of    *)
(* points in the first k dimensions, Numbers(dims, c)[k] the number of a   *)
(* point in them, Quotients(dims, x)[k] what is left of x for them.        *)
(***************************************************************************)
Products(s) == CHOOSE h : h = [k \in 0 .. Len(s) |-> IF k = 0 THEN 1 ELSE h[k - 1] * s[k]]
Numbers(dims, c) ==
  CHOOSE h : h = [k \in 0 .. Len(dims) |->
                    IF k = 0 THEN 0 ELSE h[k - 1] * dims[k] + (c[k] % dims[k])]
Quotients(dims, x) ==
  CHOOSE h : h = [k \in 0 .. Len(dims) |->
                    IF k = Len(dims) THEN x ELSE h[k + 1] \div dims[k + 1]]

Positive == Nat \ {0}

LEMMA GridIsSequence ==
  ASSUME NEW d \in Nat, NEW S, NEW dims \in [1 .. d -> S]
  PROVE  dims \in Seq(S) /\ Len(dims) = d /\ DOMAIN dims = 1 .. d
OBVIOUS

LEMMA ProductSteps ==
  ASSUME NEW d \in Nat, NEW dims \in [1 .. d -> Positive]
  PROVE  /\ Products(dims) \in [0 .. d -> Positive] /\ Products(dims)[0] = 1
         /\ \A k \in 1 .. d : Products(dims)[k] = Products(dims)[k - 1] * dims[k]
         /\ ProductOf(dims) = Products(dims)[d]
<1> DEFINE step == [k \in 1 .. d |-> [x \in Positive |-> x * dims[k]]]
           Body(h) == [k \in 0 .. d |-> IF k = 0 THEN 1 ELSE h[k - 1] * dims[k]]
<1>1. Len(dims) = d
  BY GridIsSequence
<1>2. step \in [1 .. d -> [Positive -> Positive]]
  <2>1. ASSUME NEW k \in 1 .. d, NEW x \in Positive PROVE x * dims[k] \in Positive
    <3>1. dims[k] \in Nat \ {0} /\ x \in Nat \ {0}
      BY DEF Positive
    <3> QED
      BY <3>1 DEF Positive
  <2> QED
    BY <2>1
<1>3. PICK f : Unrolled(f, d, Positive, 1, step)
  <2>1. 1 \in Positive
    BY DEF Positive
  <2> QED
    BY <1>2, <2>1, Recursion
<1>4. /\ f \in [0 .. d -> Positive] /\ f[0] = 1
      /\ \A k \in 1 .. d : f[k] = f[k - 1] * dims[k]
  <2>1. f \in [0 .. d -> Positive] /\ f[0] = 1 /\ \A k \in 1 .. d : f[k] = step[k][f[k - 1]]
    BY <1>3 DEF Unrolled
  <2>2. ASSUME NEW k \in 1 .. d PROVE f[k] = f[k - 1] * dims[k]
    <3>1. f[k - 1] \in Positive
      BY <2>1
    <3> QED
      BY <2>1, <3>1
  <2> QED
    BY <2>1, <2>2
<1>5. f = Body(f)
  BY <1>4
<1>6. Products(dims) = Body(Products(dims))
  BY <1>1, <1>5 DEF Products
<1> DEFINE g == Products(dims)
<1>7. g = f
  <2>1. g = Body(g)
    BY <1>6
  <2> HIDE DEF g
  <2>2. g[0] = 1 /\ g = [k \in 0 .. d |-> g[k]] /\ \A k \in 1 .. d : g[k] = g[k - 1] * dims[k]
    BY <2>1
  <2>3. f = [k \in 0 .. d |-> f[k]]
    BY <1>4
  <2>4. \A k \in 1 .. d : g[k - 1] = f[k - 1] => g[k] = f[k]
    BY <1>4, <2>2
  <2>5. g[0] = f[0]
    BY <1>4, <2>2
  <2> DEFINE G == {k \in 0 .. d : g[k] = f[k]}
  <2>6. 0 \in G /\ \A k \in 0 .. d - 1 : k \in G => k + 1 \in G
    <3>1. ASSUME NEW k \in 0 .. d - 1, g[k] = f[k] PROVE g[k + 1] = f[k + 1]
      <4>1. k + 1 \in 1 .. d /\ (k + 1) - 1 = k
        OBVIOUS
      <4> QED
        BY <2>4, <3>1, <4>1
    <3> QED
      BY <2>5, <3>1
  <2>7. \A k \in 0 .. d : k \in G
    <3> HIDE DEF G
    <3> QED
      BY <2>6, CountingUp
  <2> QED
    BY <2>2, <2>3, <2>7
<1>8. ProductOf(dims) = Products(dims)[d]
  BY <1>1 DEF ProductOf, Products
<1> QED
  BY <1>4, <1>7, <1>8

LEMMA Digits ==
  ASSUME NEW b \in Positive, NEW q \in Nat, NEW m \in 0 .. b - 1
  PROVE  /\ q * b + m \in Nat
         /\ (q * b + m) \div b = q /\ (q * b + m) % b = m /\ m % b = m
BY DEF Positive

LEMMA Divided ==
  ASSUME NEW b \in Positive, NEW a \in Nat
  PROVE  /\ a \div b \in Nat /\ a % b \in 0 .. b - 1
         /\ ((a \div b) * b) + (a % b) = a
         /\ \A p \in Positive : a < p * b => a \div b < p
<1>1. a \div b \in Nat /\ a % b \in 0 .. b - 1
  BY DEF Positive
<1>2. ((a \div b) * b) + (a % b) = a
  BY DEF Positive
<1>3. ASSUME NEW p \in Positive, a < p * b PROVE a \div b < p
  <2> DEFINE q == a \div b
  <2>1. q \in Nat /\ q * b <= a
    <3>1. a % b >= 0 /\ q \in Nat
      BY <1>1
    <3>2. q * b \in Int /\ a % b \in Int
      BY <1>1 DEF Positive
    <3> QED
      BY <1>2, <3>1, <3>2
  <2> HIDE DEF q
  <2>2. SUFFICES ASSUME ~(q < p) PROVE FALSE
    BY DEF q
  <2>3. p * b <= q * b
    BY <2>1, <2>2 DEF Positive
  <2>4. p * b \in Int /\ q * b \in Int
    BY <2>1 DEF Positive
  <2> QED
    BY <1>3, <2>1, <2>3, <2>4
<1> QED
  BY <1>1, <1>2, <1>3

LEMMA Wrapped ==
  ASSUME NEW b \in Positive, NEW a \in Int
  PROVE  a % b \in 0 .. b - 1
BY DEF Positive

LEMMA NumberSteps ==
  ASSUME NEW d \in Nat, NEW dims \in [1 .. d -> Positive], NEW c \in [1 .. d -> Int]
  PROVE  /\ Numbers(dims, c) \in [0 .. d -> Nat] /\ Numbers(dims, c)[0] = 0
         /\ \A k \in 1 .. d :
              Numbers(dims, c)[k] = Numbers(dims, c)[k - 1] * dims[k] + (c[k] % dims[k])
         /\ CartRank(dims, c) = Numbers(dims, c)[d]
<1> DEFINE digit(k) == c[k] % dims[k]
           step == [k \in 1 .. d |-> [x \in Nat |-> x * dims[k] + digit(k)]]
           Body(h) == [k \in 0 .. d |-> IF k = 0 THEN 0 ELSE h[k - 1] * dims[k] + digit(k)]
<1>1. Len(dims) = d
  BY GridIsSequence
<1>2. \A k \in 1 .. d : digit(k) \in Nat /\ dims[k] \in Nat
  <2>1. ASSUME NEW k \in 1 .. d PROVE digit(k) \in Nat /\ dims[k] \in Nat
    <3>1. dims[k] \in Positive /\ c[k] \in Int
      OBVIOUS
    <3>2. c[k] % dims[k] \in 0 .. dims[k] - 1
      BY <3>1, Wrapped
    <3> QED
      BY <3>1, <3>2 DEF Positive
  <2> QED
    BY <2>1
<1> HIDE DEF digit
<1>3. step \in [1 .. d -> [Nat -> Nat]]
  <2>1. ASSUME NEW k \in 1 .. d, NEW x \in Nat PROVE x * dims[k] + digit(k) \in Nat
    <3>1. dims[k] \in Nat /\ digit(k) \in Nat
      BY <1>2
    <3>2. \A a, b, e \in Nat : a * b + e \in Nat
      OBVIOUS
    <3> QED
      BY <3>1, <3>2
  <2> QED
    BY <2>1
<1>4. PICK f : Unrolled(f, d, Nat, 0, step)
  BY <1>3, Recursion
<1>5. /\ f \in [0 .. d -> Nat] /\ f[0] = 0
      /\ \A k \in 1 .. d : f[k] = f[k - 1] * dims[k] + digit(k)
  <2>1. f \in [0 .. d -> Nat] /\ f[0] = 0 /\ \A k \in 1 .. d : f[k] = step[k][f[k - 1]]
    BY <1>4 DEF Unrolled
  <2>2. ASSUME NEW k \in 1 .. d PROVE f[k] = f[k - 1] * dims[k] + digit(k)
    <3>1. f[k - 1] \in Nat
      BY <2>1
    <3> QED
      BY <2>1, <3>1
  <2> QED
    BY <2>1, <2>2
<1>6. f = Body(f)
  BY <1>5
<1>7. Numbers(dims, c) = Body(Numbers(dims, c))
  BY <1>1, <1>6 DEF Numbers, digit
<1> DEFINE g == Numbers(dims, c)
<1>8. g = f
  <2>1. g = Body(g)
    BY <1>7
  <2> HIDE DEF g
  <2>2. /\ g[0] = 0 /\ g = [k \in 0 .. d |-> g[k]]
        /\ \A k \in 1 .. d : g[k] = g[k - 1] * dims[k] + digit(k)
    BY <2>1
  <2>3. f = [k \in 0 .. d |-> f[k]]
    BY <1>5
  <2>4. \A k \in 1 .. d : g[k - 1] = f[k - 1] => g[k] = f[k]
    BY <1>5, <2>2
  <2>5. g[0] = f[0]
    BY <1>5, <2>2
  <2> DEFINE G == {k \in 0 .. d : g[k] = f[k]}
  <2>6. 0 \in G /\ \A k \in 0 .. d - 1 : k \in G => k + 1 \in G
    <3>1. ASSUME NEW k \in 0 .. d - 1, g[k] = f[k] PROVE g[k + 1] = f[k + 1]
      <4>1. k + 1 \in 1 .. d /\ (k + 1) - 1 = k
        OBVIOUS
      <4> QED
        BY <2>4, <3>1, <4>1
    <3> QED
      BY <2>5, <3>1
  <2>7. \A k \in 0 .. d : k \in G
    <3> HIDE DEF G
    <3> QED
      BY <2>6, CountingUp
  <2> QED
    BY <2>2, <2>3, <2>7
<1>9. CartRank(dims, c) = Numbers(dims, c)[d]
  BY <1>1 DEF CartRank, Numbers
<1> QED
  BY <1>5, <1>8, <1>9 DEF digit

\* Each coordinate is the remainder of what the dimensions after it leave.
Remainders(d, dims, x, q, c) ==
  /\ q \in [0 .. d -> Nat] /\ q[d] = x
  /\ \A k \in 1 .. d : q[k - 1] = q[k] \div dims[k]
  /\ c \in [1 .. d -> Nat] /\ \A k \in 1 .. d : c[k] = q[k] % dims[k]

LEMMA QuotientSteps ==
  ASSUME NEW d \in Nat, NEW dims \in [1 .. d -> Positive], NEW x \in Nat
  PROVE  Remainders(d, dims, x, Quotients(dims, x), Coords(dims, x))
<1> DEFINE step == [k \in 1 .. d |-> [y \in Nat |-> y \div dims[(d + 1) - k]]]
           Body(h) == [k \in 0 .. d |-> IF k = d THEN x ELSE h[k + 1] \div dims[k + 1]]
<1>1. Len(dims) = d /\ DOMAIN dims = 1 .. d
  BY GridIsSequence
<1>2. \A k \in 1 .. d : \A y \in Nat : y \div dims[k] \in Nat
  BY Divided
<1>3. step \in [1 .. d -> [Nat -> Nat]]
  <2>1. ASSUME NEW k \in 1 .. d, NEW y \in Nat PROVE y \div dims[(d + 1) - k] \in Nat
    <3>1. (d + 1) - k \in 1 .. d
      OBVIOUS
    <3> QED
      BY <1>2, <3>1
  <2> QED
    BY <2>1
<1>4. PICK u : Unrolled(u, d, Nat, x, step)
  BY <1>3, Recursion
<1> DEFINE f == [k \in 0 .. d |-> u[d - k]]
<1>5. /\ f \in [0 .. d -> Nat] /\ f[d] = x
      /\ \A k \in 1 .. d : f[k - 1] = f[k] \div dims[k]
  <2>1. u \in [0 .. d -> Nat] /\ u[0] = x /\ \A k \in 1 .. d : u[k] = step[k][u[k - 1]]
    BY <1>4 DEF Unrolled
  <2>2. \A k \in 0 .. d : d - k \in 0 .. d
    OBVIOUS
  <2>3. f \in [0 .. d -> Nat] /\ f[d] = x
    BY <2>1, <2>2
  <2>4. ASSUME NEW k \in 1 .. d PROVE f[k - 1] = f[k] \div dims[k]
    <3>1. (d + 1) - k \in 1 .. d /\ ((d + 1) - k) - 1 = d - k /\ d - (k - 1) = (d + 1) - k
          /\ (d + 1) - ((d + 1) - k) = k
      OBVIOUS
    <3>2. f[k - 1] = u[(d + 1) - k] /\ f[k] = u[d - k] /\ u[d - k] \in Nat
      BY <2>1, <3>1
    <3>3. u[(d + 1) - k] = u[d - k] \div dims[k]
      BY <2>1, <3>1, <3>2
    <3> QED
      BY <3>2, <3>3
  <2> QED
    BY <2>3, <2>4
<1> HIDE DEF f
<1>6. f = Body(f)
  <2>1. \A k \in 0 .. d : k # d => k + 1 \in 1 .. d /\ (k + 1) - 1 = k
    OBVIOUS
  <2>2. \A k \in 0 .. d : f[k] = IF k = d THEN x ELSE f[k + 1] \div dims[k + 1]
    BY <1>5, <2>1
  <2> QED
    BY <1>5, <2>2
<1>7. Quotients(dims, x) = Body(Quotients(dims, x))
  BY <1>1, <1>6 DEF Quotients
<1> DEFINE g == Quotients(dims, x)
<1>8. g = f
  <2>1. g = Body(g)
    BY <1>7
  <2> HIDE DEF g
  <2>2. g[d] = x /\ g = [k \in 0 .. d |-> g[k]]
    BY <2>1
  <2>3. ASSUME NEW k \in 1 .. d PROVE g[k - 1] = g[k] \div dims[k]
    <3>1. k - 1 \in 0 .. d /\ k - 1 # d /\ (k - 1) + 1 = k
      OBVIOUS
    <3> QED
      BY <2>1, <3>1
  <2>4. f = [k \in 0 .. d |-> f[k]]
    BY <1>5
  <2> DEFINE G == {k \in 0 .. d : f[d - k] = g[d - k]}
  <2>5. ASSUME NEW k \in 0 .. d - 1, k \in G PROVE k + 1 \in G
    <3>1. d - k \in 1 .. d /\ (d - k) - 1 = d - (k + 1)
      OBVIOUS
    <3>2. f[d - (k + 1)] = f[d - k] \div dims[d - k] /\ g[d - (k + 1)] = g[d - k] \div dims[d - k]
      BY <1>5, <2>3, <3>1
    <3> QED
      BY <2>5, <3>2
  <2>6. 0 \in G
    BY <1>5, <2>2
  <2>7. \A k \in 0 .. d : k \in G
    <3> HIDE DEF G
    <3> QED
      BY <2>5, <2>6, CountingUp
  <2>8. ASSUME NEW k \in 0 .. d PROVE g[k] = f[k]
    <3>1. d - k \in 0 .. d /\ d - (d - k) = k
      OBVIOUS
    <3>2. f[d - (d - k)] = g[d - (d - k)]
      BY <2>7, <3>1
    <3> QED
      BY <3>1, <3>2
  <2> QED
    BY <2>2, <2>4, <2>8
<1>9. Coords(dims, x) = [k \in 1 .. d |-> Quotients(dims, x)[k] % dims[k]]
  BY <1>1 DEF Coords, Quotients
<1>10. g \in [0 .. d -> Nat] /\ g[d] = x /\ \A k \in 1 .. d : g[k - 1] = g[k] \div dims[k]
  BY <1>5, <1>8
<1> HIDE DEF g
<1>11. ASSUME NEW k \in 1 .. d PROVE g[k] % dims[k] \in Nat
  <2>1. g[k] \in Nat /\ dims[k] \in Positive
    BY <1>10
  <2>2. g[k] % dims[k] \in 0 .. dims[k] - 1 /\ dims[k] \in Nat
    BY <2>1, Divided DEF Positive
  <2> QED
    BY <2>2
<1>12. Coords(dims, x) \in [1 .. d -> Nat] /\ \A k \in 1 .. d : Coords(dims, x)[k] = g[k] % dims[k]
  BY <1>9, <1>11 DEF g
<1> QED
  BY <1>10, <1>12 DEF g, Remainders

\* The numbers of the points of a grid and the points of the numbers.
LEMMA CoordsOfRank ==
  ASSUME NEW d \in Nat, NEW dims \in [1 .. d -> Positive], NEW c \in [1 .. d -> Int]
  PROVE  /\ CartRank(dims, c) \in 0 .. ProductOf(dims) - 1
         /\ Coords(dims, CartRank(dims, c)) = [k \in 1 .. d |-> c[k] % dims[k]]
<1> DEFINE x == CartRank(dims, c)
           N == Numbers(dims, c)
           P == Products(dims)
           Q == Quotients(dims, x)
<1>1. /\ N \in [0 .. d -> Nat] /\ N[0] = 0 /\ x = N[d]
      /\ \A k \in 1 .. d : N[k] = N[k - 1] * dims[k] + (c[k] % dims[k])
  BY NumberSteps
<1>2. /\ P \in [0 .. d -> Positive] /\ P[0] = 1 /\ ProductOf(dims) = P[d]
      /\ \A k \in 1 .. d : P[k] = P[k - 1] * dims[k]
  BY ProductSteps
<1>3. x \in Nat
  <2> HIDE DEF N, x
  <2>1. d \in 0 .. d
    OBVIOUS
  <2> QED
    BY <1>1, <2>1
<1>4. /\ Q \in [0 .. d -> Nat] /\ Q[d] = x
      /\ \A k \in 1 .. d : Q[k - 1] = Q[k] \div dims[k]
      /\ Coords(dims, x) \in [1 .. d -> Nat]
      /\ \A k \in 1 .. d : Coords(dims, x)[k] = Q[k] % dims[k]
  <2>1. Remainders(d, dims, x, Q, Coords(dims, x))
    <3> HIDE DEF x
    <3> QED
      BY <1>3, QuotientSteps
  <2> QED
    BY <2>1 DEF Remainders
<1> HIDE DEF x, N, P, Q
<1>5. \A k \in 1 .. d : dims[k] \in Positive /\ c[k] \in Int /\ c[k] % dims[k] \in 0 .. dims[k] - 1
  <2>1. ASSUME NEW k \in 1 .. d
        PROVE  dims[k] \in Positive /\ c[k] \in Int /\ c[k] % dims[k] \in 0 .. dims[k] - 1
    <3>1. dims[k] \in Positive /\ c[k] \in Int
      OBVIOUS
    <3> QED
      BY <3>1, Wrapped
  <2> QED
    BY <2>1
<1>6. ASSUME NEW k \in 1 .. d
      PROVE  N[k] \div dims[k] = N[k - 1] /\ N[k] % dims[k] = c[k] % dims[k]
  <2>1. N[k - 1] \in Nat /\ N[k] = N[k - 1] * dims[k] + (c[k] % dims[k])
    BY <1>1
  <2>2. dims[k] \in Positive /\ c[k] % dims[k] \in 0 .. dims[k] - 1
    BY <1>5
  <2>3. \A b \in Positive : \A q \in Nat : \A m \in 0 .. b - 1 :
          (q * b + m) \div b = q /\ (q * b + m) % b = m
    BY Digits
  <2> QED
    BY <2>1, <2>2, <2>3
<1> DEFINE Less == {k \in 0 .. d : N[k] < P[k]}
<1>7. 0 \in Less
  BY <1>1, <1>2
<1>8. ASSUME NEW k \in 0 .. d - 1, k \in Less PROVE k + 1 \in Less
  <2>1. k + 1 \in 1 .. d /\ (k + 1) - 1 = k
    OBVIOUS
  <2> DEFINE b == dims[k + 1]
             m == c[k + 1] % b
  <2>2. N[k + 1] = N[k] * b + m /\ P[k + 1] = P[k] * b /\ N[k] \in Nat /\ P[k] \in Nat /\ N[k] < P[k]
    BY <1>1, <1>2, <1>8, <2>1 DEF Positive
  <2>3. b \in Nat /\ m \in Nat /\ m < b
    BY <1>5, <2>1 DEF Positive
  <2> HIDE DEF b, m
  <2>4. (N[k] + 1) * b <= P[k] * b
    <3>1. \A e, f, h \in Nat : e <= f => e * h <= f * h
      OBVIOUS
    <3>2. N[k] + 1 \in Nat /\ N[k] + 1 <= P[k]
      BY <2>2
    <3> QED
      BY <2>2, <2>3, <3>1, <3>2
  <2>5. (N[k] + 1) * b = N[k] * b + b
    BY <2>2, <2>3
  <2>6. N[k] * b \in Int /\ P[k] * b \in Int
    BY <2>2, <2>3
  <2>7. \A e, f \in Int : e + b <= f => e + m < f
    BY ONLY <2>3
  <2>8. N[k + 1] < P[k + 1]
    BY ONLY <2>2, <2>4, <2>5, <2>6, <2>7
  <2> QED
    BY <2>1, <2>8
<1>9. \A k \in 0 .. d : k \in Less
  <2> HIDE DEF Less
  <2> QED
    BY <1>7, <1>8, CountingUp
<1>10. x \in 0 .. ProductOf(dims) - 1
  <2>1. N[d] < P[d] /\ P[d] \in Nat
    BY <1>2, <1>9 DEF Positive
  <2> QED
    BY <1>1, <1>2, <1>3, <2>1
<1> DEFINE Same == {j \in 0 .. d : Q[d - j] = N[d - j]}
<1>11. 0 \in Same
  BY <1>1, <1>4
<1>12. ASSUME NEW j \in 0 .. d - 1, j \in Same PROVE j + 1 \in Same
  <2>1. d - j \in 1 .. d /\ (d - j) - 1 = d - (j + 1)
    OBVIOUS
  <2>2. Q[d - (j + 1)] = Q[d - j] \div dims[d - j] /\ N[d - j] \div dims[d - j] = N[d - (j + 1)]
    BY <1>4, <1>6, <2>1
  <2> QED
    BY <1>12, <2>2
<1>13. \A j \in 0 .. d : j \in Same
  <2> HIDE DEF Same
  <2> QED
    BY <1>11, <1>12, CountingUp
<1>14. ASSUME NEW k \in 1 .. d PROVE Q[k] % dims[k] = c[k] % dims[k]
  <2>1. d - k \in 0 .. d /\ d - (d - k) = k
    OBVIOUS
  <2>2. Q[k] = N[k]
    BY <1>13, <2>1
  <2> QED
    BY <1>6, <2>2
<1>15. Coords(dims, x) = [k \in 1 .. d |-> c[k] % dims[k]]
  <2>1. \A k \in 1 .. d : Coords(dims, x)[k] = c[k] % dims[k]
    BY <1>4, <1>14
  <2> QED
    BY <1>4, <2>1
<1> QED
  BY <1>10, <1>15 DEF x

LEMMA RankOfCoords ==
  ASSUME NEW d \in Nat, NEW dims \in [1 .. d -> Positive], NEW x \in 0 .. ProductOf(dims) - 1
  PROVE  /\ Coords(dims, x) \in [1 .. d -> Nat]
         /\ \A k \in 1 .. d : Coords(dims, x)[k] \in 0 .. dims[k] - 1
         /\ CartRank(dims, Coords(dims, x)) = x
<1> DEFINE P == Products(dims)
           Q == Quotients(dims, x)
           c == Coords(dims, x)
           N == Numbers(dims, c)
<1>1. /\ P \in [0 .. d -> Positive] /\ P[0] = 1 /\ ProductOf(dims) = P[d]
      /\ \A k \in 1 .. d : P[k] = P[k - 1] * dims[k]
  BY ProductSteps
<1>2. x \in Nat /\ x < P[d]
  <2>1. P[d] \in Nat
    BY <1>1 DEF Positive
  <2> QED
    BY <1>1, <2>1
<1>3. /\ Q \in [0 .. d -> Nat] /\ Q[d] = x
      /\ \A k \in 1 .. d : Q[k - 1] = Q[k] \div dims[k]
      /\ c \in [1 .. d -> Nat] /\ \A k \in 1 .. d : c[k] = Q[k] % dims[k]
  <2>1. Remainders(d, dims, x, Q, c)
    BY <1>2, QuotientSteps
  <2> HIDE DEF Q, c
  <2> QED
    BY <2>1 DEF Remainders
<1> HIDE DEF Q, P
<1>4. \A k \in 1 .. d : dims[k] \in Positive /\ Q[k] \in Nat
  BY <1>3
<1>5. ASSUME NEW k \in 1 .. d
      PROVE  c[k] \in 0 .. dims[k] - 1 /\ c[k] % dims[k] = c[k] /\ Q[k - 1] * dims[k] + c[k] = Q[k]
  <2>1. c[k] = Q[k] % dims[k] /\ Q[k - 1] = Q[k] \div dims[k]
    BY <1>3
  <2>2. c[k] \in 0 .. dims[k] - 1 /\ Q[k - 1] * dims[k] + c[k] = Q[k]
    <3>1. \A b \in Positive : \A a \in Nat : a % b \in 0 .. b - 1 /\ ((a \div b) * b) + (a % b) = a
      BY Divided
    <3> QED
      BY <1>4, <2>1, <3>1
  <2> HIDE DEF c
  <2>3. c[k] % dims[k] = c[k]
    BY <1>4, <2>2, Digits
  <2> QED
    BY <2>2, <2>3
<1>6. c \in [1 .. d -> Nat] /\ c \in [1 .. d -> Int]
  <2> HIDE DEF c
  <2> QED
    BY <1>3
<1>7. /\ N[0] = 0 /\ CartRank(dims, c) = N[d]
      /\ \A k \in 1 .. d : N[k] = N[k - 1] * dims[k] + (c[k] % dims[k])
  <2> HIDE DEF c
  <2> QED
    BY <1>6, NumberSteps
<1> HIDE DEF c, N
<1> DEFINE Less == {j \in 0 .. d : Q[d - j] < P[d - j]}
<1>8. 0 \in Less
  BY <1>2, <1>3
<1>9. ASSUME NEW j \in 0 .. d - 1, j \in Less PROVE j + 1 \in Less
  <2> DEFINE k == d - j
  <2>1. k \in 1 .. d /\ k - 1 = d - (j + 1)
    OBVIOUS
  <2> HIDE DEF k
  <2>2. Q[k] < P[k - 1] * dims[k] /\ P[k - 1] \in Positive
    BY <1>1, <1>9, <2>1 DEF k
  <2>3. Q[k] \div dims[k] < P[k - 1]
    BY <1>4, <2>1, <2>2, Divided
  <2>4. Q[k - 1] < P[k - 1]
    BY <1>3, <2>1, <2>3
  <2> QED
    BY <2>1, <2>4
<1>10. \A j \in 0 .. d : j \in Less
  <2> HIDE DEF Less
  <2> QED
    BY <1>8, <1>9, CountingUp
<1>11. Q[0] = 0
  <2>1. d \in 0 .. d /\ d - d = 0
    OBVIOUS
  <2>2. Q[d - d] < P[d - d] /\ 0 \in 0 .. d
    BY <1>10, <2>1
  <2>3. Q[0] < P[0] /\ Q[0] \in Nat
    BY <1>3, <2>1, <2>2
  <2> QED
    BY <1>1, <2>3
<1> DEFINE Same == {k \in 0 .. d : N[k] = Q[k]}
<1>12. 0 \in Same
  BY <1>7, <1>11
<1>13. ASSUME NEW k \in 0 .. d - 1, k \in Same PROVE k + 1 \in Same
  <2>1. k + 1 \in 1 .. d /\ (k + 1) - 1 = k
    OBVIOUS
  <2> QED
    BY <1>5, <1>7, <1>13, <2>1
<1>14. \A k \in 0 .. d : k \in Same
  <2> HIDE DEF Same
  <2> QED
    BY <1>12, <1>13, CountingUp
<1>15. CartRank(dims, c) = x
  BY <1>3, <1>7, <1>14
<1> QED
  BY <1>5, <1>6, <1>15 DEF c

LEMMA SameRemainder ==
  ASSUME NEW p \in Positive, NEW a \in Int, NEW b \in Int, a % p = b % p, a - b < p, b - a < p
  PROVE  a = b
<1> DEFINE u == a \div p
           v == b \div p
           m == a % p
<1>1. p \in Nat /\ p > 0
  BY DEF Positive
<1>2. u \in Int /\ v \in Int /\ m \in Int /\ a = p * u + m /\ b = p * v + m
  BY <1>1
<1> HIDE DEF u, v, m
<1>3. \A x, y, c \in Int : c > 0 /\ x + 1 <= y => c * x + c <= c * y
  <2>1. ASSUME NEW x \in Int, NEW y \in Int, NEW c \in Int, c > 0, x + 1 <= y
        PROVE  c * x + c <= c * y
    <3>1. c * (x + 1) <= c * y
      BY <2>1
    <3>2. c * (x + 1) = c * x + c
      OBVIOUS
    <3> QED
      BY <3>1, <3>2
  <2> QED
    BY <2>1
<1>4. p * u \in Int /\ p * v \in Int
  BY <1>1, <1>2
<1>5. u = v
  <2>1. ~(u + 1 <= v)
    <3>1. u + 1 <= v => p * u + p <= p * v
      BY <1>1, <1>2, <1>3
    <3> QED
      BY <1>1, <1>2, <1>4, <3>1
  <2>2. ~(v + 1 <= u)
    <3>1. v + 1 <= u => p * v + p <= p * u
      BY <1>1, <1>2, <1>3
    <3> QED
      BY <1>1, <1>2, <1>4, <3>1
  <2> QED
    BY <1>2, <2>1, <2>2
<1> QED
  BY <1>2, <1>5

\* A step forth and back in one dimension, around the edge or not.
LEMMA ThereAndBack ==
  ASSUME NEW p \in Positive, NEW e \in 0 .. p - 1, NEW x \in Int
  PROVE  (((e + x) % p) - x) % p = e
<1> DEFINE u == (e + x) \div p
           m == (e + x) % p
           b == m - x
<1>1. p \in Nat /\ p > 0 /\ e \in Int
  BY DEF Positive
<1>2. u \in Int /\ m \in Int /\ e + x = p * u + m
  BY <1>1
<1> HIDE DEF u, m
<1>3. b \in Int /\ b = p * (-u) + e
  <2>1. p * u \in Int /\ p * (-u) = -(p * u)
    BY <1>1, <1>2
  <2> QED
    BY <1>1, <1>2, <2>1
<1> HIDE DEF b
<1> DEFINE v == b \div p
           w == b % p
<1>4. v \in Int /\ w \in 0 .. p - 1 /\ b = p * v + w
  BY <1>1, <1>3
<1> HIDE DEF v, w
<1>5. w = e
  <2>1. w % p = w /\ e % p = e
    BY <1>1, <1>4
  <2>2. \A x1, y1, c, f, g \in Int : c * x1 + f = c * y1 + g => c * (x1 - y1) = g - f
    OBVIOUS
  <2>3. p * ((-u) - v) = w - e
    BY <1>1, <1>2, <1>3, <1>4, <2>2
  <2> DEFINE t == (-u) - v
  <2>4. t \in Int
    BY <1>2, <1>4
  <2> HIDE DEF t
  <2>5. p * t = w - e
    BY <2>3 DEF t
  <2>6. \A c, y \in Int : c > 0 /\ y >= 1 => c * y >= c
    OBVIOUS
  <2>7. \A c, y \in Int : c > 0 /\ y <= -1 => c * y <= -c
    OBVIOUS
  <2>8. ~(t >= 1) /\ ~(t <= -1)
    <3>1. w - e < p /\ w - e > -p /\ p \in Int
      BY <1>1, <1>4
    <3> QED
      BY <1>1, <2>4, <2>5, <2>6, <2>7, <3>1
  <2>9. t = 0
    BY <2>4, <2>8
  <2> QED
    BY <1>1, <1>4, <2>5, <2>9
<1> QED
  BY <1>5 DEF w, b, m

-----------------------------------------------------------------------------
(***************************************************************************)
(* The neighbours on a grid that the radius does not reach around.         *)
(***************************************************************************)
Offsets(d, rad) == [n \in 1 .. ProductOf(Box(d, rad)) |-> Coords(Box(d, rad), n - 1)]
Shifted(d, dims, rad, r, n) ==
  [k \in 1 .. d |-> Coords(dims, r)[k] + (Offsets(d, rad)[n][k] - rad)]
Reached(d, dims, rad, r) ==
  [n \in 1 .. ProductOf(Box(d, rad)) |-> CartRank(dims, Shifted(d, dims, rad, r, n))]

\* A grid whose dimensions are longer than the box.
Fits(d, dims, rad) ==
  /\ d \in Nat /\ rad \in Nat /\ dims \in [1 .. d -> Positive]
  /\ \A k \in 1 .. d : 2 * rad + 1 <= dims[k]

LEMMA BoxIs ==
  ASSUME NEW d \in Nat, NEW rad \in Nat
  PROVE  /\ Box(d, rad) \in [1 .. d -> Positive] /\ \A k \in 1 .. d : Box(d, rad)[k] = 2 * rad + 1
         /\ ProductOf(Box(d, rad)) \in Positive
         /\ \A n \in 1 .. ProductOf(Box(d, rad)) :
              /\ Offsets(d, rad)[n] \in [1 .. d -> 0 .. 2 * rad]
              /\ CartRank(Box(d, rad), Offsets(d, rad)[n]) = n - 1
<1>1. Box(d, rad) \in [1 .. d -> Positive] /\ \A k \in 1 .. d : Box(d, rad)[k] = 2 * rad + 1
  BY DEF Box, Positive
<1> DEFINE box == Box(d, rad)
           M == ProductOf(box)
<1>2. M \in Positive
  <2> HIDE DEF box
  <2>1. Products(box) \in [0 .. d -> Positive] /\ M = Products(box)[d]
    BY <1>1, ProductSteps DEF box
  <2> QED
    BY <2>1
<1>3. ASSUME NEW n \in 1 .. M
      PROVE  /\ Offsets(d, rad)[n] \in [1 .. d -> 0 .. 2 * rad]
             /\ CartRank(box, Offsets(d, rad)[n]) = n - 1
  <2>1. n - 1 \in 0 .. M - 1
    BY <1>2 DEF Positive
  <2>2. Offsets(d, rad)[n] = Coords(box, n - 1)
    BY DEF Offsets
  <2>3. /\ Coords(box, n - 1) \in [1 .. d -> Nat] /\ CartRank(box, Coords(box, n - 1)) = n - 1
        /\ \A k \in 1 .. d : Coords(box, n - 1)[k] \in 0 .. box[k] - 1
    <3> HIDE DEF box
    <3> QED
      BY <1>1, <2>1, RankOfCoords DEF box
  <2>4. \A k \in 1 .. d : Coords(box, n - 1)[k] \in 0 .. 2 * rad
    BY <1>1, <2>3
  <2> QED
    BY <2>2, <2>3, <2>4
<1> QED
  BY <1>1, <1>2, <1>3

\* Every offset is there.
LEMMA BoxHas ==
  ASSUME NEW d \in Nat, NEW rad \in Nat, NEW v \in [1 .. d -> 0 .. 2 * rad]
  PROVE  \E n \in 1 .. ProductOf(Box(d, rad)) : Offsets(d, rad)[n] = v
<1> DEFINE box == Box(d, rad)
           M == ProductOf(box)
           x == CartRank(box, v)
<1>1. /\ box \in [1 .. d -> Positive] /\ \A k \in 1 .. d : box[k] = 2 * rad + 1
      /\ M \in Positive
  BY BoxIs
<1>2. v \in [1 .. d -> Int]
  OBVIOUS
<1>3. x \in 0 .. M - 1 /\ Coords(box, x) = [k \in 1 .. d |-> v[k] % box[k]]
  <2> HIDE DEF box
  <2> QED
    BY <1>1, <1>2, CoordsOfRank
<1>4. \A k \in 1 .. d : v[k] % box[k] = v[k]
  <2>1. ASSUME NEW k \in 1 .. d PROVE v[k] % box[k] = v[k]
    <3>1. box[k] \in Positive /\ v[k] \in 0 .. box[k] - 1
      BY <1>1 DEF Positive
    <3> HIDE DEF box
    <3> QED
      BY <3>1, Digits
  <2> QED
    BY <2>1
<1>5. Coords(box, x) = v
  <2> HIDE DEF x, box
  <2> QED
    BY <1>3, <1>4
<1>6. x + 1 \in 1 .. M /\ (x + 1) - 1 = x
  <2> HIDE DEF x, M
  <2> QED
    BY <1>1, <1>3 DEF Positive
<1>7. Offsets(d, rad)[x + 1] = Coords(box, (x + 1) - 1)
  BY <1>6 DEF Offsets
<1> QED
  BY <1>5, <1>6, <1>7

LEMMA ShiftedIs ==
  ASSUME NEW d, NEW dims, NEW rad, Fits(d, dims, rad), NEW r \in 0 .. ProductOf(dims) - 1,
         NEW n \in 1 .. ProductOf(Box(d, rad))
  PROVE  /\ Coords(dims, r) \in [1 .. d -> Nat] /\ CartRank(dims, Coords(dims, r)) = r
         /\ \A k \in 1 .. d : Coords(dims, r)[k] \in 0 .. dims[k] - 1
         /\ Offsets(d, rad)[n] \in [1 .. d -> 0 .. 2 * rad]
         /\ Shifted(d, dims, rad, r, n) \in [1 .. d -> Int]
         /\ \A k \in 1 .. d : Shifted(d, dims, rad, r, n)[k]
                                = Coords(dims, r)[k] + (Offsets(d, rad)[n][k] - rad)
         /\ Reached(d, dims, rad, r)[n] \in 0 .. ProductOf(dims) - 1
         /\ \A k \in 1 .. d : Coords(dims, Reached(d, dims, rad, r)[n])[k]
                                = Shifted(d, dims, rad, r, n)[k] % dims[k]
<1>1. d \in Nat /\ rad \in Nat /\ dims \in [1 .. d -> Positive]
  BY DEF Fits
<1>2. /\ Coords(dims, r) \in [1 .. d -> Nat] /\ CartRank(dims, Coords(dims, r)) = r
      /\ \A k \in 1 .. d : Coords(dims, r)[k] \in 0 .. dims[k] - 1
  BY <1>1, RankOfCoords
<1>3. Offsets(d, rad)[n] \in [1 .. d -> 0 .. 2 * rad]
  BY <1>1, BoxIs
<1> DEFINE c == Shifted(d, dims, rad, r, n)
<1>4. \A k \in 1 .. d : c[k] = Coords(dims, r)[k] + (Offsets(d, rad)[n][k] - rad) /\ c[k] \in Int
  <2>1. ASSUME NEW k \in 1 .. d
        PROVE  c[k] = Coords(dims, r)[k] + (Offsets(d, rad)[n][k] - rad) /\ c[k] \in Int
    <3>1. Coords(dims, r)[k] \in Nat /\ Offsets(d, rad)[n][k] \in 0 .. 2 * rad
      BY <1>2, <1>3
    <3>2. c[k] = Coords(dims, r)[k] + (Offsets(d, rad)[n][k] - rad)
      BY DEF Shifted
    <3> QED
      BY <1>1, <3>1, <3>2
  <2> QED
    BY <2>1
<1>5. c \in [1 .. d -> Int]
  BY <1>4 DEF Shifted
<1>6. Reached(d, dims, rad, r)[n] = CartRank(dims, c)
  BY DEF Reached
<1> HIDE DEF c
<1>7. /\ CartRank(dims, c) \in 0 .. ProductOf(dims) - 1
      /\ Coords(dims, CartRank(dims, c)) = [k \in 1 .. d |-> c[k] % dims[k]]
  BY <1>1, <1>5, CoordsOfRank
<1>8. \A k \in 1 .. d : Coords(dims, Reached(d, dims, rad, r)[n])[k] = c[k] % dims[k]
  BY <1>6, <1>7
<1> QED
  BY <1>2, <1>3, <1>4, <1>5, <1>6, <1>7, <1>8 DEF c

\* Nobody is reached twice.
LEMMA ReachedOnce ==
  ASSUME NEW d, NEW dims, NEW rad, Fits(d, dims, rad), NEW r \in 0 .. ProductOf(dims) - 1,
         NEW n \in 1 .. ProductOf(Box(d, rad)), NEW m \in 1 .. ProductOf(Box(d, rad)),
         Reached(d, dims, rad, r)[n] = Reached(d, dims, rad, r)[m]
  PROVE  n = m
<1>1. d \in Nat /\ rad \in Nat /\ dims \in [1 .. d -> Positive]
      /\ \A k \in 1 .. d : 2 * rad + 1 <= dims[k]
  BY DEF Fits
<1> DEFINE a == Shifted(d, dims, rad, r, n)
           b == Shifted(d, dims, rad, r, m)
           u == Offsets(d, rad)[n]
           v == Offsets(d, rad)[m]
           c == Coords(dims, r)
<1>2. /\ c \in [1 .. d -> Nat] /\ u \in [1 .. d -> 0 .. 2 * rad] /\ v \in [1 .. d -> 0 .. 2 * rad]
      /\ a \in [1 .. d -> Int] /\ b \in [1 .. d -> Int]
      /\ \A k \in 1 .. d : a[k] = c[k] + (u[k] - rad) /\ b[k] = c[k] + (v[k] - rad)
  BY ShiftedIs
<1>3. \A k \in 1 .. d : a[k] % dims[k] = b[k] % dims[k]
  BY ShiftedIs
<1> HIDE DEF a, b, u, v, c
<1>4. ASSUME NEW k \in 1 .. d PROVE u[k] = v[k]
  <2>1. dims[k] \in Positive /\ dims[k] \in Nat /\ 2 * rad + 1 <= dims[k]
    BY <1>1 DEF Positive
  <2>2. u[k] \in 0 .. 2 * rad /\ v[k] \in 0 .. 2 * rad /\ c[k] \in Nat /\ a[k] \in Int /\ b[k] \in Int
    BY <1>2
  <2>3. a[k] = c[k] + (u[k] - rad) /\ b[k] = c[k] + (v[k] - rad)
    BY <1>2
  <2>4. a[k] - b[k] < dims[k] /\ b[k] - a[k] < dims[k]
    <3>1. rad \in Int
      BY <1>1
    <3> QED
      BY ONLY <2>1, <2>2, <2>3, <3>1
  <2>5. a[k] = b[k]
    BY <1>3, <2>1, <2>2, <2>4, SameRemainder
  <2>6. rad \in Int
    BY <1>1
  <2> QED
    BY ONLY <2>2, <2>3, <2>5, <2>6
<1>5. u = v
  <2>1. u = [k \in 1 .. d |-> u[k]] /\ v = [k \in 1 .. d |-> v[k]]
    BY <1>2
  <2> QED
    BY <1>4, <2>1
<1>6. n - 1 = m - 1
  <2>1. CartRank(Box(d, rad), u) = n - 1 /\ CartRank(Box(d, rad), v) = m - 1
    BY <1>1, BoxIs DEF u, v
  <2> QED
    BY ONLY <1>5, <2>1
<1> QED
  BY <1>6

\* The rank itself is reached, without a displacement.
LEMMA ReachedSelf ==
  ASSUME NEW d, NEW dims, NEW rad, Fits(d, dims, rad), NEW r \in 0 .. ProductOf(dims) - 1
  PROVE  \E n \in 1 .. ProductOf(Box(d, rad)) : Reached(d, dims, rad, r)[n] = r
<1>1. d \in Nat /\ rad \in Nat /\ dims \in [1 .. d -> Positive]
  BY DEF Fits
<1> DEFINE v == [k \in 1 .. d |-> rad]
<1>2. v \in [1 .. d -> 0 .. 2 * rad]
  BY <1>1
<1>3. PICK n \in 1 .. ProductOf(Box(d, rad)) : Offsets(d, rad)[n] = v
  <2> HIDE DEF v
  <2> QED
    BY <1>1, <1>2, BoxHas
<1>4. /\ Coords(dims, r) \in [1 .. d -> Nat] /\ CartRank(dims, Coords(dims, r)) = r
      /\ Shifted(d, dims, rad, r, n) \in [1 .. d -> Int]
      /\ \A k \in 1 .. d : Shifted(d, dims, rad, r, n)[k]
                             = Coords(dims, r)[k] + (Offsets(d, rad)[n][k] - rad)
  BY ShiftedIs
<1>5. ASSUME NEW k \in 1 .. d PROVE Shifted(d, dims, rad, r, n)[k] = Coords(dims, r)[k]
  <2>1. Offsets(d, rad)[n][k] = rad /\ Coords(dims, r)[k] \in Nat
    BY <1>3, <1>4
  <2> QED
    BY <1>1, <1>4, <2>1
<1>6. Shifted(d, dims, rad, r, n) = Coords(dims, r)
  <2>1. \A c \in [1 .. d -> Nat] : c = [k \in 1 .. d |-> c[k]]
    OBVIOUS
  <2>2. \A c \in [1 .. d -> Int] : c = [k \in 1 .. d |-> c[k]]
    OBVIOUS
  <2>3. Coords(dims, r) = [k \in 1 .. d |-> Coords(dims, r)[k]]
    BY <1>4, <2>1
  <2>4. Shifted(d, dims, rad, r, n) = [k \in 1 .. d |-> Shifted(d, dims, rad, r, n)[k]]
    BY <1>4, <2>2
  <2> QED
    BY <1>5, <2>3, <2>4
<1>7. Reached(d, dims, rad, r)[n] = CartRank(dims, Shifted(d, dims, rad, r, n))
  BY DEF Reached
<1> QED
  BY <1>4, <1>6, <1>7

\* Whom a rank reaches reaches it, by the opposite displacement.
LEMMA ReachedBack ==
  ASSUME NEW d, NEW dims, NEW rad, Fits(d, dims, rad), NEW r \in 0 .. ProductOf(dims) - 1,
         NEW n \in 1 .. ProductOf(Box(d, rad))
  PROVE  \E m \in 1 .. ProductOf(Box(d, rad)) :
           Reached(d, dims, rad, Reached(d, dims, rad, r)[n])[m] = r
<1> DEFINE s == Reached(d, dims, rad, r)[n]
           u == Offsets(d, rad)[n]
           c == Coords(dims, r)
           v == [k \in 1 .. d |-> 2 * rad - u[k]]
<1>1. d \in Nat /\ rad \in Nat /\ dims \in [1 .. d -> Positive]
  BY DEF Fits
<1>2. /\ c \in [1 .. d -> Nat] /\ CartRank(dims, c) = r /\ u \in [1 .. d -> 0 .. 2 * rad]
      /\ \A k \in 1 .. d : c[k] \in 0 .. dims[k] - 1
      /\ s \in 0 .. ProductOf(dims) - 1
      /\ \A k \in 1 .. d : Coords(dims, s)[k] = (c[k] + (u[k] - rad)) % dims[k]
  BY ShiftedIs
<1>3. v \in [1 .. d -> 0 .. 2 * rad] /\ \A k \in 1 .. d : v[k] = 2 * rad - u[k] /\ u[k] \in 0 .. 2 * rad
  <2> HIDE DEF u
  <2> QED
    BY <1>1, <1>2
<1> HIDE DEF s, u, c, v
<1>4. PICK m \in 1 .. ProductOf(Box(d, rad)) : Offsets(d, rad)[m] = v
  BY <1>1, <1>3, BoxHas
<1> DEFINE b == Shifted(d, dims, rad, s, m)
           t == Reached(d, dims, rad, s)[m]
<1>5. /\ b \in [1 .. d -> Int]
      /\ \A k \in 1 .. d : b[k] = Coords(dims, s)[k] + (v[k] - rad)
      /\ t \in 0 .. ProductOf(dims) - 1
      /\ \A k \in 1 .. d : Coords(dims, t)[k] = b[k] % dims[k]
  BY <1>2, <1>4, ShiftedIs
<1>6. Coords(dims, t) \in [1 .. d -> Nat] /\ CartRank(dims, Coords(dims, t)) = t
  <2> HIDE DEF t
  <2> QED
    BY <1>1, <1>5, RankOfCoords
<1> HIDE DEF b, t
<1>7. ASSUME NEW k \in 1 .. d PROVE Coords(dims, t)[k] = c[k]
  <2> DEFINE p == dims[k]
             e == c[k]
             x == u[k] - rad
  <2>1. p \in Positive /\ e \in 0 .. p - 1 /\ x \in Int
    BY <1>1, <1>2, <1>3
  <2>2. v[k] - rad = -x
    BY <1>1, <1>3
  <2>3. (e + x) % p \in Int
    BY <2>1 DEF Positive
  <2>4. b[k] = ((e + x) % p) - x
    BY <1>2, <1>5, <2>1, <2>2, <2>3
  <2> HIDE DEF p, e, x
  <2>5. b[k] % p = e
    BY <2>1, <2>4, ThereAndBack
  <2> QED
    BY <1>5, <2>5 DEF p, e
<1>8. Coords(dims, t) = c
  <2>1. \A f \in [1 .. d -> Nat] : f = [k \in 1 .. d |-> f[k]]
    OBVIOUS
  <2>2. Coords(dims, t) = [k \in 1 .. d |-> Coords(dims, t)[k]] /\ c = [k \in 1 .. d |-> c[k]]
    BY <1>2, <1>6, <2>1
  <2> QED
    BY <1>7, <2>2
<1>9. t = r
  BY <1>2, <1>6, <1>8
<1> QED
  BY <1>9 DEF t, s

(***************************************************************************)
(* A list without the one entry that is the rank itself.                   *)
(***************************************************************************)
KeptOf(reached, r) ==
  CHOOSE kept : kept = [n \in 0 .. Len(reached) |->
    IF n = 0 THEN <<>> ELSE IF reached[n] = r THEN kept[n - 1] ELSE Append(kept[n - 1], reached[n])]
Without(reached, z, n) ==
  [l \in 1 .. (IF z <= n THEN n - 1 ELSE n) |-> reached[IF l < z THEN l ELSE l + 1]]

\* The entry that is the rank itself adds nothing; every other one is appended.
Grows(reached, z, n) ==
  /\ n = z => Without(reached, z, n) = Without(reached, z, n - 1)
  /\ n # z => Without(reached, z, n) = Append(Without(reached, z, n - 1), reached[n])

LEMMA WithoutGrows ==
  ASSUME NEW M \in Nat, NEW T, NEW reached \in [1 .. M -> T], NEW z \in 1 .. M, NEW n \in 1 .. M
  PROVE  Grows(reached, z, n)
<1> DEFINE old == Without(reached, z, n - 1)
           new == Without(reached, z, n)
           long(k) == IF z <= k THEN k - 1 ELSE k
<1>1. CASE n = z
  <2>1. long(n) = long(n - 1)
    BY <1>1
  <2>2. Without(reached, z, n) = Without(reached, z, n - 1)
    BY <2>1 DEF Without
  <2> QED
    BY <1>1, <2>2 DEF Grows
<1>2. CASE n # z
  <2>1. long(n) = long(n - 1) + 1 /\ long(n - 1) \in Nat /\ long(n) \in Nat
    BY <1>2
  <2>2. ASSUME NEW k \in {n - 1, n}, NEW l \in 1 .. long(k)
        PROVE  (IF l < z THEN l ELSE l + 1) \in 1 .. M
    BY <2>2
  <2>3. old \in [1 .. long(n - 1) -> T] /\ new \in [1 .. long(n) -> T]
    <3>1. \A l \in 1 .. long(n - 1) : reached[IF l < z THEN l ELSE l + 1] \in T
      BY <2>2
    <3>2. \A l \in 1 .. long(n) : reached[IF l < z THEN l ELSE l + 1] \in T
      BY <2>2
    <3> HIDE DEF long
    <3> QED
      BY <3>1, <3>2 DEF Without, long
  <2>4. \A l \in 1 .. long(n - 1) : new[l] = old[l]
    BY <2>1 DEF Without
  <2>5. new[long(n)] = reached[n]
    <3>1. long(n) \in 1 .. long(n) /\ (IF long(n) < z THEN long(n) ELSE long(n) + 1) = n
      BY <1>2, <2>1
    <3> QED
      BY <3>1 DEF Without
  <2> HIDE DEF old, new, long
  <2>6. old \in Seq(T) /\ Len(old) = long(n - 1) /\ new \in Seq(T) /\ Len(new) = long(n)
    BY <2>1, <2>3, GridIsSequence
  <2>7. reached[n] \in T
    OBVIOUS
  <2>8. /\ Append(old, reached[n]) \in Seq(T)
        /\ Len(Append(old, reached[n])) = long(n - 1) + 1
        /\ \A l \in 1 .. long(n - 1) : Append(old, reached[n])[l] = old[l]
        /\ Append(old, reached[n])[long(n - 1) + 1] = reached[n]
    BY <2>6, <2>7, AppendProperties
  <2>9. \A l \in 1 .. Len(new) : new[l] = Append(old, reached[n])[l]
    <3>1. \A l \in 1 .. long(n) : l \in 1 .. long(n - 1) \/ l = long(n - 1) + 1
      BY <2>1
    <3> QED
      BY <2>1, <2>4, <2>5, <2>6, <2>8, <3>1
  <2>10. new = Append(old, reached[n])
    BY <2>1, <2>6, <2>8, <2>9, SeqEqual
  <2> QED
    BY <1>2, <2>10 DEF old, new, Grows
<1> QED
  BY <1>1, <1>2

LEMMA KeptIs ==
  ASSUME NEW M \in Nat, NEW T, NEW reached \in [1 .. M -> T], NEW r, NEW z \in 1 .. M,
         \A n \in 1 .. M : reached[n] = r <=> n = z
  PROVE  KeptOf(reached, r)[M] = Without(reached, z, M)
<1> DEFINE Body(h) == [n \in 0 .. M |->
             IF n = 0 THEN <<>> ELSE IF reached[n] = r THEN h[n - 1] ELSE Append(h[n - 1], reached[n])]
           f == [n \in 0 .. M |-> Without(reached, z, n)]
           g == KeptOf(reached, r)
<1>1. Len(reached) = M
  BY GridIsSequence
<1>2. f = Body(f)
  <2>1. f[0] = <<>>
    <3>1. 1 .. (IF z <= 0 THEN 0 - 1 ELSE 0) = {}
      OBVIOUS
    <3>2. Without(reached, z, 0) = <<>>
      BY <3>1 DEF Without
    <3> QED
      BY <3>2
  <2>2. ASSUME NEW n \in 1 .. M
        PROVE  f[n] = IF reached[n] = r THEN f[n - 1] ELSE Append(f[n - 1], reached[n])
    <3>1. f[n] = Without(reached, z, n) /\ f[n - 1] = Without(reached, z, n - 1)
      OBVIOUS
    <3> HIDE DEF f
    <3>2. f[n] = IF n = z THEN f[n - 1] ELSE Append(f[n - 1], reached[n])
      <4>1. Grows(reached, z, n)
        BY WithoutGrows
      <4> QED
        BY <3>1, <4>1 DEF Grows
    <3>3. reached[n] = r <=> n = z
      OBVIOUS
    <3>4. CASE n = z
      BY <3>2, <3>3, <3>4
    <3>5. CASE n # z
      BY <3>2, <3>3, <3>5
    <3> QED
      BY <3>4, <3>5
  <2>3. \A n \in 0 .. M : n # 0 => n \in 1 .. M
    OBVIOUS
  <2>4. \A n \in 0 .. M : f[n] = IF n = 0 THEN <<>> ELSE IF reached[n] = r THEN f[n - 1]
                                               ELSE Append(f[n - 1], reached[n])
    <3> HIDE DEF f
    <3> QED
      BY <2>1, <2>2, <2>3
  <2>5. f = [n \in 0 .. M |-> f[n]]
    OBVIOUS
  <2> HIDE DEF f
  <2> QED
    BY <2>4, <2>5
<1> HIDE DEF f
<1>3. g = Body(g)
  BY <1>1, <1>2 DEF KeptOf
<1> HIDE DEF g
<1> DEFINE G == {n \in 0 .. M : g[n] = f[n]}
<1>4. 0 \in G
  BY <1>2, <1>3
<1>5. ASSUME NEW n \in 0 .. M - 1, n \in G PROVE n + 1 \in G
  <2>1. n + 1 \in 1 .. M /\ (n + 1) - 1 = n /\ n + 1 # 0 /\ n + 1 \in 0 .. M
    OBVIOUS
  <2>2. g[n + 1] = IF reached[n + 1] = r THEN g[n] ELSE Append(g[n], reached[n + 1])
    BY <1>3, <2>1
  <2>3. f[n + 1] = IF reached[n + 1] = r THEN f[n] ELSE Append(f[n], reached[n + 1])
    BY <1>2, <2>1
  <2> QED
    BY <1>5, <2>1, <2>2, <2>3
<1>6. \A n \in 0 .. M : n \in G
  <2> HIDE DEF G
  <2> QED
    BY <1>4, <1>5, CountingUp
<1>7. g[M] = f[M] /\ f[M] = Without(reached, z, M)
  BY <1>6 DEF f
<1> QED
  BY <1>7 DEF g

\* What is left holds every other entry, once if the list does.
Leaves(M, reached, z, list) ==
  /\ list \in Seq(Int) /\ Len(list) = M - 1 /\ DOMAIN list = 1 .. M - 1
  /\ \A a, b \in DOMAIN list : list[a] = list[b] => a = b
  /\ \A s : (\E l \in DOMAIN list : list[l] = s) <=> \E n \in 1 .. M : n # z /\ reached[n] = s

LEMMA WithoutLeaves ==
  ASSUME NEW M \in Nat, NEW reached \in [1 .. M -> Int], NEW z \in 1 .. M,
         \A n, m \in 1 .. M : reached[n] = reached[m] => n = m
  PROVE  Leaves(M, reached, z, Without(reached, z, M))
<1> DEFINE place(l) == IF l < z THEN l ELSE l + 1
           list == Without(reached, z, M)
<1>1. M \in Nat \ {0} /\ M - 1 \in Nat
  OBVIOUS
<1>2. list = [l \in 1 .. M - 1 |-> reached[place(l)]]
  BY DEF Without
<1>3. \A l \in 1 .. M - 1 : place(l) \in 1 .. M /\ place(l) # z
  OBVIOUS
<1>4. \A a, b \in 1 .. M - 1 : place(a) = place(b) => a = b
  OBVIOUS
<1>5. ASSUME NEW n \in 1 .. M, n # z PROVE \E l \in 1 .. M - 1 : place(l) = n
  <2>1. CASE n < z
    <3>1. n \in 1 .. M - 1 /\ place(n) = n
      BY <2>1
    <3> QED
      BY <3>1
  <2>2. CASE ~(n < z)
    <3>1. n - 1 \in 1 .. M - 1 /\ place(n - 1) = n
      BY <1>5, <2>2
    <3> QED
      BY <3>1
  <2> QED
    BY <2>1, <2>2
<1> HIDE DEF place, list
<1>6. list \in [1 .. M - 1 -> Int] /\ \A l \in 1 .. M - 1 : list[l] = reached[place(l)]
  <2>1. \A l \in 1 .. M - 1 : reached[place(l)] \in Int
    BY <1>3
  <2> QED
    BY <1>2, <2>1
<1>7. list \in Seq(Int) /\ Len(list) = M - 1 /\ DOMAIN list = 1 .. M - 1
  BY <1>1, <1>6, GridIsSequence
<1>8. ASSUME NEW a \in 1 .. M - 1, NEW b \in 1 .. M - 1, list[a] = list[b] PROVE a = b
  <2>1. reached[place(a)] = reached[place(b)]
    BY <1>6, <1>8
  <2>2. place(a) = place(b)
    BY <1>3, <2>1
  <2> QED
    BY <1>4, <2>2
<1>9. ASSUME NEW s
      PROVE  (\E l \in 1 .. M - 1 : list[l] = s) <=> \E n \in 1 .. M : n # z /\ reached[n] = s
  <2>1. ASSUME NEW l \in 1 .. M - 1, list[l] = s PROVE \E n \in 1 .. M : n # z /\ reached[n] = s
    BY <1>3, <1>6, <2>1
  <2>2. ASSUME NEW n \in 1 .. M, n # z, reached[n] = s PROVE \E l \in 1 .. M - 1 : list[l] = s
    <3>1. PICK l \in 1 .. M - 1 : place(l) = n
      BY <1>5, <2>2
    <3> QED
      BY <1>6, <2>2, <3>1
  <2> QED
    BY <2>1, <2>2
<1> QED
  BY <1>7, <1>8, <1>9 DEF Leaves, list

\* A list that holds nothing twice holds a thing once or not at all.
Where(list, s) == {l \in DOMAIN list : list[l] = s}
Count(list, s) == Cardinality(Where(list, s))

LEMMA OnceOrNot ==
  ASSUME NEW list, NEW s, \A a, b \in DOMAIN list : list[a] = list[b] => a = b
  PROVE  Count(list, s) = IF \E l \in DOMAIN list : list[l] = s THEN 1 ELSE 0
<1>1. CASE \E l \in DOMAIN list : list[l] = s
  <2>1. PICK l \in DOMAIN list : list[l] = s
    BY <1>1
  <2>2. Where(list, s) = {l}
    BY <2>1 DEF Where
  <2> QED
    BY <1>1, <2>2, FS_Singleton DEF Count
<1>2. CASE ~ \E l \in DOMAIN list : list[l] = s
  <2>1. Where(list, s) = {}
    BY <1>2 DEF Where
  <2> QED
    BY <1>2, <2>1, FS_EmptySet DEF Count
<1> QED
  BY <1>1, <1>2

(***************************************************************************)
(* The lists of a rank on a grid the radius does not reach around.         *)
(***************************************************************************)
LEMMA CartIs ==
  ASSUME NEW d, NEW dims, NEW rad, Fits(d, dims, rad), NEW r
  PROVE  LET M == ProductOf(Box(d, rad))
             list == KeptOf(Reached(d, dims, rad, r), r)[M]
         IN  CartNeighbors(r, dims, rad)
               = [ok |-> TRUE, indegree |-> M - 1, sources |-> list,
                  outdegree |-> M - 1, destinations |-> list]
<1> DEFINE M == ProductOf(Box(d, rad))
           reached == Reached(d, dims, rad, r)
           disps == Displacements(d, rad)
           me == Coords(dims, r)
<1>1. d \in Nat /\ rad \in Nat /\ dims \in [1 .. d -> Positive] /\ Len(dims) = d
  BY GridIsSequence DEF Fits
<1>2. M \in Nat /\ DOMAIN reached = 1 .. M /\ DOMAIN disps = 1 .. M
  BY <1>1, BoxIs DEF Positive, Reached, Displacements
<1>3. Len(reached) = M
  <2>1. reached \in [1 .. M -> {reached[n] : n \in 1 .. M}]
    BY DEF Reached
  <2> HIDE DEF reached, M
  <2> QED
    BY <1>2, <2>1, GridIsSequence
<1>4. ASSUME NEW n \in 1 .. M
      PROVE  [k \in 1 .. d |-> me[k] + disps[n][k]] = Shifted(d, dims, rad, r, n)
  <2>1. disps[n] = [k \in 1 .. d |-> Coords(Box(d, rad), n - 1)[k] - rad]
    BY DEF Displacements
  <2>2. Offsets(d, rad)[n] = Coords(Box(d, rad), n - 1)
    BY DEF Offsets
  <2>3. \A k \in 1 .. d : disps[n][k] = Offsets(d, rad)[n][k] - rad
    BY <2>1, <2>2
  <2> HIDE DEF disps
  <2> QED
    BY <2>3 DEF Shifted
<1>5. reached = [n \in DOMAIN disps |-> CartRank(dims, [k \in 1 .. d |-> me[k] + disps[n][k]])]
  BY <1>2, <1>4 DEF Reached
<1> QED
  BY <1>1, <1>3, <1>5 DEF CartNeighbors, KeptOf

\* A rank lists everybody it reaches but itself, once.
Listed(d, dims, rad, r) ==
  LET M == ProductOf(Box(d, rad))
      n == CartNeighbors(r, dims, rad)
  IN  /\ n.ok /\ n.indegree = M - 1 /\ n.outdegree = M - 1 /\ n.destinations = n.sources
      /\ n.sources \in Seq(Int) /\ Len(n.sources) = M - 1
      /\ \A a, b \in DOMAIN n.sources : n.sources[a] = n.sources[b] => a = b
      /\ \A s : (\E l \in DOMAIN n.sources : n.sources[l] = s)
                  <=> s # r /\ \E m \in 1 .. M : Reached(d, dims, rad, r)[m] = s

LEMMA CartListed ==
  ASSUME NEW d, NEW dims, NEW rad, Fits(d, dims, rad), NEW r \in 0 .. ProductOf(dims) - 1
  PROVE  Listed(d, dims, rad, r)
<1> DEFINE M == ProductOf(Box(d, rad))
           reached == Reached(d, dims, rad, r)
           n == CartNeighbors(r, dims, rad)
<1>1. M \in Nat
  BY BoxIs DEF Positive, Fits
<1>2. reached \in [1 .. M -> Int]
  <2>1. \A m \in 1 .. M : reached[m] \in Int
    <3>1. ASSUME NEW m \in 1 .. M PROVE reached[m] \in Int
      <4>1. reached[m] \in 0 .. ProductOf(dims) - 1
        BY ShiftedIs
      <4> QED
        BY <4>1
    <3> QED
      BY <3>1
  <2>2. reached = [m \in 1 .. M |-> reached[m]]
    BY DEF Reached
  <2> HIDE DEF reached, M
  <2> QED
    BY <2>1, <2>2
<1>3. \A a, b \in 1 .. M : reached[a] = reached[b] => a = b
  BY ReachedOnce
<1>4. PICK z \in 1 .. M : reached[z] = r
  BY ReachedSelf
<1>5. n = [ok |-> TRUE, indegree |-> M - 1, sources |-> KeptOf(reached, r)[M],
           outdegree |-> M - 1, destinations |-> KeptOf(reached, r)[M]]
  BY CartIs
<1> HIDE DEF M, reached, n
<1>6. \A m \in 1 .. M : reached[m] = r <=> m = z
  BY <1>3, <1>4
<1>7. KeptOf(reached, r)[M] = Without(reached, z, M)
  BY <1>1, <1>2, <1>6, KeptIs
<1>8. Leaves(M, reached, z, Without(reached, z, M))
  BY <1>1, <1>2, <1>3, WithoutLeaves
<1>9. Leaves(M, reached, z, n.sources)
  BY <1>5, <1>7, <1>8
<1>10. n.ok /\ n.indegree = M - 1 /\ n.outdegree = M - 1 /\ n.destinations = n.sources
  BY <1>5
<1>11. \A s : (\E l \in DOMAIN n.sources : n.sources[l] = s)
                <=> s # r /\ \E m \in 1 .. M : reached[m] = s
  BY <1>4, <1>6, <1>9 DEF Leaves
<1> QED
  BY <1>9, <1>10, <1>11 DEF Leaves, Listed, n, M, reached

\* Two ranks of a grid agree about each other.
LEMMA CartAgrees ==
  ASSUME NEW d, NEW dims, NEW rad, Fits(d, dims, rad),
         NEW r \in 0 .. ProductOf(dims) - 1, NEW s \in 0 .. ProductOf(dims) - 1
  PROVE  Count(CartNeighbors(r, dims, rad).sources, s)
           = Count(CartNeighbors(s, dims, rad).destinations, r)
<1> DEFINE M == ProductOf(Box(d, rad))
           mine == CartNeighbors(r, dims, rad).sources
           its == CartNeighbors(s, dims, rad).destinations
<1>1. Listed(d, dims, rad, r) /\ Listed(d, dims, rad, s)
  BY CartListed
<1>2. /\ \A a, b \in DOMAIN mine : mine[a] = mine[b] => a = b
      /\ \A q : (\E l \in DOMAIN mine : mine[l] = q)
                  <=> q # r /\ \E m \in 1 .. M : Reached(d, dims, rad, r)[m] = q
  BY <1>1 DEF Listed
<1>3. /\ \A a, b \in DOMAIN its : its[a] = its[b] => a = b
      /\ \A q : (\E l \in DOMAIN its : its[l] = q)
                  <=> q # s /\ \E m \in 1 .. M : Reached(d, dims, rad, s)[m] = q
  <2> DEFINE list == CartNeighbors(s, dims, rad).sources
  <2>1. its = list
    BY <1>1 DEF Listed
  <2>2. /\ \A a, b \in DOMAIN list : list[a] = list[b] => a = b
        /\ \A q : (\E l \in DOMAIN list : list[l] = q)
                    <=> q # s /\ \E m \in 1 .. M : Reached(d, dims, rad, s)[m] = q
    BY <1>1 DEF Listed
  <2> HIDE DEF its, list
  <2> QED
    BY <2>1, <2>2
<1>4. ASSUME NEW m \in 1 .. M, Reached(d, dims, rad, r)[m] = s
      PROVE  \E k \in 1 .. M : Reached(d, dims, rad, s)[k] = r
  <2>1. \E k \in 1 .. M : Reached(d, dims, rad, Reached(d, dims, rad, r)[m])[k] = r
    BY ReachedBack
  <2> QED
    BY ONLY <1>4, <2>1
<1>5. ASSUME NEW m \in 1 .. M, Reached(d, dims, rad, s)[m] = r
      PROVE  \E k \in 1 .. M : Reached(d, dims, rad, r)[k] = s
  <2>1. \E k \in 1 .. M : Reached(d, dims, rad, Reached(d, dims, rad, s)[m])[k] = s
    BY ReachedBack
  <2> QED
    BY ONLY <1>5, <2>1
<1> HIDE DEF M, mine, its
<1>6. (\E l \in DOMAIN mine : mine[l] = s) <=> \E l \in DOMAIN its : its[l] = r
  <2>1. (\E l \in DOMAIN mine : mine[l] = s)
          <=> s # r /\ \E m \in 1 .. M : Reached(d, dims, rad, r)[m] = s
    BY ONLY <1>2
  <2>2. (\E l \in DOMAIN its : its[l] = r)
          <=> r # s /\ \E m \in 1 .. M : Reached(d, dims, rad, s)[m] = r
    BY ONLY <1>3
  <2> QED
    BY ONLY <1>4, <1>5, <2>1, <2>2
<1>7. Count(mine, s) = IF \E l \in DOMAIN mine : mine[l] = s THEN 1 ELSE 0
  BY ONLY <1>2, OnceOrNot
<1>8. Count(its, r) = IF \E l \in DOMAIN its : its[l] = r THEN 1 ELSE 0
  BY ONLY <1>3, OnceOrNot
<1> QED
  BY <1>6, <1>7, <1>8 DEF mine, its

(***************************************************************************)
(* What MPI_Dims_create and the test of the radius establish.              *)
(***************************************************************************)
\* A slab: all ranks in the first dimension.
Slab(n, d) == [k \in 1 .. d |-> IF k = 1 THEN n ELSE 1]

LEMMA SlabIsGrid ==
  ASSUME NEW n \in Nat \ {0}, NEW d \in Nat \ {0}
  PROVE  /\ Slab(n, d) \in [1 .. d -> 1 .. n] /\ ProductOf(Slab(n, d)) = n
         /\ \A k \in 1 .. d - 1 : Slab(n, d)[k] >= Slab(n, d)[k + 1]
<1> DEFINE f == Slab(n, d)
           P == Products(f)
           G == {k \in 0 .. d - 1 : P[k + 1] = n}
<1>1. f \in [1 .. d -> 1 .. n] /\ f[1] = n /\ \A k \in 2 .. d : f[k] = 1
  BY DEF Slab
<1>2. f \in [1 .. d -> Positive]
  <2>1. 1 .. n \subseteq Positive
    BY DEF Positive
  <2> HIDE DEF f
  <2> QED
    BY <1>1, <2>1
<1> HIDE DEF f
<1>3. /\ P \in [0 .. d -> Positive] /\ P[0] = 1 /\ ProductOf(f) = P[d]
      /\ \A k \in 1 .. d : P[k] = P[k - 1] * f[k]
  BY <1>2, ProductSteps
<1> HIDE DEF P
<1>4. 0 \in G
  <2>1. P[1] = P[1 - 1] * f[1]
    BY <1>3
  <2>2. P[1] = n
    BY <1>1, <1>3, <2>1
  <2> QED
    BY <2>2
<1>5. ASSUME NEW k \in 0 .. (d - 1) - 1, k \in G PROVE k + 1 \in G
  <2>1. k + 2 \in 2 .. d /\ k + 2 \in 1 .. d /\ (k + 2) - 1 = k + 1 /\ (k + 1) + 1 = k + 2
    OBVIOUS
  <2>2. P[k + 2] = P[k + 1] * 1 /\ P[k + 1] = n
    BY <1>1, <1>3, <1>5, <2>1
  <2>3. P[(k + 1) + 1] = n
    BY <2>1, <2>2
  <2> QED
    BY <2>1, <2>3
<1>6. \A k \in 0 .. d - 1 : k \in G
  <2> HIDE DEF G
  <2> QED
    BY <1>4, <1>5, CountingUp
<1>7. P[d] = n
  <2>1. d - 1 \in G
    BY <1>6
  <2> QED
    BY <2>1
<1>8. ASSUME NEW k \in 1 .. d - 1 PROVE f[k] >= f[k + 1]
  <2>1. k + 1 \in 2 .. d /\ k \in 1 .. d
    OBVIOUS
  <2>2. f[k + 1] = 1 /\ f[k] \in 1 .. n
    BY <1>1, <2>1
  <2> QED
    BY <2>2
<1> QED
  BY <1>1, <1>3, <1>7, <1>8 DEF f

LEMMA DimsAre ==
  ASSUME NEW n \in Nat \ {0}, NEW d \in Nat \ {0}
  PROVE  DimsCreate(n, d) \in [1 .. d -> Positive] /\ ProductOf(DimsCreate(n, d)) = n
<1> DEFINE grids == {f \in [1 .. d -> 1 .. n] :
                       ProductOf(f) = n /\ \A k \in 1 .. d - 1 : f[k] >= f[k + 1]}
           spread(f) == f[1] - f[d]
           T == {spread(f) + n : f \in grids}
<1>1. Slab(n, d) \in grids
  BY SlabIsGrid
<1>2. ASSUME NEW f \in grids PROVE spread(f) + n \in Nat /\ spread(f) \in Int
  <2>1. f[1] \in 1 .. n /\ f[d] \in 1 .. n
    OBVIOUS
  <2> QED
    BY <2>1
<1> HIDE DEF grids, spread
<1>3. T \in SUBSET Nat /\ T # {}
  BY <1>1, <1>2
<1>4. PICK t \in T : \A u \in T : t <= u
  <2> HIDE DEF T
  <2> QED
    BY <1>3, Least
<1>5. PICK f \in grids : t = spread(f) + n
  OBVIOUS
<1>6. \A g \in grids : spread(f) <= spread(g)
  <2>1. ASSUME NEW g \in grids PROVE spread(f) <= spread(g)
    <3>1. spread(f) + n <= spread(g) + n
      BY <1>4, <1>5
    <3> QED
      BY <1>2, <3>1
  <2> QED
    BY <2>1
<1>7. DimsCreate(n, d) = CHOOSE h \in grids : \A g \in grids : spread(h) <= spread(g)
  BY DEF DimsCreate, grids, spread
<1>8. DimsCreate(n, d) \in grids
  BY <1>6, <1>7
<1>9. \A h \in grids : h \in [1 .. d -> Positive] /\ ProductOf(h) = n
  <2>1. ASSUME NEW h \in grids PROVE h \in [1 .. d -> Positive] /\ ProductOf(h) = n
    <3>1. h \in [1 .. d -> 1 .. n] /\ ProductOf(h) = n
      BY DEF grids
    <3>2. 1 .. n \subseteq Positive
      BY DEF Positive
    <3> QED
      BY <3>1, <3>2
  <2> QED
    BY <2>1
<1> QED
  BY <1>8, <1>9

LEMMA RadiusFits ==
  ASSUME NEW d \in Nat \ {0}, NEW np \in Nat \ {0}, NEW dims \in [1 .. d -> Positive],
         NEW rad \in Nat, ~TooFar(rad, np, dims)
  PROVE  Fits(d, dims, rad)
<1> DEFINE S == Range(dims) \cup {np}
<1>1. S \in SUBSET Nat /\ np \in S /\ \A k \in 1 .. d : dims[k] \in S
  <2>1. \A k \in 1 .. d : dims[k] \in Nat
    BY DEF Positive
  <2> QED
    BY <2>1 DEF Range
<1> HIDE DEF S
<1>2. \E m \in S : \A x \in S : m <= x
  BY <1>1, Least
<1>3. Min(S) \in S /\ \A x \in S : Min(S) <= x
  BY <1>2 DEF Min
<1>4. rad <= (Min(S) - 1) \div 2
  BY <1>1, <1>3 DEF TooFar, S
<1>5. Min(S) \in Nat
  BY <1>1, <1>3
<1> DEFINE m == Min(S)
<1> HIDE DEF m
<1>6. 2 * rad + 1 <= m
  BY <1>4, <1>5 DEF m
<1>7. \A k \in 1 .. d : 2 * rad + 1 <= dims[k]
  <2>1. ASSUME NEW k \in 1 .. d PROVE 2 * rad + 1 <= dims[k]
    <3>1. m <= dims[k] /\ dims[k] \in Nat /\ m \in Nat
      BY <1>1, <1>3, <1>5 DEF m
    <3> QED
      BY <1>6, <3>1
  <2> QED
    BY <2>1
<1> QED
  BY <1>7 DEF Fits

-----------------------------------------------------------------------------
(***************************************************************************)
(* The neighbours that a file declares.                                    *)
(***************************************************************************)
LEMMA CountType ==
  ASSUME NEW T, NEW q \in Seq(T), NEW x
  PROVE  Count(q, x) \in Nat /\ IsFiniteSet(Where(q, x))
<1>1. IsFiniteSet(DOMAIN q)
  <2>1. DOMAIN q = 1 .. Len(q) /\ Len(q) \in Nat
    OBVIOUS
  <2> QED
    BY <2>1, FS_Interval
<1>2. IsFiniteSet(Where(q, x))
  BY <1>1, FS_Subset DEF Where
<1> QED
  BY <1>2, FS_CardinalityType DEF Count

LEMMA CountAppend ==
  ASSUME NEW T, NEW q \in Seq(T), NEW e \in T, NEW x
  PROVE  Count(Append(q, e), x) = IF e = x THEN Count(q, x) + 1 ELSE Count(q, x)
<1> DEFINE n == Len(q)
           longer == Append(q, e)
           old == Where(q, x)
           new == Where(longer, x)
<1>1. /\ n \in Nat /\ DOMAIN q = 1 .. n /\ DOMAIN longer = 1 .. n + 1 /\ longer[n + 1] = e
      /\ \A l \in 1 .. n : longer[l] = q[l]
  <2>1. longer \in Seq(T) /\ Len(longer) = n + 1
    BY AppendProperties
  <2> QED
    BY <2>1, AppendProperties
<1>2. IsFiniteSet(old) /\ n + 1 \notin old
  <2>1. IsFiniteSet(old)
    BY CountType
  <2>2. n + 1 \notin 1 .. n
    BY <1>1
  <2> QED
    BY <1>1, <2>1, <2>2 DEF Where
<1> HIDE DEF longer, n
<1>3. CASE e = x
  <2>1. new = old \cup {n + 1}
    BY <1>1, <1>3 DEF Where
  <2> HIDE DEF old, new
  <2>2. Cardinality(new) = Cardinality(old) + 1
    BY <1>2, <2>1, FS_AddElement
  <2> QED
    BY <1>3, <2>2 DEF Count, old, new, longer
<1>4. CASE e # x
  <2>1. new = old
    BY <1>1, <1>4 DEF Where
  <2> HIDE DEF old, new
  <2> QED
    BY <1>4, <2>1 DEF Count, old, new, longer
<1> QED
  BY <1>3, <1>4

\* What a rank knows between two lines: lists of ranks, neither of them longer
\* than its array but by one.
Lists(np) == {q \in Seq(0 .. np - 1) : Len(q) <= MaxEdges + 1}
Reading(np) ==
  [ok : BOOLEAN, indegree : {0}, sources : Lists(np), outdegree : {0}, destinations : Lists(np)]

LEMMA LineIs ==
  ASSUME NEW r, NEW np \in Nat, NEW n \in Reading(np), NEW l \in Seq(Nat)
  PROVE  /\ ReadLine(r, np, n, l) \in Reading(np)
         /\ ReadLine(r, np, n, l).ok =>
              /\ n.ok
              /\ l = <<>> => ReadLine(r, np, n, l) = n
              /\ l # <<>> =>
                   /\ l[1] \in Nat /\ l[2] \in Nat
                   /\ ReadLine(r, np, n, l).sources
                        = IF l[2] = r THEN Append(n.sources, l[1]) ELSE n.sources
                   /\ ReadLine(r, np, n, l).destinations
                        = IF l[1] = r THEN Append(n.destinations, l[2]) ELSE n.destinations
<1> DEFINE new == ReadLine(r, np, n, l)
<1>1. n.ok \in BOOLEAN /\ n.sources \in Lists(np) /\ n.destinations \in Lists(np)
  BY DEF Reading
<1>2. CASE l = <<>> \/ ~n.ok
  BY <1>2 DEF ReadLine
<1>3. CASE ~(l = <<>> \/ ~n.ok)
  <2> DEFINE full == MaxEdges < Len(n.sources) \/ MaxEdges < Len(n.destinations) \/ Len(l) < 2
             odd == r \in {l[1], l[2]} /\ (l[1] >= np \/ l[2] >= np)
  <2>1. CASE full
    <3>1. new = [n EXCEPT !.ok = FALSE]
      BY <1>3, <2>1 DEF ReadLine
    <3> HIDE DEF new
    <3> QED
      BY <3>1 DEF Reading, new
  <2>2. CASE ~full /\ odd
    <3>1. new = [n EXCEPT !.ok = FALSE]
      BY <1>3, <2>2 DEF ReadLine
    <3> HIDE DEF new
    <3> QED
      BY <3>1 DEF Reading, new
  <2>3. CASE ~full /\ ~odd
    <3> DEFINE dests == IF l[1] = r THEN Append(n.destinations, l[2]) ELSE n.destinations
               srcs == IF l[2] = r THEN Append(n.sources, l[1]) ELSE n.sources
    <3>1. new = [n EXCEPT !.destinations = dests, !.sources = srcs]
      BY <1>3, <2>3 DEF ReadLine
    <3>2. l[1] \in Nat /\ l[2] \in Nat
      <4>1. Len(l) \in Nat /\ ~(Len(l) < 2)
        BY <2>3
      <4> QED
        BY <4>1
    <3>3. n.sources \in Seq(0 .. np - 1) /\ n.destinations \in Seq(0 .. np - 1)
          /\ Len(n.sources) \in Nat /\ Len(n.destinations) \in Nat
      BY <1>1 DEF Lists
    <3>4. Len(n.sources) <= MaxEdges /\ Len(n.destinations) <= MaxEdges
      BY <2>3, <3>3, NeighborhoodConstants
    <3>5. ASSUME NEW q \in Seq(0 .. np - 1), NEW e \in 0 .. np - 1, Len(q) <= MaxEdges, Len(q) \in Nat
          PROVE  Append(q, e) \in Lists(np)
      BY <3>5, AppendProperties, NeighborhoodConstants DEF Lists
    <3>6. dests \in Lists(np) /\ srcs \in Lists(np)
      <4>1. r \in {l[1], l[2]} => l[1] \in 0 .. np - 1 /\ l[2] \in 0 .. np - 1
        BY <2>3, <3>2
      <4> QED
        BY <1>1, <3>3, <3>4, <3>5, <4>1
    <3> HIDE DEF new, dests, srcs
    <3>7. new \in Reading(np) /\ new.sources = srcs /\ new.destinations = dests
      BY <3>1, <3>6 DEF Reading
    <3> QED
      BY <1>3, <3>2, <3>7 DEF new, dests, srcs
  <2> QED
    BY <2>1, <2>2, <2>3
<1> QED
  BY <1>2, <1>3

\* What a rank knows after each line.
LinesRead(r, np, file) ==
  CHOOSE read : read = [k \in 0 .. Len(file) |->
    IF k = 0 THEN NoNeighbors ELSE ReadLine(r, np, read[k - 1], file[k])]

LEMMA LinesAre ==
  ASSUME NEW r, NEW np \in Nat, NEW file \in Seq(Seq(Nat))
  PROVE  /\ LinesRead(r, np, file) \in [0 .. Len(file) -> Reading(np)]
         /\ LinesRead(r, np, file)[0] = NoNeighbors
         /\ \A k \in 1 .. Len(file) :
              LinesRead(r, np, file)[k] = ReadLine(r, np, LinesRead(r, np, file)[k - 1], file[k])
<1> DEFINE m == Len(file)
           Body(h) == [k \in 0 .. m |->
             IF k = 0 THEN NoNeighbors ELSE ReadLine(r, np, h[k - 1], file[k])]
           step == [k \in 1 .. m |-> [n \in Reading(np) |-> ReadLine(r, np, n, file[k])]]
           g == LinesRead(r, np, file)
<1>1. m \in Nat /\ \A k \in 1 .. m : file[k] \in Seq(Nat)
  OBVIOUS
<1>2. NoNeighbors \in Reading(np)
  <2>1. <<>> \in Lists(np)
    BY NeighborhoodConstants DEF Lists
  <2> QED
    BY <2>1 DEF NoNeighbors, Reading
<1> HIDE DEF m
<1>3. step \in [1 .. m -> [Reading(np) -> Reading(np)]]
  <2>1. ASSUME NEW k \in 1 .. m, NEW n \in Reading(np) PROVE ReadLine(r, np, n, file[k]) \in Reading(np)
    BY <1>1, LineIs
  <2> QED
    BY <2>1
<1>4. PICK f : Unrolled(f, m, Reading(np), NoNeighbors, step)
  <2> HIDE DEF step
  <2> QED
    BY <1>1, <1>2, <1>3, Recursion
<1>5. f \in [0 .. m -> Reading(np)] /\ f[0] = NoNeighbors /\ \A k \in 1 .. m : f[k] = step[k][f[k - 1]]
  BY <1>4 DEF Unrolled
<1>6. \A k \in 1 .. m : f[k] = ReadLine(r, np, f[k - 1], file[k])
  <2>1. ASSUME NEW k \in 1 .. m PROVE f[k] = ReadLine(r, np, f[k - 1], file[k])
    <3>1. k - 1 \in 0 .. m
      BY <1>1
    <3>2. f[k - 1] \in Reading(np)
      BY <1>5, <3>1
    <3> QED
      BY <1>5, <3>2
  <2> QED
    BY <2>1
<1> HIDE DEF step
<1>7. f = Body(f)
  <2>1. \A k \in 0 .. m : k # 0 => k \in 1 .. m
    BY <1>1
  <2>2. \A k \in 0 .. m : f[k] = IF k = 0 THEN NoNeighbors ELSE ReadLine(r, np, f[k - 1], file[k])
    BY <1>5, <1>6, <2>1
  <2>3. f = [k \in 0 .. m |-> f[k]]
    BY <1>5
  <2> QED
    BY <2>2, <2>3
<1>8. g = Body(g)
  BY <1>7 DEF LinesRead, m
<1> HIDE DEF g
<1> DEFINE G == {k \in 0 .. m : g[k] = f[k]}
<1>9. 0 \in G
  BY <1>1, <1>5, <1>8
<1>10. ASSUME NEW k \in 0 .. m - 1, k \in G PROVE k + 1 \in G
  <2>1. k + 1 \in 1 .. m /\ (k + 1) - 1 = k /\ k + 1 # 0 /\ k + 1 \in 0 .. m
    BY <1>1
  <2>2. g[k + 1] = ReadLine(r, np, g[k], file[k + 1])
    BY <1>8, <2>1
  <2>3. f[k + 1] = ReadLine(r, np, f[k], file[k + 1])
    BY <1>6, <2>1
  <2> QED
    BY <1>10, <2>1, <2>2, <2>3
<1>11. \A k \in 0 .. m : k \in G
  <2> HIDE DEF G
  <2> QED
    BY <1>1, <1>9, <1>10, CountingUp
<1>12. g = f
  <2>1. g = [k \in 0 .. m |-> g[k]]
    BY <1>8
  <2>2. f = [k \in 0 .. m |-> f[k]]
    BY <1>5
  <2> QED
    BY <1>11, <2>1, <2>2
<1> QED
  BY <1>5, <1>6, <1>12 DEF g, m

\* What one rank counts another counts, as long as both read on.
LEMMA LinesAgree ==
  ASSUME NEW r, NEW s, NEW np \in Nat, NEW file \in Seq(Seq(Nat)), NEW k \in 0 .. Len(file),
         LinesRead(r, np, file)[k].ok, LinesRead(s, np, file)[k].ok
  PROVE  Count(LinesRead(r, np, file)[k].sources, s)
           = Count(LinesRead(s, np, file)[k].destinations, r)
<1> DEFINE m == Len(file)
           f == LinesRead(r, np, file)
           g == LinesRead(s, np, file)
           G == {i \in 0 .. m : f[i].ok /\ g[i].ok => Count(f[i].sources, s) = Count(g[i].destinations, r)}
<1>1. m \in Nat /\ \A i \in 1 .. m : file[i] \in Seq(Nat)
  OBVIOUS
<1>2. /\ f \in [0 .. m -> Reading(np)] /\ f[0] = NoNeighbors
      /\ \A i \in 1 .. m : f[i] = ReadLine(r, np, f[i - 1], file[i])
  BY LinesAre
<1>3. /\ g \in [0 .. m -> Reading(np)] /\ g[0] = NoNeighbors
      /\ \A i \in 1 .. m : g[i] = ReadLine(s, np, g[i - 1], file[i])
  BY LinesAre
<1> HIDE DEF f, g, m
<1>4. 0 \in G
  <2>1. f[0].sources = <<>> /\ g[0].destinations = <<>>
    BY <1>2, <1>3 DEF NoNeighbors
  <2>2. Where(<<>>, s) = {} /\ Where(<<>>, r) = {}
    BY DEF Where
  <2>3. Count(<<>>, s) = Count(<<>>, r)
    BY <2>2 DEF Count
  <2> QED
    BY <1>1, <2>1, <2>3
<1>5. ASSUME NEW i \in 0 .. m - 1, i \in G PROVE i + 1 \in G
  <2> DEFINE l == file[i + 1]
             a == f[i]
             b == g[i]
             an == f[i + 1]
             bn == g[i + 1]
  <2>1. SUFFICES ASSUME an.ok, bn.ok PROVE Count(an.sources, s) = Count(bn.destinations, r)
    BY <1>1
  <2>2. i + 1 \in 1 .. m /\ (i + 1) - 1 = i /\ i \in 0 .. m
    BY <1>1
  <2>3. /\ a \in Reading(np) /\ b \in Reading(np) /\ l \in Seq(Nat)
        /\ an = ReadLine(r, np, a, l) /\ bn = ReadLine(s, np, b, l)
    BY <1>1, <1>2, <1>3, <2>2
  <2>4. a.ok /\ b.ok => Count(a.sources, s) = Count(b.destinations, r)
    BY <1>5
  <2> HIDE DEF l, a, b, an, bn
  <2>5. /\ a.ok
        /\ l = <<>> => an = a
        /\ l # <<>> =>
             /\ l[1] \in Nat /\ l[2] \in Nat
             /\ an.sources = IF l[2] = r THEN Append(a.sources, l[1]) ELSE a.sources
    BY <2>1, <2>3, LineIs
  <2>6. /\ b.ok
        /\ l = <<>> => bn = b
        /\ l # <<>> =>
             bn.destinations = IF l[1] = s THEN Append(b.destinations, l[2]) ELSE b.destinations
    BY <2>1, <2>3, LineIs
  <2>7. a.sources \in Seq(Nat) /\ b.destinations \in Seq(Nat)
    <3>1. a.sources \in Seq(0 .. np - 1) /\ b.destinations \in Seq(0 .. np - 1)
      BY <2>3 DEF Reading, Lists
    <3>2. \A q \in Seq(0 .. np - 1) : q \in Seq(Nat)
      OBVIOUS
    <3> QED
      BY <3>1, <3>2
  <2>8. CASE l = <<>>
    BY <2>4, <2>5, <2>6, <2>8
  <2>9. CASE l # <<>>
    <3>1. /\ Count(Append(a.sources, l[1]), s)
               = IF l[1] = s THEN Count(a.sources, s) + 1 ELSE Count(a.sources, s)
          /\ Count(Append(b.destinations, l[2]), r)
               = IF l[2] = r THEN Count(b.destinations, r) + 1 ELSE Count(b.destinations, r)
      <4>1. \A q \in Seq(Nat), e \in Nat : \A x :
              Count(Append(q, e), x) = IF e = x THEN Count(q, x) + 1 ELSE Count(q, x)
        BY CountAppend
      <4> QED
        BY <2>5, <2>7, <2>9, <4>1
    <3>2. Count(an.sources, s) = IF l[2] = r /\ l[1] = s THEN Count(a.sources, s) + 1
                                 ELSE Count(a.sources, s)
      BY <2>5, <2>9, <3>1
    <3>3. Count(bn.destinations, r) = IF l[2] = r /\ l[1] = s THEN Count(b.destinations, r) + 1
                                      ELSE Count(b.destinations, r)
      BY <2>6, <2>9, <3>1
    <3> QED
      BY <2>4, <2>5, <2>6, <3>2, <3>3
  <2> QED
    BY <2>8, <2>9
<1>6. \A i \in 0 .. m : i \in G
  <2> HIDE DEF G
  <2> QED
    BY <1>1, <1>4, <1>5, CountingUp
<1>7. k \in G
  BY <1>6 DEF m
<1> QED
  BY <1>7 DEF f, g

LEMMA GraphIs ==
  ASSUME NEW r, NEW np \in Nat, NEW file, file = NoFile \/ file \in Seq(Seq(Nat)), ReadGraph(r, np, file).ok
  PROVE  /\ file \in Seq(Seq(Nat))
         /\ LinesRead(r, np, file)[Len(file)].ok
         /\ ReadGraph(r, np, file).sources = LinesRead(r, np, file)[Len(file)].sources
         /\ ReadGraph(r, np, file).destinations = LinesRead(r, np, file)[Len(file)].destinations
         /\ ReadGraph(r, np, file).sources \in Lists(np)
         /\ ReadGraph(r, np, file).destinations \in Lists(np)
         /\ ReadGraph(r, np, file).indegree = Len(ReadGraph(r, np, file).sources)
         /\ ReadGraph(r, np, file).outdegree = Len(ReadGraph(r, np, file).destinations)
<1> DEFINE all == LinesRead(r, np, file)[Len(file)]
<1>1. file # NoFile
  <2>1. CASE file = NoFile
    <3>1. ReadGraph(r, np, file) = [NoNeighbors EXCEPT !.ok = FALSE]
      BY <2>1 DEF ReadGraph
    <3>2. [NoNeighbors EXCEPT !.ok = FALSE].ok = FALSE
      BY DEF NoNeighbors
    <3> QED
      BY <3>1, <3>2
  <2> QED
    BY <2>1
<1>2. file \in Seq(Seq(Nat)) /\ Len(file) \in Nat /\ Len(file) \in 0 .. Len(file)
  BY <1>1
<1>3. ReadGraph(r, np, file)
        = [all EXCEPT !.indegree = Len(all.sources), !.outdegree = Len(all.destinations)]
  BY <1>1 DEF ReadGraph, LinesRead
<1>4. all \in Reading(np)
  <2>1. LinesRead(r, np, file) \in [0 .. Len(file) -> Reading(np)]
    BY <1>2, LinesAre
  <2> QED
    BY <1>2, <2>1
<1> HIDE DEF all
<1>5. /\ ReadGraph(r, np, file).ok = all.ok /\ ReadGraph(r, np, file).sources = all.sources
      /\ ReadGraph(r, np, file).destinations = all.destinations
      /\ ReadGraph(r, np, file).indegree = Len(all.sources)
      /\ ReadGraph(r, np, file).outdegree = Len(all.destinations)
      /\ all.sources \in Lists(np) /\ all.destinations \in Lists(np)
  BY <1>3, <1>4 DEF Reading
<1> QED
  BY <1>2, <1>5 DEF all

-----------------------------------------------------------------------------
(***************************************************************************)
(* What a rank knows of its neighbours, by where it is.                    *)
(***************************************************************************)
TopologyOf(j) == NhbrhdOptions(j.nhbrhd)
GridOf(j) == DimsCreate(j.np, TopologyOf(j).dim)
Knows(j, r, n) ==
  /\ TopologyOf(j).ret = "PO_OKAY"
  /\ TopologyOf(j).type = "graph" => n = ReadGraph(r, j.np, TopologyOf(j).file) /\ n.ok
  /\ TopologyOf(j).type = "cart" =>
       /\ ~TooFar(TopologyOf(j).rad, j.np, GridOf(j))
       /\ n = CartNeighbors(r, GridOf(j), TopologyOf(j).rad)

Placed(j, r, at, g, n) ==
  /\ at \in {"cart", "radius", "graph"} => j.subtype \in Neighbors
  /\ at \in {"cart", "radius"} => TopologyOf(j).ret = "PO_OKAY" /\ TopologyOf(j).type = "cart"
  /\ at = "radius" => g = GridOf(j)
  /\ at \in {"graph"} \cup Loop /\ j.subtype \in Neighbors => Knows(j, r, n)

NeighborInv ==
  /\ nbr = [r \in Procs |-> nbr[r]]
  /\ \A r \in Procs : Placed(job, r, pc[r], grid, nbr[r])

LEMMA TopologyTypes == \A arg : NhbrhdOptions(arg).type \in {"cart", "graph"}
BY DEF NhbrhdOptions, NhbrhdDefaults

\* What the option stands for, once it has been accepted.
LEMMA TopologyIs ==
  ASSUME job \in Jobs, Neighborhood, Topology.ret = "PO_OKAY"
  PROVE  /\ Topology.type \in {"cart", "graph"}
         /\ Topology.type = "cart" => Topology.dim \in Nat \ {0} /\ Topology.rad \in Nat
         /\ Topology.type = "graph" => Topology.file = NoFile \/ Topology.file \in Seq(Seq(Nat))
<1>1. WellMade(job) /\ job.subtype \in Neighbors
  BY JobIs DEF Neighborhood
<1>2. Declared(Topology)
  BY <1>1 DEF WellMade, OneSided, Topology, Neighbors
<1> QED
  BY <1>2, TopologyTypes DEF Declared, Topology

LEMMA NeighborsStart ==
  ASSUME TypeInv, NeighborInv, NEW r \in Procs, Start(r)
  PROVE  NeighborInv'
<1>1. job' = job /\ grid' = grid /\ Procs' = Procs /\ pc[r] = "start"
  BY DEF Start, Procs, At
<1>2. nbr' = [q \in Procs |-> nbr'[q]]
  BY DEF Start, NeighborInv
<1>3. \A q \in Procs \ {r} : pc'[q] = pc[q] /\ nbr'[q] = nbr[q]
  BY DEF Start, NeighborInv, TypeInv, Goto
<1>4. Placed(job, r, pc'[r], grid, nbr'[r])
  <2>1. CASE UNCHANGED <<pc, nbr>>
    BY <2>1 DEF NeighborInv
  <2>2. CASE /\ Neighborhood /\ Topology.ret = "PO_OKAY" /\ Topology.type = "graph"
             /\ ReadGraph(r, job.np, Topology.file).ok
             /\ nbr' = [nbr EXCEPT ![r] = ReadGraph(r, job.np, Topology.file)]
             /\ Goto(r, "graph")
    <3>1. pc'[r] = "graph" /\ nbr'[r] = ReadGraph(r, job.np, Topology.file)
      BY <2>2 DEF Goto, TypeInv, NeighborInv
    <3> QED
      BY <2>2, <3>1 DEF Placed, Knows, Neighborhood, Topology, TopologyOf, Loop
  <2>3. CASE /\ UNCHANGED nbr
             /\ Neighborhood => Topology.ret = "PO_OKAY" /\ Topology.type # "graph"
             /\ Goto(r, IF Neighborhood THEN "cart"
                        ELSE IF job.bench = "COLLECTIVE" THEN "fill" ELSE "allocate")
    <3>1. Topology.type \in {"cart", "graph"}
      BY TopologyTypes DEF Topology
    <3>2. CASE Neighborhood
      <4>1. pc'[r] = "cart"
        BY <2>3, <3>2 DEF Goto, TypeInv
      <4> QED
        BY <2>3, <3>1, <3>2, <4>1 DEF Placed, Neighborhood, Topology, TopologyOf, Loop
    <3>3. CASE ~Neighborhood
      <4>1. pc'[r] \in {"fill", "allocate"}
        BY <2>3, <3>3 DEF Goto, TypeInv
      <4> QED
        BY <3>3, <4>1 DEF Placed, Neighborhood
    <3> QED
      BY <3>2, <3>3
  <2> QED
    BY <2>1, <2>2, <2>3 DEF Start
<1>5. \A q \in Procs : Placed(job, q, pc'[q], grid, nbr'[q])
  BY <1>3, <1>4 DEF NeighborInv
<1> QED
  BY <1>1, <1>2, <1>5 DEF NeighborInv

LEMMA NeighborsRadius ==
  ASSUME TypeInv, NeighborInv, NEW r \in Procs, Radius(r)
  PROVE  NeighborInv'
<1>1. job' = job /\ grid' = grid /\ Procs' = Procs /\ pc[r] = "radius"
  BY DEF Radius, Procs, At
<1>2. nbr' = [q \in Procs |-> nbr'[q]]
  BY DEF Radius, NeighborInv
<1>3. \A q \in Procs \ {r} : pc'[q] = pc[q] /\ nbr'[q] = nbr[q]
  BY DEF Radius, NeighborInv, TypeInv, Goto
<1>4. Placed(job, r, pc'[r], grid, nbr'[r])
  <2>1. CASE UNCHANGED <<pc, nbr>>
    BY <2>1 DEF NeighborInv
  <2>2. CASE /\ ~TooFar(Topology.rad, job.np, grid)
             /\ nbr' = [nbr EXCEPT ![r] = CartNeighbors(r, grid, Topology.rad)]
             /\ Goto(r, "graph")
    <3>1. pc'[r] = "graph" /\ nbr'[r] = CartNeighbors(r, grid, Topology.rad)
      BY <2>2 DEF Goto, TypeInv, NeighborInv
    <3>2. Placed(job, r, "radius", grid, nbr[r])
      BY <1>1 DEF NeighborInv
    <3> QED
      BY <2>2, <3>1, <3>2 DEF Placed, Knows, Topology, TopologyOf, Loop
  <2> QED
    BY <2>1, <2>2 DEF Radius
<1>5. \A q \in Procs : Placed(job, q, pc'[q], grid, nbr'[q])
  BY <1>3, <1>4 DEF NeighborInv
<1> QED
  BY <1>1, <1>2, <1>5 DEF NeighborInv

LEMMA NeighborsCart ==
  ASSUME TypeInv, NeighborInv, CartCreate
  PROVE  NeighborInv'
<1>1. job' = job /\ Procs' = Procs /\ nbr' = nbr /\ grid' = GridOf(job)
  BY DEF CartCreate, Procs, GridOf, TopologyOf, Topology
<1>2. \A r \in Procs : pc[r] = "cart" /\ pc'[r] = "radius"
  BY Everybody DEF CartCreate, AllGoto
<1>3. \A r \in Procs : Placed(job, r, pc'[r], grid', nbr'[r])
  BY <1>1, <1>2 DEF NeighborInv, Placed, Loop
<1> QED
  BY <1>1, <1>3 DEF NeighborInv

\* All ranks go on in the loop, or leave it.
LEMMA NeighborsLoop ==
  ASSUME TypeInv, NeighborInv, GraphCreate \/ Fill \/ Collective \/ Validate \/ Again
  PROVE  NeighborInv'
<1>1. job' = job /\ Procs' = Procs /\ nbr' = nbr /\ grid' = grid
  BY DEF GraphCreate, Fill, Collective, Validate, Again, Procs
<1>2. ASSUME NEW r \in Procs
      PROVE  pc'[r] = pc[r] \/ pc'[r] = "release" \/ (pc[r] \in {"graph"} \cup Loop /\ pc'[r] \in Loop)
  BY Everybody DEF GraphCreate, Fill, Collective, Validate, Again, AllGoto, Loop
<1>3. ASSUME NEW r \in Procs PROVE Placed(job, r, pc'[r], grid, nbr[r])
  <2>1. Placed(job, r, pc[r], grid, nbr[r])
    BY DEF NeighborInv
  <2>2. CASE pc'[r] = pc[r]
    BY <2>1, <2>2
  <2>3. CASE pc'[r] = "release"
    BY <2>3 DEF Placed, Loop
  <2>4. CASE pc[r] \in {"graph"} \cup Loop /\ pc'[r] \in Loop
    BY <2>1, <2>4 DEF Placed, Loop
  <2> QED
    BY <1>2, <2>2, <2>3, <2>4
<1> QED
  BY <1>1, <1>3 DEF NeighborInv

\* The benchmarks of two ranks have no neighbours.
LEMMA NeighborsElsewhere ==
  ASSUME TypeInv, NeighborInv, NEW r \in Procs,
         Allocate(r) \/ Send(r) \/ Receive(r) \/ Access(r) \/ Release(r) \/ WinCreate \/ WinFree
  PROVE  NeighborInv'
<1>1. job' = job /\ Procs' = Procs /\ nbr' = nbr /\ grid' = grid
  BY DEF Allocate, Send, Receive, Access, Release, WinCreate, WinFree, Procs
<1>2. job.subtype \notin Neighbors
  <2>1. {"allocate", "release", "window"} \cup Inside \subseteq Labels
    BY DEF Labels
  <2>2. \E q \in Procs : pc[q] \in {"allocate", "release", "window"} \cup Inside
    BY Everybody DEF Allocate, Send, Receive, Access, Release, WinCreate, WinFree, At, Inside
  <2>3. job.bench # "COLLECTIVE"
    BY <2>2, PlacesOf DEF TypeInv
  <2> QED
    BY <2>3, JobIs DEF TypeInv, Neighborhood
<1>3. ASSUME NEW q \in Procs PROVE pc'[q] = pc[q] \/ pc'[q] \in {"fill", "window", "release"} \cup Inside
  BY DEF Allocate, Send, Receive, Access, Release, WinCreate, WinFree, Goto, AllGoto, TypeInv, Inside
<1>4. ASSUME NEW q \in Procs PROVE Placed(job, q, pc'[q], grid, nbr[q])
  <2>1. Placed(job, q, pc[q], grid, nbr[q])
    BY DEF NeighborInv
  <2>2. CASE pc'[q] = pc[q]
    BY <2>1, <2>2
  <2>3. CASE pc'[q] \in {"fill", "window", "release"} \cup Inside
    BY <1>2, <2>3 DEF Placed, Inside
  <2> QED
    BY <1>3, <2>2, <2>3
<1> QED
  BY <1>1, <1>4 DEF NeighborInv

LEMMA NeighborsKeep ==
  ASSUME TypeInv, NeighborInv, [Next]_vars
  PROVE  NeighborInv'
<1>1. CASE \/ \E r \in Procs : Overrun(r) \/ Stray(r)
           \/ Launcher \/ UNCHANGED vars
  <2>1. job' = job /\ Procs' = Procs /\ pc' = pc /\ nbr' = nbr /\ grid' = grid
    BY <1>1 DEF Overrun, Stray, Launcher, vars, Procs
  <2> QED
    BY <2>1 DEF NeighborInv
<1>2. CASE WinCreate \/ WinFree
  BY <1>2, Everybody, NeighborsElsewhere DEF WinCreate, WinFree
<1> QED
  BY <1>1, <1>2, NeighborsStart, NeighborsRadius, NeighborsCart, NeighborsLoop, NeighborsElsewhere
     DEF Next, Progress, Over

\* Lists of ranks of the job, as long as announced.
Announced(np, n) ==
  /\ n.sources \in Seq(0 .. np - 1) /\ n.destinations \in Seq(0 .. np - 1)
  /\ n.indegree = Len(n.sources) /\ n.outdegree = Len(n.destinations)

LEMMA KnownGrid ==
  ASSUME job \in Jobs, Neighborhood, Topology.type = "cart", NEW r \in Procs, NEW n, Knows(job, r, n)
  PROVE  LET topology == TopologyOf(job)
             dims == GridOf(job)
         IN  /\ Fits(topology.dim, dims, topology.rad) /\ ProductOf(dims) = job.np
             /\ n = CartNeighbors(r, dims, topology.rad)
             /\ Listed(topology.dim, dims, topology.rad, r)
             /\ \A q \in Procs : q \in 0 .. ProductOf(dims) - 1
<1> DEFINE d == TopologyOf(job).dim
           dims == GridOf(job)
           rad == TopologyOf(job).rad
<1>1. d \in Nat \ {0} /\ rad \in Nat /\ job.np \in Nat \ {0}
  BY TopologyIs, JobIs DEF Knows, Topology, TopologyOf
<1>2. ~TooFar(rad, job.np, dims) /\ n = CartNeighbors(r, dims, rad)
  BY DEF Knows, Topology, TopologyOf
<1>3. dims \in [1 .. d -> Positive] /\ ProductOf(dims) = job.np
  BY <1>1, DimsAre DEF GridOf
<1> HIDE DEF d, dims, rad
<1>4. Fits(d, dims, rad)
  BY <1>1, <1>2, <1>3, RadiusFits
<1>5. \A q \in Procs : q \in 0 .. ProductOf(dims) - 1
  BY <1>3 DEF Procs
<1>6. Listed(d, dims, rad, r)
  BY <1>4, <1>5, CartListed
<1> QED
  BY <1>2, <1>3, <1>4, <1>5, <1>6 DEF d, dims, rad

LEMMA KnownGraph ==
  ASSUME job \in Jobs, Neighborhood, Topology.type = "graph", NEW r \in Procs, NEW n, Knows(job, r, n)
  PROVE  LET file == TopologyOf(job).file
             read == LinesRead(r, job.np, file)[Len(file)]
         IN  /\ file \in Seq(Seq(Nat)) /\ read.ok
             /\ n.sources = read.sources /\ n.destinations = read.destinations
             /\ Announced(job.np, n)
             /\ Len(n.sources) <= MaxEdges + 1 /\ Len(n.destinations) <= MaxEdges + 1
<1> DEFINE file == TopologyOf(job).file
<1>1. (file = NoFile \/ file \in Seq(Seq(Nat))) /\ job.np \in Nat
  BY TopologyIs, JobIs DEF Knows, Topology, TopologyOf
<1>2. n = ReadGraph(r, job.np, file) /\ n.ok
  BY DEF Knows, Topology, TopologyOf
<1> HIDE DEF file
<1> DEFINE read == LinesRead(r, job.np, file)[Len(file)]
<1>3. /\ file \in Seq(Seq(Nat)) /\ read.ok
      /\ n.sources = read.sources /\ n.destinations = read.destinations
      /\ n.sources \in Lists(job.np) /\ n.destinations \in Lists(job.np)
      /\ n.indegree = Len(n.sources) /\ n.outdegree = Len(n.destinations)
  BY <1>1, <1>2, GraphIs
<1> QED
  BY <1>3 DEF Announced, Lists, file

LEMMA KnownLists ==
  ASSUME job \in Jobs, Neighborhood, NEW r \in Procs, NEW n, Knows(job, r, n)
  PROVE  /\ Announced(job.np, n)
         /\ Topology.type = "graph" =>
              Len(n.sources) <= MaxEdges + 1 /\ Len(n.destinations) <= MaxEdges + 1
<1>1. Topology.type \in {"cart", "graph"}
  BY TopologyTypes DEF Topology
<1>2. CASE Topology.type = "graph"
  BY <1>2, KnownGraph
<1>3. CASE Topology.type = "cart"
  <2> DEFINE d == TopologyOf(job).dim
             dims == GridOf(job)
             rad == TopologyOf(job).rad
             M == ProductOf(Box(d, rad))
  <2>1. /\ Fits(d, dims, rad) /\ ProductOf(dims) = job.np /\ n = CartNeighbors(r, dims, rad)
        /\ Listed(d, dims, rad, r) /\ r \in 0 .. ProductOf(dims) - 1
    BY <1>3, KnownGrid
  <2> HIDE DEF d, dims, rad
  <2>2. \A m \in 1 .. M : Reached(d, dims, rad, r)[m] \in 0 .. job.np - 1
    BY <2>1, ShiftedIs
  <2>3. /\ n.indegree = M - 1 /\ n.outdegree = M - 1 /\ n.destinations = n.sources
        /\ n.sources \in Seq(Int) /\ Len(n.sources) = M - 1
    BY <2>1 DEF Listed
  <2>4. \A l \in DOMAIN n.sources : \E m \in 1 .. M : Reached(d, dims, rad, r)[m] = n.sources[l]
    BY <2>1 DEF Listed
  <2> HIDE DEF M
  <2>5. \A l \in DOMAIN n.sources : n.sources[l] \in 0 .. job.np - 1
    BY <2>2, <2>4
  <2>6. n.sources \in Seq(0 .. job.np - 1)
    <3>1. /\ Len(n.sources) \in Nat /\ DOMAIN n.sources = 1 .. Len(n.sources)
          /\ n.sources = [l \in 1 .. Len(n.sources) |-> n.sources[l]]
      BY <2>3
    <3>2. n.sources \in [1 .. Len(n.sources) -> 0 .. job.np - 1]
      BY <2>5, <3>1
    <3> QED
      BY <3>1, <3>2, GridIsSequence
  <2> QED
    BY <1>3, <2>3, <2>6 DEF Announced
<1> QED
  BY <1>1, <1>2, <1>3

\* What two ranks know of each other agrees.
LEMMA KnownAgree ==
  ASSUME job \in Jobs, Neighborhood, NEW r \in Procs, NEW s \in Procs, NEW n, NEW o,
         Knows(job, r, n), Knows(job, s, o)
  PROVE  Count(n.sources, s) = Count(o.destinations, r)
<1>1. Topology.type \in {"cart", "graph"} /\ job.np \in Nat
  BY TopologyTypes, JobIs DEF Topology
<1>2. CASE Topology.type = "graph"
  <2> DEFINE file == TopologyOf(job).file
             read(q) == LinesRead(q, job.np, file)[Len(file)]
  <2>1. /\ file \in Seq(Seq(Nat)) /\ read(r).ok /\ read(s).ok
        /\ n.sources = read(r).sources /\ o.destinations = read(s).destinations
    BY <1>2, KnownGraph
  <2> HIDE DEF file
  <2>2. Len(file) \in 0 .. Len(file)
    BY <2>1
  <2>3. Count(read(r).sources, s) = Count(read(s).destinations, r)
    BY <1>1, <2>1, <2>2, LinesAgree
  <2> QED
    BY <2>1, <2>3
<1>3. CASE Topology.type = "cart"
  <2> DEFINE d == TopologyOf(job).dim
             dims == GridOf(job)
             rad == TopologyOf(job).rad
  <2>1. /\ Fits(d, dims, rad) /\ n = CartNeighbors(r, dims, rad) /\ o = CartNeighbors(s, dims, rad)
        /\ r \in 0 .. ProductOf(dims) - 1 /\ s \in 0 .. ProductOf(dims) - 1
    BY <1>3, KnownGrid
  <2> HIDE DEF d, dims, rad
  <2> QED
    BY <2>1, CartAgrees
<1> QED
  BY <1>1, <1>2, <1>3

LEMMA NeighborsDoAgree ==
  ASSUME TypeInv, NeighborInv
  PROVE  NeighborsAgree
<1> SUFFICES ASSUME AllAt("graph") PROVE NeighborsAgree
  BY DEF NeighborsAgree
<1>1. job \in Jobs /\ 0 \in Procs /\ \A r \in Procs : Placed(job, r, "graph", grid, nbr[r])
  BY JobIs, Everybody DEF TypeInv, NeighborInv
<1>2. Neighborhood /\ \A r \in Procs : Knows(job, r, nbr[r])
  BY <1>1 DEF Placed, Neighborhood
<1>3. \A r, s \in Procs : Count(nbr[r].sources, s) = Count(nbr[s].destinations, r)
  BY <1>1, <1>2, KnownAgree
<1>4. ASSUME Topology.type = "cart", NEW r \in Procs
      PROVE  /\ IsInjective(nbr[r].sources) /\ r \notin Range(nbr[r].sources)
             /\ Len(nbr[r].sources) = nbr[r].indegree
  <2> DEFINE n == nbr[r]
             d == TopologyOf(job).dim
             dims == GridOf(job)
             rad == TopologyOf(job).rad
  <2>1. Listed(d, dims, rad, r) /\ n = CartNeighbors(r, dims, rad)
    BY <1>1, <1>2, <1>4, KnownGrid
  <2>2. n.indegree = ProductOf(Box(d, rad)) - 1 /\ Len(n.sources) = ProductOf(Box(d, rad)) - 1
    BY <2>1 DEF Listed
  <2>3. \A a, b \in DOMAIN n.sources : n.sources[a] = n.sources[b] => a = b
    BY <2>1 DEF Listed
  <2>4. \A l \in DOMAIN n.sources : n.sources[l] # r
    BY <2>1 DEF Listed
  <2> QED
    BY <2>2, <2>3, <2>4 DEF IsInjective, Range
<1> QED
  BY <1>3, <1>4 DEF NeighborsAgree, Count, Where

(***************************************************************************)
(* TypeInv and NeighborInv are inductive together: a rank that reaches the *)
(* creation of the graph has read a file without a complaint, or has       *)
(* computed its lists from the same grid and the same radius as the others.*)
(***************************************************************************)
THEOREM NeighborsKnown == Spec => [](TypeInv /\ NeighborInv)
<1>1. Init => TypeInv /\ NeighborInv
  BY TypeAtFirst DEF Init, NeighborInv, Placed, Loop
<1>2. TypeInv /\ NeighborInv /\ [Next]_vars => (TypeInv /\ NeighborInv)'
  BY TypeKeeps, NeighborsKeep
<1> QED
  BY <1>1, <1>2, PTL DEF Spec

(***************************************************************************)
(* NeighborsAgree: when MPI_Dist_graph_create_adjacent is called, what all *)
(* ranks declare agrees, for every file, every grid and every radius that  *)
(* the options accept (osu_util_mpi.c:1575-1760).                          *)
(***************************************************************************)
THEOREM NeighborsDeclared == Spec => []NeighborsAgree
BY NeighborsKnown, NeighborsDoAgree, PTL

-----------------------------------------------------------------------------
(***************************************************************************)
(* The blocks for a rank among those a neighbour sends: the k-th is there, *)
(* for as many k as there are entries of the rank.                         *)
(***************************************************************************)
UpTo(q, x, i) == {j \in 1 .. i : q[j] = x}

LEMMA UpToGrows ==
  ASSUME NEW T, NEW q \in Seq(T), NEW x
  PROVE  /\ Cardinality(UpTo(q, x, 0)) = 0
         /\ Cardinality(UpTo(q, x, Len(q))) = Count(q, x)
         /\ \A i \in 0 .. Len(q) : /\ Cardinality(UpTo(q, x, i)) \in Nat
                                   /\ Cardinality(UpTo(q, x, i)) <= Count(q, x)
         /\ \A i \in 1 .. Len(q) :
              Cardinality(UpTo(q, x, i))
                = IF q[i] = x THEN Cardinality(UpTo(q, x, i - 1)) + 1
                  ELSE Cardinality(UpTo(q, x, i - 1))
<1> DEFINE n == Len(q)
<1>1. n \in Nat /\ DOMAIN q = 1 .. n
  OBVIOUS
<1> HIDE DEF n
<1>2. UpTo(q, x, 0) = {} /\ UpTo(q, x, n) = Where(q, x)
  BY <1>1 DEF UpTo, Where
<1>3. ASSUME NEW i \in 0 .. n PROVE IsFiniteSet(UpTo(q, x, i)) /\ UpTo(q, x, i) \subseteq Where(q, x)
  <2>1. UpTo(q, x, i) \subseteq Where(q, x)
    BY <1>1 DEF UpTo, Where
  <2>2. IsFiniteSet(Where(q, x))
    BY CountType
  <2> QED
    BY <2>1, <2>2, FS_Subset
<1>4. ASSUME NEW i \in 0 .. n
      PROVE  Cardinality(UpTo(q, x, i)) \in Nat /\ Cardinality(UpTo(q, x, i)) <= Count(q, x)
  <2>1. IsFiniteSet(Where(q, x))
    BY CountType
  <2> QED
    BY <1>3, <2>1, FS_Subset, FS_CardinalityType DEF Count
<1>5. ASSUME NEW i \in 1 .. n
      PROVE  Cardinality(UpTo(q, x, i)) = IF q[i] = x THEN Cardinality(UpTo(q, x, i - 1)) + 1
                                          ELSE Cardinality(UpTo(q, x, i - 1))
  <2>1. i - 1 \in 0 .. n /\ IsFiniteSet(UpTo(q, x, i - 1))
    BY <1>1, <1>3
  <2>2. CASE q[i] = x
    <3>1. UpTo(q, x, i) = UpTo(q, x, i - 1) \cup {i} /\ i \notin UpTo(q, x, i - 1)
      BY <1>1, <2>2 DEF UpTo
    <3>2. Cardinality(UpTo(q, x, i - 1) \cup {i}) = Cardinality(UpTo(q, x, i - 1)) + 1
      BY <2>1, <3>1, FS_AddElement
    <3> QED
      BY <2>2, <3>1, <3>2
  <2>3. CASE q[i] # x
    <3>1. UpTo(q, x, i) = UpTo(q, x, i - 1)
      BY <1>1, <2>3 DEF UpTo
    <3> QED
      BY <2>3, <3>1
  <2> QED
    BY <2>2, <2>3
<1>6. Cardinality(UpTo(q, x, 0)) = 0 /\ Cardinality(UpTo(q, x, n)) = Count(q, x)
  BY <1>2, FS_EmptySet DEF Count
<1> QED
  BY <1>4, <1>5, <1>6 DEF n

LEMMA NthBlock ==
  ASSUME NEW T, NEW q \in Seq(T), NEW x, NEW k \in 1 .. Count(q, x)
  PROVE  \E i \in 1 .. Len(q) : q[i] = x /\ Cardinality(UpTo(q, x, i)) = k
<1> DEFINE n == Len(q)
           c(i) == Cardinality(UpTo(q, x, i))
           enough == {i \in 0 .. n : c(i) >= k}
<1>1. /\ n \in Nat /\ c(0) = 0 /\ c(n) = Count(q, x) /\ \A i \in 0 .. n : c(i) \in Nat
      /\ \A i \in 1 .. n : c(i) = IF q[i] = x THEN c(i - 1) + 1 ELSE c(i - 1)
  BY UpToGrows
<1>2. Count(q, x) \in Nat
  BY CountType
<1> HIDE DEF n, c
<1>3. n \in enough /\ enough \in SUBSET Nat
  BY <1>1, <1>2
<1>4. PICK i \in enough : \A m \in enough : i <= m
  <2> HIDE DEF enough
  <2> QED
    BY <1>3, Least
<1>5. i \in 1 .. n /\ i - 1 \in 0 .. n /\ i - 1 \notin enough
  BY <1>1, <1>4
<1>6. c(i - 1) < k /\ c(i) >= k /\ c(i - 1) \in Nat
  BY <1>1, <1>5
<1>7. q[i] = x /\ c(i) = k
  BY <1>1, <1>5, <1>6
<1> QED
  BY <1>5, <1>7 DEF n, c

LEMMA NthOf ==
  ASSUME NEW T, NEW q \in Seq(T), NEW l \in 1 .. Len(q)
  PROVE  Cardinality(UpTo(q, q[l], l)) \in 1 .. Count(q, q[l])
<1> DEFINE c(i) == Cardinality(UpTo(q, q[l], i))
           n == Len(q)
<1>1. /\ \A i \in 0 .. n : c(i) \in Nat /\ c(i) <= Count(q, q[l])
      /\ \A i \in 1 .. n : c(i) = IF q[i] = q[l] THEN c(i - 1) + 1 ELSE c(i - 1)
  BY UpToGrows
<1>2. l \in 0 .. n /\ l - 1 \in 0 .. n /\ Count(q, q[l]) \in Nat
  BY CountType
<1> HIDE DEF c, n
<1>3. c(l) = c(l - 1) + 1
  BY <1>1 DEF n
<1>4. c(l) \in 1 .. Count(q, q[l])
  BY <1>1, <1>2, <1>3
<1> QED
  BY <1>4 DEF c

LEMMA BlockForIs ==
  ASSUME NEW T, NEW s, nbr[s].destinations \in Seq(T), NEW r,
         NEW k \in 1 .. Count(nbr[s].destinations, r)
  PROVE  /\ BlockFor(s, r, k) \in 1 .. Len(nbr[s].destinations)
         /\ nbr[s].destinations[BlockFor(s, r, k)] = r
<1> DEFINE q == nbr[s].destinations
<1>1. DOMAIN q = 1 .. Len(q)
  OBVIOUS
<1>2. \E i \in 1 .. Len(q) : q[i] = r /\ Cardinality(UpTo(q, r, i)) = k
  BY NthBlock
<1>3. BlockFor(s, r, k) = CHOOSE i \in DOMAIN q : q[i] = r /\ Cardinality(UpTo(q, r, i)) = k
  BY DEF BlockFor, UpTo
<1> HIDE DEF q
<1>4. BlockFor(s, r, k) \in DOMAIN q /\ q[BlockFor(s, r, k)] = r
  BY <1>1, <1>2, <1>3
<1> QED
  BY <1>1, <1>4 DEF q

=============================================================================
