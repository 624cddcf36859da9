------------------------------ MODULE OsuMemory ------------------------------
(***************************************************************************)
(* The buffers and windows of OSU benchmarks for two sides: the            *)
(* allocate_memory_* and free_memory_* functions of                        *)
(* src/omb/c/util/osu_util_mpi.c, in a build for ROCm.  Module             *)
(* OsuCollectives has the benchmark that calls them.                       *)
(*                                                                         *)
(* A block is known by its rank, the variable it was allocated for and the *)
(* allocator.  Options SRC and DST are letters, H for host and D for       *)
(* device memory; any other letter is accepted as well.                    *)
(*                                                                         *)
(* Of a job j: call, the family of functions it uses ("pt2pt",             *)
(* "pt2pt_size", "mul", "mul_size", "one_sided" or "atomic"), src, dst,    *)
(* accel (options.accel), win (options.win), compare (whether an atomic    *)
(* benchmark has a cbuf), np, dtype and len, the elements of a message.     *)
(***************************************************************************)
EXTENDS OsuBuffers

CONSTANT MaxMessageSize   \* options.max_message_size

ASSUME MemoryConstants == MaxMessageSize \in Nat \ {0}

VARIABLES
  heap,          \* the blocks in use, of all ranks
  ptr,           \* ptr[r]: what the buffer variables of rank r point to
  window,        \* window[r]: the part of rank r in the window
  disp_remote,   \* disp_remote[r]: the address sent by the other rank
  mail,          \* mail[r]: addresses on their way to rank r
  misuse         \* pointers that were freed wrongly: <<rank, variable>>

memory == <<heap, ptr, window, disp_remote, mail, misuse>>

Block(r, name, by, size) == [rank |-> r, name |-> name, by |-> by, size |-> size]

\* What a variable holds that nobody has assigned.
Wild == Block(-1, "", "", 0)

Bytes(j) == j.len * SizeOfType[j.dtype]
PureHost(j) == j.src = "H" /\ j.dst = "H"
OneSided(j) == j.call \in {"one_sided", "atomic"}

\* Whether MPI_Win_allocate brings the memory of the window.
Brought(j) == j.win = "ALLOCATE" /\ PureHost(j)

\* setAccel, for SRC and then DST; what it answers nobody hears.
setAccel(accel, letter) == IF letter = "D" /\ accel = "NONE" THEN "ROCM" ELSE accel

BufferNames(j) ==
  CASE j.call = "one_sided" -> {"user_buf", "win_base"}
    [] j.call = "atomic" -> {"sbuf", "win_base", "tbuf"} \cup (IF j.compare THEN {"cbuf"} ELSE {})
    [] OTHER -> {"sbuf", "rbuf"}

MemoryInit(j) ==
  /\ heap = {} /\ misuse = {}
  /\ ptr = [r \in 0 .. j.np - 1 |-> [name \in BufferNames(j) |-> Wild]]
  /\ window = [r \in 0 .. j.np - 1 |-> Wild]
  /\ disp_remote = [r \in 0 .. j.np - 1 |-> Wild]
  /\ mail = [r \in 0 .. j.np - 1 |-> <<>>]

-----------------------------------------------------------------------------
\* Device buffers of point-to-point benchmarks have the largest size, whatever
\* size was asked for.
Pt2ptBlock(r, name, letter, size) ==
  IF letter = "D" THEN Block(r, name, "device", MaxMessageSize)
  ELSE Block(r, name, "host", size)

AtLeastOne(n) == IF n = 0 THEN 1 ELSE n

\* Mutant: the pairs are counted from one.
AllocatePt2ptMulLate(j, r, name) ==
  Pt2ptBlock(r, name, IF r <= Pairs(j) THEN j.src ELSE j.dst, MaxMessageSize)

AllocatePt2ptMul(j, r, name) ==
  Pt2ptBlock(r, name, IF r < Pairs(j) THEN j.src ELSE j.dst, MaxMessageSize)

AllocatePt2ptMulSize(j, r, name) ==
  Pt2ptBlock(r, name, IF r < Pairs(j) THEN j.src ELSE j.dst, AtLeastOne(Bytes(j)))

\* Ranks beyond the two get nothing.
AllocatePt2pt(j, r, name) ==
  CASE r = 0 -> Pt2ptBlock(r, name, j.src, MaxMessageSize)
    [] r = 1 -> Pt2ptBlock(r, name, j.dst, MaxMessageSize)
    [] OTHER -> Wild

AllocatePt2ptSize(j, r, name) ==
  CASE r = 0 -> Pt2ptBlock(r, name, j.src, AtLeastOne(Bytes(j)))
    [] r = 1 -> Pt2ptBlock(r, name, j.dst, AtLeastOne(Bytes(j)))
    [] OTHER -> Wild

\* allocate_device_buffer_one_sided: a letter it does not know allocates
\* nothing and is no error.
DeviceBlockOneSided(r, name, letter, size) ==
  IF letter = "D" THEN Block(r, name, "device", size) ELSE Wild

AllocateOneSided(j, r, name) ==
  LET letter == IF r = 0 THEN j.src ELSE j.dst
  IN  IF letter # "H" THEN DeviceBlockOneSided(r, name, letter, Bytes(j))
      ELSE IF name = "win_base" /\ Brought(j) THEN Wild
      ELSE Block(r, name, "host", Bytes(j))

AllocateAtomic(j, r, name) ==
  LET letter == IF r = 0 THEN j.src ELSE j.dst
  IN  IF letter # "H" THEN DeviceBlockOneSided(r, name, letter, Bytes(j))
      ELSE Block(r, name, "host", Bytes(j))

AllocatedBlock(j, r, name) ==
  CASE j.call = "mul" -> AllocatePt2ptMul(j, r, name)
    [] j.call = "mul_size" -> AllocatePt2ptMulSize(j, r, name)
    [] j.call = "pt2pt" -> AllocatePt2pt(j, r, name)
    [] j.call = "pt2pt_size" -> AllocatePt2ptSize(j, r, name)
    [] j.call = "one_sided" -> AllocateOneSided(j, r, name)
    [] j.call = "atomic" -> AllocateAtomic(j, r, name)

AllocateMemory(j, r) ==
  LET block == [name \in BufferNames(j) |-> AllocatedBlock(j, r, name)]
  IN  /\ ptr' = [ptr EXCEPT ![r] = block]
      /\ heap' = heap \cup ({block[name] : name \in BufferNames(j)} \ {Wild})
      /\ UNCHANGED <<window, disp_remote, mail, misuse>>

-----------------------------------------------------------------------------
\* MPI_Win_create, MPI_Win_create_dynamic with MPI_Win_attach, or
\* MPI_Win_allocate, which sets win_base to memory of its own.
CreateWindow(j) ==
  LET base == [r \in DOMAIN ptr |-> IF Brought(j) THEN Block(r, "win_base", "MPI", Bytes(j))
                                    ELSE ptr[r].win_base]
  IN  /\ window' = base
      /\ heap' = IF Brought(j) THEN heap \cup {base[r] : r \in DOMAIN ptr} ELSE heap
      /\ ptr' = [r \in DOMAIN ptr |-> [ptr[r] EXCEPT !.win_base = base[r]]]
      /\ UNCHANGED <<disp_remote, mail, misuse>>

Peer(r) == IF r = 0 THEN 1 ELSE 0

\* The addresses of a dynamic window: rank 0 sends and then receives, the
\* other receives and then sends.
SendAddress(r) ==
  /\ mail' = [mail EXCEPT ![Peer(r)] = Append(@, ptr[r].win_base)]
  /\ UNCHANGED <<heap, ptr, window, disp_remote, misuse>>

\* Mutant: the rank keeps the address of its own memory.
ReceiveNothing(r) ==
  /\ mail[r] # <<>>
  /\ disp_remote' = [disp_remote EXCEPT ![r] = ptr[r].win_base]
  /\ mail' = [mail EXCEPT ![r] = Tail(@)]
  /\ UNCHANGED <<heap, ptr, window, misuse>>

ReceiveAddress(r) ==
  /\ mail[r] # <<>>
  /\ disp_remote' = [disp_remote EXCEPT ![r] = Head(mail[r])]
  /\ mail' = [mail EXCEPT ![r] = Tail(@)]
  /\ UNCHANGED <<heap, ptr, window, misuse>>

\* The memory of the other rank that a put, get or atomic of rank r reaches.
Target(j, r) == IF j.win = "DYNAMIC" THEN disp_remote[r] ELSE window[Peer(r)]

\* MPI_Win_free, which gives back what MPI_Win_allocate has brought.
FreeWindow ==
  /\ window' = [r \in DOMAIN window |-> Wild]
  /\ heap' = {b \in heap : b.by # "MPI"}
  /\ UNCHANGED <<ptr, disp_remote, mail, misuse>>

-----------------------------------------------------------------------------
\* What is freed and how, as pairs <<allocator, variable>>.
FreeAs(letter, names) ==
  {<<IF letter \in {"D", "M"} THEN "device" ELSE "host", name>> : name \in names}

FreeMemory(j, r, names) ==
  IF r \in {0, 1} THEN FreeAs(IF r = 0 THEN j.src ELSE j.dst, names) ELSE {}

FreePt2ptMul(j, r, names) == FreeAs(IF r < Pairs(j) THEN j.src ELSE j.dst, names)

\* Mutant: the window's memory is freed as well when MPI has allocated it.
FreeOneSidedAll(j, r) == FreeMemory(j, r, {"user_buf", "win_base"})

FreeOneSided(j, r) ==
  FreeMemory(j, r, IF Brought(j) THEN {"user_buf"} ELSE {"user_buf", "win_base"})

\* On the host win_base is freed only if it is NULL, which it never is.
FreeAtomic(j, r) ==
  LET letter == IF r = 0 THEN j.src ELSE j.dst
  IN  IF letter # "H" THEN {<<"device", name>> : name \in BufferNames(j)}
      ELSE {<<"host", name>> : name \in BufferNames(j) \ {"win_base"}}

\* free_device_buffer does nothing when there is no accelerator.
Frees(j, r) ==
  {f \in (CASE j.call = "one_sided" -> FreeOneSided(j, r)
            [] j.call = "atomic" -> FreeAtomic(j, r)
            [] j.call \in {"mul", "mul_size"} -> FreePt2ptMul(j, r, BufferNames(j))
            [] OTHER -> FreeMemory(j, r, BufferNames(j))) :
     f[1] = "device" => j.accel # "NONE"}

ReleaseMemory(j, r) ==
  LET right(f) == ptr[r][f[2]] \in heap /\ ptr[r][f[2]].by = f[1]
  IN  /\ heap' = heap \ {ptr[r][f[2]] : f \in {f \in Frees(j, r) : right(f)}}
      /\ misuse' = misuse \cup {<<r, f[2]>> : f \in {f \in Frees(j, r) : ~right(f)}}
      /\ UNCHANGED <<ptr, window, disp_remote, mail>>
=============================================================================
