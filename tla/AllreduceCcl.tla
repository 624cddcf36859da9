---------------------------- MODULE AllreduceCcl ----------------------------
(***************************************************************************)
(* MPI_Allreduce through a collective communication library (RCCL or       *)
(* NCCL): src/rccl-backend/{allreduce_intra_ccl.c, rccl.c, mpir_cclcomm.h} *)
(* and its CUDA twin nccl.c, which differs in names only.                  *)
(*                                                                         *)
(* Every rank runs the same script of calls: MPI_Allreduce on one of       *)
(* several communicators, and MPI_Comm_free.  A rank decides on its own    *)
(* between the CCL path and MPICH's fallback.  The first CCL call on a     *)
(* communicator creates the library's communicator lazily: allocate, get   *)
(* an id at the root, broadcast it, create a stream, meet all ranks in     *)
(* ncclCommInitRank, publish the pointer.  Then the reduction is enqueued  *)
(* on the stream and the stream is synchronised.                           *)
(*                                                                         *)
(* A broadcast id is represented by its number: the n-th id the root       *)
(* broadcasts on communicator c is <<c, n>> (ncclGetUniqueId never repeats *)
(* an id), and a rank's n-th MPIR_Bcast_fallback on c receives it, since   *)
(* MPI matches the broadcasts of a communicator in order.                  *)
(***************************************************************************)
EXTENDS Integers, Sequences, FiniteSets

CONSTANTS
  Ranks,         \* the processes; every communicator holds all of them
  Root,          \* rank 0, which asks the library for the id
  Comms,         \* MPI communicators
  Devices,       \* physical GPUs
  Owned,         \* Owned[r]: the GPUs the application of rank r uses
  Host,          \* the place of a buffer that is not on a GPU
  NoDevice,      \* the device of a stream that was never created
  Calls,         \* the calls a script is made of
  NumCalls,      \* length of a script
  Ccl,           \* MPIR_CVAR_ALLREDUCE_CCL
  Backend,       \* the CCL compiled in: "rccl" or "nccl"
  Faults,        \* the external calls that may fail
  MaxFaults,     \* bound: how many of them do
  ErrorsReturn   \* the error handler: MPI_ERRORS_RETURN or ARE_FATAL

SupportedOps == {"SUM", "PROD", "MIN", "MAX"}
\* Mutant: a type accepted that get_datatype does not know.
AcceptsBfloat == {"INT32", "UINT64", "FLOAT64", "BFLOAT16"}

SupportedDatatypes == {"INT8", "UINT8", "INT32", "UINT32", "INT64", "UINT64",
                       "FLOAT16", "FLOAT32", "FLOAT64"}
RedOp == {"SUM", "PROD", "MIN", "MAX"}        \* ops get_red_op can convert
Datatype == {"INT8", "UINT8", "INT32", "UINT32", "INT64", "UINT64",
             "FLOAT16", "FLOAT32", "FLOAT64"} \* types get_datatype can convert

\* A call of the script.  place says where the ranks' buffers are: all on
\* GPUs, all on the host, or on either at each rank's choice.
Call == [kind : {"allreduce", "free"}, comm : Comms, op : STRING,
         dtype : STRING, place : {"gpu", "host", "any"}]

ASSUME ConstantsAssumption ==
  /\ IsFiniteSet(Ranks) /\ Root \in Ranks /\ IsFiniteSet(Comms)
  /\ Owned \in [Ranks -> SUBSET Devices]
  /\ Host \notin Devices /\ NoDevice \notin Devices
  /\ Calls \subseteq Call
  /\ NumCalls \in Nat /\ MaxFaults \in Nat /\ ErrorsReturn \in BOOLEAN

VARIABLES
  script,    \* the program: script[i] is its i-th call
  pos,       \* pos[r]: the call rank r executes or will make next
  pc,        \* pc[r]: where in the call it is
  buf,       \* buf[r]: the place of recvbuf in the call
  cur,       \* cur[r]: the current HIP device
  cclcomm,   \* cclcomm[c][r]: comm->cclcomm is allocated
  rcclcomm,  \* rcclcomm[c][r]: comm->cclcomm->rcclcomm, null or live
  bcasts,    \* bcasts[c][r]: id broadcasts rank r has completed on c
  unset,     \* unset[c]: ids that ncclGetUniqueId failed to write
  formed,    \* formed[c]: ids under which all ranks met
  dev,       \* dev[c][r]: device of the stream and library communicator
  enq,       \* enq[c][r]: the calls rank r enqueued on its stream of c
  fb,        \* fb[c][r]: the calls rank r took to the fallback on c
  live,      \* live[r]: structs, streams, library communicators not freed
  out,       \* out[r][i]: what call i returned and what it reduced
  faults,    \* failures so far
  aborted    \* MPI_ERRORS_ARE_FATAL has ended the job

appVars  == <<script, buf, cur>>
cclVars  == <<cclcomm, rcclcomm, bcasts, unset, formed, dev>>
dataVars == <<enq, fb>>
vars == <<script, pos, pc, buf, cur, cclcomm, rcclcomm, bcasts, unset, formed,
          dev, enq, fb, live, out, faults, aborted>>

Indices == 1 .. NumCalls
Place == Devices \cup {Host}
PcLabel == {"idle", "bcast", "stream", "initrank", "joined", "issue", "sync",
            "fallback", "crashed"}
Outcome == [ret  : {"none", "MPI_SUCCESS", "MPI_ERR_OTHER"},
            from : SUBSET (Ranks \X Indices)]
Pending == [ret |-> "none", from |-> {}]

\* MPI forbids the use of a communicator after MPI_Comm_free.
WellFormed(s) ==
  \A i, j \in Indices :
    (i < j /\ s[i].kind = "free") => s[j].comm # s[i].comm

Init ==
  /\ script \in {s \in [Indices -> Calls] : WellFormed(s)}
  /\ pos = [r \in Ranks |-> 1]
  /\ pc = [r \in Ranks |-> "idle"]
  /\ buf = [r \in Ranks |-> Host]
  /\ cur \in {d \in [Ranks -> Devices] : \A r \in Ranks : d[r] \in Owned[r]}
  /\ cclcomm = [c \in Comms |-> [r \in Ranks |-> FALSE]]
  /\ rcclcomm = [c \in Comms |-> [r \in Ranks |-> "null"]]
  /\ bcasts = [c \in Comms |-> [r \in Ranks |-> 0]]
  /\ unset = [c \in Comms |-> {}]
  /\ formed = [c \in Comms |-> {}]
  /\ dev = [c \in Comms |-> [r \in Ranks |-> NoDevice]]
  /\ enq = [c \in Comms |-> [r \in Ranks |-> <<>>]]
  /\ fb = [c \in Comms |-> [r \in Ranks |-> <<>>]]
  /\ live = [r \in Ranks |-> [struct |-> 0, stream |-> 0, comm |-> 0]]
  /\ out = [r \in Ranks |-> [i \in Indices |-> Pending]]
  /\ faults = 0
  /\ aborted = FALSE

-----------------------------------------------------------------------------
Running(r) == ~aborted /\ pos[r] \in Indices
At(r, label) == Running(r) /\ pc[r] = label
This(r) == script[pos[r]]
CommOf(r) == This(r).comm

\* One of the external calls fails.
Fails(kind) == kind \in Faults /\ faults < MaxFaults /\ faults' = faults + 1
NoFault == faults' = faults

\* fn_exit: return from MPI_Allreduce or MPI_Comm_free.
Return(r, ret, from) ==
  /\ out' = [out EXCEPT ![r][pos[r]] = [ret |-> ret, from |-> from]]
  /\ pos' = [pos EXCEPT ![r] = @ + 1]
  /\ pc' = [pc EXCEPT ![r] = "idle"]
  /\ aborted' = (ret # "MPI_SUCCESS" /\ ~ErrorsReturn)

Goto(r, label) ==
  /\ pc' = [pc EXCEPT ![r] = label]
  /\ UNCHANGED <<pos, out, aborted>>

\* Mutant: host buffers pass.
CheckWithoutBuffers(call, place) ==
  call.op \in SupportedOps /\ call.dtype \in SupportedDatatypes

\* MPIR_RCCL_check_requirements_red_op, decided by each rank for itself.
CheckRequirements(call, place) ==
  /\ call.op \in SupportedOps
  /\ call.dtype \in SupportedDatatypes
  /\ place # Host

\* The switch of MPIR_Allreduce_intra_ccl.
UseCcl(call, place) ==
  /\ Ccl \in {"auto", Backend}
  /\ CheckRequirements(call, place)

Convertible(call) == call.op \in RedOp /\ call.dtype \in Datatype

Places(r, call) ==
  (IF call.place # "host" THEN Owned[r] ELSE {}) \cup
  (IF call.place # "gpu" THEN {Host} ELSE {})

-----------------------------------------------------------------------------
\* The application of rank r calls hipSetDevice between two MPI calls.
SelectDevice(r, d) ==
  /\ At(r, "idle")
  /\ d # cur[r]
  /\ cur' = [cur EXCEPT ![r] = d]
  /\ UNCHANGED <<script, pos, pc, buf, cclVars, dataVars, live, out, faults, aborted>>

\* Enter MPI_Allreduce with recvbuf at place; the CCL path or the fallback.
\* (On the CCL path get_red_op and get_datatype come first; they have a case
\* for whatever the requirement check lets through: ChecksConvert.)
Enter(r, place, ccl) ==
  /\ At(r, "idle")
  /\ This(r).kind = "allreduce"
  /\ place \in Places(r, This(r))
  /\ UseCcl(This(r), place) = ccl
  /\ buf' = [buf EXCEPT ![r] = place]
  /\ UNCHANGED <<script, cur>>

\* MPIR_Allreduce_allcomm_auto: the rank joins MPICH's own reduction.
EnterFallback(r, place) ==
  /\ Enter(r, place, FALSE)
  /\ fb' = [fb EXCEPT ![CommOf(r)][r] = Append(@, pos[r])]
  /\ Goto(r, "fallback")
  /\ NoFault
  /\ UNCHANGED <<cclVars, enq, live>>

\* check_init_and_init finds both objects: on to the reduction.
EnterReady(r, place) ==
  /\ Enter(r, place, TRUE)
  /\ cclcomm[CommOf(r)][r] /\ rcclcomm[CommOf(r)][r] # "null"
  /\ Goto(r, "issue")
  /\ NoFault
  /\ UNCHANGED <<cclVars, dataVars, live>>

\* check_init_and_init: MPIR_CCLcomm_init if needed, then MPIR_RCCLcomm_init,
\* which begins with a malloc.
EnterInit(r, place) ==
  /\ Enter(r, place, TRUE)
  /\ rcclcomm[CommOf(r)][r] = "null"
  /\ cclcomm' = [cclcomm EXCEPT ![CommOf(r)][r] = TRUE]
  /\ live' = [live EXCEPT ![r].struct = @ + 1]
  /\ Goto(r, "bcast")
  /\ NoFault
  /\ UNCHANGED <<rcclcomm, bcasts, unset, formed, dev, dataVars>>

\* MPIR_CCLcomm_init or the malloc fails: MPI_ERR_OTHER.
EnterNoMemory(r, place) ==
  /\ Enter(r, place, TRUE)
  /\ rcclcomm[CommOf(r)][r] = "null"
  /\ \/ ~cclcomm[CommOf(r)][r] /\ Fails("cclcomm") /\ UNCHANGED cclcomm
     \/ Fails("malloc") /\ cclcomm' = [cclcomm EXCEPT ![CommOf(r)][r] = TRUE]
  /\ Return(r, "MPI_ERR_OTHER", {})
  /\ UNCHANGED <<rcclcomm, bcasts, unset, formed, dev, dataVars, live>>

-----------------------------------------------------------------------------
\* MPIR_RCCLcomm_init, after its malloc.  A failed HIP or RCCL call jumps to
\* fn_fail with mpi_errno still MPI_SUCCESS, so the caller goes on to "issue".

\* Mutant: the root keeps the id to itself.
RootKeepsId(r) ==
  /\ At(r, "bcast") /\ r = Root
  /\ Goto(r, "stream")
  /\ NoFault
  /\ UNCHANGED <<appVars, cclVars, dataVars, live>>

\* The root gets an id (the result of ncclGetUniqueId is not looked at) and
\* broadcasts it: a small MPI broadcast lets its root return at once.
RootBcast(r) ==
  /\ At(r, "bcast") /\ r = Root
  /\ bcasts' = [bcasts EXCEPT ![CommOf(r)][r] = @ + 1]
  /\ \/ NoFault /\ UNCHANGED unset
     \/ /\ Fails("uniqueid")
        /\ unset' = [unset EXCEPT ![CommOf(r)] = @ \cup {bcasts[CommOf(r)][r] + 1}]
  /\ Goto(r, "stream")
  /\ UNCHANGED <<appVars, cclcomm, rcclcomm, formed, dev, dataVars, live>>

\* Another rank receives the next id broadcast on the communicator.
ReceiveId(r) ==
  /\ At(r, "bcast") /\ r # Root
  /\ bcasts[CommOf(r)][r] < bcasts[CommOf(r)][Root]
  /\ bcasts' = [bcasts EXCEPT ![CommOf(r)][r] = @ + 1]
  /\ Goto(r, "stream")
  /\ NoFault
  /\ UNCHANGED <<appVars, cclcomm, rcclcomm, unset, formed, dev, dataVars, live>>

\* The broadcast fails, and its error is returned; the struct is not freed.
BcastFails(r) ==
  /\ At(r, "bcast")
  /\ Fails("bcast")
  /\ Return(r, "MPI_ERR_OTHER", {})
  /\ UNCHANGED <<appVars, cclVars, dataVars, live>>

\* hipStreamCreate, on whatever device is current.
CreateStream(r) ==
  /\ At(r, "stream")
  /\ \/ /\ NoFault
        /\ dev' = [dev EXCEPT ![CommOf(r)][r] = cur[r]]
        /\ live' = [live EXCEPT ![r].stream = @ + 1]
        /\ Goto(r, "initrank")
     \/ /\ Fails("stream")
        /\ Goto(r, "issue")
        /\ UNCHANGED <<dev, live>>
  /\ UNCHANGED <<appVars, cclcomm, rcclcomm, bcasts, unset, formed, dataVars>>

\* ncclCommInitRank: the ranks meet under one id.  The library refuses two
\* ranks on one GPU.
Meet(c) ==
  LET n == bcasts[c][Root]
      distinct == \A r, s \in Ranks : r # s => dev[c][r] # dev[c][s]
  IN  /\ \A r \in Ranks : At(r, "initrank") /\ CommOf(r) = c /\ bcasts[c][r] = n
      /\ n \notin unset[c]
      /\ formed' = IF distinct THEN [formed EXCEPT ![c] = @ \cup {n}] ELSE formed
      /\ pc' = [r \in Ranks |-> IF distinct THEN "joined" ELSE "issue"]
  /\ UNCHANGED <<appVars, pos, cclcomm, rcclcomm, bcasts, unset, dev, dataVars,
                 live, out, faults, aborted>>

\* Mutant: the pointer is published although ncclCommInitRank failed.
PublishAnyway(r) ==
  /\ At(r, "initrank")
  /\ Fails("initrank")
  /\ rcclcomm' = [rcclcomm EXCEPT ![CommOf(r)][r] = "live"]
  /\ Goto(r, "issue")
  /\ UNCHANGED <<appVars, cclcomm, bcasts, unset, formed, dev, dataVars, live>>

\* ncclCommInitRank gives up at one rank, before or after the meeting.
InitRankFails(r) ==
  /\ At(r, "initrank") \/ At(r, "joined")
  /\ Fails("initrank")
  /\ Goto(r, "issue")
  /\ UNCHANGED <<appVars, cclVars, dataVars, live>>

\* It cannot use an id that was never written.
RefuseId(r) ==
  /\ At(r, "initrank")
  /\ bcasts[CommOf(r)][r] \in unset[CommOf(r)]
  /\ Goto(r, "issue")
  /\ NoFault
  /\ UNCHANGED <<appVars, cclVars, dataVars, live>>

\* comm_ptr->cclcomm->rcclcomm = rcclcomm
Publish(r) ==
  /\ At(r, "joined")
  /\ rcclcomm' = [rcclcomm EXCEPT ![CommOf(r)][r] = "live"]
  /\ live' = [live EXCEPT ![r].comm = @ + 1]
  /\ Goto(r, "issue")
  /\ NoFault
  /\ UNCHANGED <<appVars, cclcomm, bcasts, unset, formed, dev, dataVars>>

-----------------------------------------------------------------------------
\* The rest of MPIR_RCCL_Allreduce.  The current device becomes that of
\* recvbuf, and stays.

\* hipSetDevice, then ncclAllReduce on the stream.
Enqueue(r) ==
  /\ At(r, "issue")
  /\ rcclcomm[CommOf(r)][r] = "live"
  /\ cur' = [cur EXCEPT ![r] = buf[r]]
  /\ enq' = [enq EXCEPT ![CommOf(r)][r] = Append(@, pos[r])]
  /\ Goto(r, "sync")
  /\ NoFault
  /\ UNCHANGED <<script, buf, cclVars, fb, live>>

\* The pointer that check_init_and_init left null is dereferenced.
DereferenceNull(r) ==
  /\ At(r, "issue")
  /\ rcclcomm[CommOf(r)][r] = "null"
  /\ cur' = [cur EXCEPT ![r] = buf[r]]
  /\ Goto(r, "crashed")
  /\ NoFault
  /\ UNCHANGED <<script, buf, cclVars, dataVars, live>>

\* One of the calls fails; only the pointer query sets mpi_errno.
EnqueueFails(r) ==
  /\ At(r, "issue")
  /\ \/ Fails("query") /\ Return(r, "MPI_ERR_OTHER", {}) /\ UNCHANGED cur
     \/ Fails("setdevice") /\ Return(r, "MPI_SUCCESS", {}) /\ UNCHANGED cur
     \/ /\ rcclcomm[CommOf(r)][r] = "live"
        /\ Fails("allreduce") /\ Return(r, "MPI_SUCCESS", {})
        /\ cur' = [cur EXCEPT ![r] = buf[r]]
  /\ UNCHANGED <<script, buf, cclVars, dataVars, live>>

\* Mutant: hipStreamSynchronize is not called.
SynchronizeNot(r) ==
  LET c == CommOf(r)
      k == Len(enq[c][r])
  IN  /\ At(r, "sync")
      /\ Return(r, "MPI_SUCCESS",
                {<<q, enq[c][q][k]>> : q \in {p \in Ranks : Len(enq[c][p]) >= k}})
      /\ NoFault
      /\ UNCHANGED <<appVars, cclVars, dataVars, live>>

\* The k-th reduction of a library communicator takes the k-th operation of
\* every rank; hipStreamSynchronize waits for it.
Synchronize(r) ==
  LET c == CommOf(r)
      k == Len(enq[c][r])
  IN  /\ At(r, "sync")
      /\ \A q \in Ranks : Len(enq[c][q]) >= k /\ bcasts[c][q] = bcasts[c][r]
      /\ Return(r, "MPI_SUCCESS", {<<q, enq[c][q][k]>> : q \in Ranks})
      /\ NoFault
      /\ UNCHANGED <<appVars, cclVars, dataVars, live>>

\* The stream reports an error; what was reduced is unknown.
SynchronizeFails(r) ==
  /\ At(r, "sync")
  /\ Fails("sync")
  /\ Return(r, "MPI_SUCCESS", {})
  /\ UNCHANGED <<appVars, cclVars, dataVars, live>>

\* Mutant: a fallback that does not wait for the slowest rank.
FallbackOfPresent(r) ==
  LET c == CommOf(r)
      k == Len(fb[c][r])
  IN  /\ At(r, "fallback")
      /\ Return(r, "MPI_SUCCESS",
                {<<q, fb[c][q][k]>> : q \in {p \in Ranks : Len(fb[c][p]) >= k}})
      /\ NoFault
      /\ UNCHANGED <<appVars, cclVars, dataVars, live>>

\* MPICH's own reduction: the k-th on c completes when all ranks are in it.
FinishFallback(r) ==
  LET c == CommOf(r)
      k == Len(fb[c][r])
  IN  /\ At(r, "fallback")
      /\ \A q \in Ranks : Len(fb[c][q]) >= k
      /\ Return(r, "MPI_SUCCESS", {<<q, fb[c][q][k]>> : q \in Ranks})
      /\ NoFault
      /\ UNCHANGED <<appVars, cclVars, dataVars, live>>

\* Mutants: ncclCommDestroy is forgotten; MPL_free comes before the calls
\* that may fail.
FreeWithoutDestroy(r) ==
  /\ At(r, "idle") /\ This(r).kind = "free"
  /\ live' = IF rcclcomm[CommOf(r)][r] = "null" THEN live
             ELSE [live EXCEPT ![r].struct = @ - 1, ![r].stream = @ - 1]
  /\ cclcomm' = [cclcomm EXCEPT ![CommOf(r)][r] = FALSE]
  /\ rcclcomm' = [rcclcomm EXCEPT ![CommOf(r)][r] = "null"]
  /\ Return(r, "MPI_SUCCESS", {})
  /\ NoFault
  /\ UNCHANGED <<appVars, bcasts, unset, formed, dev, dataVars>>

FreeStructFirst(r) ==
  /\ At(r, "idle") /\ This(r).kind = "free"
  /\ rcclcomm[CommOf(r)][r] = "live"
  /\ Fails("destroy") /\ live' = [live EXCEPT ![r].struct = @ - 1]
  /\ cclcomm' = [cclcomm EXCEPT ![CommOf(r)][r] = FALSE]
  /\ rcclcomm' = [rcclcomm EXCEPT ![CommOf(r)][r] = "null"]
  /\ Return(r, "MPI_SUCCESS", {})
  /\ UNCHANGED <<appVars, bcasts, unset, formed, dev, dataVars>>

\* MPI_Comm_free: MPIR_CCLcomm_free calls MPIR_RCCLcomm_free if there is a
\* pointer.  That stops at the first of its calls that fails, leaving the
\* rest allocated, and returns MPI_SUCCESS; cclcomm is gone either way.
FreeComm(r) ==
  LET c == CommOf(r)
  IN  /\ At(r, "idle")
      /\ This(r).kind = "free"
      /\ \/ rcclcomm[c][r] = "null" /\ NoFault /\ UNCHANGED live
         \/ /\ rcclcomm[c][r] = "live"
            /\ \/ /\ NoFault
                  /\ live' = [live EXCEPT ![r] = [struct |-> @.struct - 1,
                                 stream |-> @.stream - 1, comm |-> @.comm - 1]]
               \/ (Fails("freesync") \/ Fails("destroy")) /\ UNCHANGED live
               \/ Fails("freestream") /\ live' = [live EXCEPT ![r].comm = @ - 1]
      /\ cclcomm' = [cclcomm EXCEPT ![c][r] = FALSE]
      /\ rcclcomm' = [rcclcomm EXCEPT ![c][r] = "null"]
      /\ Return(r, "MPI_SUCCESS", {})
      /\ UNCHANGED <<appVars, bcasts, unset, formed, dev, dataVars>>

-----------------------------------------------------------------------------
\* What rank r does of itself, given that nothing fails ...
Step(r) ==
  \/ \E place \in Place :
       EnterFallback(r, place) \/ EnterReady(r, place) \/ EnterInit(r, place)
  \/ RootBcast(r) \/ ReceiveId(r) \/ CreateStream(r) \/ RefuseId(r)
  \/ Publish(r) \/ Enqueue(r) \/ DereferenceNull(r)
  \/ Synchronize(r) \/ FinishFallback(r) \/ FreeComm(r)

\* ... and the failures that have an action of their own.
Failure(r) ==
  \/ \E place \in Place : EnterNoMemory(r, place)
  \/ BcastFails(r) \/ InitRankFails(r) \/ EnqueueFails(r) \/ SynchronizeFails(r)

Finished(r) == pos[r] = NumCalls + 1

\* The script is over everywhere.
Done == (\A r \in Ranks : Finished(r)) /\ UNCHANGED vars

Next ==
  \/ \E r \in Ranks : Step(r) \/ Failure(r) \/ \E d \in Owned[r] : SelectDevice(r, d)
  \/ \E c \in Comms : Meet(c)
  \/ Done

Spec == Init /\ [][Next]_vars

\* The operating system runs every process, and the library completes a
\* meeting all ranks have come to.
FairSpec ==
  /\ Spec
  /\ \A r \in Ranks : WF_vars(Step(r))
  /\ WF_vars(\E c \in Comms : Meet(c))

-----------------------------------------------------------------------------
TypeOK ==
  /\ script \in [Indices -> Calls]
  /\ pos \in [Ranks -> 1 .. NumCalls + 1]
  /\ pc \in [Ranks -> PcLabel]
  /\ buf \in [Ranks -> Place]
  /\ cur \in [Ranks -> Devices]
  /\ cclcomm \in [Comms -> [Ranks -> BOOLEAN]]
  /\ rcclcomm \in [Comms -> [Ranks -> {"null", "live"}]]
  /\ bcasts \in [Comms -> [Ranks -> Nat]]
  /\ unset \in [Comms -> SUBSET Nat]
  /\ formed \in [Comms -> SUBSET Nat]
  /\ dev \in [Comms -> [Ranks -> Devices \cup {NoDevice}]]
  /\ enq \in [Comms -> [Ranks -> Seq(Indices)]]
  /\ fb \in [Comms -> [Ranks -> Seq(Indices)]]
  /\ live \in [Ranks -> [struct : Int, stream : Int, comm : Int]]
  /\ out \in [Ranks -> [Indices -> Outcome]]
  /\ faults \in 0 .. MaxFaults
  /\ aborted \in BOOLEAN

\* Two ranks that have published a library communicator for one MPI
\* communicator joined it under the same id, and all ranks met under it,
\* whatever failed and was retried before (rccl.c:36-46).
IdAgreement ==
  \A c \in Comms : \A r, s \in Ranks :
    (rcclcomm[c][r] = "live" /\ rcclcomm[c][s] = "live") =>
      bcasts[c][r] = bcasts[c][s] /\ bcasts[c][r] \in formed[c]

\* An MPI_Allreduce that returned MPI_SUCCESS has reduced what every rank
\* contributed to that very call ("Ensure the communication completes",
\* rccl.c:227).
SuccessMeansReduced ==
  \A r \in Ranks : \A i \in Indices :
    (out[r][i].ret = "MPI_SUCCESS" /\ script[i].kind = "allreduce") =>
      out[r][i].from = Ranks \X {i}

\* The reduction runs on the GPU that holds the buffer ("Set the device to
\* where the buffer resides", nccl.c:207): stream and library communicator
\* were created there, though on an earlier call and for another buffer.
OnBufferDevice ==
  \A r \in Ranks : At(r, "sync") => dev[CommOf(r)][r] = buf[r]

\* Whatever the requirement check lets through, get_red_op and get_datatype
\* convert (rccl.c:74-174): the CCL path never fails with MPI_ERR_ARG.
ChecksConvert ==
  \A r \in Ranks : (Running(r) /\ pc[r] \notin {"idle", "fallback"}) => Convertible(This(r))

LivePointers(r) == Cardinality({c \in Comms : rcclcomm[c][r] = "live"})

\* Between two calls a rank holds the struct, stream and communicator of the
\* pointers it has published and nothing else (rccl.c:28-46, 246-253).
NothingLeaked ==
  \A r \in Ranks : pc[r] = "idle" =>
    live[r] = [struct |-> LivePointers(r), stream |-> LivePointers(r), comm |-> LivePointers(r)]

\* What a published pointer leads to has not been freed, and no stream or
\* library communicator is alive without the struct that names it: the
\* partial failures of init and free lose objects, but use none after free.
NothingDangles ==
  \A r \in Ranks :
    /\ LivePointers(r) <= live[r].comm
    /\ live[r].comm <= live[r].stream
    /\ live[r].stream <= live[r].struct

\* No rank can go on, and not all are through.
Stuck ==
  /\ ~aborted
  /\ \E r \in Ranks : ~Finished(r)
  /\ \A r \in Ranks : ~ENABLED Step(r)
  /\ \A c \in Comms : ~ENABLED Meet(c)

InCcl(r) == Running(r) /\ pc[r] \in {"bcast", "stream", "initrank", "joined", "issue", "sync"}

\* Two ranks created their streams on one GPU.
ShareGpu(c) == \E q, r \in Ranks : q # r /\ dev[c][q] = dev[c][r] /\ dev[c][r] # NoDevice

\* Everyone waits on everyone only if, in one call, a rank took the fallback
\* and another the CCL path (allreduce_intra_ccl.c:33-49 decides per rank), or
\* a rank has crashed; and unless something failed the pointer that it found
\* null after the initialisation (rccl.c:41-46) was refused for a GPU that two
\* ranks of the communicator share.
StuckOnlyIfDiverged ==
  (Stuck /\ faults = 0) =>
    \/ \E r, s \in Ranks : pos[r] = pos[s] /\ At(r, "fallback") /\ InCcl(s)
    \/ \E r \in Ranks : At(r, "crashed") /\ ShareGpu(CommOf(r))

\* Every rank returns from every call (checked where nothing fails and no two
\* ranks differ in their choice).
AllCallsReturn == \A r \in Ranks : <>Finished(r)

-----------------------------------------------------------------------------
\* A rank is inside the call it executes and has left the ones before it.
Promise == INSTANCE BlockingAllreduce WITH
  reductions <- {i \in Indices : script[i].kind = "allreduce"},
  entered <- [r \in Ranks |-> IF pc[r] = "idle" THEN pos[r] - 1 ELSE pos[r]],
  left <- [r \in Ranks |-> pos[r] - 1],
  sum <- [r \in Ranks |-> [i \in Indices |-> out[r][i].from]]

\* MPI_Allreduce through the CCL backend, or around it, keeps the promise:
\* every step of the ranks is a step of it or changes nothing, and what has
\* to happen does.
KeepsPromise == Promise!Spec

=============================================================================
