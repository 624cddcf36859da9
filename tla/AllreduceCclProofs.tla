-------------------------- MODULE AllreduceCclProofs ------------------------
(***************************************************************************)
(* Type correctness and id agreement of AllreduceCcl, the lives of the     *)
(* handles a rank holds, and which calls are reduced together, for any     *)
(* number of ranks, communicators, GPUs and calls, and whatever fails.     *)
(***************************************************************************)
EXTENDS AllreduceCcl, SequenceTheorems, FiniteSetTheorems, TLAPS

CclLabel == {"bcast", "stream", "initrank", "joined", "issue", "sync", "crashed"}

\* What a rank inside a call has: a call to be in; on the CCL path a buffer
\* on a GPU; an operation of its own to wait for.
InCall(r) ==
  /\ pc[r] # "idle" => pos[r] \in Indices
  /\ pc[r] \in CclLabel => buf[r] \in Devices
  /\ pc[r] = "sync" => enq[CommOf(r)][r] # <<>>
  /\ pc[r] = "fallback" => fb[CommOf(r)][r] # <<>>

TypeInv == TypeOK /\ \A r \in Ranks : InCall(r)

HandleCount == [struct : Int, stream : Int, comm : Int]

\* A call of the script names an existing communicator.
LEMMA CommOfType ==
  ASSUME TypeOK, NEW r \in Ranks, pos[r] \in Indices
  PROVE  CommOf(r) \in Comms
BY ConstantsAssumption DEF TypeOK, CommOf, This, Call

\* A running rank is in a call of the script.
LEMMA AtType ==
  ASSUME TypeInv, NEW r \in Ranks, NEW label, At(r, label)
  PROVE  pos[r] \in Indices /\ CommOf(r) \in Comms /\ pc[r] = label
BY CommOfType DEF TypeInv, At, Running

\* Writing one cell of a table indexed by communicators and ranks.
LEMMA CellType ==
  ASSUME NEW S, NEW f \in [Comms -> [Ranks -> S]],
         NEW c \in Comms, NEW r \in Ranks, NEW v \in S
  PROVE  LET g == [f EXCEPT ![c][r] = v]
         IN  /\ g \in [Comms -> [Ranks -> S]]
             /\ g[c][r] = v
             /\ \A b \in Comms : \A q \in Ranks \ {r} : g[b][q] = f[b][q]
OBVIOUS

LEMMA HandleType ==
  ASSUME TypeOK, NEW r \in Ranks
  PROVE  /\ [live EXCEPT ![r].struct = @ + 1] \in [Ranks -> HandleCount]
         /\ [live EXCEPT ![r].stream = @ + 1] \in [Ranks -> HandleCount]
         /\ [live EXCEPT ![r].comm = @ + 1] \in [Ranks -> HandleCount]
         /\ [live EXCEPT ![r].comm = @ - 1] \in [Ranks -> HandleCount]
         /\ [live EXCEPT ![r] = [struct |-> @.struct - 1, stream |-> @.stream - 1,
                                 comm |-> @.comm - 1]] \in [Ranks -> HandleCount]
<1>1. /\ live \in [Ranks -> HandleCount]
      /\ live[r] \in HandleCount
  BY DEF TypeOK, HandleCount
<1>2. /\ [live[r] EXCEPT !.struct = @ + 1] \in HandleCount
      /\ [live[r] EXCEPT !.stream = @ + 1] \in HandleCount
      /\ [live[r] EXCEPT !.comm = @ + 1] \in HandleCount
      /\ [live[r] EXCEPT !.comm = @ - 1] \in HandleCount
  BY <1>1 DEF HandleCount
<1>3. [struct |-> live[r].struct - 1, stream |-> live[r].stream - 1,
       comm |-> live[r].comm - 1] \in HandleCount
  BY <1>1 DEF HandleCount
<1> QED
  BY <1>1, <1>2, <1>3

\* The variables that Return and Goto write.
FlowOK ==
  /\ pos \in [Ranks -> 1 .. NumCalls + 1]
  /\ pc \in [Ranks -> PcLabel]
  /\ out \in [Ranks -> [Indices -> Outcome]]
  /\ aborted \in BOOLEAN

LEMMA ReturnType ==
  ASSUME TypeOK, NEW r \in Ranks, pos[r] \in Indices,
         NEW ret \in {"MPI_SUCCESS", "MPI_ERR_OTHER"},
         NEW from \in SUBSET (Ranks \X Indices),
         Return(r, ret, from)
  PROVE  FlowOK' /\ pc'[r] = "idle"
<1>1. pos[r] + 1 \in 1 .. NumCalls + 1
  BY ConstantsAssumption DEF Indices
<1>2. [ret |-> ret, from |-> from] \in Outcome
  BY DEF Outcome
<1>3. out' \in [Ranks -> [Indices -> Outcome]]
  BY <1>2 DEF TypeOK, Return
<1>4. pos' \in [Ranks -> 1 .. NumCalls + 1]
  BY <1>1 DEF TypeOK, Return
<1> QED
  BY <1>3, <1>4 DEF TypeOK, Return, PcLabel, FlowOK

LEMMA GotoType ==
  ASSUME TypeOK, NEW r \in Ranks, NEW label \in PcLabel, Goto(r, label)
  PROVE  /\ FlowOK'
         /\ pos' = pos /\ out' = out /\ aborted' = aborted
         /\ pc' = [pc EXCEPT ![r] = label] /\ pc'[r] = label
BY DEF TypeOK, Goto, FlowOK

LEMMA FaultsType ==
  ASSUME TypeOK, faults' = faults \/ (faults < MaxFaults /\ faults' = faults + 1)
  PROVE  faults' \in 0 .. MaxFaults
BY ConstantsAssumption DEF TypeOK

\* A rank that does not move keeps what it has.
LEMMA OtherRank ==
  ASSUME TypeInv, NEW q \in Ranks, script' = script,
         pos'[q] = pos[q], pc'[q] = pc[q], buf'[q] = buf[q],
         \A c \in Comms : enq'[c][q] = enq[c][q] /\ fb'[c][q] = fb[c][q]
  PROVE  InCall(q)'
<1>1. CASE pc[q] = "idle"
  BY <1>1 DEF InCall, CclLabel
<1>2. CASE pc[q] # "idle"
  <2>1. InCall(q)
    BY DEF TypeInv
  <2>2. CommOf(q) \in Comms
    BY <1>2, <2>1, CommOfType DEF TypeInv, InCall
  <2>3. CommOf(q)' = CommOf(q)
    BY DEF CommOf, This
  <2> QED
    BY <2>1, <2>2, <2>3 DEF InCall
<1> QED
  BY <1>1, <1>2

\* An action of rank r that queues no operation preserves TypeInv if it
\* does so for rank r.
LEMMA RankMoves ==
  ASSUME TypeInv, NEW r \in Ranks, script' = script,
         \A q \in Ranks \ {r} : pos'[q] = pos[q] /\ pc'[q] = pc[q] /\ buf'[q] = buf[q],
         enq' = enq, fb' = fb, TypeOK', InCall(r)'
  PROVE  TypeInv'
BY OtherRank DEF TypeInv

\* Going to another place of the CCL path, not to "sync", is such an action.
LEMMA GotoMoves ==
  ASSUME TypeInv, NEW r \in Ranks, NEW label \in CclLabel \ {"sync"},
         Goto(r, label), pos[r] \in Indices, buf'[r] \in Devices,
         \A q \in Ranks \ {r} : buf'[q] = buf[q],
         script' = script, enq' = enq, fb' = fb, TypeOK'
  PROVE  TypeInv'
<1>1. pos' = pos /\ pc' = [pc EXCEPT ![r] = label]
  BY DEF Goto
<1>2. pc'[r] = label /\ \A q \in Ranks \ {r} : pc'[q] = pc[q]
  BY <1>1 DEF TypeInv, TypeOK
<1>3. InCall(r)'
  BY <1>1, <1>2 DEF InCall, CclLabel
<1> QED
  BY <1>1, <1>2, <1>3, RankMoves

\* So is returning.
LEMMA ReturnMoves ==
  ASSUME TypeInv, NEW r \in Ranks, NEW ret, NEW from, Return(r, ret, from),
         \A q \in Ranks \ {r} : buf'[q] = buf[q],
         script' = script, enq' = enq, fb' = fb, TypeOK'
  PROVE  TypeInv'
<1>1. /\ pos' = [pos EXCEPT ![r] = @ + 1]
      /\ pc' = [pc EXCEPT ![r] = "idle"]
  BY DEF Return
<1>2. /\ pc'[r] = "idle"
      /\ \A q \in Ranks \ {r} : pc'[q] = pc[q] /\ pos'[q] = pos[q]
  BY <1>1 DEF TypeInv, TypeOK
<1>3. InCall(r)'
  BY <1>2 DEF InCall, CclLabel
<1> QED
  BY <1>2, <1>3, RankMoves

-----------------------------------------------------------------------------
(***************************************************************************)
(* Each action preserves TypeInv.                                          *)
(***************************************************************************)
LEMMA SelectDeviceType ==
  ASSUME TypeInv, NEW r \in Ranks, NEW d \in Owned[r], SelectDevice(r, d)
  PROVE  TypeInv'
<1>1. d \in Devices
  BY ConstantsAssumption
<1>2. TypeOK'
  BY <1>1 DEF TypeInv, TypeOK, SelectDevice, cclVars, dataVars
<1> QED
  BY <1>2, OtherRank DEF TypeInv, SelectDevice, dataVars

\* Where recvbuf is: on a GPU if the CCL path is taken.
LEMMA EnterType ==
  ASSUME TypeInv, NEW r \in Ranks, NEW place \in Place, NEW ccl \in BOOLEAN,
         Enter(r, place, ccl)
  PROVE  /\ pos[r] \in Indices
         /\ CommOf(r) \in Comms
         /\ script' = script /\ cur' = cur
         /\ buf' \in [Ranks -> Place]
         /\ buf'[r] = place
         /\ \A q \in Ranks \ {r} : buf'[q] = buf[q]
         /\ ccl => place \in Devices
<1>1. pos[r] \in Indices
  BY DEF Enter, At, Running
<1>2. CommOf(r) \in Comms
  BY <1>1, CommOfType DEF TypeInv
<1> QED
  BY <1>1, <1>2 DEF TypeInv, TypeOK, Enter, UseCcl, CheckRequirements, Place

LEMMA EnterFallbackType ==
  ASSUME TypeInv, NEW r \in Ranks, NEW place \in Place, EnterFallback(r, place)
  PROVE  TypeInv'
<1>1. /\ pos[r] \in Indices
      /\ CommOf(r) \in Comms
      /\ script' = script /\ cur' = cur
      /\ buf' \in [Ranks -> Place]
      /\ buf'[r] = place
      /\ \A q \in Ranks \ {r} : buf'[q] = buf[q]
  BY EnterType DEF EnterFallback
<1>2. /\ fb' \in [Comms -> [Ranks -> Seq(Indices)]]
      /\ fb'[CommOf(r)][r] # <<>>
      /\ \A c \in Comms : \A q \in Ranks \ {r} : fb'[c][q] = fb[c][q]
  <2>1. /\ Append(fb[CommOf(r)][r], pos[r]) \in Seq(Indices)
        /\ Append(fb[CommOf(r)][r], pos[r]) # <<>>
        /\ fb \in [Comms -> [Ranks -> Seq(Indices)]]
    <3>1. fb \in [Comms -> [Ranks -> Seq(Indices)]]
      BY DEF TypeInv, TypeOK
    <3>2. fb[CommOf(r)][r] \in Seq(Indices)
      BY <1>1, <3>1
    <3>3. pos[r] \in Indices
      BY <1>1
    <3>4. Append(fb[CommOf(r)][r], pos[r]) \in Seq(Indices)
      BY <3>2, <3>3
    <3>5. Append(fb[CommOf(r)][r], pos[r]) # <<>>
      BY <3>2, <3>3, AppendProperties
    <3> QED
      BY <3>1, <3>4, <3>5
  <2>2. fb' = [fb EXCEPT ![CommOf(r)][r] = Append(fb[CommOf(r)][r], pos[r])]
    BY DEF EnterFallback
  <2> QED
    BY <1>1, <2>1, <2>2, CellType
<1>3. /\ FlowOK'
      /\ pos' = pos /\ pc'[r] = "fallback"
      /\ \A q \in Ranks \ {r} : pc'[q] = pc[q]
  BY GotoType DEF EnterFallback, PcLabel, TypeInv, TypeOK
<1>4. TypeOK'
  BY <1>1, <1>2, <1>3
  DEF TypeInv, TypeOK, FlowOK, EnterFallback, NoFault, cclVars
<1>5. InCall(r)'
  BY <1>1, <1>2, <1>3 DEF InCall, CommOf, This, CclLabel
<1>6. enq' = enq
  BY DEF EnterFallback
<1> QED
  BY <1>1, <1>2, <1>3, <1>4, <1>5, <1>6, OtherRank DEF TypeInv

LEMMA EnterReadyType ==
  ASSUME TypeInv, NEW r \in Ranks, NEW place \in Place, EnterReady(r, place)
  PROVE  TypeInv'
<1>1. /\ pos[r] \in Indices
      /\ CommOf(r) \in Comms
      /\ script' = script /\ cur' = cur
      /\ buf' \in [Ranks -> Place]
      /\ buf'[r] = place
      /\ \A q \in Ranks \ {r} : buf'[q] = buf[q]
      /\ place \in Devices
  BY EnterType DEF EnterReady
<1>2. Goto(r, "issue") /\ FlowOK'
  BY GotoType DEF EnterReady, PcLabel, TypeInv
<1>3. TypeOK'
  BY <1>1, <1>2
  DEF TypeInv, TypeOK, FlowOK, EnterReady, NoFault, cclVars, dataVars
<1> QED
  BY <1>1, <1>2, <1>3, GotoMoves DEF EnterReady, dataVars, CclLabel

LEMMA EnterInitType ==
  ASSUME TypeInv, NEW r \in Ranks, NEW place \in Place, EnterInit(r, place)
  PROVE  TypeInv'
<1>1. /\ pos[r] \in Indices
      /\ CommOf(r) \in Comms
      /\ script' = script /\ cur' = cur
      /\ buf' \in [Ranks -> Place]
      /\ buf'[r] = place
      /\ \A q \in Ranks \ {r} : buf'[q] = buf[q]
      /\ place \in Devices
  BY EnterType DEF EnterInit
<1>2. cclcomm' \in [Comms -> [Ranks -> BOOLEAN]]
  BY <1>1, CellType DEF TypeInv, TypeOK, EnterInit
<1>3. live' \in [Ranks -> HandleCount]
  BY HandleType DEF TypeInv, EnterInit
<1>4. Goto(r, "bcast") /\ FlowOK'
  BY GotoType DEF EnterInit, PcLabel, TypeInv
<1>5. TypeOK'
  BY <1>1, <1>2, <1>3, <1>4
  DEF TypeInv, TypeOK, FlowOK, EnterInit, NoFault, dataVars, HandleCount
<1> QED
  BY <1>1, <1>4, <1>5, GotoMoves DEF EnterInit, dataVars, CclLabel

LEMMA EnterNoMemoryType ==
  ASSUME TypeInv, NEW r \in Ranks, NEW place \in Place, EnterNoMemory(r, place)
  PROVE  TypeInv'
<1>1. /\ pos[r] \in Indices
      /\ CommOf(r) \in Comms
      /\ script' = script /\ cur' = cur
      /\ buf' \in [Ranks -> Place]
      /\ buf'[r] = place
      /\ \A q \in Ranks \ {r} : buf'[q] = buf[q]
  BY EnterType DEF EnterNoMemory
<1>2. cclcomm' \in [Comms -> [Ranks -> BOOLEAN]]
  <2>1. cclcomm' = cclcomm \/ cclcomm' = [cclcomm EXCEPT ![CommOf(r)][r] = TRUE]
    BY DEF EnterNoMemory
  <2>2. cclcomm \in [Comms -> [Ranks -> BOOLEAN]]
    BY DEF TypeInv, TypeOK
  <2>3. [cclcomm EXCEPT ![CommOf(r)][r] = TRUE] \in [Comms -> [Ranks -> BOOLEAN]]
    BY <1>1, <2>2, CellType
  <2> QED
    BY <2>1, <2>2, <2>3
<1>3. faults' \in 0 .. MaxFaults
  BY FaultsType DEF TypeInv, EnterNoMemory, Fails
<1>4. Return(r, "MPI_ERR_OTHER", {}) /\ FlowOK'
  BY <1>1, ReturnType DEF EnterNoMemory, TypeInv
<1>5. TypeOK'
  BY <1>1, <1>2, <1>3, <1>4 DEF TypeInv, TypeOK, FlowOK, EnterNoMemory, dataVars
<1> QED
  BY <1>1, <1>4, <1>5, ReturnMoves DEF EnterNoMemory, dataVars

LEMMA RootBcastType ==
  ASSUME TypeInv, NEW r \in Ranks, RootBcast(r)
  PROVE  TypeInv'
<1>1. pos[r] \in Indices /\ CommOf(r) \in Comms /\ buf[r] \in Devices
  BY AtType DEF RootBcast, TypeInv, InCall, CclLabel
<1>2. FlowOK' /\ \E label \in {"stream"} : Goto(r, label)
  BY GotoType DEF RootBcast, PcLabel, TypeInv
<1>3. bcasts' \in [Comms -> [Ranks -> Nat]]
  <2>1. bcasts' = [bcasts EXCEPT ![CommOf(r)][r] = (bcasts[CommOf(r)][r] + 1)]
    BY DEF RootBcast
  <2>2. (bcasts[CommOf(r)][r] + 1) \in Nat /\ bcasts \in [Comms -> [Ranks -> Nat]]
    BY <1>1 DEF TypeInv, TypeOK
  <2> QED
    BY <1>1, <2>1, <2>2, CellType
<1>4. unset' \in [Comms -> SUBSET Nat]
  <2>1. unset \in [Comms -> SUBSET Nat] /\ bcasts[CommOf(r)][r] + 1 \in Nat
    BY <1>1 DEF TypeInv, TypeOK
  <2>2. unset[CommOf(r)] \cup {bcasts[CommOf(r)][r] + 1} \in SUBSET Nat
    BY <1>1, <2>1
  <2>3. \/ unset' = unset
        \/ unset' = [unset EXCEPT ![CommOf(r)] =
                         unset[CommOf(r)] \cup {bcasts[CommOf(r)][r] + 1}]
    BY DEF RootBcast
  <2> QED
    BY <2>1, <2>2, <2>3
<1>5. faults' \in 0 .. MaxFaults
  BY FaultsType DEF TypeInv, RootBcast, NoFault, Fails
<1>6. TypeOK'
  BY <1>2, <1>3, <1>4, <1>5
  DEF TypeInv, TypeOK, FlowOK, RootBcast, appVars, cclVars, dataVars, HandleCount
<1> QED
  BY <1>1, <1>2, <1>6, GotoMoves DEF RootBcast, appVars, dataVars, CclLabel

LEMMA ReceiveIdType ==
  ASSUME TypeInv, NEW r \in Ranks, ReceiveId(r)
  PROVE  TypeInv'
<1>1. pos[r] \in Indices /\ CommOf(r) \in Comms /\ buf[r] \in Devices
  BY AtType DEF ReceiveId, TypeInv, InCall, CclLabel
<1>2. FlowOK' /\ \E label \in {"stream"} : Goto(r, label)
  BY GotoType DEF ReceiveId, PcLabel, TypeInv
<1>3. bcasts' \in [Comms -> [Ranks -> Nat]]
  <2>1. bcasts' = [bcasts EXCEPT ![CommOf(r)][r] = (bcasts[CommOf(r)][r] + 1)]
    BY DEF ReceiveId
  <2>2. (bcasts[CommOf(r)][r] + 1) \in Nat /\ bcasts \in [Comms -> [Ranks -> Nat]]
    BY <1>1 DEF TypeInv, TypeOK
  <2> QED
    BY <1>1, <2>1, <2>2, CellType
<1>4. faults' \in 0 .. MaxFaults
  BY FaultsType DEF TypeInv, ReceiveId, NoFault, Fails
<1>5. TypeOK'
  BY <1>2, <1>3, <1>4
  DEF TypeInv, TypeOK, FlowOK, ReceiveId, appVars, cclVars, dataVars, HandleCount
<1> QED
  BY <1>1, <1>2, <1>5, GotoMoves DEF ReceiveId, appVars, dataVars, CclLabel

LEMMA CreateStreamType ==
  ASSUME TypeInv, NEW r \in Ranks, CreateStream(r)
  PROVE  TypeInv'
<1>1. pos[r] \in Indices /\ CommOf(r) \in Comms /\ buf[r] \in Devices
  BY AtType DEF CreateStream, TypeInv, InCall, CclLabel
<1>2. FlowOK' /\ \E label \in {"initrank", "issue"} : Goto(r, label)
  BY GotoType DEF CreateStream, PcLabel, TypeInv
<1>3. dev' \in [Comms -> [Ranks -> Devices \cup {NoDevice}]]
  <2>1. dev' = dev \/ dev' = [dev EXCEPT ![CommOf(r)][r] = cur[r]]
    BY DEF CreateStream
  <2>2. /\ cur[r] \in Devices \cup {NoDevice}
        /\ dev \in [Comms -> [Ranks -> Devices \cup {NoDevice}]]
    BY DEF TypeInv, TypeOK
  <2> QED
    BY <1>1, <2>1, <2>2, CellType
<1>4. live' \in [Ranks -> HandleCount]
  <2>1. live' = live \/ live' = [live EXCEPT ![r].stream = @ + 1]
    BY DEF CreateStream
  <2>2. live \in [Ranks -> HandleCount]
    BY DEF TypeInv, TypeOK, HandleCount
  <2> QED
    BY <2>1, <2>2, HandleType DEF TypeInv
<1>5. faults' \in 0 .. MaxFaults
  BY FaultsType DEF TypeInv, CreateStream, NoFault, Fails
<1>6. TypeOK'
  BY <1>2, <1>3, <1>4, <1>5
  DEF TypeInv, TypeOK, FlowOK, CreateStream, appVars, cclVars, dataVars, HandleCount
<1> QED
  BY <1>1, <1>2, <1>6, GotoMoves DEF CreateStream, appVars, dataVars, CclLabel

LEMMA InitRankFailsType ==
  ASSUME TypeInv, NEW r \in Ranks, InitRankFails(r)
  PROVE  TypeInv'
<1>1. pos[r] \in Indices /\ CommOf(r) \in Comms /\ buf[r] \in Devices
  BY AtType DEF InitRankFails, TypeInv, InCall, CclLabel
<1>2. FlowOK' /\ \E label \in {"issue"} : Goto(r, label)
  BY GotoType DEF InitRankFails, PcLabel, TypeInv
<1>3. faults' \in 0 .. MaxFaults
  BY FaultsType DEF TypeInv, InitRankFails, NoFault, Fails
<1>4. TypeOK'
  BY <1>2, <1>3
  DEF TypeInv, TypeOK, FlowOK, InitRankFails, appVars, cclVars, dataVars, HandleCount
<1> QED
  BY <1>1, <1>2, <1>4, GotoMoves DEF InitRankFails, appVars, dataVars, CclLabel

LEMMA RefuseIdType ==
  ASSUME TypeInv, NEW r \in Ranks, RefuseId(r)
  PROVE  TypeInv'
<1>1. pos[r] \in Indices /\ CommOf(r) \in Comms /\ buf[r] \in Devices
  BY AtType DEF RefuseId, TypeInv, InCall, CclLabel
<1>2. FlowOK' /\ \E label \in {"issue"} : Goto(r, label)
  BY GotoType DEF RefuseId, PcLabel, TypeInv
<1>3. faults' \in 0 .. MaxFaults
  BY FaultsType DEF TypeInv, RefuseId, NoFault, Fails
<1>4. TypeOK'
  BY <1>2, <1>3
  DEF TypeInv, TypeOK, FlowOK, RefuseId, appVars, cclVars, dataVars, HandleCount
<1> QED
  BY <1>1, <1>2, <1>4, GotoMoves DEF RefuseId, appVars, dataVars, CclLabel

LEMMA PublishType ==
  ASSUME TypeInv, NEW r \in Ranks, Publish(r)
  PROVE  TypeInv'
<1>1. pos[r] \in Indices /\ CommOf(r) \in Comms /\ buf[r] \in Devices
  BY AtType DEF Publish, TypeInv, InCall, CclLabel
<1>2. FlowOK' /\ \E label \in {"issue"} : Goto(r, label)
  BY GotoType DEF Publish, PcLabel, TypeInv
<1>3. rcclcomm' \in [Comms -> [Ranks -> {"null", "live"}]]
  <2>1. rcclcomm' = [rcclcomm EXCEPT ![CommOf(r)][r] = "live"]
    BY DEF Publish
  <2>2. "live" \in {"null", "live"} /\ rcclcomm \in [Comms -> [Ranks -> {"null", "live"}]]
    BY <1>1 DEF TypeInv, TypeOK
  <2> QED
    BY <1>1, <2>1, <2>2, CellType
<1>4. live' \in [Ranks -> HandleCount]
  BY HandleType DEF TypeInv, TypeOK, Publish, HandleCount
<1>5. faults' \in 0 .. MaxFaults
  BY FaultsType DEF TypeInv, Publish, NoFault, Fails
<1>6. TypeOK'
  BY <1>2, <1>3, <1>4, <1>5
  DEF TypeInv, TypeOK, FlowOK, Publish, appVars, cclVars, dataVars, HandleCount
<1> QED
  BY <1>1, <1>2, <1>6, GotoMoves DEF Publish, appVars, dataVars, CclLabel

LEMMA DereferenceNullType ==
  ASSUME TypeInv, NEW r \in Ranks, DereferenceNull(r)
  PROVE  TypeInv'
<1>1. pos[r] \in Indices /\ CommOf(r) \in Comms /\ buf[r] \in Devices
  BY AtType DEF DereferenceNull, TypeInv, InCall, CclLabel
<1>2. FlowOK' /\ \E label \in {"crashed"} : Goto(r, label)
  BY GotoType DEF DereferenceNull, PcLabel, TypeInv
<1>3. cur' \in [Ranks -> Devices]
  BY <1>1 DEF TypeInv, TypeOK, DereferenceNull
<1>4. faults' \in 0 .. MaxFaults
  BY FaultsType DEF TypeInv, DereferenceNull, NoFault, Fails
<1>5. TypeOK'
  BY <1>2, <1>3, <1>4
  DEF TypeInv, TypeOK, FlowOK, DereferenceNull, appVars, cclVars, dataVars, HandleCount
<1> QED
  BY <1>1, <1>2, <1>5, GotoMoves DEF DereferenceNull, appVars, dataVars, CclLabel

\* An action that returns and changes none of the library's state.
LEMMA PlainReturn ==
  ASSUME TypeInv, NEW r \in Ranks, pos[r] \in Indices,
         NEW ret \in {"MPI_SUCCESS", "MPI_ERR_OTHER"},
         NEW from \in SUBSET (Ranks \X Indices), Return(r, ret, from),
         faults' \in 0 .. MaxFaults, cur' \in [Ranks -> Devices],
         UNCHANGED <<script, buf, cclVars, dataVars, live>>
  PROVE  TypeInv'
<1>1. FlowOK'
  BY ReturnType DEF TypeInv
<1>2. TypeOK'
  BY <1>1 DEF TypeInv, TypeOK, FlowOK, cclVars, dataVars
<1> QED
  BY <1>2, ReturnMoves DEF dataVars

LEMMA BcastFailsType ==
  ASSUME TypeInv, NEW r \in Ranks, BcastFails(r)
  PROVE  TypeInv'
<1>1. pos[r] \in Indices
  BY AtType DEF BcastFails
<1>2. faults' \in 0 .. MaxFaults
  BY FaultsType DEF TypeInv, BcastFails, Fails
<1>3. cur' \in [Ranks -> Devices]
  BY DEF TypeInv, TypeOK, BcastFails, appVars
<1>4. Return(r, "MPI_ERR_OTHER", {})
  BY DEF BcastFails
<1> QED
  BY <1>1, <1>2, <1>3, <1>4, PlainReturn DEF BcastFails, appVars

LEMMA EnqueueFailsType ==
  ASSUME TypeInv, NEW r \in Ranks, EnqueueFails(r)
  PROVE  TypeInv'
<1>1. pos[r] \in Indices /\ buf[r] \in Devices
  BY AtType DEF EnqueueFails, TypeInv, InCall, CclLabel
<1>2. faults' \in 0 .. MaxFaults
  BY FaultsType DEF TypeInv, EnqueueFails, Fails
<1>3. cur' \in [Ranks -> Devices]
  BY <1>1 DEF TypeInv, TypeOK, EnqueueFails
<1>4. Return(r, "MPI_ERR_OTHER", {}) \/ Return(r, "MPI_SUCCESS", {})
  BY DEF EnqueueFails
<1> QED
  BY <1>1, <1>2, <1>3, <1>4, PlainReturn DEF EnqueueFails

\* The k-th entries of all ranks' queues are calls of the script.
LEMMA KthCalls ==
  ASSUME NEW queue \in [Ranks -> Seq(Indices)], NEW r \in Ranks, queue[r] # <<>>,
         \A q \in Ranks : Len(queue[q]) >= Len(queue[r])
  PROVE  {<<q, queue[q][Len(queue[r])]>> : q \in Ranks} \in SUBSET (Ranks \X Indices)
<1>1. Len(queue[r]) \in Nat \ {0}
  BY EmptySeq, LenProperties
<1>2. ASSUME NEW q \in Ranks
      PROVE  queue[q][Len(queue[r])] \in Indices
  <2>1. queue[q] \in Seq(Indices) /\ Len(queue[r]) <= Len(queue[q])
    OBVIOUS
  <2>2. Len(queue[r]) \in 1 .. Len(queue[q])
    BY <1>1, <2>1, LenProperties
  <2> QED
    BY <2>1, <2>2, ElementOfSeq
<1> QED
  BY <1>2

LEMMA SynchronizeType ==
  ASSUME TypeInv, NEW r \in Ranks, Synchronize(r)
  PROVE  TypeInv'
<1> DEFINE c == CommOf(r)
           k == Len(enq[c][r])
<1>1. pos[r] \in Indices /\ c \in Comms /\ pc[r] = "sync"
  BY AtType DEF Synchronize
<1>2. enq[c] \in [Ranks -> Seq(Indices)] /\ enq[c][r] # <<>>
  BY <1>1 DEF TypeInv, TypeOK, InCall
<1>3. \A q \in Ranks : Len(enq[c][q]) >= k
  BY DEF Synchronize
<1>4. {<<q, enq[c][q][k]>> : q \in Ranks} \in SUBSET (Ranks \X Indices)
  BY <1>2, <1>3, KthCalls
<1>5. Return(r, "MPI_SUCCESS", {<<q, enq[c][q][k]>> : q \in Ranks})
  BY DEF Synchronize
<1>6. faults' \in 0 .. MaxFaults /\ cur' \in [Ranks -> Devices]
  BY DEF TypeInv, TypeOK, Synchronize, NoFault, appVars
<1>7. UNCHANGED <<script, buf, cclVars, dataVars, live>>
  BY DEF Synchronize, appVars
<1> HIDE DEF c, k
<1> QED
  BY <1>1, <1>4, <1>5, <1>6, <1>7, PlainReturn

LEMMA SynchronizeFailsType ==
  ASSUME TypeInv, NEW r \in Ranks, SynchronizeFails(r)
  PROVE  TypeInv'
<1>1. pos[r] \in Indices
  BY AtType DEF SynchronizeFails
<1>2. faults' \in 0 .. MaxFaults
  BY FaultsType DEF TypeInv, SynchronizeFails, Fails
<1>3. cur' \in [Ranks -> Devices]
  BY DEF TypeInv, TypeOK, SynchronizeFails, appVars
<1>4. Return(r, "MPI_SUCCESS", {})
  BY DEF SynchronizeFails
<1> QED
  BY <1>1, <1>2, <1>3, <1>4, PlainReturn DEF SynchronizeFails, appVars

LEMMA FinishFallbackType ==
  ASSUME TypeInv, NEW r \in Ranks, FinishFallback(r)
  PROVE  TypeInv'
<1> DEFINE c == CommOf(r)
           k == Len(fb[c][r])
<1>1. pos[r] \in Indices /\ c \in Comms /\ pc[r] = "fallback"
  BY AtType DEF FinishFallback
<1>2. fb[c] \in [Ranks -> Seq(Indices)] /\ fb[c][r] # <<>>
  BY <1>1 DEF TypeInv, TypeOK, InCall
<1>3. \A q \in Ranks : Len(fb[c][q]) >= k
  BY DEF FinishFallback
<1>4. {<<q, fb[c][q][k]>> : q \in Ranks} \in SUBSET (Ranks \X Indices)
  BY <1>2, <1>3, KthCalls
<1>5. Return(r, "MPI_SUCCESS", {<<q, fb[c][q][k]>> : q \in Ranks})
  BY DEF FinishFallback
<1>6. faults' \in 0 .. MaxFaults /\ cur' \in [Ranks -> Devices]
  BY DEF TypeInv, TypeOK, FinishFallback, NoFault, appVars
<1>7. UNCHANGED <<script, buf, cclVars, dataVars, live>>
  BY DEF FinishFallback, appVars
<1> HIDE DEF c, k
<1> QED
  BY <1>1, <1>4, <1>5, <1>6, <1>7, PlainReturn

LEMMA FreeCommType ==
  ASSUME TypeInv, NEW r \in Ranks, FreeComm(r)
  PROVE  TypeInv'
<1>1. pos[r] \in Indices /\ CommOf(r) \in Comms
  BY AtType DEF FreeComm
<1>2. Return(r, "MPI_SUCCESS", {}) /\ FlowOK'
  BY <1>1, ReturnType DEF FreeComm, TypeInv
<1>3. faults' \in 0 .. MaxFaults
  BY FaultsType DEF TypeInv, FreeComm, NoFault, Fails
<1>4. cclcomm' \in [Comms -> [Ranks -> BOOLEAN]]
  BY <1>1, CellType DEF TypeInv, TypeOK, FreeComm
<1>5. rcclcomm' \in [Comms -> [Ranks -> {"null", "live"}]]
  <2>1. rcclcomm' = [rcclcomm EXCEPT ![CommOf(r)][r] = "null"]
    BY DEF FreeComm
  <2>2. rcclcomm \in [Comms -> [Ranks -> {"null", "live"}]]
    BY DEF TypeInv, TypeOK
  <2> QED
    BY <1>1, <2>1, <2>2, CellType
<1>6. live' \in [Ranks -> HandleCount]
  <2>1. \/ live' = live
        \/ live' = [live EXCEPT ![r].comm = @ - 1]
        \/ live' = [live EXCEPT ![r] = [struct |-> @.struct - 1,
                      stream |-> @.stream - 1, comm |-> @.comm - 1]]
    BY DEF FreeComm
  <2>2. live \in [Ranks -> HandleCount]
    BY DEF TypeInv, TypeOK, HandleCount
  <2> QED
    BY <2>1, <2>2, HandleType DEF TypeInv
<1>7. TypeOK'
  BY <1>2, <1>3, <1>4, <1>5, <1>6
  DEF TypeInv, TypeOK, FlowOK, FreeComm, appVars, dataVars, HandleCount
<1> QED
  BY <1>2, <1>7, ReturnMoves DEF FreeComm, appVars, dataVars

LEMMA EnqueueType ==
  ASSUME TypeInv, NEW r \in Ranks, Enqueue(r)
  PROVE  TypeInv'
<1>1. pos[r] \in Indices /\ CommOf(r) \in Comms /\ buf[r] \in Devices
  BY AtType DEF Enqueue, TypeInv, InCall, CclLabel
<1>2. /\ enq' \in [Comms -> [Ranks -> Seq(Indices)]]
      /\ enq'[CommOf(r)][r] # <<>>
      /\ \A c \in Comms : \A q \in Ranks \ {r} : enq'[c][q] = enq[c][q]
  <2>1. enq \in [Comms -> [Ranks -> Seq(Indices)]]
    BY DEF TypeInv, TypeOK
  <2>2. enq[CommOf(r)][r] \in Seq(Indices) /\ pos[r] \in Indices
    BY <1>1, <2>1
  <2>3. Append(enq[CommOf(r)][r], pos[r]) \in Seq(Indices)
    BY <2>2
  <2>4. Append(enq[CommOf(r)][r], pos[r]) # <<>>
    BY <2>2, AppendProperties
  <2>5. enq' = [enq EXCEPT ![CommOf(r)][r] = Append(enq[CommOf(r)][r], pos[r])]
    BY DEF Enqueue
  <2> QED
    BY <1>1, <2>1, <2>3, <2>4, <2>5, CellType
<1>3. /\ FlowOK'
      /\ pos' = pos /\ pc'[r] = "sync"
      /\ \A q \in Ranks \ {r} : pc'[q] = pc[q]
  BY GotoType DEF Enqueue, PcLabel, TypeInv, TypeOK
<1>4. cur' \in [Ranks -> Devices]
  BY <1>1 DEF TypeInv, TypeOK, Enqueue
<1>5. TypeOK'
  BY <1>2, <1>3, <1>4 DEF TypeInv, TypeOK, FlowOK, Enqueue, NoFault, cclVars
<1>6. script' = script /\ buf' = buf /\ fb' = fb
  BY DEF Enqueue
<1>7. InCall(r)'
  BY <1>1, <1>2, <1>3, <1>6 DEF InCall, CommOf, This, CclLabel
<1> QED
  BY <1>2, <1>3, <1>5, <1>6, <1>7, OtherRank DEF TypeInv

LEMMA MeetType ==
  ASSUME TypeInv, NEW c \in Comms, Meet(c)
  PROVE  TypeInv'
<1> DEFINE n == bcasts[c][Root]
<1>1. n \in Nat
  BY ConstantsAssumption DEF TypeInv, TypeOK
<1>2. formed' = formed \/ formed' = [formed EXCEPT ![c] = @ \cup {n}]
  BY DEF Meet
<1>3. formed' \in [Comms -> SUBSET Nat]
  <2>1. formed \in [Comms -> SUBSET Nat]
    BY DEF TypeInv, TypeOK
  <2>2. formed[c] \cup {n} \in SUBSET Nat
    BY <1>1, <2>1
  <2> HIDE DEF n
  <2> QED
    BY <1>2, <2>1, <2>2
<1>4. pc' \in [Ranks -> {"joined", "issue"}]
  BY DEF Meet
<1>5. TypeOK'
  BY <1>3, <1>4 DEF TypeInv, TypeOK, Meet, PcLabel, appVars, cclVars, dataVars
<1>6. ASSUME NEW r \in Ranks
      PROVE  InCall(r)'
  <2>1. At(r, "initrank")
    BY DEF Meet
  <2>2. pos[r] \in Indices /\ buf[r] \in Devices
    BY <2>1, AtType DEF TypeInv, InCall, CclLabel
  <2>3. pos'[r] = pos[r] /\ buf'[r] = buf[r]
    BY DEF Meet, appVars
  <2>4. pc'[r] \in {"joined", "issue"}
    BY <1>4
  <2> QED
    BY <2>2, <2>3, <2>4 DEF InCall
<1> QED
  BY <1>5, <1>6 DEF TypeInv

-----------------------------------------------------------------------------
LEMMA TypeInvariant == Spec => []TypeInv
<1>1. Init => TypeInv
  <2> SUFFICES ASSUME Init PROVE TypeInv
    OBVIOUS
  <2>1. TypeOK
    <3>1. <<>> \in Seq(Indices)
      OBVIOUS
    <3>2. [i \in Indices |-> Pending] \in [Indices -> Outcome]
      BY DEF Pending, Outcome
    <3>3. 1 \in 1 .. NumCalls + 1 /\ 0 \in 0 .. MaxFaults
      BY ConstantsAssumption
    <3>4. /\ enq \in [Comms -> [Ranks -> Seq(Indices)]]
          /\ fb \in [Comms -> [Ranks -> Seq(Indices)]]
      BY <3>1 DEF Init
    <3>5. out \in [Ranks -> [Indices -> Outcome]]
      BY <3>2 DEF Init
    <3>6. cur \in [Ranks -> Devices]
      BY DEF Init
    <3>7. live \in [Ranks -> [struct : Int, stream : Int, comm : Int]]
      BY DEF Init
    <3>8. /\ cclcomm \in [Comms -> [Ranks -> BOOLEAN]]
          /\ rcclcomm \in [Comms -> [Ranks -> {"null", "live"}]]
          /\ bcasts \in [Comms -> [Ranks -> Nat]]
          /\ unset \in [Comms -> SUBSET Nat]
          /\ formed \in [Comms -> SUBSET Nat]
          /\ dev \in [Comms -> [Ranks -> Devices \cup {NoDevice}]]
      BY DEF Init
    <3>9. /\ script \in [Indices -> Calls]
          /\ pos \in [Ranks -> 1 .. NumCalls + 1]
          /\ pc \in [Ranks -> PcLabel]
          /\ buf \in [Ranks -> Place]
          /\ faults \in 0 .. MaxFaults /\ aborted \in BOOLEAN
      BY <3>3 DEF Init, PcLabel, Place
    <3> QED
      BY <3>4, <3>5, <3>6, <3>7, <3>8, <3>9 DEF TypeOK
  <2>2. \A r \in Ranks : pc[r] = "idle"
    BY DEF Init
  <2> QED
    BY <2>1, <2>2 DEF TypeInv, InCall, CclLabel
<1>2. TypeInv /\ [Next]_vars => TypeInv'
  <2> SUFFICES ASSUME TypeInv, [Next]_vars PROVE TypeInv'
    OBVIOUS
  <2>1. ASSUME NEW r \in Ranks, Step(r) PROVE TypeInv'
    BY <2>1, EnterFallbackType, EnterReadyType, EnterInitType, RootBcastType,
       ReceiveIdType, CreateStreamType, RefuseIdType, PublishType, EnqueueType,
       DereferenceNullType, SynchronizeType, FinishFallbackType, FreeCommType
    DEF Step
  <2>2. ASSUME NEW r \in Ranks, Failure(r) PROVE TypeInv'
    BY <2>2, EnterNoMemoryType, BcastFailsType, InitRankFailsType,
       EnqueueFailsType, SynchronizeFailsType
    DEF Failure
  <2>3. CASE UNCHANGED vars
    <3>1. TypeOK'
      BY <2>3 DEF TypeInv, TypeOK, vars
    <3> QED
      BY <2>3, <3>1, OtherRank DEF TypeInv, vars
  <2> QED
    BY <2>1, <2>2, <2>3, SelectDeviceType, MeetType DEF Next, Done
<1> QED
  BY <1>1, <1>2, PTL DEF Spec

\* No failure is undone.
LEMMA FaultsGrow ==
  ASSUME TypeInv, [Next]_vars
  PROVE  faults' = 0 => faults = 0 /\ faults' = faults
<1>1. ASSUME NEW r \in Ranks, NEW place \in Place,
             EnterFallback(r, place) \/ EnterReady(r, place) \/ EnterInit(r, place)
      PROVE  faults' = faults
  BY <1>1 DEF EnterFallback, EnterReady, EnterInit, NoFault
<1>2. ASSUME NEW r \in Ranks,
             \/ ReceiveId(r) \/ RefuseId(r) \/ Publish(r) \/ Enqueue(r)
             \/ DereferenceNull(r) \/ Synchronize(r) \/ FinishFallback(r)
      PROVE  faults' = faults
  BY <1>2 DEF ReceiveId, RefuseId, Publish, Enqueue, DereferenceNull, Synchronize,
              FinishFallback, NoFault
<1>3. ASSUME NEW r \in Ranks, RootBcast(r) \/ CreateStream(r) \/ FreeComm(r) \/ Failure(r)
      PROVE  faults' \in {faults, faults + 1}
  BY <1>3 DEF RootBcast, CreateStream, FreeComm, Failure, EnterNoMemory, BcastFails,
              InitRankFails, EnqueueFails, SynchronizeFails, NoFault, Fails
<1>4. ASSUME \/ \E r \in Ranks : \E d \in Owned[r] : SelectDevice(r, d)
             \/ \E c \in Comms : Meet(c)
             \/ UNCHANGED vars
      PROVE  faults' = faults
  BY <1>4 DEF SelectDevice, Meet, vars
<1>5. faults' \in {faults, faults + 1}
  BY <1>1, <1>2, <1>3, <1>4 DEF Next, Step, Done
<1> QED
  BY <1>5, ConstantsAssumption DEF TypeInv, TypeOK

\* Every variable stays in its range; in particular the current device is
\* always a GPU: the CCL path is not taken for a buffer on the host.
THEOREM TypeCorrect == Spec => []TypeOK
<1>1. TypeInv => TypeOK
  BY DEF TypeInv
<1> QED
  BY <1>1, TypeInvariant, PTL

-----------------------------------------------------------------------------
(***************************************************************************)
(* Id agreement.  Ids are met under in the order of their broadcasts, so a *)
(* met id is at most what any rank has received; a rank that published     *)
(* receives nothing more.                                                  *)
(***************************************************************************)
Initialising == {"bcast", "stream", "initrank", "joined"}

MetIdsReceived ==
  \A c \in Comms : \A n \in formed[c] : \A r \in Ranks : n <= bcasts[c][r]

PublishedMet ==
  \A c \in Comms : \A r \in Ranks :
    rcclcomm[c][r] = "live" => bcasts[c][r] \in formed[c]

\* What a rank in MPIR_RCCLcomm_init knows about itself.
InitialisingOK(r) ==
  /\ pc[r] \in Initialising => rcclcomm[CommOf(r)][r] = "null"
  /\ pc[r] = "joined" => bcasts[CommOf(r)][r] \in formed[CommOf(r)]

AgreeInv ==
  MetIdsReceived /\ PublishedMet /\ \A r \in Ranks : InitialisingOK(r)

LEMMA AgreeInvImplies ==
  ASSUME TypeInv, AgreeInv
  PROVE  IdAgreement
<1> SUFFICES ASSUME NEW c \in Comms, NEW r \in Ranks, NEW s \in Ranks,
                    rcclcomm[c][r] = "live", rcclcomm[c][s] = "live"
             PROVE  bcasts[c][r] = bcasts[c][s] /\ bcasts[c][r] \in formed[c]
  BY DEF IdAgreement
<1>1. bcasts[c][r] \in formed[c] /\ bcasts[c][s] \in formed[c]
  BY DEF AgreeInv, PublishedMet
<1>2. bcasts[c][r] <= bcasts[c][s] /\ bcasts[c][s] <= bcasts[c][r]
  BY <1>1 DEF AgreeInv, MetIdsReceived
<1>3. bcasts[c][r] \in Nat /\ bcasts[c][s] \in Nat
  BY DEF TypeInv, TypeOK
<1> QED
  BY <1>1, <1>2, <1>3

\* A rank that does not move, while no id of its communicator is lost.
LEMMA OtherInitialising ==
  ASSUME TypeInv, NEW q \in Ranks, InitialisingOK(q), script' = script,
         pc'[q] = pc[q], pos'[q] = pos[q],
         \A c \in Comms : /\ rcclcomm'[c][q] = rcclcomm[c][q]
                          /\ bcasts'[c][q] = bcasts[c][q]
                          /\ formed[c] \subseteq formed'[c]
  PROVE  InitialisingOK(q)'
<1>1. CASE pc[q] = "idle"
  BY <1>1 DEF InitialisingOK, Initialising
<1>2. CASE pc[q] # "idle"
  <2>1. CommOf(q) \in Comms
    BY <1>2, CommOfType DEF TypeInv, InCall
  <2>2. CommOf(q)' = CommOf(q)
    BY DEF CommOf, This
  <2> QED
    BY <2>1, <2>2 DEF InitialisingOK
<1> QED
  BY <1>1, <1>2

\* Steps of rank r that broadcast, meet and publish nothing.
LEMMA QuietStep ==
  ASSUME TypeInv, AgreeInv, NEW r \in Ranks,
         UNCHANGED <<script, bcasts, formed>>,
         \A q \in Ranks \ {r} : pc'[q] = pc[q] /\ pos'[q] = pos[q],
         \A c \in Comms : \A q \in Ranks \ {r} : rcclcomm'[c][q] = rcclcomm[c][q],
         \A c \in Comms : rcclcomm'[c][r] \in {"null", rcclcomm[c][r]},
         InitialisingOK(r)'
  PROVE  AgreeInv'
<1>1. MetIdsReceived'
  BY DEF AgreeInv, MetIdsReceived
<1>2. PublishedMet'
  BY DEF AgreeInv, PublishedMet
<1>3. \A q \in Ranks \ {r} : InitialisingOK(q)'
  BY OtherInitialising DEF AgreeInv
<1> QED
  BY <1>1, <1>2, <1>3 DEF AgreeInv

LEMMA GotoQuiet ==
  ASSUME TypeInv, AgreeInv, NEW r \in Ranks, NEW label, Goto(r, label),
         UNCHANGED <<script, bcasts, formed, rcclcomm>>,
         \/ label \notin Initialising
         \/ label = "initrank" /\ pc[r] = "stream"
         \/ label = "bcast" /\ rcclcomm[CommOf(r)][r] = "null"
  PROVE  AgreeInv'
<1>1. /\ pos' = pos /\ pc'[r] = label
      /\ \A q \in Ranks \ {r} : pc'[q] = pc[q]
  BY DEF Goto, TypeInv, TypeOK
<1>2. CommOf(r)' = CommOf(r)
  BY <1>1 DEF CommOf, This
<1>3. InitialisingOK(r)'
  BY <1>1, <1>2 DEF AgreeInv, InitialisingOK, Initialising
<1> QED
  BY <1>1, <1>3, QuietStep

LEMMA ReturnQuiet ==
  ASSUME TypeInv, AgreeInv, NEW r \in Ranks, NEW ret, NEW from, Return(r, ret, from),
         UNCHANGED <<script, bcasts, formed>>,
         \A c \in Comms : \A q \in Ranks \ {r} : rcclcomm'[c][q] = rcclcomm[c][q],
         \A c \in Comms : rcclcomm'[c][r] \in {"null", rcclcomm[c][r]}
  PROVE  AgreeInv'
<1>1. /\ pc'[r] = "idle"
      /\ \A q \in Ranks \ {r} : pc'[q] = pc[q] /\ pos'[q] = pos[q]
  BY DEF Return, TypeInv, TypeOK
<1>2. InitialisingOK(r)'
  BY <1>1 DEF InitialisingOK, Initialising
<1> QED
  BY <1>1, <1>2, QuietStep

\* A rank takes part in a broadcast: it has published nothing, so the rank's
\* own ids may grow.
LEMMA BroadcastStep ==
  ASSUME TypeInv, AgreeInv, NEW r \in Ranks, At(r, "bcast"), Goto(r, "stream"),
         bcasts' = [bcasts EXCEPT ![CommOf(r)][r] = bcasts[CommOf(r)][r] + 1],
         UNCHANGED <<script, rcclcomm, formed>>
  PROVE  AgreeInv'
<1> DEFINE c0 == CommOf(r)
<1>1. c0 \in Comms /\ rcclcomm[c0][r] = "null"
  BY AtType DEF AgreeInv, InitialisingOK, Initialising
<1>2. bcasts \in [Comms -> [Ranks -> Nat]]
  BY DEF TypeInv, TypeOK
<1>3. /\ bcasts'[c0][r] = bcasts[c0][r] + 1
      /\ \A c \in Comms : \A q \in Ranks :
           (c # c0 \/ q # r) => bcasts'[c][q] = bcasts[c][q]
  BY <1>1, <1>2
<1> HIDE DEF c0
<1>4. MetIdsReceived'
  <2> SUFFICES ASSUME NEW c \in Comms, NEW n \in formed[c], NEW q \in Ranks
               PROVE  n <= bcasts'[c][q]
    BY DEF MetIdsReceived
  <2>1. n <= bcasts[c][q] /\ n \in Nat /\ bcasts[c][q] \in Nat
    BY DEF AgreeInv, MetIdsReceived, TypeInv, TypeOK
  <2>2. bcasts'[c][q] = bcasts[c][q] \/ bcasts'[c][q] = bcasts[c][q] + 1
    BY <1>3
  <2> QED
    BY <2>1, <2>2
<1>5. PublishedMet'
  BY <1>1, <1>3 DEF AgreeInv, PublishedMet
<1>6. /\ pos' = pos /\ pc'[r] = "stream"
      /\ \A q \in Ranks \ {r} : pc'[q] = pc[q]
  BY DEF Goto, TypeInv, TypeOK
<1>7. InitialisingOK(r)'
  <2>1. CommOf(r)' = c0
    BY <1>6 DEF c0, CommOf, This
  <2> QED
    BY <1>1, <1>6, <2>1 DEF InitialisingOK
<1>8. \A q \in Ranks \ {r} : InitialisingOK(q)'
  BY <1>3, <1>6, OtherInitialising DEF AgreeInv
<1> QED
  BY <1>4, <1>5, <1>7, <1>8 DEF AgreeInv

\* All ranks meet under the id that each of them received last.
LEMMA MeetStep ==
  ASSUME TypeInv, AgreeInv, NEW c \in Comms, Meet(c)
  PROVE  AgreeInv'
<1> DEFINE n == bcasts[c][Root]
<1>1. \A r \in Ranks : At(r, "initrank") /\ CommOf(r) = c /\ bcasts[c][r] = n
  BY DEF Meet
<1>2. n \in Nat
  BY ConstantsAssumption DEF TypeInv, TypeOK
<1>3. formed \in [Comms -> SUBSET Nat]
  BY DEF TypeInv, TypeOK
<1>4. /\ UNCHANGED <<script, pos, rcclcomm, bcasts>>
      /\ \/ formed' = [formed EXCEPT ![c] = formed[c] \cup {n}] /\ n \in formed'[c]
         \/ formed' = formed /\ pc' = [r \in Ranks |-> "issue"]
  BY <1>3 DEF Meet, appVars
<1>5. \A r \in Ranks : pc'[r] \in {"joined", "issue"}
  BY DEF Meet
<1> HIDE DEF n
<1>6. /\ \A b \in Comms : formed[b] \subseteq formed'[b]
      /\ \A b \in Comms : \A m \in formed'[b] : m \in formed[b] \/ (b = c /\ m = n)
  BY <1>3, <1>4
<1>7. MetIdsReceived'
  BY <1>1, <1>2, <1>4, <1>6 DEF AgreeInv, MetIdsReceived
<1>8. PublishedMet'
  BY <1>4, <1>6 DEF AgreeInv, PublishedMet
<1>9. ASSUME NEW r \in Ranks
      PROVE  InitialisingOK(r)'
  <2>1. CommOf(r)' = c /\ rcclcomm[c][r] = "null"
    BY <1>1, <1>4, AtType DEF CommOf, This, AgreeInv, InitialisingOK, Initialising
  <2>2. pc'[r] = "joined" => n \in formed'[c]
    BY <1>4
  <2> QED
    BY <1>1, <1>4, <2>1, <2>2 DEF InitialisingOK
<1> QED
  BY <1>7, <1>8, <1>9 DEF AgreeInv

\* The pointer is stored after the meeting.
LEMMA PublishStep ==
  ASSUME TypeInv, AgreeInv, NEW r \in Ranks, Publish(r)
  PROVE  AgreeInv'
<1> DEFINE c0 == CommOf(r)
<1>1. c0 \in Comms /\ bcasts[c0][r] \in formed[c0]
  BY AtType DEF Publish, AgreeInv, InitialisingOK
<1>2. UNCHANGED <<script, bcasts, formed>>
  BY DEF Publish, appVars
<1>3. \A c \in Comms : \A q \in Ranks :
        rcclcomm'[c][q] = IF c = c0 /\ q = r THEN "live" ELSE rcclcomm[c][q]
  BY <1>1 DEF Publish, TypeInv, TypeOK
<1> HIDE DEF c0
<1>4. MetIdsReceived'
  BY <1>2 DEF AgreeInv, MetIdsReceived
<1>5. PublishedMet'
  BY <1>1, <1>2, <1>3 DEF AgreeInv, PublishedMet
<1>6. /\ pos' = pos /\ pc'[r] = "issue"
      /\ \A q \in Ranks \ {r} : pc'[q] = pc[q]
  BY DEF Publish, Goto, TypeInv, TypeOK
<1>7. InitialisingOK(r)'
  BY <1>6 DEF InitialisingOK, Initialising
<1>8. \A q \in Ranks \ {r} : InitialisingOK(q)'
  BY <1>2, <1>3, <1>6, OtherInitialising DEF AgreeInv
<1> QED
  BY <1>4, <1>5, <1>7, <1>8 DEF AgreeInv

LEMMA AgreeInvariant == Spec => []AgreeInv
<1>1. Init => AgreeInv
  BY DEF Init, AgreeInv, MetIdsReceived, PublishedMet, InitialisingOK, Initialising
<1>2. TypeInv /\ AgreeInv /\ [Next]_vars => AgreeInv'
  <2> SUFFICES ASSUME TypeInv, AgreeInv, [Next]_vars
               PROVE  AgreeInv'
    OBVIOUS
  <2>1. ASSUME NEW r \in Ranks, NEW d \in Owned[r], SelectDevice(r, d)
        PROVE  AgreeInv'
    <3>1. UNCHANGED <<script, pos, pc, bcasts, formed, rcclcomm>>
      BY <2>1 DEF SelectDevice, cclVars
    <3> QED
      BY <3>1 DEF AgreeInv, MetIdsReceived, PublishedMet, InitialisingOK, CommOf, This
  <2>2. ASSUME NEW r \in Ranks, NEW place \in Place,
               EnterFallback(r, place) \/ EnterReady(r, place) \/ EnterInit(r, place)
        PROVE  AgreeInv'
    <3>1. UNCHANGED <<script, bcasts, formed, rcclcomm>>
      BY <2>2 DEF EnterFallback, EnterReady, EnterInit, Enter, cclVars
    <3>2. \/ Goto(r, "fallback") \/ Goto(r, "issue")
          \/ Goto(r, "bcast") /\ rcclcomm[CommOf(r)][r] = "null"
      BY <2>2 DEF EnterFallback, EnterReady, EnterInit
    <3> QED
      BY <3>1, <3>2, GotoQuiet DEF Initialising
  <2>3. ASSUME NEW r \in Ranks, RootBcast(r) \/ ReceiveId(r)
        PROVE  AgreeInv'
    BY <2>3, BroadcastStep DEF RootBcast, ReceiveId, appVars
  <2>4. ASSUME NEW r \in Ranks,
               CreateStream(r) \/ RefuseId(r) \/ InitRankFails(r)
        PROVE  AgreeInv'
    <3>1. UNCHANGED <<script, bcasts, formed, rcclcomm>>
      BY <2>4 DEF CreateStream, RefuseId, InitRankFails, appVars, cclVars
    <3>2. Goto(r, "issue") \/ (Goto(r, "initrank") /\ pc[r] = "stream")
      BY <2>4 DEF CreateStream, RefuseId, InitRankFails, At
    <3> QED
      BY <3>1, <3>2, GotoQuiet DEF Initialising
  <2>5. ASSUME NEW r \in Ranks, Enqueue(r) \/ DereferenceNull(r)
        PROVE  AgreeInv'
    <3>1. UNCHANGED <<script, bcasts, formed, rcclcomm>>
      BY <2>5 DEF Enqueue, DereferenceNull, cclVars
    <3>2. Goto(r, "sync") \/ Goto(r, "crashed")
      BY <2>5 DEF Enqueue, DereferenceNull
    <3> QED
      BY <3>1, <3>2, GotoQuiet DEF Initialising
  <2>6. ASSUME NEW r \in Ranks, FreeComm(r)
        PROVE  AgreeInv'
    <3>1. UNCHANGED <<script, bcasts, formed>> /\ Return(r, "MPI_SUCCESS", {})
      BY <2>6 DEF FreeComm, appVars
    <3>2. CommOf(r) \in Comms
      BY <2>6, AtType DEF FreeComm
    <3>3. /\ \A c \in Comms : \A q \in Ranks \ {r} : rcclcomm'[c][q] = rcclcomm[c][q]
          /\ \A c \in Comms : rcclcomm'[c][r] \in {"null", rcclcomm[c][r]}
      BY <2>6, <3>2 DEF FreeComm, TypeInv, TypeOK
    <3> QED
      BY <3>1, <3>3, ReturnQuiet
  <2>7. ASSUME NEW r \in Ranks, NEW place \in Place,
               \/ EnterNoMemory(r, place) \/ BcastFails(r) \/ EnqueueFails(r)
               \/ SynchronizeFails(r) \/ Synchronize(r) \/ FinishFallback(r)
        PROVE  AgreeInv'
    <3>1. UNCHANGED <<script, bcasts, formed, rcclcomm>>
      BY <2>7 DEF EnterNoMemory, BcastFails, EnqueueFails, SynchronizeFails,
                  Synchronize, FinishFallback, Enter, appVars, cclVars
    <3>2. \E ret, from : Return(r, ret, from)
      BY <2>7 DEF EnterNoMemory, BcastFails, EnqueueFails, SynchronizeFails,
                  Synchronize, FinishFallback
    <3> QED
      BY <3>1, <3>2, ReturnQuiet
  <2>8. CASE UNCHANGED vars
    BY <2>8 DEF vars, AgreeInv, MetIdsReceived, PublishedMet, InitialisingOK, CommOf, This
  <2>9. Host \in Place
    BY DEF Place
  <2> QED
    BY <2>1, <2>2, <2>3, <2>4, <2>5, <2>6, <2>7, <2>8, <2>9, MeetStep, PublishStep
    DEF Next, Step, Failure, Done
<1> QED
  BY <1>1, <1>2, TypeInvariant, PTL DEF Spec

\* Whatever fails and is retried, two ranks that publish a library
\* communicator for one MPI communicator share its id.
THEOREM IdsAgree == Spec => []IdAgreement
<1> QED
  BY AgreeInvImplies, AgreeInvariant, TypeInvariant, PTL

-----------------------------------------------------------------------------
(***************************************************************************)
(* The structs, streams and library communicators a rank allocates and     *)
(* frees: whatever fails, what a published pointer leads to is alive; and  *)
(* where nothing fails, nothing is lost.                                   *)
(***************************************************************************)

(***************************************************************************)
(* The number of pointers a rank has published.                            *)
(***************************************************************************)
LEMMA PointersCounted ==
  ASSUME NEW r \in Ranks
  PROVE  LivePointers(r) \in Nat
<1> DEFINE P == {c \in Comms : rcclcomm[c][r] = "live"}
<1>1. IsFiniteSet(P)
  BY ConstantsAssumption, FS_Subset
<1> QED
  BY <1>1, FS_CardinalityType DEF LivePointers

LEMMA PointersSame ==
  ASSUME NEW r \in Ranks, \A c \in Comms : rcclcomm'[c][r] = rcclcomm[c][r]
  PROVE  LivePointers(r)' = LivePointers(r)
<1>1. {c \in Comms : rcclcomm'[c][r] = "live"} = {c \in Comms : rcclcomm[c][r] = "live"}
  OBVIOUS
<1> QED
  BY <1>1 DEF LivePointers

LEMMA PointerPublished ==
  ASSUME TypeOK, NEW r \in Ranks, NEW c \in Comms, rcclcomm[c][r] = "null",
         rcclcomm' = [rcclcomm EXCEPT ![c][r] = "live"]
  PROVE  LivePointers(r)' = LivePointers(r) + 1
<1> DEFINE P == {b \in Comms : rcclcomm[b][r] = "live"}
<1>1. IsFiniteSet(P)
  BY ConstantsAssumption, FS_Subset
<1>2. {b \in Comms : rcclcomm'[b][r] = "live"} = P \cup {c}
  BY DEF TypeOK
<1>3. c \notin P
  OBVIOUS
<1>4. Cardinality(P \cup {c}) = Cardinality(P) + 1
  BY <1>1, <1>3, FS_AddElement
<1> QED
  BY <1>2, <1>4 DEF LivePointers

LEMMA PointerDropped ==
  ASSUME TypeOK, NEW r \in Ranks, NEW c \in Comms, rcclcomm[c][r] = "live",
         rcclcomm' = [rcclcomm EXCEPT ![c][r] = "null"]
  PROVE  LivePointers(r)' = LivePointers(r) - 1
<1> DEFINE P == {b \in Comms : rcclcomm[b][r] = "live"}
<1>1. IsFiniteSet(P)
  BY ConstantsAssumption, FS_Subset
<1>2. {b \in Comms : rcclcomm'[b][r] = "live"} = P \ {c}
  BY DEF TypeOK
<1>3. c \in P
  OBVIOUS
<1>4. Cardinality(P \ {c}) = Cardinality(P) - 1
  BY <1>1, <1>3, FS_RemoveElement
<1> QED
  BY <1>2, <1>4 DEF LivePointers

(***************************************************************************)
(* What a rank holds, along its way through MPIR_RCCLcomm_init.            *)
(***************************************************************************)
HasStruct == {"bcast", "stream"}     \* the struct, but no stream of it yet
HasStream == {"initrank", "joined"}  \* the stream, but no communicator yet

\* Whatever has failed: enough.
Ledger(r) ==
  /\ LivePointers(r) <= live[r].comm
  /\ live[r].comm + (IF pc[r] \in HasStream THEN 1 ELSE 0) <= live[r].stream
  /\ live[r].stream + (IF pc[r] \in HasStruct THEN 1 ELSE 0) <= live[r].struct

\* Struct and stream are there and the communicator will be, or was refused.
Unpublished(r) ==
  \/ pc[r] \in HasStream
  \/ pc[r] \in {"issue", "crashed"} /\ rcclcomm[CommOf(r)][r] = "null"

\* Where nothing has failed: no more than that.
Exact(r) ==
  /\ live[r].comm = LivePointers(r)
  /\ live[r].stream = LivePointers(r) + (IF Unpublished(r) THEN 1 ELSE 0)
  /\ live[r].struct = LivePointers(r)
       + (IF Unpublished(r) \/ pc[r] \in HasStruct THEN 1 ELSE 0)

HandleInv == \A r \in Ranks : Ledger(r)
ExactInv == \A r \in Ranks : Exact(r)

\* A rank that does not move.
LEMMA OtherHandles ==
  ASSUME TypeInv, NEW q \in Ranks, script' = script, live'[q] = live[q],
         pc'[q] = pc[q], pos'[q] = pos[q],
         \A c \in Comms : rcclcomm'[c][q] = rcclcomm[c][q]
  PROVE  (Ledger(q) => Ledger(q)') /\ (Exact(q) => Exact(q)')
<1>1. LivePointers(q)' = LivePointers(q)
  BY PointersSame
<1>2. Unpublished(q)' <=> Unpublished(q)
  <2>1. CASE pc[q] = "idle"
    BY <2>1 DEF Unpublished, HasStream
  <2>2. CASE pc[q] # "idle"
    <3>1. CommOf(q) \in Comms /\ CommOf(q)' = CommOf(q)
      BY <2>2, CommOfType DEF TypeInv, InCall, CommOf, This
    <3> QED
      BY <3>1 DEF Unpublished
  <2> QED
    BY <2>1, <2>2
<1> QED
  BY <1>1, <1>2 DEF Ledger, Exact

\* What a step has to do: keep the one, and the other unless something fails.
KeepsHandles == HandleInv' /\ (ExactInv /\ faults' = faults => ExactInv')

\* A step of rank r does it if it does so for rank r.
LEMMA RankKeeps ==
  ASSUME TypeInv, HandleInv, NEW r \in Ranks, script' = script,
         \A q \in Ranks \ {r} : /\ live'[q] = live[q] /\ pc'[q] = pc[q] /\ pos'[q] = pos[q]
                                /\ \A c \in Comms : rcclcomm'[c][q] = rcclcomm[c][q],
         Ledger(r)', Exact(r) /\ faults' = faults => Exact(r)'
  PROVE  KeepsHandles
<1>1. \A q \in Ranks \ {r} : (Ledger(q) => Ledger(q)') /\ (Exact(q) => Exact(q)')
  BY OtherHandles
<1> QED
  BY <1>1 DEF KeepsHandles, HandleInv, ExactInv

\* The types the arithmetic needs.
LEMMA HandleNumbers ==
  ASSUME TypeInv, NEW r \in Ranks
  PROVE  /\ live[r].struct \in Int /\ live[r].stream \in Int /\ live[r].comm \in Int
         /\ LivePointers(r) \in Nat
         /\ live \in [Ranks -> HandleCount]
BY PointersCounted DEF TypeInv, TypeOK, HandleCount

\* A step within a call that allocates, frees and publishes nothing.
LEMMA GotoHandles ==
  ASSUME TypeInv, HandleInv, NEW r \in Ranks, NEW label, Goto(r, label),
         UNCHANGED <<script, live, rcclcomm>>,
         label \notin HasStream, label \in HasStruct => pc[r] \in HasStruct,
         faults' = faults => /\ Unpublished(r)' <=> Unpublished(r)
                             /\ label \in HasStruct <=> pc[r] \in HasStruct
  PROVE  KeepsHandles
<1>1. /\ UNCHANGED pos /\ pc'[r] = label
      /\ \A q \in Ranks \ {r} : pc'[q] = pc[q]
  BY DEF Goto, TypeInv, TypeOK
<1>2. LivePointers(r)' = LivePointers(r)
  BY PointersSame
<1>3. Ledger(r)'
  BY <1>1, <1>2, HandleNumbers DEF HandleInv, Ledger, HasStruct, HasStream
<1>4. Exact(r) /\ faults' = faults => Exact(r)'
  BY <1>1, <1>2 DEF Exact
<1> QED
  BY <1>1, <1>3, <1>4, RankKeeps

\* A return that frees nothing.
LEMMA ReturnHandles ==
  ASSUME TypeInv, HandleInv, NEW r \in Ranks, NEW ret, NEW from, Return(r, ret, from),
         UNCHANGED <<script, live, rcclcomm>>,
         faults' = faults => ~Unpublished(r) /\ pc[r] \notin HasStruct
  PROVE  KeepsHandles
<1>1. /\ pc'[r] = "idle"
      /\ \A q \in Ranks \ {r} : pc'[q] = pc[q] /\ pos'[q] = pos[q]
  BY DEF Return, TypeInv, TypeOK
<1>2. LivePointers(r)' = LivePointers(r)
  BY PointersSame
<1>3. Ledger(r)'
  BY <1>1, <1>2, HandleNumbers DEF HandleInv, Ledger, HasStruct, HasStream
<1>4. Exact(r) /\ faults' = faults => Exact(r)'
  BY <1>1, <1>2 DEF Exact, Unpublished, HasStruct, HasStream
<1> QED
  BY <1>1, <1>3, <1>4, RankKeeps

-----------------------------------------------------------------------------
(***************************************************************************)
(* The steps that allocate and free.                                       *)
(***************************************************************************)
LEMMA EnterInitHandles ==
  ASSUME TypeInv, HandleInv, NEW r \in Ranks, NEW place \in Place, EnterInit(r, place)
  PROVE  KeepsHandles
<1>1. /\ UNCHANGED <<script, pos, rcclcomm>> /\ pc[r] = "idle" /\ pc'[r] = "bcast"
      /\ \A q \in Ranks \ {r} : pc'[q] = pc[q]
  BY DEF EnterInit, Enter, At, Goto, TypeInv, TypeOK
<1>2. /\ live'[r].struct = live[r].struct + 1
      /\ live'[r].stream = live[r].stream /\ live'[r].comm = live[r].comm
      /\ \A q \in Ranks \ {r} : live'[q] = live[q]
  BY HandleNumbers DEF EnterInit, HandleCount
<1>3. LivePointers(r)' = LivePointers(r)
  BY <1>1, PointersSame
<1>4. Ledger(r)'
  BY <1>1, <1>2, <1>3, HandleNumbers DEF HandleInv, Ledger, HasStruct, HasStream
<1>5. Exact(r) => Exact(r)'
  BY <1>1, <1>2, <1>3, HandleNumbers DEF Exact, Unpublished, HasStruct, HasStream
<1> QED
  BY <1>1, <1>2, <1>4, <1>5, RankKeeps

LEMMA CreateStreamHandles ==
  ASSUME TypeInv, HandleInv, NEW r \in Ranks, CreateStream(r)
  PROVE  KeepsHandles
<1>0. faults \in Nat /\ faults # faults + 1
  BY ConstantsAssumption DEF TypeInv, TypeOK
<1>1. UNCHANGED <<script, rcclcomm>> /\ pc[r] = "stream"
  BY DEF CreateStream, At, appVars
<1>2. CASE Fails("stream") /\ Goto(r, "issue") /\ UNCHANGED live
  BY <1>0, <1>1, <1>2, GotoHandles DEF Fails, HasStruct, HasStream
<1>3. CASE Goto(r, "initrank") /\ live' = [live EXCEPT ![r].stream = @ + 1]
  <2>1. /\ UNCHANGED pos /\ pc'[r] = "initrank"
        /\ \A q \in Ranks \ {r} : pc'[q] = pc[q]
    BY <1>3 DEF Goto, TypeInv, TypeOK
  <2>2. /\ live'[r].stream = live[r].stream + 1
        /\ live'[r].struct = live[r].struct /\ live'[r].comm = live[r].comm
        /\ \A q \in Ranks \ {r} : live'[q] = live[q]
    BY <1>3, HandleNumbers DEF HandleCount
  <2>3. LivePointers(r)' = LivePointers(r)
    BY <1>1, PointersSame
  <2>4. Ledger(r)'
    BY <1>1, <2>1, <2>2, <2>3, HandleNumbers DEF HandleInv, Ledger, HasStruct, HasStream
  <2>5. Exact(r) => Exact(r)'
    BY <1>1, <2>1, <2>2, <2>3, HandleNumbers DEF Exact, Unpublished, HasStruct, HasStream
  <2> QED
    BY <1>1, <2>1, <2>2, <2>4, <2>5, RankKeeps
<1> QED
  BY <1>2, <1>3 DEF CreateStream

LEMMA PublishHandles ==
  ASSUME TypeInv, AgreeInv, HandleInv, NEW r \in Ranks, Publish(r)
  PROVE  KeepsHandles
<1>1. /\ UNCHANGED <<script, pos>> /\ pc[r] = "joined" /\ pc'[r] = "issue"
      /\ \A q \in Ranks \ {r} : pc'[q] = pc[q]
      /\ CommOf(r) \in Comms
  BY AtType DEF Publish, At, Goto, TypeInv, TypeOK, appVars
<1>2. PICK c \in Comms : c = CommOf(r)
  BY <1>1
<1>3. rcclcomm[c][r] = "null"
  BY <1>1, <1>2 DEF AgreeInv, InitialisingOK, Initialising
<1>4. rcclcomm' = [rcclcomm EXCEPT ![c][r] = "live"]
  BY <1>2 DEF Publish
<1>5. /\ live'[r].comm = live[r].comm + 1
      /\ live'[r].struct = live[r].struct /\ live'[r].stream = live[r].stream
      /\ \A q \in Ranks \ {r} : live'[q] = live[q]
  BY HandleNumbers DEF Publish, HandleCount
<1>6. LivePointers(r)' = LivePointers(r) + 1
  BY <1>3, <1>4, PointerPublished DEF TypeInv
<1>7. Ledger(r)'
  BY <1>1, <1>5, <1>6, HandleNumbers DEF HandleInv, Ledger, HasStruct, HasStream
<1>8. ~Unpublished(r)'
  <2>1. rcclcomm'[c][r] = "live"
    BY <1>4 DEF TypeInv, TypeOK
  <2>2. CommOf(r)' = c
    BY <1>1, <1>2 DEF CommOf, This
  <2> QED
    BY <1>1, <2>1, <2>2 DEF Unpublished, HasStream
<1>9. Exact(r) => Exact(r)'
  BY <1>1, <1>5, <1>6, <1>8, HandleNumbers DEF Exact, Unpublished, HasStruct, HasStream
<1>10. \A b \in Comms : \A q \in Ranks \ {r} : rcclcomm'[b][q] = rcclcomm[b][q]
  BY <1>4 DEF TypeInv, TypeOK
<1> QED
  BY <1>1, <1>5, <1>7, <1>9, <1>10, RankKeeps

LEMMA FreeCommHandles ==
  ASSUME TypeInv, HandleInv, NEW r \in Ranks, FreeComm(r)
  PROVE  KeepsHandles
<1>0. faults \in Nat /\ faults # faults + 1
  BY ConstantsAssumption DEF TypeInv, TypeOK
<1>1. /\ script' = script /\ pc[r] = "idle" /\ pc'[r] = "idle"
      /\ \A q \in Ranks \ {r} : pc'[q] = pc[q] /\ pos'[q] = pos[q]
      /\ CommOf(r) \in Comms
  BY AtType DEF FreeComm, At, Return, TypeInv, TypeOK, appVars
<1>2. PICK c \in Comms : c = CommOf(r)
  BY <1>1
<1>3. rcclcomm' = [rcclcomm EXCEPT ![c][r] = "null"]
  BY <1>2 DEF FreeComm
<1>4. \A b \in Comms : \A q \in Ranks \ {r} : rcclcomm'[b][q] = rcclcomm[b][q]
  BY <1>3 DEF TypeInv, TypeOK
<1>5. CASE rcclcomm[c][r] = "null"
  <2>1. live' = live
    BY <1>2, <1>5 DEF FreeComm
  <2>2. \A b \in Comms : rcclcomm'[b][r] = rcclcomm[b][r]
    BY <1>3, <1>5 DEF TypeInv, TypeOK
  <2>3. LivePointers(r)' = LivePointers(r)
    BY <2>2, PointersSame
  <2>4. Ledger(r)'
    BY <1>1, <2>1, <2>3 DEF HandleInv, Ledger
  <2>5. Exact(r) => Exact(r)'
    BY <1>1, <2>1, <2>3 DEF Exact, Unpublished, HasStream
  <2> QED
    BY <1>1, <1>4, <2>1, <2>4, <2>5, RankKeeps
<1>6. CASE rcclcomm[c][r] = "live"
  <2>1. LivePointers(r)' = LivePointers(r) - 1
    BY <1>3, <1>6, PointerDropped DEF TypeInv
  <2>2. \/ /\ live'[r].struct = live[r].struct - 1
           /\ live'[r].stream = live[r].stream - 1
           /\ live'[r].comm = live[r].comm - 1
        \/ faults' # faults /\ live'[r] = live[r]
        \/ /\ faults' # faults
           /\ live'[r].struct = live[r].struct /\ live'[r].stream = live[r].stream
           /\ live'[r].comm = live[r].comm - 1
    BY <1>0, <1>2, <1>6, HandleNumbers DEF FreeComm, Fails, HandleCount
  <2>3. \A q \in Ranks \ {r} : live'[q] = live[q]
    BY HandleNumbers DEF FreeComm
  <2>4. Ledger(r)'
    BY <1>1, <2>1, <2>2, HandleNumbers DEF HandleInv, Ledger, HasStruct, HasStream
  <2>5. Exact(r) /\ faults' = faults => Exact(r)'
    BY <1>1, <2>1, <2>2, HandleNumbers DEF Exact, Unpublished, HasStruct, HasStream
  <2> QED
    BY <1>1, <1>4, <2>3, <2>4, <2>5, RankKeeps
<1> QED
  BY <1>5, <1>6 DEF TypeInv, TypeOK

\* All ranks move at once.
LEMMA MeetHandles ==
  ASSUME TypeInv, AgreeInv, HandleInv, NEW c \in Comms, Meet(c)
  PROVE  KeepsHandles
<1>1. UNCHANGED <<script, pos, rcclcomm, live>>
  BY DEF Meet, appVars
<1>2. ASSUME NEW r \in Ranks
      PROVE  Ledger(r)' /\ (Exact(r) => Exact(r)')
  <2>1. pc[r] = "initrank" /\ pc'[r] \in {"joined", "issue"}
    BY DEF Meet, At
  <2>2. LivePointers(r)' = LivePointers(r)
    BY <1>1, PointersSame
  <2>3. rcclcomm[CommOf(r)][r] = "null" /\ CommOf(r)' = CommOf(r)
    BY <1>1, <2>1 DEF AgreeInv, InitialisingOK, Initialising, CommOf, This
  <2>4. Unpublished(r) /\ Unpublished(r)'
    BY <1>1, <2>1, <2>3 DEF Unpublished, HasStream
  <2>5. Ledger(r)'
    BY <1>1, <2>1, <2>2, HandleNumbers DEF HandleInv, Ledger, HasStruct, HasStream
  <2>6. Exact(r) => Exact(r)'
    BY <1>1, <2>1, <2>2, <2>4 DEF Exact
  <2> QED
    BY <2>5, <2>6
<1> QED
  BY <1>2 DEF KeepsHandles, HandleInv, ExactInv

LEMMA HandleStep ==
  ASSUME TypeInv, AgreeInv, HandleInv, [Next]_vars
  PROVE  KeepsHandles
<1>0. faults \in Nat /\ faults # faults + 1
  BY ConstantsAssumption DEF TypeInv, TypeOK
<1>1. ASSUME \/ \E r \in Ranks : \E d \in Owned[r] : SelectDevice(r, d)
             \/ UNCHANGED vars
      PROVE  KeepsHandles
  <2>1. UNCHANGED <<script, pc, pos, rcclcomm, live>>
    BY <1>1 DEF SelectDevice, vars, cclVars
  <2>2. \A q \in Ranks : (Ledger(q) => Ledger(q)') /\ (Exact(q) => Exact(q)')
    BY <2>1, OtherHandles
  <2> QED
    BY <2>2 DEF KeepsHandles, HandleInv, ExactInv
<1>2. ASSUME NEW r \in Ranks, NEW place \in Place, EnterFallback(r, place) \/ EnterReady(r, place)
      PROVE  KeepsHandles
  <2>1. /\ UNCHANGED <<script, pos, live, rcclcomm>> /\ pc[r] = "idle"
        /\ \/ Goto(r, "fallback")
           \/ Goto(r, "issue") /\ rcclcomm[CommOf(r)][r] # "null"
    BY <1>2 DEF EnterFallback, EnterReady, Enter, At, Goto, cclVars
  <2>2. pc'[r] \in {"fallback", "issue"}
    BY <2>1 DEF Goto, TypeInv, TypeOK
  <2>3. ~Unpublished(r) /\ ~Unpublished(r)'
    BY <2>1, <2>2 DEF Unpublished, HasStream, CommOf, This, Goto, TypeInv, TypeOK
  <2> QED
    BY <2>1, <2>3, GotoHandles DEF HasStruct, HasStream
<1>3. ASSUME NEW r \in Ranks, RootBcast(r) \/ ReceiveId(r)
      PROVE  KeepsHandles
  <2>1. /\ UNCHANGED <<script, live, rcclcomm>> /\ pc[r] = "bcast" /\ Goto(r, "stream")
    BY <1>3 DEF RootBcast, ReceiveId, At, appVars
  <2>2. pc'[r] = "stream"
    BY <2>1 DEF Goto, TypeInv, TypeOK
  <2> QED
    BY <2>1, <2>2, GotoHandles DEF Unpublished, HasStruct, HasStream
<1>4. ASSUME NEW r \in Ranks, InitRankFails(r)
      PROVE  KeepsHandles
  <2>1. /\ UNCHANGED <<script, live, rcclcomm>> /\ Goto(r, "issue") /\ faults' # faults
    BY <1>0, <1>4 DEF InitRankFails, Fails, appVars, cclVars
  <2> QED
    BY <2>1, GotoHandles DEF HasStruct, HasStream
<1>5. ASSUME NEW r \in Ranks, RefuseId(r) \/ DereferenceNull(r)
      PROVE  KeepsHandles
  <2>1. /\ UNCHANGED <<script, pos, live, rcclcomm>>
        /\ \/ pc[r] = "initrank" /\ Goto(r, "issue")
           \/ /\ pc[r] = "issue" /\ Goto(r, "crashed")
              /\ rcclcomm[CommOf(r)][r] = "null"
    BY <1>5 DEF RefuseId, DereferenceNull, At, Goto, appVars, cclVars
  <2>2. rcclcomm[CommOf(r)][r] = "null" /\ CommOf(r)' = CommOf(r)
    BY <2>1 DEF AgreeInv, InitialisingOK, Initialising, CommOf, This
  <2>3. pc'[r] \in {"issue", "crashed"}
    BY <2>1 DEF Goto, TypeInv, TypeOK
  <2>4. Unpublished(r) /\ Unpublished(r)'
    BY <2>1, <2>2, <2>3 DEF Unpublished, HasStream
  <2> QED
    BY <2>1, <2>4, GotoHandles DEF HasStruct, HasStream
<1>6. ASSUME NEW r \in Ranks, Enqueue(r)
      PROVE  KeepsHandles
  <2>1. /\ UNCHANGED <<script, live, rcclcomm>> /\ pc[r] = "issue" /\ Goto(r, "sync")
        /\ rcclcomm[CommOf(r)][r] = "live"
    BY <1>6 DEF Enqueue, At, cclVars
  <2>2. pc'[r] = "sync"
    BY <2>1 DEF Goto, TypeInv, TypeOK
  <2>3. ~Unpublished(r) /\ ~Unpublished(r)'
    BY <2>1, <2>2 DEF Unpublished, HasStream
  <2> QED
    BY <2>1, <2>3, GotoHandles DEF HasStruct, HasStream
<1>7. ASSUME NEW r \in Ranks, NEW place \in Place,
             \/ EnterNoMemory(r, place) \/ BcastFails(r) \/ EnqueueFails(r)
             \/ SynchronizeFails(r) \/ Synchronize(r) \/ FinishFallback(r)
      PROVE  KeepsHandles
  <2>1. /\ UNCHANGED <<script, live, rcclcomm>>
        /\ \E ret, from : Return(r, ret, from)
    BY <1>7 DEF EnterNoMemory, BcastFails, EnqueueFails, SynchronizeFails, Synchronize,
                FinishFallback, Enter, appVars, cclVars
  <2>2. faults' = faults => pc[r] \in {"sync", "fallback"}
    BY <1>0, <1>7 DEF EnterNoMemory, BcastFails, EnqueueFails, SynchronizeFails,
                      Synchronize, FinishFallback, Fails, At
  <2> QED
    BY <2>1, <2>2, ReturnHandles DEF Unpublished, HasStruct, HasStream
<1>8. Host \in Place
  BY DEF Place
<1> QED
  BY <1>1, <1>2, <1>3, <1>4, <1>5, <1>6, <1>7, <1>8, EnterInitHandles, CreateStreamHandles,
     PublishHandles, FreeCommHandles, MeetHandles DEF Next, Step, Failure, Done

-----------------------------------------------------------------------------
LEMMA HandleInit == Init => HandleInv /\ ExactInv
<1> SUFFICES ASSUME Init, NEW r \in Ranks
             PROVE  Ledger(r) /\ Exact(r)
  BY DEF HandleInv, ExactInv
<1>1. {c \in Comms : rcclcomm[c][r] = "live"} = {}
  BY DEF Init
<1>2. LivePointers(r) = 0
  BY <1>1, FS_EmptySet DEF LivePointers
<1> QED
  BY <1>2 DEF Init, Ledger, Exact, Unpublished, HasStruct, HasStream

LEMMA HandleInvariant == Spec => []HandleInv
<1>1. TypeInv /\ AgreeInv /\ HandleInv /\ [Next]_vars => HandleInv'
  BY HandleStep DEF KeepsHandles
<1> QED
  BY <1>1, HandleInit, TypeInvariant, AgreeInvariant, PTL DEF Spec

\* Whatever fails, and however often initialisation is retried: a published
\* pointer leads to a struct, a stream and a communicator that are alive.
THEOREM NoneDangles == Spec => []NothingDangles
<1>1. TypeInv /\ HandleInv => NothingDangles
  <2> SUFFICES ASSUME TypeInv, HandleInv, NEW r \in Ranks
               PROVE  /\ LivePointers(r) <= live[r].comm
                      /\ live[r].comm <= live[r].stream
                      /\ live[r].stream <= live[r].struct
    BY DEF NothingDangles
  <2> QED
    BY HandleNumbers DEF HandleInv, Ledger
<1> QED
  BY <1>1, TypeInvariant, HandleInvariant, PTL

\* Where nothing has failed, a rank holds, between two calls, what its
\* published pointers lead to and nothing else.
THEOREM NoneLeaks == Spec => [](faults = 0 => NothingLeaked)
<1>1. TypeInv /\ AgreeInv /\ HandleInv /\ (faults = 0 => ExactInv) /\ [Next]_vars
        => (faults = 0 => ExactInv)'
  BY HandleStep, FaultsGrow DEF KeepsHandles
<1>2. TypeInv /\ ExactInv => NothingLeaked
  <2> SUFFICES ASSUME TypeInv, ExactInv, NEW r \in Ranks, pc[r] = "idle"
               PROVE  live[r] = [struct |-> LivePointers(r), stream |-> LivePointers(r),
                                 comm |-> LivePointers(r)]
    BY DEF NothingLeaked
  <2>1. /\ live[r].comm = LivePointers(r) /\ live[r].stream = LivePointers(r)
        /\ live[r].struct = LivePointers(r)
    BY HandleNumbers DEF ExactInv, Exact, Unpublished, HasStruct, HasStream
  <2>2. live[r] \in HandleCount
    BY HandleNumbers
  <2> QED
    BY <2>1, <2>2 DEF HandleCount
<1> QED
  BY <1>1, <1>2, HandleInit, TypeInvariant, AgreeInvariant, HandleInvariant, PTL DEF Spec

-----------------------------------------------------------------------------
(***************************************************************************)
(* As long as nothing fails, the reductions pair the right calls: the k-th *)
(* operation of every rank on a stream, or in the fallback of a            *)
(* communicator, comes from one call of the script, wherever the ranks     *)
(* have their buffers and whichever path they choose.  Hence success means *)
(* reduced, and the backend implements BlockingAllreduce.                  *)
(***************************************************************************)

(***************************************************************************)
(* Which calls a rank can be inside of.                                    *)
(***************************************************************************)
CallInv ==
  \A r \in Ranks :
    /\ pc[r] # "idle" => This(r).kind = "allreduce"
    /\ pc[r] \in CclLabel => Convertible(This(r))

\* The places within a call.
Inside == PcLabel \ {"idle"}

\* A step of rank r within its call.
LEMMA GotoKeepsCall ==
  ASSUME TypeInv, CallInv, NEW r \in Ranks, NEW label, Goto(r, label), script' = script,
         \/ pc[r] \in CclLabel
         \/ label \in CclLabel /\ This(r).kind = "allreduce" /\ Convertible(This(r))
         \/ label \notin CclLabel /\ This(r).kind = "allreduce"
  PROVE  CallInv'
<1>1. /\ pos' = pos /\ pc'[r] = label
      /\ \A q \in Ranks \ {r} : pc'[q] = pc[q]
  BY DEF Goto, TypeInv, TypeOK
<1>2. \A q : This(q)' = This(q)
  BY <1>1 DEF This
<1> QED
  BY <1>1, <1>2 DEF CallInv, CclLabel, Convertible

LEMMA ReturnKeepsCall ==
  ASSUME TypeInv, CallInv, NEW r \in Ranks, NEW ret, NEW from, Return(r, ret, from),
         script' = script
  PROVE  CallInv'
<1>1. /\ pc'[r] = "idle"
      /\ \A q \in Ranks \ {r} : pc'[q] = pc[q] /\ pos'[q] = pos[q]
  BY DEF Return, TypeInv, TypeOK
<1>2. \A q \in Ranks \ {r} : This(q)' = This(q)
  BY <1>1 DEF This
<1> QED
  BY <1>1, <1>2 DEF CallInv, CclLabel, Convertible

LEMMA CallStep ==
  ASSUME TypeInv, CallInv, [Next]_vars
  PROVE  CallInv'
<1>1. ASSUME NEW r \in Ranks, NEW d \in Owned[r], SelectDevice(r, d)
      PROVE  CallInv'
  BY <1>1 DEF SelectDevice, CallInv, This, Convertible
<1>2. ASSUME NEW r \in Ranks, NEW place \in Place,
             EnterFallback(r, place) \/ EnterReady(r, place) \/ EnterInit(r, place)
      PROVE  CallInv'
  <2>1. script' = script /\ This(r).kind = "allreduce"
    BY <1>2 DEF EnterFallback, EnterReady, EnterInit, Enter
  <2>2. \/ Goto(r, "fallback")
        \/ (Goto(r, "issue") \/ Goto(r, "bcast")) /\ UseCcl(This(r), place)
    BY <1>2 DEF EnterFallback, EnterReady, EnterInit, Enter
  <2>3. UseCcl(This(r), place) => Convertible(This(r))
    BY DEF UseCcl, CheckRequirements, SupportedOps, SupportedDatatypes,
           Convertible, RedOp, Datatype
  <2> QED
    BY <2>1, <2>2, <2>3, GotoKeepsCall DEF CclLabel
<1>3. ASSUME NEW r \in Ranks,
             \/ RootBcast(r) \/ ReceiveId(r) \/ CreateStream(r) \/ RefuseId(r)
             \/ Publish(r) \/ Enqueue(r) \/ DereferenceNull(r) \/ InitRankFails(r)
      PROVE  CallInv'
  <2>1. script' = script /\ pc[r] \in CclLabel
    BY <1>3 DEF RootBcast, ReceiveId, CreateStream, RefuseId, Publish, Enqueue,
                DereferenceNull, InitRankFails, appVars, At, CclLabel
  <2>2. \E label : Goto(r, label)
    BY <1>3 DEF RootBcast, ReceiveId, CreateStream, RefuseId, Publish, Enqueue,
                DereferenceNull, InitRankFails
  <2> QED
    BY <2>1, <2>2, GotoKeepsCall
<1>4. ASSUME NEW r \in Ranks, NEW place \in Place,
             \/ EnterNoMemory(r, place) \/ BcastFails(r) \/ EnqueueFails(r)
             \/ SynchronizeFails(r) \/ Synchronize(r) \/ FinishFallback(r) \/ FreeComm(r)
      PROVE  CallInv'
  <2>1. script' = script
    BY <1>4 DEF EnterNoMemory, BcastFails, EnqueueFails, SynchronizeFails,
                Synchronize, FinishFallback, FreeComm, Enter, appVars
  <2>2. \E ret, from : Return(r, ret, from)
    BY <1>4 DEF EnterNoMemory, BcastFails, EnqueueFails, SynchronizeFails,
                Synchronize, FinishFallback, FreeComm
  <2> QED
    BY <2>1, <2>2, ReturnKeepsCall
<1>5. ASSUME NEW c \in Comms, Meet(c)
      PROVE  CallInv'
  <2>1. UNCHANGED <<script, pos>> /\ \A r \in Ranks : pc[r] = "initrank"
    BY <1>5 DEF Meet, appVars, At
  <2> QED
    BY <2>1 DEF CallInv, This, CclLabel, Convertible
<1>6. CASE UNCHANGED vars
  BY <1>6 DEF vars, CallInv, This, Convertible
<1>7. Host \in Place
  BY DEF Place
<1> QED
  BY <1>1, <1>2, <1>3, <1>4, <1>5, <1>6, <1>7 DEF Next, Step, Failure, Done

LEMMA CallInvariant == Spec => []CallInv
<1>1. Init => CallInv
  BY DEF Init, CallInv, CclLabel
<1> QED
  BY <1>1, CallStep, TypeInvariant, PTL DEF Spec

\* Whatever CheckRequirements lets through, the conversions of the operation
\* and the datatype know: the CCL path never ends in MPI_ERR_ARG.
THEOREM ChecksAreConverted == Spec => []ChecksConvert
<1>1. TypeInv /\ CallInv => ChecksConvert
  BY DEF TypeInv, TypeOK, CallInv, ChecksConvert, CclLabel, PcLabel
<1> QED
  BY <1>1, CallInvariant, TypeInvariant, PTL

-----------------------------------------------------------------------------
(***************************************************************************)
(* Histories of operations.                                                *)
(***************************************************************************)
Took(s, i) == \E k \in DOMAIN s : s[k] = i
Distinct(s) == \A k, m \in DOMAIN s : s[k] = s[m] => k = m
Agree(s, t) == \A k \in DOMAIN s \cap DOMAIN t : s[k] = t[k]

LEMMA AppendTakes ==
  ASSUME NEW S, NEW s \in Seq(S), NEW i \in S
  PROVE  /\ \A j \in S : Took(Append(s, i), j) <=> Took(s, j) \/ j = i
         /\ Distinct(s) /\ ~Took(s, i) => Distinct(Append(s, i))
         /\ Append(s, i)[Len(Append(s, i))] = i
<1>1. /\ Len(s) \in Nat /\ DOMAIN s = 1 .. Len(s)
      /\ DOMAIN Append(s, i) = 1 .. Len(s) + 1
      /\ Len(Append(s, i)) = Len(s) + 1
      /\ \A k \in 1 .. Len(s) : Append(s, i)[k] = s[k]
      /\ Append(s, i)[Len(s) + 1] = i
  OBVIOUS
<1> QED
  BY <1>1 DEF Took, Distinct

\* One history grows by a call; another that has no call the first one lacks,
\* except this one, still agrees with it.
LEMMA AppendAgrees ==
  ASSUME NEW S, NEW s \in Seq(S), NEW t \in Seq(S), NEW i \in S,
         Agree(s, t), Distinct(t),
         \A j \in S : Took(t, j) /\ j # i => Took(s, j)
  PROVE  Agree(Append(s, i), t)
<1> SUFFICES ASSUME NEW k \in DOMAIN Append(s, i) \cap DOMAIN t
             PROVE  Append(s, i)[k] = t[k]
  BY DEF Agree
<1>1. /\ Len(s) \in Nat /\ DOMAIN s = 1 .. Len(s)
      /\ Len(t) \in Nat /\ DOMAIN t = 1 .. Len(t)
      /\ k \in 1 .. Len(s) + 1
      /\ k \in 1 .. Len(s) => Append(s, i)[k] = s[k]
      /\ k = Len(s) + 1 => Append(s, i)[k] = i
      /\ t[k] \in S
  OBVIOUS
<1>2. CASE k \in 1 .. Len(s)
  BY <1>1, <1>2 DEF Agree
<1>3. CASE k = Len(s) + 1 /\ t[k] # i
  <2>1. PICK m \in 1 .. Len(s) : s[m] = t[k]
    BY <1>1, <1>3 DEF Took
  <2>2. m \in DOMAIN t /\ m # k
    BY <1>1, <1>3
  <2>3. t[m] = t[k]
    BY <1>1, <2>1, <2>2 DEF Agree
  <2> QED
    BY <2>2, <2>3 DEF Distinct
<1> QED
  BY <1>1, <1>2, <1>3

(***************************************************************************)
(* The invariant, for the streams (enq, "sync") and the fallback (fb,      *)
(* "fallback") alike.                                                      *)
(***************************************************************************)

\* A history s on communicator c of a rank in call p at label l: reductions
\* of the script on that communicator, each once, none ahead of the rank; at
\* `label` the rank waits for the last of them, which is its call.
History(calls, s, c, p, l, label) ==
  /\ Distinct(s)
  /\ \A i \in Indices :
       Took(s, i) => /\ calls[i].kind = "allreduce" /\ calls[i].comm = c
                     /\ i < p \/ (i = p /\ l = label)
  /\ l = label /\ calls[p].comm = c => s[Len(s)] = p

\* All histories in a table, of ranks in the calls p at the labels l.
Paired(calls, table, p, l, label) ==
  \A c \in Comms : \A r \in Ranks :
    /\ History(calls, table[c][r], c, p[r], l[r], label)
    /\ \A q \in Ranks : Agree(table[c][q], table[c][r])

\* Rank r takes call i on communicator c; no other rank has taken a different
\* call that it lacks.
Grows(table, next, c, r, i) ==
  /\ next[c][r] = Append(table[c][r], i)
  /\ \A b \in Comms : \A q \in Ranks : b # c \/ q # r => next[b][q] = table[b][q]
Lacks(table, c, r, i) ==
  /\ ~Took(table[c][r], i)
  /\ \A q \in Ranks : \A j \in Indices \ {i} :
       Took(table[c][q], j) => Took(table[c][r], j)
Gains(table, next, c, r, i) ==
  \A b \in Comms : \A q \in Ranks : \A j \in Indices :
    Took(next[b][q], j) <=> Took(table[b][q], j) \/ (b = c /\ q = r /\ j = i)

Exclusive ==
  \A c \in Comms : \A r \in Ranks : \A i \in Indices :
    ~(Took(enq[c][r], i) /\ Took(fb[c][r], i))

\* Whoever is through with a reduction knows that all ranks have come to it,
\* by the same path.
AllTook(table, i) == \A q \in Ranks : Took(table[script[i].comm][q], i)
Completed ==
  \A r \in Ranks : \A i \in Indices :
    i < pos[r] /\ script[i].kind = "allreduce" => AllTook(enq, i) \/ AllTook(fb, i)

Contributions(i) == IF script[i].kind = "allreduce" THEN Ranks \X {i} ELSE {}
Results ==
  \A r \in Ranks : \A i \in Indices :
    out[r][i] = IF i < pos[r] THEN [ret |-> "MPI_SUCCESS", from |-> Contributions(i)]
                ELSE Pending

PairInv ==
  /\ Paired(script, enq, pos, pc, "sync")
  /\ Paired(script, fb, pos, pc, "fallback")
  /\ Exclusive
  /\ Completed
  /\ Results

LEMMA CommType ==
  ASSUME TypeOK, NEW i \in Indices
  PROVE  script[i].comm \in Comms
BY ConstantsAssumption DEF TypeOK, Call

\* Steps that take no operation and finish no call.
LEMMA QuietPairs ==
  ASSUME PairInv, UNCHANGED <<script, pos, enq, fb, out>>,
         \A r \in Ranks : \/ pc'[r] = pc[r]
                          \/ /\ pc[r] \notin {"sync", "fallback"}
                             /\ pc'[r] \notin {"sync", "fallback"}
  PROVE  PairInv'
<1>1. Paired(script, enq, pos, pc, "sync")'
  BY DEF PairInv, Paired, History
<1>2. Paired(script, fb, pos, pc, "fallback")'
  BY DEF PairInv, Paired, History
<1> QED
  BY <1>1, <1>2 DEF PairInv, Exclusive, Completed, AllTook, Results, Contributions, Pending

LEMMA GotoPairs ==
  ASSUME TypeInv, PairInv, NEW r \in Ranks, NEW label, Goto(r, label),
         label \notin {"sync", "fallback"}, pc[r] \notin {"sync", "fallback"},
         UNCHANGED <<script, enq, fb>>
  PROVE  PairInv'
<1>1. /\ UNCHANGED <<pos, out>> /\ pc'[r] = label
      /\ \A q \in Ranks \ {r} : pc'[q] = pc[q]
  BY DEF Goto, TypeInv, TypeOK
<1> QED
  BY <1>1, QuietPairs

\* The histories of a rank that takes the call it is in: no other rank has a
\* call in its history that this rank lacks.
LEMMA NothingMissed ==
  ASSUME TypeInv, PairInv, NEW r \in Ranks, NEW q \in Ranks,
         pos[r] \in Indices, This(r).kind = "allreduce",
         pc[r] \notin {"sync", "fallback"}
  PROVE  /\ ~Took(enq[CommOf(r)][r], pos[r]) /\ ~Took(fb[CommOf(r)][r], pos[r])
         /\ \A j \in Indices \ {pos[r]} :
              /\ Took(enq[CommOf(r)][q], j) => Took(enq[CommOf(r)][r], j)
              /\ Took(fb[CommOf(r)][q], j) => Took(fb[CommOf(r)][r], j)
<1> DEFINE c == CommOf(r)
           i == pos[r]
<1>1. /\ i \in Indices /\ c \in Comms /\ pos[q] \in 1 .. NumCalls + 1
      /\ script[i].kind = "allreduce" /\ script[i].comm = c
      /\ NumCalls \in Nat
  BY CommOfType, ConstantsAssumption DEF TypeInv, TypeOK, CommOf, This
<1>2. /\ \A j \in Indices : Took(enq[c][q], j) \/ Took(fb[c][q], j) =>
            script[j].kind = "allreduce" /\ script[j].comm = c /\ (j < pos[q] \/ j = pos[q])
      /\ \A j \in Indices : Took(enq[c][r], j) \/ Took(fb[c][r], j) => j < i
  BY <1>1 DEF PairInv, Paired, History
<1> HIDE DEF c, i
<1>3. ~Took(enq[c][r], i) /\ ~Took(fb[c][r], i)
  BY <1>1, <1>2 DEF Indices
<1>4. ASSUME NEW j \in Indices \ {i}
      PROVE  /\ Took(enq[c][q], j) => Took(enq[c][r], j)
             /\ Took(fb[c][q], j) => Took(fb[c][r], j)
  <2>1. CASE j < i /\ script[j].kind = "allreduce" /\ script[j].comm = c
    <3>1. \/ Took(enq[c][r], j) /\ Took(enq[c][q], j)
          \/ Took(fb[c][r], j) /\ Took(fb[c][q], j)
      BY <2>1 DEF PairInv, Completed, AllTook, i
    <3> QED
      BY <1>1, <3>1 DEF PairInv, Exclusive
  <2>2. CASE j > i
    <3>1. i < pos[q] => Took(enq[c][r], i) \/ Took(fb[c][r], i)
      BY <1>1 DEF PairInv, Completed, AllTook
    <3>2. ~(j < pos[q] \/ j = pos[q])
      BY <1>1, <1>3, <2>2, <3>1 DEF Indices
    <3> QED
      BY <1>2, <3>2
  <2> QED
    BY <1>1, <1>2, <2>1, <2>2 DEF Indices
<1> QED
  BY <1>3, <1>4 DEF c, i

\* One rank's history in a table grows by the call it is in.
LEMMA PairedTakes ==
  ASSUME NEW calls, NEW table \in [Comms -> [Ranks -> Seq(Indices)]],
         NEW p, NEW l, NEW l2, NEW label,
         Paired(calls, table, p, l, label),
         NEW r \in Ranks, NEW i \in Indices, NEW c \in Comms,
         p[r] = i, calls[i].kind = "allreduce", calls[i].comm = c,
         l2[r] = label, \A q \in Ranks \ {r} : l2[q] = l[q],
         NEW next, Grows(table, next, c, r, i), Lacks(table, c, r, i)
  PROVE  Paired(calls, next, p, l2, label) /\ Gains(table, next, c, r, i)
<1>1. /\ \A b \in Comms : \A q \in Ranks : Distinct(table[b][q])
      /\ \A b \in Comms : \A q, s \in Ranks : Agree(table[b][q], table[b][s])
      /\ next[c][r] = Append(table[c][r], i)
      /\ \A b \in Comms : \A q \in Ranks : b # c \/ q # r => next[b][q] = table[b][q]
      /\ ~Took(table[c][r], i)
      /\ \A q \in Ranks : \A j \in Indices \ {i} :
           Took(table[c][q], j) => Took(table[c][r], j)
  BY DEF Paired, History, Grows, Lacks
<1>2. /\ Distinct(next[c][r])
      /\ next[c][r][Len(next[c][r])] = i
      /\ \A j \in Indices : Took(next[c][r], j) <=> Took(table[c][r], j) \/ j = i
      /\ \A q \in Ranks : Agree(next[c][r], next[c][q]) /\ Agree(next[c][q], next[c][r])
  <2>1. \A q \in Ranks : table[c][q] \in Seq(Indices)
    OBVIOUS
  <2>2. /\ Distinct(next[c][r])
        /\ next[c][r][Len(next[c][r])] = i
        /\ \A j \in Indices : Took(next[c][r], j) <=> Took(table[c][r], j) \/ j = i
    BY <1>1, <2>1, AppendTakes
  <2>3. \A q \in Ranks \ {r} : Agree(next[c][r], next[c][q])
    <3> SUFFICES ASSUME NEW q \in Ranks \ {r}
                 PROVE  Agree(next[c][r], next[c][q])
      OBVIOUS
    <3>1. Agree(Append(table[c][r], i), table[c][q])
      BY <1>1, <2>1, AppendAgrees
    <3> QED
      BY <1>1, <3>1
  <2>4. /\ \A s, t : Agree(s, t) => Agree(t, s)
        /\ \A s : Agree(s, s)
    BY DEF Agree
  <2> QED
    BY <2>2, <2>3, <2>4
<1>3. History(calls, next[c][r], c, p[r], l2[r], label)
  <2>1. \A j \in Indices : Took(table[c][r], j) =>
             calls[j].kind = "allreduce" /\ calls[j].comm = c /\ (j < i \/ j = i)
    BY DEF Paired, History
  <2> QED
    BY <1>2, <2>1 DEF History
<1>4. ASSUME NEW b \in Comms, NEW q \in Ranks, b # c \/ q # r
      PROVE  History(calls, next[b][q], b, p[q], l2[q], label)
  <2>1. History(calls, table[b][q], b, p[q], l[q], label)
    BY DEF Paired
  <2>2. CASE q # r
    BY <1>1, <1>4, <2>1, <2>2 DEF History
  <2>3. CASE q = r /\ b # c
    <3>1. \A j \in Indices : Took(table[b][r], j) => calls[j].comm = b
      BY <2>1, <2>3 DEF History
    <3> QED
      BY <1>1, <2>1, <2>3, <3>1 DEF History
  <2> QED
    BY <1>4, <2>2, <2>3
<1>5. ASSUME NEW b \in Comms, NEW q \in Ranks, NEW s \in Ranks
      PROVE  Agree(next[b][q], next[b][s])
  <2>1. CASE b = c /\ (q = r \/ s = r)
    BY <1>2, <2>1
  <2>2. CASE ~(b = c /\ (q = r \/ s = r))
    <3>1. next[b][q] = table[b][q] /\ next[b][s] = table[b][s]
      BY <1>1, <2>2
    <3> QED
      BY <1>1, <3>1
  <2> QED
    BY <2>1, <2>2
<1>6. \A b \in Comms : \A q \in Ranks : \A j \in Indices :
        Took(next[b][q], j) <=> Took(table[b][q], j) \/ (b = c /\ q = r /\ j = i)
  <2> SUFFICES ASSUME NEW b \in Comms, NEW q \in Ranks, NEW j \in Indices
               PROVE  Took(next[b][q], j) <=>
                        Took(table[b][q], j) \/ (b = c /\ q = r /\ j = i)
    OBVIOUS
  <2>1. CASE b = c /\ q = r
    BY <1>2, <2>1
  <2>2. CASE b # c \/ q # r
    BY <1>1, <2>2
  <2> QED
    BY <2>1, <2>2
<1> QED
  BY <1>3, <1>4, <1>5, <1>6 DEF Paired, Gains

\* The steps by which a rank takes an operation: ncclAllReduce ...
LEMMA EnqueuePairs ==
  ASSUME TypeInv, CallInv, PairInv, NEW r \in Ranks, Enqueue(r)
  PROVE  PairInv'
<1>1. /\ pos[r] \in Indices /\ CommOf(r) \in Comms /\ pc[r] = "issue"
      /\ This(r).kind = "allreduce"
  BY AtType DEF Enqueue, CallInv
<1>2. PICK i \in Indices, c \in Comms : i = pos[r] /\ c = CommOf(r)
  BY <1>1
<1>3. script[i].kind = "allreduce" /\ script[i].comm = c
  BY <1>1, <1>2 DEF CommOf, This
<1>4. /\ Lacks(enq, c, r, i) /\ Lacks(fb, c, r, i)
  BY <1>1, <1>2, NothingMissed DEF Lacks
<1>5. /\ enq \in [Comms -> [Ranks -> Seq(Indices)]]
      /\ Grows(enq, enq', c, r, i)
  BY <1>2 DEF TypeInv, TypeOK, Enqueue, Grows
<1>6. /\ UNCHANGED <<script, pos, fb, out>> /\ pc'[r] = "sync"
      /\ \A q \in Ranks \ {r} : pc'[q] = pc[q]
  BY DEF TypeInv, TypeOK, Enqueue, Goto
<1>7. /\ Paired(script, enq', pos, pc', "sync")
      /\ Gains(enq, enq', c, r, i)
  BY <1>2, <1>3, <1>4, <1>5, <1>6, PairedTakes DEF PairInv
<1>8. Paired(script, fb, pos, pc, "fallback")'
  BY <1>1, <1>6 DEF PairInv, Paired, History
<1>9. Exclusive'
  BY <1>4, <1>6, <1>7 DEF PairInv, Exclusive, Lacks, Gains
<1>10. Completed'
  BY <1>6, <1>7, CommType DEF PairInv, TypeInv, Completed, AllTook, Gains
<1>11. Results'
  BY <1>6 DEF PairInv, Results, Contributions, Pending
<1> QED
  BY <1>6, <1>7, <1>8, <1>9, <1>10, <1>11 DEF PairInv

\* ... or the fallback.
LEMMA FallbackPairs ==
  ASSUME TypeInv, PairInv, NEW r \in Ranks, NEW place \in Place, EnterFallback(r, place)
  PROVE  PairInv'
<1>1. /\ pos[r] \in Indices /\ CommOf(r) \in Comms /\ pc[r] = "idle"
      /\ This(r).kind = "allreduce"
  BY AtType DEF EnterFallback, Enter
<1>2. PICK i \in Indices, c \in Comms : i = pos[r] /\ c = CommOf(r)
  BY <1>1
<1>3. script[i].kind = "allreduce" /\ script[i].comm = c
  BY <1>1, <1>2 DEF CommOf, This
<1>4. /\ Lacks(enq, c, r, i) /\ Lacks(fb, c, r, i)
  BY <1>1, <1>2, NothingMissed DEF Lacks
<1>5. /\ fb \in [Comms -> [Ranks -> Seq(Indices)]]
      /\ Grows(fb, fb', c, r, i)
  BY <1>2 DEF TypeInv, TypeOK, EnterFallback, Grows
<1>6. /\ UNCHANGED <<script, pos, enq, out>> /\ pc'[r] = "fallback"
      /\ \A q \in Ranks \ {r} : pc'[q] = pc[q]
  BY DEF TypeInv, TypeOK, EnterFallback, Enter, Goto
<1>7. /\ Paired(script, fb', pos, pc', "fallback")
      /\ Gains(fb, fb', c, r, i)
  BY <1>2, <1>3, <1>4, <1>5, <1>6, PairedTakes DEF PairInv
<1>8. Paired(script, enq, pos, pc, "sync")'
  BY <1>1, <1>6 DEF PairInv, Paired, History
<1>9. Exclusive'
  BY <1>4, <1>6, <1>7 DEF PairInv, Exclusive, Lacks, Gains
<1>10. Completed'
  BY <1>6, <1>7, CommType DEF PairInv, TypeInv, Completed, AllTook, Gains
<1>11. Results'
  BY <1>6 DEF PairInv, Results, Contributions, Pending
<1> QED
  BY <1>6, <1>7, <1>8, <1>9, <1>10, <1>11 DEF PairInv

-----------------------------------------------------------------------------
(***************************************************************************)
(* Completion.                                                             *)
(***************************************************************************)

\* The k-th operation of every rank, k being the last one of a rank that waits
\* at label, is the call that rank is in.
LEMMA KthPaired ==
  ASSUME NEW calls, NEW table \in [Comms -> [Ranks -> Seq(Indices)]],
         NEW p, NEW l, NEW label, Paired(calls, table, p, l, label),
         NEW r \in Ranks, NEW c \in Comms, l[r] = label, calls[p[r]].comm = c,
         table[c][r] # <<>>,
         \A q \in Ranks : Len(table[c][q]) >= Len(table[c][r])
  PROVE  /\ {<<q, table[c][q][Len(table[c][r])]>> : q \in Ranks} = Ranks \X {p[r]}
         /\ \A q \in Ranks : Took(table[c][q], p[r])
<1> DEFINE k == Len(table[c][r])
<1>1. /\ k \in Nat \ {0} /\ k \in DOMAIN table[c][r]
      /\ \A q \in Ranks : k \in DOMAIN table[c][q]
  <2>1. table[c][r] \in Seq(Indices) /\ \A q \in Ranks : table[c][q] \in Seq(Indices)
    OBVIOUS
  <2> QED
    BY <2>1, EmptySeq
<1>2. table[c][r][k] = p[r]
  BY DEF Paired, History
<1> HIDE DEF k
<1>3. \A q \in Ranks : table[c][q][k] = p[r]
  BY <1>1, <1>2 DEF Paired, Agree
<1>4. {<<q, table[c][q][k]>> : q \in Ranks} = Ranks \X {p[r]}
  BY <1>3
<1>5. \A q \in Ranks : Took(table[c][q], p[r])
  BY <1>1, <1>3 DEF Took
<1> QED
  BY <1>4, <1>5 DEF k

\* A call returns what it ought to.
LEMMA ReturnPairs ==
  ASSUME TypeInv, PairInv, NEW r \in Ranks, pos[r] \in Indices,
         Return(r, "MPI_SUCCESS", Contributions(pos[r])),
         UNCHANGED <<script, enq, fb>>,
         This(r).kind = "allreduce" => AllTook(enq, pos[r]) \/ AllTook(fb, pos[r])
  PROVE  PairInv'
<1>1. /\ pos[r] \in 1 .. NumCalls /\ NumCalls \in Nat
      /\ pos' = [pos EXCEPT ![r] = pos[r] + 1]
      /\ pos \in [Ranks -> 1 .. NumCalls + 1]
      /\ pc' = [pc EXCEPT ![r] = "idle"] /\ pc \in [Ranks -> PcLabel]
      /\ out \in [Ranks -> [Indices -> Outcome]]
      /\ out' = [out EXCEPT ![r][pos[r]] = [ret |-> "MPI_SUCCESS",
                                            from |-> Contributions(pos[r])]]
  BY ConstantsAssumption DEF TypeInv, TypeOK, Return, Indices
<1>2. /\ \A q \in Ranks \ {r} : pos'[q] = pos[q] /\ pc'[q] = pc[q] /\ out'[q] = out[q]
      /\ pos'[r] = pos[r] + 1 /\ pc'[r] = "idle"
      /\ \A i \in Indices : i < pos'[r] <=> i < pos[r] \/ i = pos[r]
      /\ out'[r][pos[r]] = [ret |-> "MPI_SUCCESS", from |-> Contributions(pos[r])]
      /\ \A i \in Indices : i # pos[r] => out'[r][i] = out[r][i]
  BY <1>1 DEF Indices
<1>3. ASSUME NEW table, NEW label \in {"sync", "fallback"}, Paired(script, table, pos, pc, label)
      PROVE  Paired(script', table, pos', pc', label)
  <2> SUFFICES ASSUME NEW c \in Comms, NEW q \in Ranks
               PROVE  /\ History(script', table[c][q], c, pos'[q], pc'[q], label)
                      /\ \A p \in Ranks : Agree(table[c][p], table[c][q])
    BY DEF Paired
  <2>1. /\ History(script, table[c][q], c, pos[q], pc[q], label)
        /\ \A p \in Ranks : Agree(table[c][p], table[c][q])
    BY <1>3 DEF Paired
  <2>2. CASE q = r
    BY <1>2, <2>1, <2>2 DEF History
  <2>3. CASE q # r
    BY <1>2, <2>1, <2>3
  <2> QED
    BY <2>1, <2>2, <2>3
<1>4. Paired(script, enq, pos, pc, "sync")' /\ Paired(script, fb, pos, pc, "fallback")'
  BY <1>3 DEF PairInv
<1>5. Exclusive'
  BY DEF PairInv, Exclusive
<1>6. Completed'
  BY <1>2 DEF PairInv, Completed, AllTook, This
<1>7. Results'
  <2> SUFFICES ASSUME NEW q \in Ranks, NEW i \in Indices
               PROVE  out'[q][i] = IF i < pos'[q]
                                   THEN [ret |-> "MPI_SUCCESS", from |-> Contributions(i)]
                                   ELSE Pending
    BY DEF Results, Contributions, Pending
  <2>1. out[q][i] = IF i < pos[q]
                    THEN [ret |-> "MPI_SUCCESS", from |-> Contributions(i)] ELSE Pending
    BY DEF PairInv, Results
  <2>2. CASE q # r
    BY <1>2, <2>1, <2>2
  <2>3. CASE q = r /\ i = pos[r]
    <3>1. i < pos'[r]
      BY <1>2, <2>3
    <3> QED
      BY <1>2, <2>3, <3>1
  <2>4. CASE q = r /\ i # pos[r]
    <3>1. i < pos'[q] <=> i < pos[q]
      BY <1>2, <2>4
    <3>2. out'[q][i] = out[q][i]
      BY <1>2, <2>4
    <3> QED
      BY <2>1, <3>1, <3>2
  <2> QED
    BY <2>2, <2>3, <2>4
<1> QED
  BY <1>4, <1>5, <1>6, <1>7 DEF PairInv

LEMMA SynchronizePairs ==
  ASSUME TypeInv, CallInv, PairInv, NEW r \in Ranks, Synchronize(r)
  PROVE  PairInv'
<1>1. /\ pos[r] \in Indices /\ CommOf(r) \in Comms /\ pc[r] = "sync"
      /\ script[pos[r]].kind = "allreduce" /\ script[pos[r]].comm = CommOf(r)
      /\ enq[CommOf(r)][r] # <<>>
  <2>1. At(r, "sync")
    BY DEF Synchronize
  <2>2. pos[r] \in Indices /\ CommOf(r) \in Comms /\ pc[r] = "sync"
    BY <2>1, AtType
  <2> QED
    BY <2>2 DEF CallInv, This, CommOf, TypeInv, InCall
<1>2. /\ enq \in [Comms -> [Ranks -> Seq(Indices)]]
      /\ Paired(script, enq, pos, pc, "sync")
      /\ \A q \in Ranks : Len(enq[CommOf(r)][q]) >= Len(enq[CommOf(r)][r])
  BY DEF TypeInv, TypeOK, PairInv, Synchronize
<1>3. /\ {<<q, enq[CommOf(r)][q][Len(enq[CommOf(r)][r])]>> : q \in Ranks} = Ranks \X {pos[r]}
      /\ \A q \in Ranks : Took(enq[CommOf(r)][q], pos[r])
  BY <1>1, <1>2, KthPaired
<1>4. Return(r, "MPI_SUCCESS", Contributions(pos[r])) /\ UNCHANGED <<script, enq, fb>>
  BY <1>1, <1>3 DEF Synchronize, Contributions, appVars, dataVars
<1>5. AllTook(enq, pos[r])
  BY <1>1, <1>3 DEF AllTook
<1> QED
  BY <1>1, <1>4, <1>5, ReturnPairs

LEMMA FinishFallbackPairs ==
  ASSUME TypeInv, CallInv, PairInv, NEW r \in Ranks, FinishFallback(r)
  PROVE  PairInv'
<1>1. /\ pos[r] \in Indices /\ CommOf(r) \in Comms /\ pc[r] = "fallback"
      /\ script[pos[r]].kind = "allreduce" /\ script[pos[r]].comm = CommOf(r)
      /\ fb[CommOf(r)][r] # <<>>
  <2>1. At(r, "fallback")
    BY DEF FinishFallback
  <2>2. pos[r] \in Indices /\ CommOf(r) \in Comms /\ pc[r] = "fallback"
    BY <2>1, AtType
  <2> QED
    BY <2>2 DEF CallInv, This, CommOf, TypeInv, InCall
<1>2. /\ fb \in [Comms -> [Ranks -> Seq(Indices)]]
      /\ Paired(script, fb, pos, pc, "fallback")
      /\ \A q \in Ranks : Len(fb[CommOf(r)][q]) >= Len(fb[CommOf(r)][r])
  BY DEF TypeInv, TypeOK, PairInv, FinishFallback
<1>3. /\ {<<q, fb[CommOf(r)][q][Len(fb[CommOf(r)][r])]>> : q \in Ranks} = Ranks \X {pos[r]}
      /\ \A q \in Ranks : Took(fb[CommOf(r)][q], pos[r])
  BY <1>1, <1>2, KthPaired
<1>4. Return(r, "MPI_SUCCESS", Contributions(pos[r])) /\ UNCHANGED <<script, enq, fb>>
  BY <1>1, <1>3 DEF FinishFallback, Contributions, appVars, dataVars
<1>5. AllTook(fb, pos[r])
  BY <1>1, <1>3 DEF AllTook
<1> QED
  BY <1>1, <1>4, <1>5, ReturnPairs

LEMMA FreeCommPairs ==
  ASSUME TypeInv, PairInv, NEW r \in Ranks, FreeComm(r)
  PROVE  PairInv'
<1>1. /\ pos[r] \in Indices /\ This(r).kind = "free" /\ script[pos[r]].kind = "free"
  BY AtType DEF FreeComm, This
<1>2. Return(r, "MPI_SUCCESS", Contributions(pos[r])) /\ UNCHANGED <<script, enq, fb>>
  BY <1>1 DEF FreeComm, Contributions, appVars, dataVars
<1> QED
  BY <1>1, <1>2, ReturnPairs

\* A step in which nothing fails.
LEMMA PairStep ==
  ASSUME TypeInv, CallInv, PairInv, [Next]_vars, faults' = faults
  PROVE  PairInv'
<1>0. faults \in Nat /\ faults # faults + 1
  BY ConstantsAssumption DEF TypeInv, TypeOK
<1>1. ASSUME NEW r \in Ranks, NEW d \in Owned[r], SelectDevice(r, d)
      PROVE  PairInv'
  BY <1>1, QuietPairs DEF SelectDevice, dataVars
<1>2. ASSUME NEW r \in Ranks, NEW place \in Place, EnterReady(r, place) \/ EnterInit(r, place)
      PROVE  PairInv'
  <2>1. /\ UNCHANGED <<script, enq, fb>> /\ pc[r] = "idle"
        /\ Goto(r, "issue") \/ Goto(r, "bcast")
    BY <1>2 DEF EnterReady, EnterInit, Enter, At, dataVars
  <2> QED
    BY <2>1, GotoPairs
<1>3. ASSUME NEW r \in Ranks,
             \/ RootBcast(r) \/ ReceiveId(r) \/ CreateStream(r) \/ RefuseId(r)
             \/ Publish(r) \/ DereferenceNull(r) \/ InitRankFails(r)
      PROVE  PairInv'
  <2>1. /\ UNCHANGED <<script, enq, fb>>
        /\ pc[r] \in {"bcast", "stream", "initrank", "joined", "issue"}
    BY <1>3 DEF RootBcast, ReceiveId, CreateStream, RefuseId, Publish,
                DereferenceNull, InitRankFails, At, appVars, dataVars
  <2>2. \E label \in {"stream", "initrank", "issue", "crashed"} : Goto(r, label)
    BY <1>3 DEF RootBcast, ReceiveId, CreateStream, RefuseId, Publish,
                DereferenceNull, InitRankFails
  <2> QED
    BY <2>1, <2>2, GotoPairs
<1>4. ASSUME NEW r \in Ranks,
             \/ \E place \in Place : EnterNoMemory(r, place)
             \/ BcastFails(r) \/ EnqueueFails(r) \/ SynchronizeFails(r)
      PROVE  PairInv'
  BY <1>0, <1>4 DEF EnterNoMemory, BcastFails, EnqueueFails, SynchronizeFails, Fails
<1>5. ASSUME NEW c \in Comms, Meet(c)
      PROVE  PairInv'
  <2>1. /\ UNCHANGED <<script, pos, enq, fb, out>>
        /\ \A r \in Ranks : pc[r] = "initrank" /\ pc'[r] \in {"joined", "issue"}
    BY <1>5 DEF Meet, At, appVars, dataVars
  <2> QED
    BY <2>1, QuietPairs
<1>6. CASE UNCHANGED vars
  BY <1>6, QuietPairs DEF vars
<1> QED
  BY <1>1, <1>2, <1>3, <1>4, <1>5, <1>6, FallbackPairs, EnqueuePairs, SynchronizePairs,
     FinishFallbackPairs, FreeCommPairs DEF Next, Step, Failure, Done

LEMMA PairInvariant == Spec => [](faults = 0 => PairInv)
<1>1. Init => PairInv
  BY ConstantsAssumption DEF Init, PairInv, Paired, History, Agree, Distinct, Took, Exclusive,
         Completed, AllTook, Results, Indices
<1>2. TypeInv /\ CallInv /\ (faults = 0 => PairInv) /\ [Next]_vars => (faults = 0 => PairInv)'
  BY PairStep, FaultsGrow
<1> QED
  BY <1>1, <1>2, TypeInvariant, CallInvariant, PTL DEF Spec

\* Where nothing has failed, every MPI_Allreduce that returned has reduced
\* what every rank contributed to that very call.
THEOREM SuccessIsReduction == Spec => [](faults = 0 => SuccessMeansReduced)
<1>1. PairInv => SuccessMeansReduced
  <2> SUFFICES ASSUME PairInv, NEW r \in Ranks, NEW i \in Indices,
                      out[r][i].ret = "MPI_SUCCESS", script[i].kind = "allreduce"
               PROVE  out[r][i].from = Ranks \X {i}
    BY DEF SuccessMeansReduced
  <2>1. out[r][i] = IF i < pos[r]
                    THEN [ret |-> "MPI_SUCCESS", from |-> Ranks \X {i}]
                    ELSE [ret |-> "none", from |-> {}]
    BY DEF PairInv, Results, Contributions, Pending
  <2> QED
    BY <2>1
<1> QED
  BY <1>1, PairInvariant, PTL

-----------------------------------------------------------------------------
(***************************************************************************)
(* AllreduceCcl implements BlockingAllreduce as long as nothing fails:     *)
(* every step is a step of the promise or changes nothing in it.  (That    *)
(* what has to happen does is left to the model checker.)                  *)
(***************************************************************************)
\* The refinement mapping of AllreduceCcl, by name.
Entered == [r \in Ranks |-> IF pc[r] = "idle" THEN pos[r] - 1 ELSE pos[r]]
Left == [r \in Ranks |-> pos[r] - 1]
Sums == [r \in Ranks |-> [i \in Indices |-> out[r][i].from]]

\* The states it is applied to.
LEMMA PromiseTypes ==
  ASSUME TypeInv, NEW r \in Ranks
  PROVE  /\ pos[r] \in Int /\ pc[r] \in PcLabel
         /\ (pc[r] = "idle" \/ pos[r] \in Indices)
         /\ pos \in [Ranks -> 1 .. NumCalls + 1]
         /\ out \in [Ranks -> [Indices -> Outcome]]
BY ConstantsAssumption DEF TypeInv, TypeOK, InCall

\* A step within a call, or between calls, is none of the promise.
LEMMA QuietStutters ==
  ASSUME UNCHANGED <<script, pos, out>>,
         \A r \in Ranks : pc'[r] = "idle" <=> pc[r] = "idle"
  PROVE  UNCHANGED Promise!vars
BY DEF Promise!vars, Promise!Indices

\* Any step into MPI_Allreduce is the entry into the reduction.
LEMMA EnterMaps ==
  ASSUME TypeInv, NEW r \in Ranks, At(r, "idle"), This(r).kind = "allreduce",
         NEW label, label # "idle", Goto(r, label), script' = script
  PROVE  Promise!EnterReduction(r)
<1>1. /\ pos[r] \in Indices /\ pc[r] = "idle" /\ script[pos[r]].kind = "allreduce"
      /\ pos[r] \in Int
  BY AtType, PromiseTypes DEF This
<1>2. /\ UNCHANGED <<pos, out>> /\ pc'[r] = label
      /\ \A q \in Ranks \ {r} : pc'[q] = pc[q]
  BY DEF Goto, TypeInv, TypeOK
<1>3. Entered' = [Entered EXCEPT ![r] = @ + 1]
  <2> SUFFICES ASSUME NEW q \in Ranks
               PROVE  (IF pc'[q] = "idle" THEN pos'[q] - 1 ELSE pos'[q])
                        = IF q = r THEN Entered[q] + 1 ELSE Entered[q]
    BY DEF Entered
  <2> QED
    BY <1>1, <1>2 DEF Entered
<1>4. Entered[r] = pos[r] - 1 /\ Entered[r] + 1 = pos[r]
  BY <1>1 DEF Entered
<1>5. pos[r] \in {i \in Indices : script[i].kind = "allreduce"}
  BY <1>1
<1> QED
  BY <1>2, <1>3, <1>4, <1>5 DEF Promise!EnterReduction, Promise!Indices, Entered

\* What Return does to the mapping.
LEMMA ReturnMaps ==
  ASSUME TypeInv, NEW r \in Ranks, pos[r] \in Indices,
         NEW ret, NEW from, Return(r, ret, from)
  PROVE  /\ Left' = [Left EXCEPT ![r] = pos[r]]
         /\ Entered' = [Entered EXCEPT ![r] = pos[r]]
         /\ Sums' = [Sums EXCEPT ![r][pos[r]] = from]
<1>1. /\ \A q \in Ranks \ {r} : pos'[q] = pos[q] /\ pc'[q] = pc[q] /\ out'[q] = out[q]
      /\ pos'[r] = pos[r] + 1 /\ pc'[r] = "idle"
      /\ pos[r] \in Int /\ \A q \in Ranks : pos[q] \in Int
      /\ out'[r][pos[r]] = [ret |-> ret, from |-> from]
      /\ \A i \in Indices : i # pos[r] => out'[r][i] = out[r][i]
  BY PromiseTypes DEF Return, TypeInv, TypeOK
<1>2. pos'[r] - 1 = pos[r]
  BY <1>1
<1>3. ASSUME NEW q \in Ranks, NEW i \in Indices
      PROVE  out'[q][i].from = IF q = r /\ i = pos[r] THEN from ELSE out[q][i].from
  <2>1. CASE q = r /\ i = pos[r]
    BY <1>1, <2>1
  <2>2. CASE q # r \/ i # pos[r]
    BY <1>1, <2>2
  <2> QED
    BY <2>1, <2>2
<1>4. Sums' = [Sums EXCEPT ![r][pos[r]] = from]
  <2>1. \A q \in Ranks \ {r} : Sums'[q] = Sums[q]
    BY <1>3 DEF Sums
  <2>2. Sums'[r] = [Sums[r] EXCEPT ![pos[r]] = from]
    BY <1>3 DEF Sums
  <2>3. Sums' = [q \in Ranks |-> Sums'[q]] /\ Sums = [q \in Ranks |-> Sums[q]]
    BY DEF Sums
  <2> QED
    BY <2>1, <2>2, <2>3
<1> QED
  BY <1>1, <1>2, <1>4 DEF Left, Entered

\* Returning from a reduction all ranks have taken is leaving it.
LEMMA LeaveMaps ==
  ASSUME TypeInv, NEW r \in Ranks, pos[r] \in Indices, pc[r] # "idle",
         Return(r, "MPI_SUCCESS", Ranks \X {pos[r]}), script' = script,
         \A q \in Ranks : pos[r] < pos[q] \/ (pos[r] = pos[q] /\ pc[q] # "idle")
  PROVE  Promise!LeaveReduction(r)
<1>1. \A q \in Ranks : pos[q] \in Int
  BY PromiseTypes
<1>2. Entered[r] = pos[r] /\ Left[r] < pos[r] /\ \A q \in Ranks : Entered[q] >= pos[r]
  BY <1>1 DEF Entered, Left
<1>3. /\ Left' = [Left EXCEPT ![r] = pos[r]]
      /\ Sums' = [Sums EXCEPT ![r][pos[r]] = Ranks \X {pos[r]}]
      /\ Entered' = [Entered EXCEPT ![r] = pos[r]]
  BY ReturnMaps
<1>4. Entered' = Entered
  <2>1. Entered = [q \in Ranks |-> Entered[q]]
    BY DEF Entered
  <2> QED
    BY <1>2, <1>3, <2>1
<1> QED
  BY <1>2, <1>3, <1>4 DEF Promise!LeaveReduction, Promise!Indices, Entered, Left, Sums

\* MPI_Comm_free is the call that waits for nobody.
LEMMA OtherMaps ==
  ASSUME TypeInv, NEW r \in Ranks, pos[r] \in Indices, pc[r] = "idle",
         This(r).kind # "allreduce", Return(r, "MPI_SUCCESS", {}), script' = script,
         out[r][pos[r]].from = {}
  PROVE  Promise!OtherCall(r)
<1>1. pos[r] \in Int
  BY PromiseTypes
<1>2. /\ Entered[r] = Left[r] /\ Entered[r] + 1 = pos[r] /\ Left[r] + 1 = pos[r]
      /\ Sums[r][pos[r]] = {}
  BY <1>1 DEF Entered, Left, Sums
<1>3. /\ Left' = [Left EXCEPT ![r] = pos[r]]
      /\ Sums' = [Sums EXCEPT ![r][pos[r]] = {}]
      /\ Entered' = [Entered EXCEPT ![r] = pos[r]]
  BY ReturnMaps
<1>4. Sums' = Sums
  <2>1. Sums = [q \in Ranks |-> Sums[q]] /\ Sums[r] = [i \in Indices |-> Sums[r][i]]
    BY DEF Sums
  <2>2. [Sums[r] EXCEPT ![pos[r]] = {}] = Sums[r]
    BY <1>2, <2>1
  <2> QED
    BY <1>3, <2>1, <2>2
<1>5. pos[r] \in Indices \ {i \in Indices : script[i].kind = "allreduce"}
  BY DEF This
<1> QED
  BY <1>2, <1>3, <1>4, <1>5 DEF Promise!OtherCall, Promise!Indices, Indices, Entered, Left, Sums

-----------------------------------------------------------------------------
(***************************************************************************)
(* Each action where nothing fails.                                        *)
(***************************************************************************)

\* A step within a call.
LEMMA GotoStutters ==
  ASSUME TypeInv, NEW r \in Ranks, NEW label, Goto(r, label), label # "idle",
         pc[r] # "idle", script' = script
  PROVE  UNCHANGED Promise!vars
<1>1. /\ UNCHANGED <<pos, out>> /\ pc'[r] = label
      /\ \A q \in Ranks \ {r} : pc'[q] = pc[q]
  BY DEF Goto, TypeInv, TypeOK
<1> QED
  BY <1>1, QuietStutters

\* A rank that waits in the k-th operation, all ranks having k of them.
LEMMA WaitMaps ==
  ASSUME TypeInv, CallInv, NEW r \in Ranks, NEW label \in {"sync", "fallback"},
         NEW table \in [Comms -> [Ranks -> Seq(Indices)]],
         Paired(script, table, pos, pc, label), At(r, label),
         table[CommOf(r)][r] # <<>>,
         \A q \in Ranks : Len(table[CommOf(r)][q]) >= Len(table[CommOf(r)][r]),
         Return(r, "MPI_SUCCESS",
                {<<q, table[CommOf(r)][q][Len(table[CommOf(r)][r])]>> : q \in Ranks}),
         script' = script
  PROVE  Promise!LeaveReduction(r)
<1>1. pos[r] \in Indices /\ CommOf(r) \in Comms /\ pc[r] = label
  BY AtType
<1>2. script[pos[r]].comm = CommOf(r)
  BY DEF CommOf, This
<1>3. /\ {<<q, table[CommOf(r)][q][Len(table[CommOf(r)][r])]>> : q \in Ranks}
           = Ranks \X {pos[r]}
      /\ \A q \in Ranks : Took(table[CommOf(r)][q], pos[r])
  BY <1>1, <1>2, KthPaired
<1>4. \A q \in Ranks : pos[r] < pos[q] \/ (pos[r] = pos[q] /\ pc[q] # "idle")
  <2> SUFFICES ASSUME NEW q \in Ranks
               PROVE  pos[r] < pos[q] \/ (pos[r] = pos[q] /\ pc[q] # "idle")
    OBVIOUS
  <2>1. History(script, table[CommOf(r)][q], CommOf(r), pos[q], pc[q], label)
    BY <1>1 DEF Paired
  <2> QED
    BY <1>1, <1>3, <2>1 DEF History
<1> QED
  BY <1>1, <1>3, <1>4, LeaveMaps

LEMMA SynchronizeMaps ==
  ASSUME TypeInv, CallInv, PairInv, NEW r \in Ranks, Synchronize(r)
  PROVE  Promise!LeaveReduction(r)
<1>1. At(r, "sync") /\ script' = script
  BY DEF Synchronize, appVars
<1>2. enq[CommOf(r)][r] # <<>> /\ enq \in [Comms -> [Ranks -> Seq(Indices)]]
  BY <1>1 DEF TypeInv, TypeOK, InCall, At
<1>3. /\ \A q \in Ranks : Len(enq[CommOf(r)][q]) >= Len(enq[CommOf(r)][r])
      /\ Return(r, "MPI_SUCCESS",
                {<<q, enq[CommOf(r)][q][Len(enq[CommOf(r)][r])]>> : q \in Ranks})
  BY DEF Synchronize
<1>4. Paired(script, enq, pos, pc, "sync")
  BY DEF PairInv
<1> QED
  BY <1>1, <1>2, <1>3, <1>4, WaitMaps

LEMMA FinishFallbackMaps ==
  ASSUME TypeInv, CallInv, PairInv, NEW r \in Ranks, FinishFallback(r)
  PROVE  Promise!LeaveReduction(r)
<1>1. At(r, "fallback") /\ script' = script
  BY DEF FinishFallback, appVars
<1>2. fb[CommOf(r)][r] # <<>> /\ fb \in [Comms -> [Ranks -> Seq(Indices)]]
  BY <1>1 DEF TypeInv, TypeOK, InCall, At
<1>3. /\ \A q \in Ranks : Len(fb[CommOf(r)][q]) >= Len(fb[CommOf(r)][r])
      /\ Return(r, "MPI_SUCCESS",
                {<<q, fb[CommOf(r)][q][Len(fb[CommOf(r)][r])]>> : q \in Ranks})
  BY DEF FinishFallback
<1>4. Paired(script, fb, pos, pc, "fallback")
  BY DEF PairInv
<1> QED
  BY <1>1, <1>2, <1>3, <1>4, WaitMaps

LEMMA FreeCommMaps ==
  ASSUME TypeInv, PairInv, NEW r \in Ranks, FreeComm(r)
  PROVE  Promise!OtherCall(r)
<1>1. /\ pos[r] \in Indices /\ pc[r] = "idle" /\ This(r).kind # "allreduce"
      /\ Return(r, "MPI_SUCCESS", {}) /\ script' = script
  BY AtType DEF FreeComm, appVars
<1>2. out[r][pos[r]] = Pending
  <2>1. pos[r] \in Int /\ ~(pos[r] < pos[r])
    BY PromiseTypes
  <2>2. out[r][pos[r]] = IF pos[r] < pos[r]
                         THEN [ret |-> "MPI_SUCCESS", from |-> Contributions(pos[r])]
                         ELSE Pending
    BY <1>1 DEF PairInv, Results
  <2> QED
    BY <2>1, <2>2
<1> QED
  BY <1>1, <1>2, OtherMaps DEF Pending

\* A step in which nothing fails.
LEMMA PromiseStep ==
  ASSUME TypeInv, CallInv, PairInv, [Next]_vars, faults' = faults
  PROVE  [Promise!Next]_(Promise!vars)
<1>0. faults \in Nat /\ faults # faults + 1
  BY ConstantsAssumption DEF TypeInv, TypeOK
<1>1. ASSUME NEW r \in Ranks, NEW d \in Owned[r], SelectDevice(r, d)
      PROVE  UNCHANGED Promise!vars
  BY <1>1, QuietStutters DEF SelectDevice
<1>2. ASSUME NEW r \in Ranks, NEW place \in Place,
             EnterFallback(r, place) \/ EnterReady(r, place) \/ EnterInit(r, place)
      PROVE  Promise!EnterReduction(r)
  <2>1. /\ At(r, "idle") /\ This(r).kind = "allreduce" /\ script' = script
        /\ Goto(r, "fallback") \/ Goto(r, "issue") \/ Goto(r, "bcast")
    BY <1>2 DEF EnterFallback, EnterReady, EnterInit, Enter
  <2> QED
    BY <2>1, EnterMaps
<1>3. ASSUME NEW r \in Ranks,
             \/ RootBcast(r) \/ ReceiveId(r) \/ CreateStream(r) \/ RefuseId(r)
             \/ Publish(r) \/ Enqueue(r) \/ DereferenceNull(r) \/ InitRankFails(r)
      PROVE  UNCHANGED Promise!vars
  <2>1. script' = script /\ pc[r] # "idle"
    BY <1>3 DEF RootBcast, ReceiveId, CreateStream, RefuseId, Publish, Enqueue,
                DereferenceNull, InitRankFails, At, appVars
  <2>2. \E label : label # "idle" /\ Goto(r, label)
    BY <1>3 DEF RootBcast, ReceiveId, CreateStream, RefuseId, Publish, Enqueue,
                DereferenceNull, InitRankFails
  <2> QED
    BY <2>1, <2>2, GotoStutters
<1>4. ASSUME NEW r \in Ranks,
             \/ \E place \in Place : EnterNoMemory(r, place)
             \/ BcastFails(r) \/ EnqueueFails(r) \/ SynchronizeFails(r)
      PROVE  FALSE
  BY <1>0, <1>4 DEF EnterNoMemory, BcastFails, EnqueueFails, SynchronizeFails, Fails
<1>5. ASSUME NEW c \in Comms, Meet(c)
      PROVE  UNCHANGED Promise!vars
  <2>1. /\ UNCHANGED <<script, pos, out>>
        /\ \A r \in Ranks : pc[r] = "initrank" /\ pc'[r] \in {"joined", "issue"}
    BY <1>5 DEF Meet, At, appVars
  <2> QED
    BY <2>1, QuietStutters
<1>6. CASE UNCHANGED vars
  BY <1>6, QuietStutters DEF vars
<1> QED
  BY <1>1, <1>2, <1>3, <1>4, <1>5, <1>6, SynchronizeMaps, FinishFallbackMaps, FreeCommMaps
     DEF Next, Step, Failure, Done, Promise!Next

LEMMA PromiseInit == Init => Promise!Init
BY DEF Init, Promise!Init, Promise!Indices, Indices, Pending

\* As long as nothing fails, a rank leaves an MPI_Allreduce only when all
\* ranks have entered it, with what they contributed to that very call, and
\* MPI_Comm_free waits for nobody: AllreduceCcl implements the safety part of
\* KeepsPromise.
THEOREM ImplementsPromise == Spec /\ [](faults = 0) => Promise!Safety
<1>1. TypeInv /\ CallInv /\ (faults = 0 => PairInv) /\ faults = 0 /\ (faults = 0)' /\ [Next]_vars
        => [Promise!Next]_(Promise!vars)
  BY PromiseStep
<1> QED
  BY <1>1, PromiseInit, TypeInvariant, CallInvariant, PairInvariant, PTL
     DEF Spec, Promise!Safety

=============================================================================
