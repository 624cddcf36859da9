-------------------------- MODULE FrontierJobProofs --------------------------
(***************************************************************************)
(* The jobs of the study, proved for any jobs on any number of nodes, any  *)
(* ladder of sizes and any number of failures, from what FrontierPlans     *)
(* shows of their plans.                                                   *)
(***************************************************************************)
EXTENDS FrontierPlans, ResultChecks, TLAPS

LEMMA PutIn ==
  ASSUME NEW f, NEW d, NEW e
  PROVE  /\ DOMAIN Put(f, d, e) = DOMAIN f \cup {d}
         /\ Put(f, d, e)[d] = e
         /\ \A x \in DOMAIN f : x # d => Put(f, d, e)[x] = f[x]
BY DEF Put

(***************************************************************************)
(* The plan of the job.                                                    *)
(***************************************************************************)
LEMMA PlanShape ==
  ASSUME job \in DOMAIN Jobs
  PROVE  /\ Len(ThePlan) \in Nat /\ DOMAIN ThePlan = 1 .. Len(ThePlan)
         /\ HasHeader(ThePlan) /\ KeepsRows(ThePlan) /\ SetUp(ThePlan)
<1>1. PICK F : ThePlan \in Settled(TheJob, F)
  BY Planned DEF ThePlan, TheJob
<1> HIDE DEF ThePlan, TheJob
<1> QED
  BY <1>1, LenProperties DEF Settled, Part

LEMMA PlanCommands ==
  ASSUME job \in DOMAIN Jobs, NEW i \in DOMAIN ThePlan
  PROVE  /\ ThePlan[i].op \in {"load", "header", "launch", "check"}
         /\ ThePlan[i].op = "load" =>
              /\ ThePlan[i] \in LoadSet
              /\ ThePlan[i].what \in {"mine", "cray", "plugin"}
         /\ ThePlan[i].op = "header" => ThePlan[i].append \in BOOLEAN
         /\ ThePlan[i].op = "launch" => \E F : ThePlan[i] \in LaunchSet(TheJob, F)
         /\ ThePlan[i].op = "check" => ThePlan[i] \in CheckSet
<1>1. PICK F : ThePlan \in Settled(TheJob, F)
  BY Planned DEF ThePlan, TheJob
<1> HIDE DEF ThePlan, TheJob
<1>2. ThePlan[i] \in CommandSet(TheJob, F)
  BY <1>1 DEF Settled, Part
<1> QED
  BY <1>2, CommandOps

LEMMA PlanLaunches ==
  ASSUME job \in DOMAIN Jobs, NEW i \in Launches
  PROVE  /\ i \in DOMAIN ThePlan /\ ThePlan[i].op = "launch"
         /\ ThePlan[i].sizes \in Seq(0 .. Unlimited)
         /\ Len(ThePlan[i].sizes) \in Nat
         /\ DOMAIN ThePlan[i].sizes = 1 .. Len(ThePlan[i].sizes)
         /\ Wanted(i) = Range(ThePlan[i].sizes)
         /\ \A s \in Wanted(i) : \E k \in DOMAIN ThePlan[i].sizes : s = ThePlan[i].sizes[k]
         /\ \A k \in DOMAIN ThePlan[i].sizes : ThePlan[i].sizes[k] \in Wanted(i)
         /\ ThePlan[i].program \in {"osu_mine", "osu_cray", "rccl_tests"}
<1>1. i \in DOMAIN ThePlan /\ ThePlan[i].op = "launch"
  BY DEF Launches, Commands
<1>2. PICK F : ThePlan[i] \in LaunchSet(TheJob, F)
  BY <1>1, PlanCommands
<1>3. /\ ThePlan[i].sizes \in Seq(0 .. Unlimited)
      /\ ThePlan[i].program \in {"osu_mine", "osu_cray", "rccl_tests"}
  BY <1>2, LaunchKinds
<1>4. Wanted(i) = Range(ThePlan[i].sizes)
  <2>1. Wanted(i) = IF ThePlan[i].op = "launch" THEN Range(ThePlan[i].sizes) ELSE {}
    BY <1>1 DEF Wanted, Sizes, ThePlan
  <2> QED
    BY <1>1, <2>1
<1> HIDE DEF Wanted
<1> QED
  BY <1>1, <1>3, <1>4, LenProperties DEF Range
-----------------------------------------------------------------------------
(***************************************************************************)
(* The invariant: what the script has done is what its plan says up to     *)
(* where it is.                                                            *)
(***************************************************************************)
Done(op) == {i \in Commands(op) : i < at}

Position ==
  /\ job \in DOMAIN Jobs /\ betaSwaps \in BetaSwaps /\ fail \in BOOLEAN
  /\ status \in {"running", "ended", "killed"}
  /\ at \in 1 .. Len(ThePlan) + 1 /\ row \in Nat
  /\ row > 0 => at \in Launches /\ row <= Len(Command.sizes) + 1
  /\ status = "ended" => at = Len(ThePlan) + 1

Progress ==
  /\ Started = Done("launch") \cup (IF row > 0 THEN {at} ELSE {})
  /\ DOMAIN over = Done("launch") \cup Done("check")
  /\ broken \subseteq {i \in DOMAIN ThePlan : i < at}
  /\ DOMAIN files = {ThePlan[h].file : h \in Done("header")}

JobInv == Position /\ Progress

LEMMA JobInit ==
  ASSUME Init
  PROVE  JobInv
<1>1. /\ job \in DOMAIN Jobs /\ at = 1 /\ row = 0 /\ betaSwaps \in BetaSwaps
      /\ status = "running" /\ broken = {} /\ fail = FALSE
      /\ DOMAIN files = {} /\ DOMAIN ran = {} /\ DOMAIN over = {}
  BY DEF Init
<1>2. Len(ThePlan) \in Nat /\ DOMAIN ThePlan = 1 .. Len(ThePlan)
  BY <1>1, PlanShape
<1>3. \A op : Done(op) = {}
  BY <1>1, <1>2 DEF Done, Commands
<1>4. Done("launch") = {} /\ Done("check") = {} /\ Done("header") = {}
  BY <1>3
<1> HIDE DEF Done, ThePlan
<1>5. DOMAIN files = {ThePlan[h].file : h \in Done("header")}
  BY <1>1, <1>4
<1>6. Position
  <2>1. 1 \in 1 .. Len(ThePlan) + 1 /\ 0 \in Nat /\ ~(0 > 0)
    BY <1>2
  <2> QED
    BY <1>1, <2>1 DEF Position
<1>7. Progress
  <2>1. Started = Done("launch") \cup (IF row > 0 THEN {at} ELSE {})
    BY <1>1, <1>4 DEF Started
  <2>2. DOMAIN over = Done("launch") \cup Done("check")
    BY <1>1, <1>4
  <2> QED
    BY <1>1, <1>5, <2>1, <2>2 DEF Progress
<1> QED
  BY <1>6, <1>7 DEF JobInv

\* The command the script is at.
LEMMA AtCommand ==
  ASSUME JobInv, NEW op, Running(op)
  PROVE  /\ status = "running" /\ at \in DOMAIN ThePlan /\ at \in Commands(op)
         /\ at + 1 \in 1 .. Len(ThePlan) + 1
         /\ ThePlan[at].op = op
<1>1. Len(ThePlan) \in Nat /\ DOMAIN ThePlan = 1 .. Len(ThePlan)
  BY PlanShape DEF JobInv, Position
<1> QED
  BY <1>1 DEF JobInv, Position, Running, Command, Commands

\* What is done when the script goes on to the next command, or stays.
LEMMA DoneNext ==
  ASSUME JobInv, UNCHANGED job
  PROVE  /\ ThePlan' = ThePlan /\ TheJob' = TheJob /\ Launches' = Launches
         /\ \A i : Wanted(i)' = Wanted(i)
         /\ \A op : Commands(op)' = Commands(op)
         /\ at' = at => \A op : Done(op)' = Done(op)
         /\ at' = at + 1 => \A op : Done(op)' = Done(op) \cup ({at} \cap Commands(op))
<1>1. ThePlan' = ThePlan /\ TheJob' = TheJob /\ \A i : Wanted(i)' = Wanted(i)
  BY DEF ThePlan, TheJob, Wanted
<1>2. \A op : Commands(op)' = Commands(op)
  BY <1>1 DEF Commands
<1>3. ASSUME at' = at + 1, NEW op
      PROVE  Done(op)' = Done(op) \cup ({at} \cap Commands(op))
  <2>1. \A i \in Commands(op) : i \in Nat
    BY PlanShape DEF JobInv, Position, Commands
  <2>2. at \in Nat
    BY PlanShape DEF JobInv, Position
  <2>3. \A i \in Commands(op) : i < at + 1 <=> i < at \/ i = at
    BY <2>1, <2>2
  <2> QED
    BY <1>2, <1>3, <2>3 DEF Done
<1> QED
  BY <1>1, <1>2, <1>3 DEF Done, Launches

\* The script goes on from a command to the next.
Moved(op) == Running(op) /\ at' = at + 1 /\ row' = 0 /\ UNCHANGED <<job, betaSwaps, status>>

LEMMA MovedDone ==
  ASSUME JobInv, NEW op, Moved(op)
  PROVE  /\ Done(op)' = Done(op) \cup {at}
         /\ \A o : o # op => Done(o)' = Done(o)
<1>1. at \in Commands(op) /\ \A o : o # op => at \notin Commands(o)
  BY AtCommand DEF Moved, Commands
<1>2. \A o : Done(o)' = Done(o) \cup ({at} \cap Commands(o))
  BY DoneNext DEF Moved
<1> QED
  BY <1>1, <1>2

LEMMA MovedPosition ==
  ASSUME JobInv, NEW op, Moved(op), fail' \in BOOLEAN
  PROVE  Position'
<1>1. /\ job' \in DOMAIN Jobs /\ betaSwaps' \in BetaSwaps
      /\ status' \in {"running", "ended", "killed"} /\ row' = 0 /\ at' = at + 1
  BY DEF JobInv, Position, Moved
<1>2. status' # "ended"
  BY AtCommand DEF Moved
<1>3. at' \in 1 .. Len(ThePlan') + 1
  <2>1. ThePlan' = ThePlan
    BY DoneNext DEF Moved
  <2>2. at + 1 \in 1 .. Len(ThePlan) + 1
    BY AtCommand DEF Moved
  <2> QED
    BY <1>1, <2>1, <2>2
<1> QED
  BY <1>1, <1>2, <1>3 DEF Position

LEMMA MovedBroken ==
  ASSUME JobInv, NEW op, Moved(op), broken' = broken \/ Trouble
  PROVE  broken' \subseteq {i \in DOMAIN ThePlan : i < at}'
<1>1. ThePlan' = ThePlan /\ at \in DOMAIN ThePlan
  BY DoneNext, AtCommand DEF Moved
<1>2. DOMAIN ThePlan \subseteq Nat
  BY PlanShape DEF JobInv, Position
<1>3. broken' \subseteq broken \cup {at}
  BY DEF Trouble
<1>4. broken \subseteq {i \in DOMAIN ThePlan : i < at}
  BY DEF JobInv, Progress
<1>5. \A i \in DOMAIN ThePlan : i < at + 1 <=> i < at \/ i = at
  BY <1>1, <1>2
<1> QED
  BY <1>1, <1>3, <1>4, <1>5 DEF Moved

LEMMA JobNext ==
  ASSUME JobInv, Next
  PROVE  JobInv'
<1>1. CASE LoadModules
  <2>1. Running("load") /\ row = 0
    BY <1>1, AtCommand DEF LoadModules, JobInv, Position, Launches, Commands
  <2>2. Moved("load")
    BY <1>1, <2>1 DEF LoadModules, Moved
  <2>3. broken' = broken \/ Trouble
    BY <1>1 DEF LoadModules
  <2>4. fail' \in BOOLEAN /\ UNCHANGED <<ran, files, over>>
    BY <1>1 DEF LoadModules, JobInv, Position
  <2>5. /\ Done("launch")' = Done("launch") /\ Done("check")' = Done("check")
        /\ Done("header")' = Done("header") /\ ThePlan' = ThePlan
    BY <2>2, MovedDone, DoneNext DEF Moved
  <2>6. Position' /\ broken' \subseteq {i \in DOMAIN ThePlan : i < at}'
    BY <2>2, <2>3, <2>4, MovedPosition, MovedBroken
  <2>7. Progress'
    BY <2>1, <2>2, <2>4, <2>5, <2>6 DEF JobInv, Progress, Moved, Started
  <2> QED
    BY <2>6, <2>7 DEF JobInv
<1>2. CASE Header
  <2>1. Running("header") /\ row = 0
    BY <1>2, AtCommand DEF Header, JobInv, Position, Launches, Commands
  <2>2. Moved("header")
    BY <1>2, <2>1 DEF Header, Moved
  <2>3. broken' = broken \/ Trouble
    BY <1>2 DEF Header
  <2>4. fail' \in BOOLEAN /\ UNCHANGED <<ran, over>>
    BY <1>2 DEF Header, JobInv, Position
  <2>5. /\ Done("launch")' = Done("launch") /\ Done("check")' = Done("check")
        /\ Done("header")' = Done("header") \cup {at} /\ ThePlan' = ThePlan
    BY <2>2, MovedDone, DoneNext DEF Moved
  <2>6. Position' /\ broken' \subseteq {i \in DOMAIN ThePlan : i < at}'
    BY <2>2, <2>3, <2>4, MovedPosition, MovedBroken
  <2>7. DOMAIN files' = DOMAIN files \cup {ThePlan[at].file}
    <3>1. CASE Command.append /\ Command.file \in DOMAIN files
      BY <1>2, <3>1 DEF Header, Command
    <3>2. CASE ~(Command.append /\ Command.file \in DOMAIN files)
      <4>1. files' = Put(files, ThePlan[at].file, <<>>)
        BY <1>2, <3>2 DEF Header, Command
      <4> QED
        BY <4>1 DEF Put
    <3> QED
      BY <3>1, <3>2
  <2>8. DOMAIN files' = {ThePlan'[h].file : h \in Done("header")'}
    <3>1. DOMAIN files = {ThePlan[h].file : h \in Done("header")}
      BY DEF JobInv, Progress
    <3> QED
      BY <2>5, <2>7, <3>1
  <2>9. Progress'
    BY <2>1, <2>2, <2>4, <2>5, <2>6, <2>8 DEF JobInv, Progress, Moved, Started
  <2> QED
    BY <2>6, <2>9 DEF JobInv
<1>3. CASE Launch
  <2>1. /\ at \in Launches /\ row = 0 /\ row' = 1 /\ at' = at /\ UNCHANGED <<job, betaSwaps, status>>
        /\ UNCHANGED <<files, over, broken, fail>> /\ DOMAIN ran' = DOMAIN ran \cup {at}
        /\ status = "running"
    BY <1>3, AtCommand, PutIn DEF Launch, Launches
  <2>2. /\ ThePlan' = ThePlan /\ Launches' = Launches /\ \A op : Done(op)' = Done(op)
    BY <2>1, DoneNext
  <2>3. Position'
    <3>1. Len(ThePlan[at].sizes) \in Nat
      BY <2>1, PlanLaunches DEF JobInv, Position
    <3>2. 1 <= Len(Command'.sizes) + 1
      BY <2>1, <2>2, <3>1 DEF Command
    <3> QED
      BY <2>1, <2>2, <3>2 DEF JobInv, Position
  <2>4. Progress'
    BY <2>1, <2>2 DEF JobInv, Progress, Started
  <2> QED
    BY <2>3, <2>4 DEF JobInv
<1>4. CASE Row
  <2>1. /\ at \in Launches /\ row > 0 /\ row' = row + 1 /\ at' = at
        /\ UNCHANGED <<job, betaSwaps, status>> /\ row <= Len(Command.sizes)
        /\ UNCHANGED <<ran, over, broken, fail>> /\ DOMAIN files' = DOMAIN files
        /\ status = "running"
    BY <1>4, AtCommand DEF Row, Launches, RowsLeft
  <2>2. /\ ThePlan' = ThePlan /\ Launches' = Launches /\ \A op : Done(op)' = Done(op)
    BY <2>1, DoneNext
  <2>3. Position'
    <3>1. Len(ThePlan[at].sizes) \in Nat
      BY <2>1, PlanLaunches DEF JobInv, Position
    <3>2. row + 1 <= Len(Command'.sizes) + 1 /\ row + 1 \in Nat
      BY <2>1, <2>2, <3>1 DEF Command, JobInv, Position
    <3> QED
      BY <2>1, <2>2, <3>2 DEF JobInv, Position
  <2>4. Progress'
    <3>1. row + 1 > 0
      BY <2>1 DEF JobInv, Position
    <3> QED
      BY <2>1, <2>2, <3>1 DEF JobInv, Progress, Started
  <2> QED
    BY <2>3, <2>4 DEF JobInv
<1>5. ASSUME NEW how, Running("launch"), row > 0, EndLaunch(how), broken' = broken \/ Trouble
      PROVE  JobInv'
  <2>1. Moved("launch") /\ fail' \in BOOLEAN
    BY <1>5 DEF EndLaunch, GoOn, Moved, JobInv, Position
  <2>2. DOMAIN over' = DOMAIN over \cup {at} /\ UNCHANGED <<ran, files>>
    BY <1>5, PutIn DEF EndLaunch
  <2>3. /\ Done("launch")' = Done("launch") \cup {at} /\ Done("check")' = Done("check")
        /\ Done("header")' = Done("header") /\ ThePlan' = ThePlan
    BY <2>1, MovedDone, DoneNext DEF Moved
  <2>4. Position' /\ broken' \subseteq {i \in DOMAIN ThePlan : i < at}'
    BY <1>5, <2>1, MovedPosition, MovedBroken
  <2>5. Progress'
    BY <1>5, <2>1, <2>2, <2>3, <2>4 DEF JobInv, Progress, Moved, Started
  <2> QED
    BY <2>4, <2>5 DEF JobInv
<1>6. CASE Complete
  BY <1>5, <1>6 DEF Complete
<1>7. CASE LaunchFails
  BY <1>5, <1>7 DEF LaunchFails
<1>8. CASE StackExhausted
  BY <1>5, <1>8 DEF StackExhausted
<1>9. CASE RunCase
  <2>1. Running("check") /\ row = 0
    BY <1>9, AtCommand DEF RunCase, JobInv, Position, Launches, Commands
  <2>2. Moved("check")
    BY <1>9, <2>1 DEF RunCase, Moved
  <2>3. broken' = broken \/ Trouble
    BY <1>9 DEF RunCase
  <2>4. fail' \in BOOLEAN /\ UNCHANGED <<ran, files>>
    BY <1>9 DEF RunCase, JobInv, Position
  <2>5. /\ Done("launch")' = Done("launch") /\ Done("check")' = Done("check") \cup {at}
        /\ Done("header")' = Done("header") /\ ThePlan' = ThePlan
    BY <2>2, MovedDone, DoneNext DEF Moved
  <2>6. Position' /\ broken' \subseteq {i \in DOMAIN ThePlan : i < at}'
    BY <2>2, <2>3, <2>4, MovedPosition, MovedBroken
  <2>7. DOMAIN over' = DOMAIN over \cup {at}
    <3>1. PICK printed \in Verdicts : over' = Put(over, at, printed)
      BY <1>9 DEF RunCase
    <3> QED
      BY <3>1, PutIn
  <2>8. Progress'
    BY <2>1, <2>2, <2>4, <2>5, <2>6, <2>7 DEF JobInv, Progress, Moved, Started
  <2> QED
    BY <2>6, <2>8 DEF JobInv
<1>10. CASE End \/ Walltime
  <2>1. /\ UNCHANGED <<job, betaSwaps, at, row, files, ran, over, broken, fail>>
        /\ status' = "killed" \/ (status' = "ended" /\ at > Len(ThePlan))
    BY <1>10 DEF End, Walltime
  <2>2. /\ ThePlan' = ThePlan /\ Launches' = Launches /\ \A op : Done(op)' = Done(op)
    BY <2>1, DoneNext
  <2>3. status' = "ended" => at = Len(ThePlan) + 1
    <3>1. Len(ThePlan) \in Nat /\ at \in 1 .. Len(ThePlan) + 1
      BY PlanShape DEF JobInv, Position
    <3> QED
      BY <2>1, <3>1
  <2>4. Position' /\ Progress'
    BY <2>1, <2>2, <2>3 DEF JobInv, Position, Progress, Started, Command
  <2> QED
    BY <2>4 DEF JobInv
<1> QED
  BY <1>1, <1>2, <1>3, <1>4, <1>6, <1>7, <1>8, <1>9, <1>10 DEF Next

LEMMA JobInvariant == Spec => []JobInv
<1>1. ASSUME JobInv, [Next]_vars
      PROVE  JobInv'
  <2>1. CASE UNCHANGED vars
    BY <1>1, <2>1 DEF vars, JobInv, Position, Progress, Started, Launches, Commands, Command,
         ThePlan, Done
  <2> QED
    BY <1>1, <2>1, JobNext
<1> QED
  BY <1>1, JobInit, PTL DEF Spec

\* A job that comes to its end has tried every launch and check of its plan and
\* has a file for each configuration (FilesAsPlanned).
THEOREM EndsAsPlanned == Spec => []FilesAsPlanned
<1>1. ASSUME JobInv
      PROVE  FilesAsPlanned
  <2>1. ASSUME status = "ended"
        PROVE  \A op : Done(op) = Commands(op)
    <3>1. at = Len(ThePlan) + 1 /\ Len(ThePlan) \in Nat /\ DOMAIN ThePlan = 1 .. Len(ThePlan)
      BY <1>1, <2>1, PlanShape DEF JobInv, Position
    <3>2. \A i \in DOMAIN ThePlan : i < at
      BY <3>1
    <3> QED
      BY <3>2 DEF Done, Commands
  <2> QED
    BY <1>1, <2>1 DEF JobInv, Progress, FilesAsPlanned, Launches
<1> QED
  BY <1>1, JobInvariant, PTL

-----------------------------------------------------------------------------
(***************************************************************************)
(* The checks of the gate.                                                 *)
(***************************************************************************)
ChecksInv == \A i \in Done("check") : over[i] # ThePlan[i].expected => fail

LEMMA ChecksNext ==
  ASSUME JobInv, ChecksInv, Next
  PROVE  ChecksInv'
<1>1. ASSUME UNCHANGED job, Done("check")' = Done("check"), UNCHANGED fail,
             \A i \in Done("check") : over'[i] = over[i]
      PROVE  ChecksInv'
  <2>1. ThePlan' = ThePlan
    BY <1>1, DoneNext
  <2> QED
    BY <1>1, <2>1 DEF ChecksInv
<1>2. ASSUME NEW op, op # "check", Moved(op), UNCHANGED fail,
             \A i \in Done("check") : over'[i] = over[i]
      PROVE  ChecksInv'
  BY <1>1, <1>2, MovedDone DEF Moved
<1>3. ASSUME NEW op, Running(op)
      PROVE  at \notin Done("check") /\ Done("check") \subseteq DOMAIN over
  <2>1. at \in Nat
    BY PlanShape DEF JobInv, Position
  <2> QED
    BY <2>1 DEF Done, JobInv, Progress
<1>a. ASSUME NEW op, Running(op), NEW what, over' = Put(over, at, what)
      PROVE  over'[at] = what /\ \A i \in Done("check") : over'[i] = over[i]
  <2>1. \A i \in Done("check") : i \in DOMAIN over /\ i # at
    BY <1>3, <1>a
  <2>2. Put(over, at, what)[at] = what
    BY DEF Put
  <2>3. \A i \in DOMAIN over : i # at => Put(over, at, what)[i] = over[i]
    BY DEF Put
  <2> QED
    BY <1>a, <2>1, <2>2, <2>3
<1>4. CASE LoadModules
  <2>1. Moved("load") /\ UNCHANGED <<fail, over>>
    BY <1>4, AtCommand DEF LoadModules, Moved, JobInv, Position, Launches, Commands
  <2> QED
    BY <1>2, <2>1
<1>5. CASE Header
  <2>1. Moved("header") /\ UNCHANGED <<fail, over>>
    BY <1>5, AtCommand DEF Header, Moved, JobInv, Position, Launches, Commands
  <2> QED
    BY <1>2, <2>1
<1>6. CASE Launch
  BY <1>1, <1>6, DoneNext DEF Launch
<1>7. CASE Row
  BY <1>1, <1>7, DoneNext DEF Row
<1>8. ASSUME NEW how, Running("launch"), row > 0, EndLaunch(how)
      PROVE  ChecksInv'
  <2>1. Moved("launch") /\ UNCHANGED fail
    BY <1>8 DEF EndLaunch, GoOn, Moved
  <2>2. \A i \in Done("check") : over'[i] = over[i]
    BY <1>a, <1>8 DEF EndLaunch
  <2> QED
    BY <1>2, <2>1, <2>2
<1>9. CASE Complete
  BY <1>8, <1>9 DEF Complete
<1>10. CASE LaunchFails
  BY <1>8, <1>10 DEF LaunchFails
<1>11. CASE StackExhausted
  BY <1>8, <1>11 DEF StackExhausted
<1>12. CASE RunCase
  <2>1. Moved("check")
    BY <1>12, AtCommand DEF RunCase, Moved, JobInv, Position, Launches, Commands
  <2>2. Done("check")' = Done("check") \cup {at} /\ ThePlan' = ThePlan
    BY <2>1, MovedDone, DoneNext DEF Moved
  <2>3. PICK printed \in Verdicts :
          /\ over' = Put(over, at, printed)
          /\ fail' = (fail \/ printed # Command.expected)
    BY <1>12 DEF RunCase
  <2>4. over'[at] = printed /\ \A i \in Done("check") : over'[i] = over[i]
    BY <1>a, <1>12, <2>3 DEF RunCase
  <2>5. fail => fail'
    BY <2>3
  <2>6. printed # ThePlan[at].expected => fail'
    BY <2>3 DEF Command
  <2>7. ASSUME NEW i \in Done("check")', over'[i] # ThePlan'[i].expected
        PROVE  fail'
    <3>1. CASE i = at
      BY <2>2, <2>4, <2>6, <2>7, <3>1
    <3>2. CASE i \in Done("check")
      BY <2>2, <2>4, <2>5, <2>7, <3>2 DEF ChecksInv
    <3> QED
      BY <2>2, <3>1, <3>2
  <2> QED
    BY <2>7 DEF ChecksInv
<1>13. CASE End
  BY <1>1, <1>13, DoneNext DEF End
<1>14. CASE Walltime
  BY <1>1, <1>14, DoneNext DEF Walltime
<1> QED
  BY <1>4, <1>5, <1>6, <1>7, <1>9, <1>10, <1>11, <1>12, <1>13, <1>14 DEF Next

\* When the gate lets the study begin, every check printed the verdict it
\* should (GateSound).
THEOREM GateHolds == Spec => []GateSound
<1>1. Init => ChecksInv
  <2>1. ASSUME Init
        PROVE  Done("check") = {}
    <3>1. JobInv /\ at = 1
      BY <2>1, JobInit DEF Init
    <3>2. DOMAIN ThePlan = 1 .. Len(ThePlan) /\ Len(ThePlan) \in Nat
      BY <3>1, PlanShape DEF JobInv, Position
    <3> QED
      BY <3>1, <3>2 DEF Done, Commands
  <2> QED
    BY <2>1 DEF ChecksInv
<1>2. ASSUME JobInv, ChecksInv, [Next]_vars
      PROVE  ChecksInv'
  <2>1. CASE UNCHANGED vars
    BY <1>2, <2>1 DEF vars, ChecksInv, Done, Commands, ThePlan
  <2> QED
    BY <1>2, <2>1, ChecksNext
<1>3. ASSUME JobInv, ChecksInv
      PROVE  GateSound
  <2>1. ASSUME status = "ended"
        PROVE  Done("check") = Commands("check")
    <3>1. at = Len(ThePlan) + 1 /\ Len(ThePlan) \in Nat /\ DOMAIN ThePlan = 1 .. Len(ThePlan)
      BY <1>3, <2>1, PlanShape DEF JobInv, Position
    <3>2. \A i \in DOMAIN ThePlan : i < at
      BY <3>1
    <3> QED
      BY <3>2 DEF Done, Commands
  <2> QED
    BY <1>3, <2>1 DEF ChecksInv, GateSound
<1> QED
  BY <1>1, <1>2, <1>3, JobInvariant, PTL DEF Spec

-----------------------------------------------------------------------------
(***************************************************************************)
(* The environment and the rows of the result files.                       *)
(***************************************************************************)
EnvSet == [modules : SUBSET {"cray-mpich", "rccl-net-plugin"}, path : Seq({"mine", "cray"})]

\* What a row of a file can be.
Entries(file) ==
  {r \in [launch : Started, size : 0 .. Unlimited] :
     /\ ThePlan[r.launch].file = file /\ r.size \in Wanted(r.launch)
     /\ ~Endless(ThePlan[r.launch], r.size)}

RowsInv == env \in EnvSet /\ \A file \in DOMAIN files : files[file] \in Seq(Entries(file))

LEMMA WithoutSeq ==
  ASSUME NEW S, NEW path \in Seq(S), NEW lib
  PROVE  Without(path, lib) \in Seq(S)
<1> DEFINE n == Len(path)
           Go == [kp \in (1 .. n) \X Seq(S) |->
                    IF path[kp[1]] = lib THEN kp[2] ELSE Append(kp[2], path[kp[1]])]
           kept == CHOOSE f : f = [k \in 0 .. n |->
                     IF k = 0 THEN <<>>
                     ELSE IF path[k] = lib THEN f[k - 1] ELSE Append(f[k - 1], path[k])]
<1>1. n \in Nat /\ \A k \in 1 .. n : path[k] \in S
  OBVIOUS
<1>2. Go \in [(1 .. n) \X Seq(S) -> Seq(S)]
  BY <1>1
<1>3. <<>> \in Seq(S)
  OBVIOUS
<1>4. \A k \in 1 .. n, p \in Seq(S) :
        Go[<<k, p>>] = IF path[k] = lib THEN p ELSE Append(p, path[k])
  OBVIOUS
<1>5. Without(path, lib) = kept[n]
  BY DEF Without
<1> HIDE DEF n, Go
<1>6. PICK f \in [0 .. n -> Seq(S)] : GoesOn(f, n, <<>>, Go)
  BY <1>1, <1>2, <1>3, SomeGoesOn
<1>7. ASSUME NEW k \in 0 .. n
      PROVE  f[k] = IF k = 0 THEN <<>>
                    ELSE IF path[k] = lib THEN f[k - 1] ELSE Append(f[k - 1], path[k])
  <2>1. CASE k = 0
    BY <1>6, <2>1 DEF GoesOn
  <2>2. CASE k # 0
    <3>1. k \in 1 .. n /\ k - 1 \in 0 .. n
      BY <1>1, <2>2
    <3>2. f[k] = Go[<<k, f[k - 1]>>]
      BY <1>6, <2>2 DEF GoesOn
    <3>3. f[k - 1] \in Seq(S)
      BY <3>1
    <3> QED
      BY <1>4, <2>2, <3>1, <3>2, <3>3
  <2> QED
    BY <2>1, <2>2
<1>8. f = [k \in 0 .. n |->
             IF k = 0 THEN <<>>
             ELSE IF path[k] = lib THEN f[k - 1] ELSE Append(f[k - 1], path[k])]
  BY <1>7
<1>9. kept = [k \in 0 .. n |->
                IF k = 0 THEN <<>>
                ELSE IF path[k] = lib THEN kept[k - 1] ELSE Append(kept[k - 1], path[k])]
  BY <1>8
<1> HIDE DEF kept
<1> DEFINE G == {k \in Nat : k <= n => kept[k] \in Seq(S)}
<1>10. 0 \in G
  BY <1>1, <1>3, <1>9
<1>11. ASSUME NEW k \in 1 .. n, k - 1 \in G
       PROVE  k \in G
  <2>1. kept[k - 1] \in Seq(S) /\ path[k] \in S
    BY <1>1, <1>11
  <2>2. kept[k] = IF path[k] = lib THEN kept[k - 1] ELSE Append(kept[k - 1], path[k])
    <3>1. k \in 0 .. n /\ k # 0
      BY <1>1
    <3> QED
      BY <1>9, <3>1
  <2>3. kept[k] \in Seq(S)
    BY <2>1, <2>2
  <2> QED
    BY <1>1, <2>3
<1> HIDE DEF G
<1>12. n \in G
  <2>1. n \in 0 .. n
    BY <1>1
  <2> QED
    BY <1>1, <1>10, <1>11, <2>1, UpTo
<1> QED
  BY <1>1, <1>5, <1>12 DEF G

\* What the loads leave, whichever of their module commands fail.
LEMMA LoadsKeepTypes ==
  ASSUME NEW e \in EnvSet, NEW failed
  PROVE  /\ LoadMine(e, failed) \in EnvSet
         /\ LoadCray(e, failed) \in EnvSet
         /\ LoadPlugin(e, failed) \in EnvSet
<1> DEFINE P == Seq({"mine", "cray"})
<1>1. /\ \A p \in P : Without(p, "cray") \in P
      /\ \A p \in P : <<"cray">> \o p \in P /\ <<"mine">> \o p \in P
  <2>1. \A p \in P : Without(p, "cray") \in P
    BY WithoutSeq
  <2>2. <<"cray">> \in P /\ <<"mine">> \in P
    OBVIOUS
  <2> QED
    BY <2>1, <2>2
<1>2. ASSUME NEW f \in EnvSet, NEW m \in {"cray-mpich", "rccl-net-plugin"}
      PROVE  ModuleLoad(f, m) \in EnvSet /\ ModuleUnload(f, m) \in EnvSet
  <2>1. f.path \in P /\ f.modules \subseteq {"cray-mpich", "rccl-net-plugin"}
    BY DEF EnvSet
  <2>2. Without(f.path, "cray") \in P /\ <<"cray">> \o Without(f.path, "cray") \in P
    BY <1>1, <2>1
  <2> HIDE DEF P
  <2> QED
    BY <2>1, <2>2 DEF ModuleLoad, ModuleUnload, EnvSet, P
<1>3. ASSUME NEW f \in EnvSet
      PROVE  LoadBaseModules(f, failed) \in EnvSet /\ ExportMine(f) \in EnvSet
  <2>1. f.path \in P /\ f.modules \subseteq {"cray-mpich", "rccl-net-plugin"}
    BY DEF EnvSet
  <2>2. [modules |-> {}, path |-> f.path] \in EnvSet
    BY <2>1 DEF EnvSet
  <2>3. ModuleReset(f) \in EnvSet
    BY <1>2, <2>2 DEF ModuleReset
  <2>4. ExportMine(f) = [modules |-> f.modules, path |-> <<"mine">> \o f.path]
    <3>1. f = [modules |-> f.modules, path |-> f.path]
      BY DEF EnvSet
    <3>2. \A a, b, c : [[modules |-> a, path |-> b] EXCEPT !.path = c] = [modules |-> a, path |-> c]
      OBVIOUS
    <3>3. ExportMine(f) = [[modules |-> f.modules, path |-> f.path]
                              EXCEPT !.path = <<"mine">> \o f.path]
      BY <3>1 DEF ExportMine
    <3> HIDE DEF P
    <3> QED
      BY <3>2, <3>3
  <2>5. <<"mine">> \o f.path \in P
    BY <1>1, <2>1
  <2> HIDE DEF P
  <2> QED
    BY <2>1, <2>3, <2>4, <2>5 DEF LoadBaseModules, EnvSet, P
<1>4. LoadMine(e, failed) \in EnvSet
  BY <1>2, <1>3 DEF LoadMine
<1>5. LoadCray(e, failed) \in EnvSet
  BY <1>2, <1>3 DEF LoadCray
<1>6. LoadPlugin(e, failed) \in EnvSet
  BY <1>2 DEF LoadPlugin
<1> QED
  BY <1>4, <1>5, <1>6

\* A started launch finds the file of its rows.
LEMMA FileThere ==
  ASSUME JobInv, NEW i \in Started
  PROVE  /\ i \in Launches /\ i \in DOMAIN ThePlan /\ i <= at
         /\ ThePlan[i].file \in DOMAIN files
<1>1. /\ DOMAIN ThePlan = 1 .. Len(ThePlan) /\ Len(ThePlan) \in Nat
      /\ HasHeader(ThePlan) /\ at \in Nat
  BY PlanShape DEF JobInv, Position
<1>2. i \in Launches /\ i \in DOMAIN ThePlan /\ ThePlan[i].op = "launch" /\ i <= at
  BY <1>1 DEF JobInv, Position, Progress, Done, Launches, Commands
<1>3. PICK h \in DOMAIN ThePlan :
        h < i /\ ThePlan[h].op = "header" /\ ThePlan[h].file = ThePlan[i].file
  BY <1>1, <1>2 DEF HasHeader
<1>4. h \in Done("header")
  BY <1>1, <1>2, <1>3 DEF Done, Commands
<1> QED
  BY <1>2, <1>3, <1>4 DEF JobInv, Progress

LEMMA EntriesGrow ==
  ASSUME JobInv, UNCHANGED <<job, betaSwaps>>, Started \subseteq Started', NEW file
  PROVE  Entries(file) \subseteq Entries(file)'
<1>1. ThePlan' = ThePlan /\ TheJob' = TheJob /\ \A i : Wanted(i)' = Wanted(i)
  BY DoneNext
<1>2. \A l, s : Endless(l, s)' = Endless(l, s)
  BY <1>1 DEF Endless, TheCall
<1> QED
  BY <1>1, <1>2 DEF Entries

LEMMA RowsNext ==
  ASSUME JobInv, RowsInv, Next
  PROVE  RowsInv'
<1>1. ASSUME UNCHANGED <<job, betaSwaps>>, Started \subseteq Started', NEW file \in DOMAIN files
      PROVE  files[file] \in Seq(Entries(file)')
  <2>1. Entries(file) \subseteq Entries(file)'
    BY <1>1, EntriesGrow
  <2>2. files[file] \in Seq(Entries(file))
    BY DEF RowsInv
  <2> QED
    BY <2>1, <2>2, SeqMonotonic
<1>2. ASSUME UNCHANGED <<job, betaSwaps, files>>, Started \subseteq Started', env' \in EnvSet
      PROVE  RowsInv'
  BY <1>1, <1>2 DEF RowsInv
<1>3. CASE LoadModules
  <2>1. env' \in EnvSet
    <3>1. ThePlan[at].what \in {"mine", "cray", "plugin"}
      BY <1>3, AtCommand, PlanCommands DEF LoadModules, JobInv, Position
    <3>2. PICK failed : env' = CASE Command.what = "mine" -> LoadMine(env, failed)
                                 [] Command.what = "cray" -> LoadCray(env, failed)
                                 [] Command.what = "plugin" -> LoadPlugin(env, failed)
      BY <1>3 DEF LoadModules
    <3>3. /\ LoadMine(env, failed) \in EnvSet /\ LoadCray(env, failed) \in EnvSet
          /\ LoadPlugin(env, failed) \in EnvSet
      BY LoadsKeepTypes DEF RowsInv
    <3> QED
      BY <3>1, <3>2, <3>3 DEF Command
  <2> QED
    BY <1>2, <1>3, <2>1 DEF LoadModules, Started
<1>4. CASE Header
  <2>1. UNCHANGED <<job, betaSwaps, env, ran>>
    BY <1>4 DEF Header
  <2>2. CASE files' = files
    BY <1>2, <2>1, <2>2 DEF Started, RowsInv
  <2>3. CASE files' = Put(files, Command.file, <<>>)
    <3>1. ASSUME NEW file \in DOMAIN files'
          PROVE  files'[file] \in Seq(Entries(file)')
      <4>1. CASE file = Command.file
        <5>1. files'[file] = <<>>
          BY <2>3, <4>1 DEF Put
        <5> QED
          BY <5>1
      <4>2. CASE file # Command.file
        <5>1. file \in DOMAIN files /\ files'[file] = files[file]
          BY <2>3, <4>2 DEF Put
        <5> QED
          BY <1>1, <2>1, <5>1 DEF Started
      <4> QED
        BY <4>1, <4>2
    <3> QED
      BY <2>1, <3>1 DEF RowsInv
  <2> QED
    BY <1>4, <2>2, <2>3 DEF Header
<1>5. CASE Launch
  <2>1. Started \subseteq Started'
    BY <1>5 DEF Launch, Started, Put
  <2> QED
    BY <1>2, <1>5, <2>1 DEF Launch, RowsInv
<1>6. CASE Row
  <2> DEFINE r == [launch |-> at, size |-> Size]
             f == ThePlan[at].file
  <2>1. /\ UNCHANGED <<job, betaSwaps, env, ran>> /\ row > 0 /\ row <= Len(ThePlan[at].sizes)
        /\ Size = ThePlan[at].sizes[row] /\ ~Endless(ThePlan[at], Size)
        /\ files' = [files EXCEPT ![f] = Append(@, r)]
    BY <1>6 DEF Row, RowsLeft, Command, Size
  <2>2. at \in Started /\ at \in Launches /\ row \in Nat
    BY <2>1 DEF JobInv, Position, Progress
  <2>3. f \in DOMAIN files
    BY <2>2, FileThere
  <2>4. Size \in Wanted(at) /\ Size \in 0 .. Unlimited
    <3>1. row \in DOMAIN ThePlan[at].sizes
      BY <2>1, <2>2, PlanLaunches DEF JobInv, Position
    <3>2. ThePlan[at].sizes \in Seq(0 .. Unlimited)
      BY <2>2, PlanLaunches DEF JobInv, Position
    <3>3. ThePlan[at].sizes[row] \in Wanted(at)
      BY <2>2, <3>1, PlanLaunches DEF JobInv, Position
    <3>4. ThePlan[at].sizes[row] \in 0 .. Unlimited
      <4>1. row \in 1 .. Len(ThePlan[at].sizes)
        BY <2>2, <3>1, PlanLaunches DEF JobInv, Position
      <4> QED
        BY <3>2, <4>1, ElementOfSeq
    <3> QED
      BY <2>1, <3>3, <3>4
  <2> HIDE DEF f
  <2>5. r \in Entries(f)
    <3>1. r.launch = at /\ r.size = Size /\ r \in [launch : Started, size : 0 .. Unlimited]
      BY <2>2, <2>4
    <3> HIDE DEF r
    <3> QED
      BY <2>1, <2>4, <3>1 DEF Entries, f
  <2> HIDE DEF r
  <2>6. Started \subseteq Started'
    BY <2>1 DEF Started
  <2>7. ASSUME NEW file \in DOMAIN files'
        PROVE  files'[file] \in Seq(Entries(file)')
    <3>1. file \in DOMAIN files
      BY <2>1, <2>7
    <3>2. CASE file = f
      <4>1. files'[file] = Append(files[f], r)
        BY <2>1, <2>3, <3>2
      <4>2. files[file] \in Seq(Entries(file)')
        BY <1>1, <2>1, <2>6, <3>1
      <4>3. r \in Entries(file)'
        <5>1. Entries(file) \subseteq Entries(file)'
          BY <2>1, <2>6, EntriesGrow
        <5> QED
          BY <2>5, <3>2, <5>1
      <4>4. Append(files[file], r) \in Seq(Entries(file)')
        <5>1. \A S : \A q \in Seq(S), x \in S : Append(q, x) \in Seq(S)
          OBVIOUS
        <5> QED
          BY <4>2, <4>3, <5>1
      <4> QED
        BY <3>2, <4>1, <4>4
    <3>3. CASE file # f
      <4>1. files'[file] = files[file]
        BY <2>1, <3>1, <3>3
      <4> QED
        BY <1>1, <2>1, <2>6, <3>1, <4>1
    <3> QED
      BY <3>2, <3>3
  <2> QED
    BY <2>1, <2>7 DEF RowsInv
<1>7. CASE Complete \/ LaunchFails \/ StackExhausted
  <2>1. UNCHANGED <<job, betaSwaps, env, files, ran>>
    BY <1>7 DEF Complete, LaunchFails, StackExhausted, EndLaunch
  <2> QED
    BY <1>2, <2>1 DEF Started, RowsInv
<1>8. CASE RunCase \/ End \/ Walltime
  <2>1. UNCHANGED <<job, betaSwaps, env, files, ran>>
    BY <1>8 DEF RunCase, End, Walltime
  <2> QED
    BY <1>2, <2>1 DEF Started, RowsInv
<1> QED
  BY <1>3, <1>4, <1>5, <1>6, <1>7, <1>8 DEF Next

LEMMA RowsInvariant == Spec => []RowsInv
<1>1. Init => RowsInv
  <2>1. ASSUME Init
        PROVE  RowsInv
    <3>1. \A e \in Inherited : e \in EnvSet
      <4>1. /\ <<"mine">> \in Seq({"mine", "cray"}) /\ <<"cray">> \in Seq({"mine", "cray"})
            /\ <<"mine", "cray">> \in Seq({"mine", "cray"})
            /\ <<"cray", "mine">> \in Seq({"mine", "cray"})
        OBVIOUS
      <4> QED
        BY <4>1 DEF Inherited, EnvSet
    <3> QED
      BY <2>1, <3>1 DEF Init, RowsInv
  <2> QED
    BY <2>1
<1>2. ASSUME JobInv, RowsInv, [Next]_vars
      PROVE  RowsInv'
  <2>1. CASE UNCHANGED vars
    <3>1. \A file : Entries(file) \subseteq Entries(file)'
      BY <1>2, <2>1, EntriesGrow DEF vars, Started
    <3>2. UNCHANGED <<env, files>>
      BY <2>1 DEF vars
    <3>3. ASSUME NEW file \in DOMAIN files
          PROVE  files[file] \in Seq(Entries(file)')
      BY <1>2, <3>1, SeqMonotonic DEF RowsInv
    <3> QED
      BY <1>2, <3>2, <3>3 DEF RowsInv
  <2> QED
    BY <1>2, <2>1, RowsNext
<1> QED
  BY <1>1, <1>2, JobInvariant, PTL DEF Spec

\* Types; a row of a file comes from a started launch into that file and is of a
\* size this was asked for (TypeOK).
THEOREM TypesHold == Spec => []TypeOK
<1>1. ASSUME JobInv, RowsInv
      PROVE  TypeOK
  <2>1. /\ job \in DOMAIN Jobs /\ betaSwaps \in BetaSwaps /\ fail \in BOOLEAN
        /\ status \in {"running", "ended", "killed"}
        /\ at \in 1 .. Len(ThePlan) + 1 /\ row \in Nat
    BY <1>1 DEF JobInv, Position
  <2>2. row > 0 => at \in Started /\ row <= Len(Command.sizes) + 1
    BY <1>1 DEF JobInv, Position, Progress
  <2>3. /\ env.modules \subseteq {"cray-mpich", "rccl-net-plugin"}
        /\ Range(env.path) \subseteq {"mine", "cray"}
    <3>1. env.path \in Seq({"mine", "cray"})
      BY <1>1 DEF RowsInv, EnvSet
    <3>2. \A k \in DOMAIN env.path : env.path[k] \in {"mine", "cray"}
      BY <3>1
    <3> QED
      BY <1>1, <3>2 DEF RowsInv, EnvSet, Range
  <2>4. Started \subseteq Launches /\ broken \subseteq DOMAIN ThePlan
    BY <1>1, FileThere DEF JobInv, Progress
  <2>5. DOMAIN over \subseteq Started \cup Commands("check")
    BY <1>1 DEF JobInv, Progress, Done
  <2>6. ASSUME NEW file \in DOMAIN files, NEW k \in DOMAIN files[file]
        PROVE  LET r == files[file][k]
               IN  /\ r.launch \in Started /\ ThePlan[r.launch].file = file
                   /\ r.size \in Wanted(r.launch)
    <3>1. files[file][k] \in Entries(file)
      BY <1>1 DEF RowsInv
    <3> QED
      BY <3>1 DEF Entries
  <2> QED
    BY <2>1, <2>2, <2>3, <2>4, <2>5, <2>6 DEF TypeOK
<1> QED
  BY <1>1, JobInvariant, RowsInvariant, PTL

-----------------------------------------------------------------------------
(***************************************************************************)
(* Rows stay where they are, and a launch that completes has all of them.  *)
(***************************************************************************)
Has(i, k) ==
  \E m \in DOMAIN files[ThePlan[i].file] :
    files[ThePlan[i].file][m] = [launch |-> i, size |-> ThePlan[i].sizes[k]]

WrittenInv ==
  /\ \A k \in 1 .. row - 1 : Has(at, k)
  /\ \A i \in Done("launch") :
       over[i] = "complete" => \A k \in DOMAIN ThePlan[i].sizes : Has(i, k)

LEMMA RowsStay ==
  ASSUME JobInv, RowsInv, Next, NEW i \in Started, NEW k, Has(i, k)
  PROVE  Has(i, k)'
<1>1. ThePlan' = ThePlan
  BY DoneNext DEF Next, LoadModules, Header, Launch, Row, Complete, LaunchFails, StackExhausted,
       EndLaunch, RunCase, End, Walltime
<1> DEFINE f == ThePlan[i].file
           entry == [launch |-> i, size |-> ThePlan[i].sizes[k]]
<1>2. /\ f \in DOMAIN files /\ i \in Launches /\ i \in DOMAIN ThePlan /\ i <= at
      /\ ThePlan[i].op = "launch"
  BY FileThere DEF Launches, Commands
<1>3. PICK m \in DOMAIN files[f] : files[f][m] = entry
  BY DEF Has
<1>4. ASSUME files'[f] = files[f]
      PROVE  Has(i, k)'
  BY <1>1, <1>3, <1>4 DEF Has
<1>5. CASE Header
  <2>1. CASE files' = files
    BY <1>4, <2>1
  <2>2. CASE files' = Put(files, Command.file, <<>>) /\ ~(Command.append /\ Command.file \in DOMAIN files)
    <3>1. Command.file # f
      <4>1. CASE Command.file \notin DOMAIN files
        BY <1>2, <4>1
      <4>2. CASE Command.file \in DOMAIN files
        <5>1. at \in DOMAIN ThePlan /\ ThePlan[at].op = "header"
          BY <1>5, AtCommand DEF Header
        <5>2. ~ThePlan[at].append
          BY <2>2, <4>2 DEF Command
        <5>3. KeepsRows(ThePlan) /\ i < at
          <6>1. i # at
            BY <1>2, <5>1
          <6>2. KeepsRows(ThePlan) /\ DOMAIN ThePlan = 1 .. Len(ThePlan) /\ Len(ThePlan) \in Nat
            BY PlanShape DEF JobInv, Position
          <6> QED
            BY <1>2, <5>1, <6>1, <6>2
        <5> QED
          BY <1>2, <5>1, <5>2, <5>3 DEF KeepsRows, Command
      <4> QED
        BY <4>1, <4>2
    <3>2. files'[f] = files[f]
      BY <1>2, <2>2, <3>1 DEF Put
    <3> QED
      BY <1>4, <3>2
  <2> QED
    BY <1>5, <2>1, <2>2 DEF Header
<1>6. CASE Row
  <2> DEFINE r == [launch |-> at, size |-> Size]
  <2>1. files' = [files EXCEPT ![Command.file] = Append(@, r)]
    BY <1>6 DEF Row
  <2>2. CASE Command.file # f
    BY <1>2, <1>4, <2>1, <2>2
  <2>3. CASE Command.file = f
    <3>1. files[f] \in Seq(Entries(f))
      BY <1>2 DEF RowsInv
    <3> HIDE DEF r, entry, f
    <3>2. files'[f] = Append(files[f], r)
      BY <1>2, <2>1, <2>3
    <3>3. m \in DOMAIN Append(files[f], r) /\ Append(files[f], r)[m] = files[f][m]
      <4>1. \A S : \A x : \A q \in Seq(S) : \A n \in DOMAIN q :
              n \in DOMAIN Append(q, x) /\ Append(q, x)[n] = q[n]
        OBVIOUS
      <4> QED
        BY <3>1, <4>1
    <3> QED
      BY <1>1, <1>3, <3>2, <3>3 DEF Has, entry, f
  <2> QED
    BY <2>2, <2>3
<1>7. CASE ~(Header \/ Row)
  <2>1. files' = files
    BY <1>7 DEF Next, LoadModules, Launch, Complete, LaunchFails, StackExhausted,
         EndLaunch, RunCase, End, Walltime
  <2> QED
    BY <1>4, <2>1
<1> QED
  BY <1>5, <1>6, <1>7

LEMMA WrittenNext ==
  ASSUME JobInv, RowsInv, WrittenInv, Next
  PROVE  WrittenInv'
<1>1. Done("launch") \subseteq Started /\ (row > 0 => at \in Started)
  BY DEF JobInv, Progress
<1>2. ThePlan' = ThePlan /\ job' = job
  BY DoneNext DEF Next, LoadModules, Header, Launch, Row, Complete, LaunchFails, StackExhausted,
       EndLaunch, RunCase, End, Walltime
<1>a. row \in Nat /\ \A i \in Done("launch") : i # at /\ i \in DOMAIN over
  <2>1. at \in Nat /\ row \in Nat
    BY PlanShape DEF JobInv, Position
  <2> QED
    BY <2>1 DEF Done, JobInv, Progress
<1>3. ASSUME NEW i \in Done("launch"), over'[i] = over[i], over'[i] = "complete"
      PROVE  \A k \in DOMAIN ThePlan'[i].sizes : Has(i, k)'
  BY <1>1, <1>2, <1>3, RowsStay DEF WrittenInv
<1>b. ASSUME NEW i, i = at, row > 0
      PROVE  i \in Started /\ \A k \in 1 .. row - 1 : Has(i, k)'
  BY <1>1, <1>b, RowsStay DEF WrittenInv
<1>4. ASSUME row' = 0, Done("launch")' = Done("launch"),
             \A i \in Done("launch") : over'[i] = over[i]
      PROVE  WrittenInv'
  <2>1. 1 .. row' - 1 = {}
    BY <1>4
  <2> QED
    BY <1>3, <1>4, <2>1 DEF WrittenInv
<1>5. CASE LoadModules \/ Header \/ RunCase
  <2>1. PICK op : op # "launch" /\ Running(op) /\ at' = at + 1 /\ row' = row
                  /\ UNCHANGED <<job, betaSwaps, status>>
    BY <1>5 DEF LoadModules, Header, RunCase
  <2>2. row = 0 /\ Moved(op)
    BY <2>1, AtCommand DEF JobInv, Position, Launches, Commands, Moved
  <2>3. Done("launch")' = Done("launch")
    BY <2>1, <2>2, MovedDone
  <2>4. ASSUME NEW i \in Done("launch")
        PROVE  over'[i] = over[i]
    <3>1. over' = over \/ \E what : over' = Put(over, at, what)
      BY <1>5 DEF LoadModules, Header, RunCase
    <3> QED
      BY <1>a, <3>1 DEF Put
  <2> QED
    BY <1>4, <2>1, <2>2, <2>3, <2>4
<1>6. CASE Launch
  <2>1. row' = 1 /\ UNCHANGED <<at, over>>
    BY <1>6 DEF Launch
  <2>2. Done("launch")' = Done("launch")
    BY <1>2, <2>1, DoneNext
  <2>3. 1 .. row' - 1 = {}
    BY <2>1
  <2> QED
    BY <1>3, <2>1, <2>2, <2>3 DEF WrittenInv
<1>7. CASE Row
  <2>1. row > 0 /\ row' = row + 1 /\ UNCHANGED <<at, over>> /\ Running("launch")
    BY <1>7 DEF Row
  <2>2. Done("launch")' = Done("launch")
    BY <1>2, <2>1, DoneNext
  <2>3. ASSUME NEW i, i = at, NEW n, n = row
        PROVE  Has(i, n)'
    <3> DEFINE f == ThePlan[i].file
               r == [launch |-> i, size |-> ThePlan[i].sizes[n]]
    <3>1. files' = [files EXCEPT ![f] = Append(@, r)]
      BY <1>7, <2>3 DEF Row, Command, Size
    <3>2. f \in DOMAIN files
      BY <1>1, <2>1, <2>3, FileThere
    <3>3. files[f] \in Seq(Entries(f))
      BY <3>2 DEF RowsInv
    <3> HIDE DEF f, r
    <3>4. files'[f] = Append(files[f], r)
      BY <3>1, <3>2
    <3>5. \E m \in DOMAIN Append(files[f], r) : Append(files[f], r)[m] = r
      <4>1. \A S : \A x : \A q \in Seq(S) : Len(q) + 1 \in DOMAIN Append(q, x)
                                         /\ Append(q, x)[Len(q) + 1] = x
        OBVIOUS
      <4> QED
        BY <3>3, <4>1
    <3>6. \E m \in DOMAIN files'[ThePlan'[i].file] : files'[ThePlan'[i].file][m] = r
      BY <1>2, <3>4, <3>5 DEF f
    <3> QED
      BY <1>2, <3>6 DEF Has, r
  <2>4. ASSUME NEW i, i = at, NEW k \in 1 .. row' - 1
        PROVE  Has(i, k)'
    <3>1. k \in 1 .. row - 1 \/ k = row
      BY <1>a, <2>1, <2>4
    <3> QED
      BY <1>b, <2>1, <2>3, <2>4, <3>1
  <2>5. \A k \in 1 .. row' - 1 : Has(at, k)'
    BY <2>1, <2>4
  <2> QED
    BY <1>3, <2>1, <2>2, <2>5 DEF WrittenInv
<1>8. ASSUME NEW how, Running("launch"), row > 0, EndLaunch(how),
             how = "complete" => ~RowsLeft
      PROVE  WrittenInv'
  <2>1. Moved("launch") /\ row' = 0
    BY <1>8 DEF EndLaunch, GoOn, Moved
  <2>2. Done("launch")' = Done("launch") \cup {at}
    BY <2>1, MovedDone
  <2>3. over'[at] = how /\ \A i \in Done("launch") : over'[i] = over[i]
    BY <1>a, <1>8 DEF EndLaunch, Put
  <2>4. ASSUME NEW i, i = at, how = "complete"
        PROVE  \A k \in DOMAIN ThePlan'[i].sizes : Has(i, k)'
    <3>1. i \in Started /\ i \in Launches
      BY <1>1, <1>8, <2>4, FileThere
    <3>2. DOMAIN ThePlan[i].sizes = 1 .. Len(ThePlan[i].sizes) /\ Len(ThePlan[i].sizes) \in Nat
      BY <3>1, PlanLaunches DEF JobInv, Position
    <3>3. ~(row <= Len(ThePlan[i].sizes))
      BY <1>8, <2>4 DEF RowsLeft, Command
    <3>4. \A k \in DOMAIN ThePlan[i].sizes : k \in 1 .. row - 1
      BY <1>a, <3>2, <3>3
    <3> QED
      BY <1>2, <1>8, <1>b, <2>4, <3>4
  <2>5. ASSUME NEW i \in Done("launch")', over'[i] = "complete"
        PROVE  \A k \in DOMAIN ThePlan'[i].sizes : Has(i, k)'
    <3>1. CASE i = at
      BY <2>3, <2>4, <2>5, <3>1
    <3>2. CASE i \in Done("launch")
      BY <1>3, <2>3, <2>5, <3>2
    <3> QED
      BY <2>2, <3>1, <3>2
  <2>6. 1 .. row' - 1 = {}
    BY <2>1
  <2> QED
    BY <2>5, <2>6 DEF WrittenInv
<1>9. CASE Complete
  BY <1>8, <1>9 DEF Complete
<1>10. CASE LaunchFails
  <2>1. PICK how \in {"failed", "quiet"} : EndLaunch(how)
    BY <1>10 DEF LaunchFails
  <2>2. how # "complete"
    BY <2>1
  <2> QED
    BY <1>8, <1>10, <2>1, <2>2 DEF LaunchFails
<1>11. CASE StackExhausted
  <2>1. "recursed" # "complete"
    OBVIOUS
  <2> QED
    BY <1>8, <1>11, <2>1 DEF StackExhausted
<1>12. CASE End \/ Walltime
  <2>1. UNCHANGED <<at, row, over>>
    BY <1>12 DEF End, Walltime
  <2>2. Done("launch")' = Done("launch")
    BY <1>2, <2>1, DoneNext
  <2>3. ASSUME NEW i, i = at, NEW k \in 1 .. row' - 1
        PROVE  Has(i, k)'
    <3>1. k \in 1 .. row - 1 /\ row > 0
      BY <1>a, <2>1, <2>3
    <3> QED
      BY <1>b, <2>3, <3>1
  <2>4. \A k \in 1 .. row' - 1 : Has(at, k)'
    BY <2>1, <2>3
  <2> QED
    BY <1>3, <2>1, <2>2, <2>4 DEF WrittenInv
<1> QED
  BY <1>5, <1>6, <1>7, <1>9, <1>10, <1>11, <1>12 DEF Next

LEMMA WrittenInvariant == Spec => []WrittenInv
<1>1. ASSUME Init
      PROVE  WrittenInv
  <2>1. JobInv
    BY <1>1, JobInit
  <2>a. row = 0 /\ DOMAIN over = {}
    BY <1>1 DEF Init
  <2>2. Done("launch") = {} /\ 1 .. row - 1 = {}
    BY <2>1, <2>a DEF JobInv, Progress
  <2> QED
    BY <2>2 DEF WrittenInv
<1>2. ASSUME JobInv, RowsInv, WrittenInv, [Next]_vars
      PROVE  WrittenInv'
  <2>1. CASE UNCHANGED vars
    BY <1>2, <2>1 DEF vars, WrittenInv, Done, Commands, ThePlan, Has
  <2> QED
    BY <1>2, <2>1, WrittenNext
<1> QED
  BY <1>1, <1>2, JobInvariant, RowsInvariant, PTL DEF Spec

\* A launch before the one the script is at has all its rows, or died.
LEMMA NoGaps ==
  ASSUME JobInv, WrittenInv, NEW i \in Started, i # at
  PROVE  Lost(i) = {} \/ Died(i)
<1>1. i \in Done("launch") /\ i \in DOMAIN over
  BY DEF JobInv, Progress
<1>2. /\ i \in Launches /\ ThePlan[i].file \in DOMAIN files
  BY FileThere
<1>3. ASSUME over[i] = "complete"
      PROVE  Lost(i) = {}
  <2>1. ASSUME NEW s \in Wanted(i)
        PROVE  s \in Measured(i)
    <3>1. PICK k \in DOMAIN ThePlan[i].sizes : s = ThePlan[i].sizes[k]
      BY <1>2, PlanLaunches DEF JobInv, Position
    <3>2. Has(i, k)
      BY <1>1, <1>3 DEF WrittenInv
    <3>3. Rows(i) = files[ThePlan[i].file]
      BY <1>2 DEF Rows
    <3> QED
      BY <3>1, <3>2, <3>3 DEF Has, Measured
  <2> QED
    BY <2>1 DEF Lost
<1> QED
  BY <1>1, <1>3 DEF Died

\* A launch that lacks rows although it did not die is the last of the job
\* (ClippedIsLast).
THEOREM OnlyTheLastIsClipped == Spec => []ClippedIsLast
<1>1. ASSUME JobInv, WrittenInv, NEW i \in Started, Lost(i) # {}, ~Died(i), NEW j \in Started
      PROVE  j <= i
  <2>1. i = at
    BY <1>1, NoGaps
  <2> QED
    BY <1>1, <2>1, FileThere
<1>2. ASSUME JobInv, WrittenInv
      PROVE  ClippedIsLast
  BY <1>1, <1>2 DEF ClippedIsLast
<1> QED
  BY <1>2, JobInvariant, WrittenInvariant, PTL

\* A launch that has rows was started.
LEMMA MeasuredStarted ==
  ASSUME JobInv, RowsInv, NEW j \in Launches, Measured(j) # {}
  PROVE  j \in Started /\ Measured(j) \subseteq Wanted(j)
<1>1. PICK size \in Wanted(j) :
        \E k \in DOMAIN Rows(j) : Rows(j)[k] = [launch |-> j, size |-> size]
  BY DEF Measured
<1>2. PICK k \in DOMAIN Rows(j) : Rows(j)[k] = [launch |-> j, size |-> size]
  BY <1>1
<1>3. ThePlan[j].file \in DOMAIN files /\ Rows(j) = files[ThePlan[j].file]
  BY <1>2 DEF Rows
<1>4. Rows(j)[k] \in Entries(ThePlan[j].file)
  BY <1>2, <1>3 DEF RowsInv
<1>5. [launch |-> j, size |-> size].launch \in Started
  BY <1>2, <1>4 DEF Entries
<1> QED
  BY <1>5 DEF Measured

\* A walltime costs the sweep of 8192 nodes the small sizes, and the gradient job
\* the slow baseline (WalltimeSparesHeadline).
THEOREM HeadlineSpared == Spec => []WalltimeSparesHeadline
<1>1. ASSUME JobInv, RowsInv, WrittenInv, NEW i \in Launches, NEW j \in Launches,
             Measured(j) # {}, i < j
      PROVE  Lost(i) = {} \/ Died(i)
  <2>1. j \in Started /\ j <= at /\ at \in Nat /\ i \in DOMAIN ThePlan /\ j \in DOMAIN ThePlan
    BY <1>1, MeasuredStarted, FileThere, PlanShape, PlanLaunches DEF JobInv, Position
  <2>2. i \in Started /\ i # at
    <3>1. DOMAIN ThePlan \subseteq Nat
      BY <1>1, PlanShape DEF JobInv, Position
    <3>2. i < at
      BY <1>1, <2>1, <3>1
    <3> QED
      BY <1>1, <2>1, <3>1, <3>2 DEF JobInv, Progress, Done, Launches
  <2> QED
    BY <1>1, <2>2, NoGaps
<1>2. ASSUME JobInv, RowsInv, NEW i \in Launches, NEW j \in Launches, Measured(j) # {},
             TheJob.script = "run_rccl_8192_sweep",
             NEW s \in Wanted(i), NEW t \in Measured(j), s > t
      PROVE  i < j
  <2>1. ThePlan = RcclSweep(TheJob)
    BY <1>2 DEF ThePlan, TheJob, Plans, Plan, JobInv, Position
  <2>2. Falling(ThePlan)
    BY <2>1, SweepOrder
  <2>3. /\ i \in DOMAIN ThePlan /\ j \in DOMAIN ThePlan
        /\ ThePlan[i].op = "launch" /\ ThePlan[j].op = "launch"
        /\ Wanted(i) = Range(ThePlan[i].sizes) /\ Wanted(j) = Range(ThePlan[j].sizes)
    BY <1>2, PlanLaunches DEF JobInv, Position
  <2>4. t \in Wanted(j)
    BY <1>2 DEF Measured
  <2>5. s \in Int /\ t \in Int
    <3>1. ASSUME NEW h \in Launches, NEW u \in Wanted(h)
          PROVE  u \in Int
      <4>1. PICK k \in DOMAIN ThePlan[h].sizes : u = ThePlan[h].sizes[k]
        BY <1>2, <3>1, PlanLaunches DEF JobInv, Position
      <4>2. ThePlan[h].sizes \in Seq(0 .. Unlimited)
        BY <1>2, <3>1, PlanLaunches DEF JobInv, Position
      <4>3. ThePlan[h].sizes[k] \in 0 .. Unlimited
        <5>1. k \in 1 .. Len(ThePlan[h].sizes)
          BY <4>2, LenProperties
        <5> QED
          BY <4>2, <5>1, ElementOfSeq
      <4> QED
        BY <4>1, <4>3
    <3> QED
      BY <2>4, <3>1
  <2>6. ~(j <= i)
    <3>1. ASSUME j <= i
          PROVE  ~(t < s)
      BY <2>2, <2>3, <2>4, <3>1 DEF Falling
    <3> QED
      BY <1>2, <2>5, <3>1
  <2>7. i \in Int /\ j \in Int
    BY <1>2, <2>3, PlanShape DEF JobInv, Position
  <2> QED
    BY <2>6, <2>7
<1>3. ASSUME JobInv, NEW i \in Launches, NEW j \in Launches, TheJob.script = "run_ml_sync",
             ThePlan[j].file = "B_mpich_dev", ThePlan[i].file # "B_mpich_dev"
      PROVE  i < j
  <2>1. ThePlan = MlSync(TheJob)
    BY <1>3 DEF ThePlan, TheJob, Plans, Plan, JobInv, Position
  <2>2. /\ i \in DOMAIN ThePlan /\ j \in DOMAIN ThePlan
        /\ ThePlan[i].op = "launch" /\ ThePlan[j].op = "launch"
    BY <1>3, PlanLaunches DEF JobInv, Position
  <2> QED
    BY <1>3, <2>1, <2>2, BaselineLast
<1>4. ASSUME JobInv, RowsInv, WrittenInv
      PROVE  WalltimeSparesHeadline
  BY <1>1, <1>2, <1>3, <1>4 DEF WalltimeSparesHeadline
<1> QED
  BY <1>4, JobInvariant, RowsInvariant, WrittenInvariant, PTL

-----------------------------------------------------------------------------
(***************************************************************************)
(* The modules a launch finds: what the last load that resets them, and    *)
(* the loads of the plugin after it, leave in the environment.             *)
(***************************************************************************)
LastBase(b) ==
  /\ b \in Done("load") /\ ThePlan[b].what # "plugin"
  /\ \A c \in Done("load") : b < c => ThePlan[c].what = "plugin"

Plugins(b) == {c \in Done("load") : b < c}

FirstLib(lib) == env.path # <<>> /\ Head(env.path) = lib

EnvInv ==
  \A b \in DOMAIN ThePlan : LastBase(b) =>
    /\ ThePlan[b].what = "mine" => FirstLib("mine")
    /\ b \notin broken =>
         /\ ThePlan[b].what = "cray" => FirstLib("cray")
         /\ Plugins(b) = {} => "rccl-net-plugin" \notin env.modules
         /\ Plugins(b) # {} /\ Plugins(b) \cap broken = {} => "rccl-net-plugin" \in env.modules

LEMMA HeadOfFront ==
  ASSUME NEW S, NEW x \in S, NEW p \in Seq(S)
  PROVE  <<x>> \o p # <<>> /\ Head(<<x>> \o p) = x
<1>1. <<x>> \in Seq(S) /\ Len(<<x>>) = 1 /\ <<x>>[1] = x
  OBVIOUS
<1>2. /\ <<x>> \o p \in Seq(S) /\ Len(<<x>> \o p) = 1 + Len(p) /\ Len(p) \in Nat
      /\ (<<x>> \o p)[1] = x
  BY <1>1, Concat
<1> DEFINE r == <<x>> \o p
<1>3. Len(r) # 0 /\ r \in Seq(S) /\ r[1] = x
  BY <1>2
<1> HIDE DEF r
<1>4. r # <<>> /\ Head(r) = x
  BY <1>3
<1> QED
  BY <1>4 DEF r

\* What a load does to the environment; with none of its commands failing.
LEMMA LoadEffects ==
  ASSUME NEW e \in EnvSet, NEW failed
  PROVE  /\ LoadMine(e, failed).path # <<>> /\ Head(LoadMine(e, failed).path) = "mine"
         /\ LoadPlugin(e, failed).path = e.path
         /\ failed = {} =>
              /\ "rccl-net-plugin" \notin LoadMine(e, failed).modules
              /\ LoadCray(e, failed).path # <<>> /\ Head(LoadCray(e, failed).path) = "cray"
              /\ "rccl-net-plugin" \notin LoadCray(e, failed).modules
              /\ "rccl-net-plugin" \in LoadPlugin(e, failed).modules
<1> DEFINE P == Seq({"mine", "cray"})
<1>1. \A f \in EnvSet : f.path \in P
  BY DEF EnvSet
<1>2. \A p \in P : Without(p, "cray") \in P
  BY WithoutSeq
<1>3. \A p \in P : /\ <<"mine">> \o p # <<>> /\ Head(<<"mine">> \o p) = "mine"
                   /\ <<"cray">> \o p # <<>> /\ Head(<<"cray">> \o p) = "cray"
  BY HeadOfFront
<1> HIDE DEF P
<1>4. ASSUME NEW f \in EnvSet
      PROVE  /\ ExportMine(f).path = <<"mine">> \o f.path
             /\ ExportMine(f).modules = f.modules
  <2>1. f = [modules |-> f.modules, path |-> f.path]
    BY DEF EnvSet
  <2>2. \A a, b, c : [[modules |-> a, path |-> b] EXCEPT !.path = c] = [modules |-> a, path |-> c]
    OBVIOUS
  <2>3. ExportMine(f) = [[modules |-> f.modules, path |-> f.path]
                            EXCEPT !.path = <<"mine">> \o f.path]
    BY <2>1 DEF ExportMine
  <2>4. ExportMine(f) = [modules |-> f.modules, path |-> <<"mine">> \o f.path]
    BY <2>2, <2>3
  <2> QED
    BY <2>4
<1> DEFINE base == LoadBaseModules(e, failed)
           bare == IF "unload" \in failed THEN base ELSE ModuleUnload(base, "cray-mpich")
<1>5. base \in EnvSet
  <2>1. ModuleReset(e) \in EnvSet
    <3>1. e.path \in P
      BY <1>1
    <3>2. ModuleReset(e) = [modules |-> {"cray-mpich"}, path |-> <<"cray">> \o Without(e.path, "cray")]
      BY DEF ModuleReset, ModuleLoad
    <3>3. <<"cray">> \o Without(e.path, "cray") \in P
      <4>1. <<"cray">> \in P /\ Without(e.path, "cray") \in P
        BY <1>2, <3>1 DEF P
      <4> QED
        BY <4>1 DEF P
    <3> QED
      BY <3>2, <3>3 DEF EnvSet, P
  <2> QED
    BY <2>1 DEF LoadBaseModules
<1>6. bare \in EnvSet
  <2>1. ModuleUnload(base, "cray-mpich")
          = [modules |-> base.modules \ {"cray-mpich"}, path |-> Without(base.path, "cray")]
    BY DEF ModuleUnload
  <2> HIDE DEF base
  <2>2. Without(base.path, "cray") \in P /\ base.modules \subseteq {"cray-mpich", "rccl-net-plugin"}
    BY <1>1, <1>2, <1>5 DEF EnvSet
  <2> QED
    BY <1>5, <2>1, <2>2 DEF EnvSet, P
<1>7. LoadMine(e, failed) = ExportMine(bare)
  BY DEF LoadMine
<1>8. LoadMine(e, failed).path # <<>> /\ Head(LoadMine(e, failed).path) = "mine"
  <2> HIDE DEF bare
  <2> QED
    BY <1>1, <1>3, <1>4, <1>6, <1>7
<1>9. LoadPlugin(e, failed).path = e.path
  BY DEF LoadPlugin, ModuleLoad
<1>10. ASSUME failed = {}
       PROVE  /\ "rccl-net-plugin" \notin LoadMine(e, failed).modules
              /\ LoadCray(e, failed).path # <<>> /\ Head(LoadCray(e, failed).path) = "cray"
              /\ "rccl-net-plugin" \notin LoadCray(e, failed).modules
              /\ "rccl-net-plugin" \in LoadPlugin(e, failed).modules
  <2>1. base.modules = {"cray-mpich"}
    BY <1>10 DEF LoadBaseModules, ModuleReset, ModuleLoad
  <2>2. bare.modules = {"cray-mpich"} \ {"cray-mpich"}
    BY <1>10, <2>1 DEF ModuleUnload
  <2>3. "rccl-net-plugin" \notin LoadMine(e, failed).modules
    <3> HIDE DEF bare
    <3> QED
      BY <1>4, <1>6, <1>7, <2>2
  <2>4. LoadCray(e, failed) = [modules |-> base.modules \cup {"cray-mpich"},
                               path |-> <<"cray">> \o Without(base.path, "cray")]
    BY <1>10 DEF LoadCray, ModuleLoad
  <2>5. LoadPlugin(e, failed) = [modules |-> e.modules \cup {"rccl-net-plugin"}, path |-> e.path]
    BY <1>10 DEF LoadPlugin, ModuleLoad
  <2> HIDE DEF base, bare
  <2>6. Without(base.path, "cray") \in P
    BY <1>1, <1>2, <1>5
  <2> QED
    BY <1>3, <2>1, <2>3, <2>4, <2>5, <2>6
<1> QED
  BY <1>8, <1>9, <1>10

LEMMA EnvNext ==
  ASSUME JobInv, RowsInv, EnvInv, Next
  PROVE  EnvInv'
<1>1. ThePlan' = ThePlan /\ job' = job /\ broken \subseteq broken'
  BY DoneNext DEF Next, LoadModules, Header, Launch, Row, Complete, LaunchFails, StackExhausted,
       EndLaunch, RunCase, End, Walltime, Trouble
<1>2. CASE LoadModules
  <2> DEFINE what == ThePlan[at].what
  <2>1. Moved("load") /\ at \in DOMAIN ThePlan /\ ThePlan[at].op = "load"
    BY <1>2, AtCommand DEF LoadModules, Moved, JobInv, Position, Launches, Commands
  <2>2. Done("load")' = Done("load") \cup {at}
    BY <2>1, MovedDone
  <2>3. what \in {"mine", "cray", "plugin"}
    BY <2>1, PlanCommands DEF JobInv, Position
  <2>4. PICK failed :
          /\ failed # {} => at \in broken'
          /\ env' = CASE what = "mine" -> LoadMine(env, failed)
                      [] what = "cray" -> LoadCray(env, failed)
                      [] what = "plugin" -> LoadPlugin(env, failed)
    BY <1>2 DEF LoadModules, Command, Trouble
  <2>5. env \in EnvSet
    BY DEF RowsInv
  <2>6. at \in Nat /\ DOMAIN ThePlan \subseteq Nat /\ \A c \in Done("load") : c < at /\ ~(at < c)
    <3>1. at \in Nat /\ DOMAIN ThePlan \subseteq Nat
      BY PlanShape DEF JobInv, Position
    <3> QED
      BY <3>1 DEF Done, Commands
  <2>7. ASSUME NEW b \in DOMAIN ThePlan, LastBase(b)', b = at
        PROVE  /\ ThePlan[b].what = "mine" => FirstLib("mine")'
               /\ b \notin broken' =>
                    /\ ThePlan[b].what = "cray" => FirstLib("cray")'
                    /\ Plugins(b)' = {} /\ "rccl-net-plugin" \notin env'.modules
    <3>1. what # "plugin"
      BY <1>1, <2>7 DEF LastBase
    <3>2. Plugins(b)' = {}
      <4>1. ~(at < at)
        BY <2>6
      <4> QED
        BY <2>2, <2>6, <2>7, <4>1 DEF Plugins
    <3>3. CASE what = "mine"
      <4>1. env' = LoadMine(env, failed)
        BY <2>4, <3>3
      <4> QED
        BY <2>4, <2>5, <2>7, <3>2, <3>3, <4>1, LoadEffects DEF FirstLib
    <3>4. CASE what = "cray"
      <4>1. env' = LoadCray(env, failed)
        BY <2>4, <3>4
      <4> QED
        BY <2>4, <2>5, <2>7, <3>2, <3>4, <4>1, LoadEffects DEF FirstLib
    <3> QED
      BY <2>3, <3>1, <3>3, <3>4
  <2>8. ASSUME NEW b \in DOMAIN ThePlan, LastBase(b)', b # at
        PROVE  /\ what = "plugin" /\ LastBase(b)
               /\ Plugins(b)' = Plugins(b) \cup {at}
    <3>1. b \in Done("load") /\ b < at
      BY <2>2, <2>6, <2>8 DEF LastBase
    <3>2. what = "plugin"
      BY <1>1, <2>2, <2>8, <3>1 DEF LastBase
    <3>3. LastBase(b)
      BY <1>1, <2>2, <2>8, <3>1 DEF LastBase
    <3> QED
      BY <2>2, <3>1, <3>2, <3>3 DEF Plugins
  <2>9. ASSUME NEW b \in DOMAIN ThePlan, LastBase(b)', b # at
        PROVE  /\ ThePlan[b].what = "mine" => FirstLib("mine")'
               /\ b \notin broken' =>
                    /\ ThePlan[b].what = "cray" => FirstLib("cray")'
                    /\ Plugins(b)' # {}
                    /\ Plugins(b)' \cap broken' = {} => "rccl-net-plugin" \in env'.modules
    <3>1. /\ what = "plugin" /\ LastBase(b) /\ Plugins(b)' = Plugins(b) \cup {at}
      BY <2>8, <2>9
    <3>2. env' = LoadPlugin(env, failed)
      BY <2>4, <3>1
    <3>3. env'.path = env.path /\ (failed = {} => "rccl-net-plugin" \in env'.modules)
      BY <2>5, <3>2, LoadEffects
    <3>4. \A lib : FirstLib(lib)' <=> FirstLib(lib)
      BY <3>3 DEF FirstLib
    <3> QED
      BY <1>1, <2>4, <3>1, <3>3, <3>4 DEF EnvInv
  <2> QED
    BY <1>1, <2>7, <2>9 DEF EnvInv
<1>3. CASE ~LoadModules
  <2>1. env' = env
    BY <1>3 DEF Next, Header, Launch, Row, Complete, LaunchFails, StackExhausted,
         EndLaunch, RunCase, End, Walltime
  <2>2. Done("load")' = Done("load")
    <3>1. CASE at' = at
      BY <1>1, <3>1, DoneNext
    <3>2. CASE at' # at
      <4>1. \E op : op # "load" /\ Running(op) /\ at' = at + 1
        BY <1>3, <3>2 DEF Next, Header, Launch, Row, Complete, LaunchFails, StackExhausted,
             EndLaunch, GoOn, RunCase, End, Walltime
      <4>2. at \notin Commands("load")
        BY <4>1, AtCommand DEF Commands
      <4> QED
        BY <1>1, <4>1, <4>2, DoneNext
    <3> QED
      BY <3>1, <3>2
  <2>3. ASSUME NEW b \in DOMAIN ThePlan
        PROVE  (LastBase(b)' <=> LastBase(b)) /\ Plugins(b)' = Plugins(b)
    BY <1>1, <2>2 DEF LastBase, Plugins
  <2>4. \A lib : FirstLib(lib)' <=> FirstLib(lib)
    BY <2>1 DEF FirstLib
  <2> QED
    BY <1>1, <2>1, <2>3, <2>4 DEF EnvInv
<1> QED
  BY <1>2, <1>3

LEMMA EnvInvariant == Spec => []EnvInv
<1>1. ASSUME Init
      PROVE  EnvInv
  <2>1. JobInv /\ at = 1
    BY <1>1, JobInit DEF Init
  <2>2. DOMAIN ThePlan \subseteq Nat \ {0}
    BY <2>1, PlanShape DEF JobInv, Position
  <2>3. Done("load") = {}
    BY <2>1, <2>2 DEF Done, Commands
  <2> QED
    BY <2>3 DEF EnvInv, LastBase
<1>2. ASSUME JobInv, RowsInv, EnvInv, [Next]_vars
      PROVE  EnvInv'
  <2>1. CASE UNCHANGED vars
    <3>1. UNCHANGED <<env, broken>> /\ ThePlan' = ThePlan
      BY <2>1 DEF vars, ThePlan
    <3>2. \A b : (LastBase(b)' <=> LastBase(b)) /\ Plugins(b)' = Plugins(b)
      BY <2>1 DEF vars, LastBase, Plugins, Done, Commands, ThePlan
    <3>3. \A lib : FirstLib(lib)' <=> FirstLib(lib)
      BY <3>1 DEF FirstLib
    <3> QED
      BY <1>2, <3>1, <3>2, <3>3 DEF EnvInv
  <2> QED
    BY <1>2, <2>1, EnvNext
<1> QED
  BY <1>1, <1>2, JobInvariant, RowsInvariant, PTL DEF Spec

\* What a launch finds that the script starts now.
LEMMA StackFound ==
  ASSUME JobInv, EnvInv, Running("launch")
  PROVE  /\ ThePlan[at].program # "osu_cray" => Stack(ThePlan[at].program).mpi = "mine"
         /\ Setup(at) \cap broken = {} =>
              /\ ThePlan[at].program = "osu_cray" => Stack(ThePlan[at].program).mpi = "cray"
              /\ MayUseRccl(ThePlan[at]) => Stack(ThePlan[at].program).plugin
              /\ ThePlan[at].file \in Baselines => ~Stack(ThePlan[at].program).plugin
<1> DEFINE stack == Stack(ThePlan[at].program)
<1>1. at \in DOMAIN ThePlan /\ ThePlan[at].op = "launch"
  BY AtCommand
<1>2. /\ Len(ThePlan) \in Nat /\ DOMAIN ThePlan = 1 .. Len(ThePlan) /\ SetUpAt(ThePlan, at)
  BY <1>1, PlanShape DEF JobInv, Position, SetUp
<1>3. PICK base \in {"mine", "cray"}, plugged \in BOOLEAN :
        Fits(ThePlan[at], base, plugged) /\ Before(ThePlan, at, base, plugged)
  BY <1>2 DEF SetUpAt
<1>4. PICK b \in DOMAIN ThePlan :
        /\ b < at /\ ThePlan[b] = Load(base)
        /\ \A c \in DOMAIN ThePlan : b < c /\ c < at /\ ThePlan[c].op = "load" =>
             ThePlan[c] = Load("plugin")
        /\ plugged <=> \E c \in DOMAIN ThePlan : b < c /\ c < at /\ ThePlan[c].op = "load"
  BY <1>3 DEF Before
<1>5. \A what : Load(what).op = "load" /\ Load(what).what = what
  BY DEF Load
<1>6. LastBase(b) /\ ThePlan[b].what = base
  <2>1. \A c \in Done("load") : b < c => ThePlan[c] = Load("plugin")
    BY <1>4 DEF Done, Commands
  <2>2. b \in Done("load")
    BY <1>4, <1>5 DEF Done, Commands
  <2> QED
    BY <1>3, <1>4, <1>5, <2>1, <2>2 DEF LastBase
<1>7. plugged <=> Plugins(b) # {}
  BY <1>4 DEF Plugins, Done, Commands
<1>8. {b} \cup Plugins(b) \subseteq Setup(at)
  <2> DEFINE loads == {j \in 1 .. at : ThePlan[j].op = "load"}
             bases == {j \in loads : ThePlan[j].what # "plugin"}
  <2>1. ASSUME NEW c \in bases
        PROVE  c <= b /\ c \in 1 .. at
    <3>1. c \in DOMAIN ThePlan /\ c < at /\ ThePlan[c].op = "load" /\ c \in Nat /\ b \in Nat
      BY <1>1, <1>2
    <3>2. ~(b < c)
      BY <1>4, <1>5, <3>1
    <3> QED
      BY <3>1, <3>2
  <2>2. ASSUME NEW c \in {b} \cup Plugins(b)
        PROVE  c \in loads /\ b <= c
    <3>1. at \in DOMAIN ThePlan /\ DOMAIN ThePlan = 1 .. Len(ThePlan) /\ Len(ThePlan) \in Nat
      BY <1>1, <1>2
    <3>2. c \in DOMAIN ThePlan /\ ThePlan[c].op = "load" /\ c < at /\ (c = b \/ b < c)
      BY <1>4, <1>5 DEF Plugins, Done, Commands
    <3> HIDE DEF Command
    <3>3. c \in 1 .. at /\ b <= c
      BY <3>1, <3>2
    <3> QED
      BY <3>2, <3>3
  <2>3. \A c \in {b} \cup Plugins(b) : c \in loads /\ \A d \in bases : d <= c
    <3>1. ASSUME NEW c \in {b} \cup Plugins(b), NEW d \in bases
          PROVE  d <= c
      <4>1. d <= b /\ b <= c /\ d \in Nat /\ b \in Nat /\ c \in Nat
        BY <1>2, <2>1, <2>2
      <4> QED
        BY <4>1
    <3> QED
      BY <2>2, <3>1
  <2> QED
    BY <2>3 DEF Setup
<1>9. /\ base = "mine" => FirstLib("mine")
      /\ b \notin broken =>
           /\ base = "cray" => FirstLib("cray")
           /\ Plugins(b) = {} => "rccl-net-plugin" \notin env.modules
           /\ Plugins(b) # {} /\ Plugins(b) \cap broken = {} => "rccl-net-plugin" \in env.modules
  BY <1>6 DEF EnvInv
<1>10. /\ \A lib : FirstLib(lib) => stack.mpi = lib
       /\ stack.plugin <=> "rccl-net-plugin" \in env.modules
  BY DEF Stack, LibMpi, FirstLib
<1> HIDE DEF stack
<1>11. ThePlan[at].program # "osu_cray" => stack.mpi = "mine"
  BY <1>3, <1>9, <1>10 DEF Fits
<1>12. ASSUME Setup(at) \cap broken = {}
       PROVE  /\ ThePlan[at].program = "osu_cray" => stack.mpi = "cray"
              /\ MayUseRccl(ThePlan[at]) => stack.plugin
              /\ ThePlan[at].file \in Baselines => ~stack.plugin
  <2>1. b \notin broken /\ Plugins(b) \cap broken = {}
    BY <1>8, <1>12
  <2>2. stack.plugin <=> plugged
    BY <1>7, <1>9, <1>10, <2>1
  <2>3. base = "cray" => stack.mpi = "cray"
    BY <1>9, <1>10, <2>1
  <2> QED
    BY <1>3, <2>2, <2>3 DEF Fits
<1> QED
  BY <1>11, <1>12 DEF stack

StackInv == NotHijacked /\ RightStack

\* Starting a launch is the only step that says what one ran with.
LEMMA StackNext ==
  ASSUME JobInv, EnvInv, StackInv, Next
  PROVE  StackInv'
<1>1. ThePlan' = ThePlan /\ broken \subseteq broken'
  BY DoneNext DEF Next, LoadModules, Header, Launch, Row, Complete, LaunchFails, StackExhausted,
       EndLaunch, RunCase, End, Walltime, Trouble
<1>2. \A i : Setup(i)' = Setup(i)
  BY <1>1 DEF Setup
<1> DEFINE Right(launch, stack) ==
      /\ stack.mpi = (IF launch.program = "osu_cray" THEN "cray" ELSE "mine")
      /\ MayUseRccl(launch) => stack.plugin
      /\ launch.file \in Baselines => ~stack.plugin
<1>3. ASSUME NEW i \in Started, ran'[i] = ran[i]
      PROVE  /\ ThePlan[i].program # "osu_cray" => ran'[i].mpi = "mine"
             /\ Setup(i) \cap broken' = {} => Right(ThePlan[i], ran'[i])
  <2>1. ThePlan[i].program # "osu_cray" => ran[i].mpi = "mine"
    BY DEF StackInv, NotHijacked
  <2>2. Setup(i) \cap broken = {} => Right(ThePlan[i], ran[i])
    BY DEF StackInv, RightStack
  <2>3. Setup(i) \cap broken' = {} => Setup(i) \cap broken = {}
    BY <1>1
  <2> QED
    BY <1>3, <2>1, <2>2, <2>3
<1>4. CASE Launch
  <2>1. ran' = Put(ran, at, Stack(ThePlan[at].program)) /\ broken' = broken /\ Running("launch")
    BY <1>4 DEF Launch, Command
  <2>2. Started' = Started \cup {at} /\ ran'[at] = Stack(ThePlan[at].program)
    BY <2>1 DEF Put, Started
  <2>3. \A i \in Started : i # at => ran'[i] = ran[i]
    BY <2>1 DEF Put, Started
  <2>4. /\ ThePlan[at].program # "osu_cray" => ran'[at].mpi = "mine"
        /\ Setup(at) \cap broken' = {} => Right(ThePlan[at], ran'[at])
    <3> HIDE DEF Setup
    <3>1. /\ ThePlan[at].program # "osu_cray" => ran'[at].mpi = "mine"
          /\ Setup(at) \cap broken = {} =>
              /\ ThePlan[at].program = "osu_cray" => ran'[at].mpi = "cray"
              /\ MayUseRccl(ThePlan[at]) => ran'[at].plugin
              /\ ThePlan[at].file \in Baselines => ~ran'[at].plugin
      BY <2>1, <2>2, StackFound
    <3> QED
      BY <2>1, <3>1
  <2>5. \A i \in Started' :
          /\ ThePlan[i].program # "osu_cray" => ran'[i].mpi = "mine"
          /\ Setup(i) \cap broken' = {} => Right(ThePlan[i], ran'[i])
    <3> HIDE DEF Right
    <3> QED
      BY <1>3, <2>2, <2>3, <2>4
  <2>6. NotHijacked'
    BY <1>1, <2>5 DEF NotHijacked
  <2>7. RightStack'
    BY <1>1, <1>2, <2>5 DEF RightStack
  <2> QED
    BY <2>6, <2>7 DEF StackInv
<1>5. CASE ~Launch
  <2>1. ran' = ran
    BY <1>5 DEF Next, LoadModules, Header, Row, Complete, LaunchFails, StackExhausted,
         EndLaunch, RunCase, End, Walltime
  <2>2. \A i \in Started' :
          /\ ThePlan[i].program # "osu_cray" => ran'[i].mpi = "mine"
          /\ Setup(i) \cap broken' = {} => Right(ThePlan[i], ran'[i])
    <3> HIDE DEF Right
    <3>1. Started' = Started
      BY <2>1 DEF Started
    <3> QED
      BY <1>3, <2>1, <3>1
  <2>3. NotHijacked'
    BY <1>1, <2>2 DEF NotHijacked
  <2>4. RightStack'
    BY <1>1, <1>2, <2>2 DEF RightStack
  <2> QED
    BY <2>3, <2>4 DEF StackInv
<1> QED
  BY <1>4, <1>5

LEMMA StackInvariant == Spec => []StackInv
<1>1. ASSUME Init
      PROVE  StackInv
  <2>1. Started = {}
    BY <1>1 DEF Init, Started
  <2> QED
    BY <2>1 DEF StackInv, NotHijacked, RightStack
<1>2. ASSUME JobInv, EnvInv, StackInv, [Next]_vars
      PROVE  StackInv'
  <2>1. CASE UNCHANGED vars
    BY <1>2, <2>1 DEF vars, StackInv, NotHijacked, RightStack, Started, Setup, ThePlan
  <2> QED
    BY <1>2, <2>1, StackNext
<1> QED
  BY <1>1, <1>2, JobInvariant, EnvInvariant, PTL DEF Spec

\* A launch of the own build never runs on the libmpi of Cray, whatever module
\* commands fail (NotHijacked).
THEOREM NeverHijacked == Spec => []NotHijacked
<1>1. StackInv => NotHijacked
  BY DEF StackInv
<1> QED
  BY <1>1, StackInvariant, PTL

\* A launch whose own module commands work runs the MPI it is named for, with the
\* network plugin if it may use RCCL and without if it is a baseline, whatever
\* was inherited or failed before (RightStack).
THEOREM StackIsRight == Spec => []RightStack
<1>1. StackInv => RightStack
  BY DEF StackInv
<1> QED
  BY <1>1, StackInvariant, PTL

-----------------------------------------------------------------------------
(***************************************************************************)
(* The GCDs: every launcher puts local rank l on GPU_MAP[l + 1].           *)
(***************************************************************************)
LEMMA MapInjective ==
  ASSUME NEW k \in LocalRanks, NEW l \in LocalRanks, GPU_MAP[k + 1] = GPU_MAP[l + 1]
  PROVE  k = l
<1>1. /\ GPU_MAP[1] = 4 /\ GPU_MAP[2] = 5 /\ GPU_MAP[3] = 2 /\ GPU_MAP[4] = 3
      /\ GPU_MAP[5] = 6 /\ GPU_MAP[6] = 7 /\ GPU_MAP[7] = 0 /\ GPU_MAP[8] = 1
  BY DEF GPU_MAP
<1>2. \A m \in LocalRanks : m \in {0, 1, 2, 3, 4, 5, 6, 7}
  BY DEF LocalRanks, PPN
<1>3. \A m \in LocalRanks :
        m = (CASE GPU_MAP[m + 1] = 4 -> 0 [] GPU_MAP[m + 1] = 5 -> 1 [] GPU_MAP[m + 1] = 2 -> 2
               [] GPU_MAP[m + 1] = 3 -> 3 [] GPU_MAP[m + 1] = 6 -> 4 [] GPU_MAP[m + 1] = 7 -> 5
               [] GPU_MAP[m + 1] = 0 -> 6 [] GPU_MAP[m + 1] = 1 -> 7)
  BY <1>1, <1>2
<1> QED
  BY <1>3

LEMMA OneOfOne ==
  ASSUME NEW n \in Int, NEW gcd
  PROVE  <<gcd>>[(n % Len(<<gcd>>)) + 1] = gcd
<1>1. Len(<<gcd>>) = 1 /\ <<gcd>>[1] = gcd
  OBVIOUS
<1>2. (n % 1) + 1 = 1
  OBVIOUS
<1> QED
  BY <1>1, <1>2

\* The first of three variables is set.
LEMMA FirstOfThree ==
  ASSUME NEW m \in Nat, NEW n \in Int, NEW p \in Int
  PROVE  FirstSet(<<m, n, p>>) = m
<1> DEFINE values == <<m, n, p>>
           set == {i \in 1 .. Len(values) : values[i] # Unset}
           first == CHOOSE i \in set : \A j \in set : i <= j
<1>1. Len(values) = 3 /\ values[1] = m /\ m # Unset
  BY DEF Unset
<1>2. 1 \in set /\ \A j \in set : 1 <= j
  BY <1>1
<1>3. \A i \in set : (\A j \in set : i <= j) => i = 1
  <2>1. \A i \in set : i \in Nat /\ 1 <= i
    BY <1>1
  <2> HIDE DEF set
  <2> QED
    BY <1>2, <2>1
<1> HIDE DEF set
<1>4. first = 1
  <2>1. \E i \in set : \A j \in set : i <= j
    BY <1>2
  <2>2. first \in set /\ \A j \in set : first <= j
    BY <2>1
  <2> HIDE DEF first
  <2> QED
    BY <1>3, <2>2
<1>5. FirstSet(<<m, n, p>>) = IF set = {} THEN 0 ELSE values[first]
  BY DEF FirstSet, set
<1> QED
  BY <1>1, <1>2, <1>4, <1>5

LEMMA Placed ==
  ASSUME NEW program \in {"osu_mine", "osu_cray", "rccl_tests"}
  PROVE  RankGcds(program) = [node \in SampleNodes |-> [l \in LocalRanks |-> GPU_MAP[l + 1]]]
<1>1. ASSUME NEW node \in Nat, NEW l \in LocalRanks
      PROVE  /\ Device(Srun(node, l)) = GPU_MAP[l + 1]
             /\ OnlyDevice(Bind(Hydra(node, l))) = GPU_MAP[l + 1]
             /\ Device(Bind(Hydra(node, l))) = GPU_MAP[l + 1]
  <2>1. l \in 0 .. 7 /\ l # Unset /\ l % 8 = l /\ l \in Nat
    BY DEF LocalRanks, PPN, Unset
  <2> DEFINE gcd == GPU_MAP[l + 1]
  <2>2. Device(Srun(node, l)) = gcd
    <3>1. OmbLocalRank(Srun(node, l)) = node * PPN + l /\ Srun(node, l).visible = <<gcd>>
      BY DEF OmbLocalRank, Srun
    <3>2. node * PPN + l \in Int
      BY <2>1 DEF PPN
    <3> HIDE DEF gcd
    <3> QED
      BY <3>1, <3>2, OneOfOne DEF Device
  <2>3. LID(Hydra(node, l)) = l
    BY <2>1, FirstOfThree DEF LID, Hydra, Unset
  <2>4. Bind(Hydra(node, l)) =
          [MPI_LOCALRANKID |-> l, SLURM_LOCALID |-> 0, PMI_LOCALRANKID |-> Unset,
           SLURM_PROCID |-> node, visible |-> <<gcd>>]
    BY <2>1, <2>3 DEF Bind, Hydra
  <2>5. OmbLocalRank(Bind(Hydra(node, l))) = l /\ Bind(Hydra(node, l)).visible = <<gcd>>
    BY <2>1, <2>4 DEF OmbLocalRank
  <2> HIDE DEF gcd
  <2>6. Device(Bind(Hydra(node, l))) = gcd
    BY <2>1, <2>5, OneOfOne DEF Device
  <2>7. OnlyDevice(Bind(Hydra(node, l))) = gcd
    BY <2>5 DEF OnlyDevice
  <2> QED
    BY <2>2, <2>6, <2>7 DEF gcd
<1>2. \A node \in SampleNodes : node \in Nat
  BY StudyConstants
<1>3. ASSUME NEW node \in SampleNodes, NEW l \in LocalRanks
      PROVE  (CASE program = "osu_cray" -> Device(Srun(node, l))
                [] program = "rccl_tests" -> OnlyDevice(Bind(Hydra(node, l)))
                [] OTHER -> Device(Bind(Hydra(node, l)))) = GPU_MAP[l + 1]
  BY <1>1, <1>2
<1> QED
  BY <1>3 DEF RankGcds

\* Every launch of a job puts a rank on the same GCD, and the ranks of a node on
\* different ones, although the launchers set different variables (OneGcdPerRank).
THEOREM GcdsAgree == Spec => []OneGcdPerRank
<1>1. ASSUME JobInv, RowsInv
      PROVE  OneGcdPerRank
  <2> DEFINE programs == {ThePlan[i].program : i \in {i \in Started : ThePlan[i].buffer = "device"}}
             gcds == [p \in programs |-> RankGcds(p)]
             placed == [node \in SampleNodes |-> [l \in LocalRanks |-> GPU_MAP[l + 1]]]
  <2>1. \A p \in programs : p \in {"osu_mine", "osu_cray", "rccl_tests"}
    BY <1>1, FileThere, PlanLaunches DEF JobInv, Position
  <2>2. \A p \in programs : gcds[p] = placed
    BY <2>1, Placed
  <2>3. \A node \in SampleNodes : IsInjective(placed[node])
    <3>1. ASSUME NEW node \in SampleNodes
          PROVE  IsInjective(placed[node])
      <4>1. placed[node] = [l \in LocalRanks |-> GPU_MAP[l + 1]]
        OBVIOUS
      <4>2. \A k, l \in LocalRanks : GPU_MAP[k + 1] = GPU_MAP[l + 1] => k = l
        BY MapInjective
      <4> QED
        BY <4>1, <4>2 DEF IsInjective
    <3> QED
      BY <3>1
  <2> QED
    BY <2>2, <2>3 DEF OneGcdPerRank
<1> QED
  BY <1>1, JobInvariant, RowsInvariant, PTL

-----------------------------------------------------------------------------
(***************************************************************************)
(* Where a call ends: the way of a selection, step by step.                *)
(***************************************************************************)
Point(at_, staged) == [at |-> at_, staged |-> staged]

LEMMA PointFields ==
  ASSUME NEW a, NEW q
  PROVE  /\ Point(a, q).at = a /\ Point(a, q).staged = q
         /\ \A b : [Point(a, q) EXCEPT !.at = b] = Point(b, q)
BY DEF Point

LEMMA StepStart ==
  ASSUME NEW st, NEW call, NEW bs, NEW q
  PROVE  Step(st, call, bs, Point("MPI_Allreduce", q))
           = Point(IF st.collectives = "all" THEN Leaf(st.ch4, call) ELSE "impl", q)
BY PointFields DEF Step

LEMMA StepComposition ==
  ASSUME NEW st, NEW call, NEW bs, NEW q, NEW name \in {"alpha", "beta"}
  PROVE  Step(st, call, bs, Point(name, q)) = Point("impl", Composition(st, call, name, bs))
<1>1. \A x : [at |-> "impl", staged |-> x] = Point("impl", x)
  BY DEF Point
<1> QED
  BY <1>1, PointFields DEF Step

LEMMA StepImpl ==
  ASSUME NEW st, NEW call, NEW bs, NEW q
  PROVE  Step(st, call, bs, Point("impl", q))
           = Point(IF st.algorithm = "auto" THEN "allcomm_auto" ELSE st.algorithm, q)
BY PointFields DEF Step

LEMMA StepAuto ==
  ASSUME NEW st, NEW call, NEW bs, NEW q
  PROVE  Step(st, call, bs, Point("allcomm_auto", q)) = Point(Leaf(st.mpir, call), q)
BY PointFields DEF Step

LEMMA StepCcl ==
  ASSUME NEW st, NEW call, NEW bs, NEW q
  PROVE  Step(st, call, bs, Point("ccl", q)) = Point(IntraCcl(call, q), q)
BY PointFields DEF Step

LEMMA StepAtEnd ==
  ASSUME NEW st, NEW call, NEW bs, NEW q, NEW a \in MpichAlgorithms \cup {"stock", "rccl"}
  PROVE  Step(st, call, bs, Point(a, q)) = Point(a, q)
<1>1. a \notin {"MPI_Allreduce", "alpha", "beta", "impl", "allcomm_auto", "ccl"}
  BY DEF MpichAlgorithms
<1> QED
  BY <1>1, PointFields DEF Step

LEMMA RcclStays ==
  ASSUME NEW st, NEW call, NEW bs, NEW q
  PROVE  Step(st, call, bs, Point("rccl", q)) = Point("rccl", q)
BY PointFields DEF Step

LEMMA FiveSteps ==
  ASSUME NEW st, NEW call, NEW bs, NEW p1, NEW p2, NEW p3, NEW p4, NEW p5,
         p1 = Step(st, call, bs, Point("MPI_Allreduce", FALSE)),
         p2 = Step(st, call, bs, p1), p3 = Step(st, call, bs, p2),
         p4 = Step(st, call, bs, p3), p5 = Step(st, call, bs, p4)
  PROVE  Selected(st, call, bs) = p5
<1> DEFINE p0 == [at |-> "MPI_Allreduce", staged |-> FALSE]
           S(p) == Step(st, call, bs, p)
           Is(f) == f = [n \in 0 .. LongestWay |->
                           IF n = 0 THEN p0 ELSE Step(st, call, bs, f[n - 1])]
           g == [n \in 0 .. 5 |-> CASE n = 0 -> p0 [] n = 1 -> p1 [] n = 2 -> p2
                                    [] n = 3 -> p3 [] n = 4 -> p4 [] n = 5 -> p5]
<1>1. p1 = S(p0) /\ p2 = S(p1) /\ p3 = S(p2) /\ p4 = S(p3) /\ p5 = S(p4)
  BY DEF Point
<1>2. /\ g[0] = p0 /\ g[1] = p1 /\ g[2] = p2 /\ g[3] = p3 /\ g[4] = p4 /\ g[5] = p5
      /\ g = [n \in 0 .. 5 |-> g[n]]
  OBVIOUS
<1>3. /\ 1 - 1 = 0 /\ 2 - 1 = 1 /\ 3 - 1 = 2 /\ 4 - 1 = 3 /\ 5 - 1 = 4
      /\ \A n \in 0 .. 5 : n \in {0, 1, 2, 3, 4, 5}
  OBVIOUS
<1>4. Is(g)
  <2> HIDE DEF g, p0, S
  <2>1. ASSUME NEW n \in 0 .. 5
        PROVE  g[n] = IF n = 0 THEN p0 ELSE S(g[n - 1])
    BY <1>1, <1>2, <1>3
  <2>2. g = [n \in 0 .. 5 |-> IF n = 0 THEN p0 ELSE S(g[n - 1])]
    BY <1>2, <2>1
  <2> QED
    BY <2>2 DEF S, LongestWay
<1> DEFINE w == CHOOSE f : Is(f)
<1>5. Is(w)
  <2> HIDE DEF Is, g
  <2> QED
    BY <1>4
<1>6. Way(st, call, bs) = w
  BY DEF Way, p0
<1>7. w = [n \in 0 .. 5 |-> IF n = 0 THEN p0 ELSE S(w[n - 1])]
  BY <1>5 DEF LongestWay
<1> HIDE DEF w, p0, S
<1>8. w[0] = p0 /\ \A n \in 1 .. 5 : w[n] = S(w[n - 1])
  BY <1>7
<1>9. /\ w[0] = p0 /\ w[1] = S(w[0]) /\ w[2] = S(w[1]) /\ w[3] = S(w[2])
      /\ w[4] = S(w[3]) /\ w[5] = S(w[4])
  BY <1>3, <1>8
<1> QED
  BY <1>1, <1>6, <1>9 DEF Selected, LongestWay

(***************************************************************************)
(* The leaves of the trees, at any size.                                   *)
(***************************************************************************)
LEMMA FirstHit ==
  ASSUME NEW tree, NEW call, NEW i \in DOMAIN tree, DOMAIN tree \subseteq Nat,
         Applies(tree[i], call), \A k \in DOMAIN tree : k < i => ~Applies(tree[k], call)
  PROVE  Leaf(tree, call) = tree[i].leaf
<1> DEFINE hits == {k \in DOMAIN tree : Applies(tree[k], call)}
           first == CHOOSE k \in hits : \A m \in hits : k <= m
<1>1. i \in hits /\ \A k \in hits : k \in Nat /\ i <= k
  OBVIOUS
<1> HIDE DEF hits
<1>2. first \in hits /\ \A m \in hits : first <= m
  BY <1>1
<1>3. first = i
  BY <1>1, <1>2
<1> QED
  BY <1>3 DEF Leaf, hits

\* A call of the benchmark that the trees can hold.
Calls ==
  {OsuCall(s, r, b) : s \in 0 .. Unlimited, r \in 0 .. Unlimited, b \in {"host", "device"}}

LEMMA CallFields ==
  ASSUME NEW call \in Calls
  PROVE  /\ call.size \in Nat /\ call.size <= Unlimited
         /\ call.ranks \in Nat /\ call.ranks <= Unlimited
<1>1. call.size \in 0 .. Unlimited /\ call.ranks \in 0 .. Unlimited
  BY DEF Calls, OsuCall, Call
<1> QED
  BY <1>1, Bounds

LEMMA CallFlags ==
  ASSUME NEW call \in Calls
  PROVE  call.builtin = TRUE /\ call.supported = TRUE
BY DEF Calls, OsuCall, Call

LEMMA RuleApplies ==
  ASSUME NEW call \in Calls, NEW leaf
  PROVE  /\ Applies(Otherwise(leaf), call) /\ Otherwise(leaf).leaf = leaf
         /\ ~Applies(UserDefined(leaf), call) /\ UserDefined(leaf).leaf = leaf
         /\ \A split : (Applies(Upto(split, leaf), call) <=> call.size <= split)
                       /\ Upto(split, leaf).leaf = leaf
         /\ \A ranks, split :
              (Applies(Rule(ranks, split, BOOLEAN, leaf), call)
                 <=> call.ranks <= ranks /\ call.size <= split)
              /\ Rule(ranks, split, BOOLEAN, leaf).leaf = leaf
<1>1. \A ranks, split, ops :
        LET rule == Rule(ranks, split, ops, leaf)
        IN  rule.ranks = ranks /\ rule.size = split /\ rule.ops = ops /\ rule.leaf = leaf
  BY DEF Rule
<1>2. \A ranks, split, ops :
        Applies(Rule(ranks, split, ops, leaf), call)
          <=> call.ranks <= ranks /\ call.size <= split /\ call.builtin \in ops
  BY <1>1 DEF Applies
<1>3. /\ call.size <= Unlimited /\ call.ranks <= Unlimited
      /\ call.builtin \in BOOLEAN /\ call.builtin \notin {FALSE}
  <2>1. call.size <= Unlimited /\ call.ranks <= Unlimited
    BY CallFields
  <2>2. call.builtin \in BOOLEAN /\ call.builtin \notin {FALSE}
    BY CallFlags, Zenon
  <2> QED
    BY <2>1, <2>2
<1> HIDE DEF Rule, Applies
<1> QED
  BY <1>1, <1>2, <1>3 DEF Otherwise, Upto, UserDefined

LEMMA SingleLeaf ==
  ASSUME NEW call \in Calls, NEW leaf
  PROVE  Leaf(<<Otherwise(leaf)>>, call) = leaf
<1> DEFINE tree == <<Otherwise(leaf)>>
<1>1. DOMAIN tree = {1} /\ tree[1] = Otherwise(leaf)
  OBVIOUS
<1> HIDE DEF tree
<1>2. Leaf(tree, call) = tree[1].leaf
  BY <1>1, RuleApplies, FirstHit
<1> QED
  BY <1>1, <1>2, RuleApplies DEF tree

\* The tree of the level above, with one threshold.
LEMMA AboveLeaf ==
  ASSUME NEW call \in Calls, NEW split \in Nat
  PROVE  Leaf(AlphaUpto(split), call) = IF call.size <= split THEN "alpha" ELSE "beta"
<1> DEFINE tree == AlphaUpto(split)
<1>1. DOMAIN tree = {1, 2} /\ tree[1] = Upto(split, "alpha") /\ tree[2] = Otherwise("beta")
  BY DEF AlphaUpto
<1> HIDE DEF tree
<1>2. CASE call.size <= split
  <2>1. Applies(tree[1], call) /\ 1 \in DOMAIN tree /\ \A k \in DOMAIN tree : ~(k < 1)
    BY <1>1, <1>2, RuleApplies
  <2>2. Leaf(tree, call) = tree[1].leaf
    BY <1>1, <2>1, FirstHit
  <2> QED
    BY <1>1, <1>2, <2>2, RuleApplies DEF tree
<1>3. CASE ~(call.size <= split)
  <2>1. ~Applies(tree[1], call)
    <3>1. Applies(Upto(split, "alpha"), call) <=> call.size <= split
      BY RuleApplies
    <3> QED
      BY <1>1, <1>3, <3>1
  <2>2. Applies(tree[2], call)
    BY <1>1, RuleApplies
  <2>3. \A k \in DOMAIN tree : k < 2 => ~Applies(tree[k], call)
    BY <1>1, <2>1
  <2>4. Leaf(tree, call) = tree[2].leaf
    BY <1>1, <2>2, <2>3, FirstHit
  <2> QED
    BY <1>1, <1>3, <2>4, RuleApplies DEF tree
<1> QED
  BY <1>2, <1>3

\* The tree of the level below: an algorithm of MPICH up to the split, then RCCL.
LEMMA BelowLeaf ==
  ASSUME NEW call \in Calls, NEW split \in Nat, NEW low, NEW user
  PROVE  Leaf(<<Upto(split, low), UserDefined(user), Otherwise("ccl")>>, call)
           = IF call.size <= split THEN low ELSE "ccl"
<1> DEFINE tree == <<Upto(split, low), UserDefined(user), Otherwise("ccl")>>
<1>1. /\ DOMAIN tree = {1, 2, 3} /\ tree[1] = Upto(split, low)
      /\ tree[2] = UserDefined(user) /\ tree[3] = Otherwise("ccl")
  OBVIOUS
<1> HIDE DEF tree
<1>2. CASE call.size <= split
  <2>1. Leaf(tree, call) = tree[1].leaf
    BY <1>1, <1>2, RuleApplies, FirstHit
  <2> QED
    BY <1>1, <1>2, <2>1, RuleApplies DEF tree
<1>3. CASE ~(call.size <= split)
  <2>1. ~Applies(tree[1], call) /\ ~Applies(tree[2], call)
    BY <1>1, <1>3, RuleApplies
  <2>2. Applies(tree[3], call)
    BY <1>1, RuleApplies
  <2>3. \A k \in DOMAIN tree : k < 3 => ~Applies(tree[k], call)
    BY <1>1, <2>1
  <2>4. Leaf(tree, call) = tree[3].leaf
    BY <1>1, <2>2, <2>3, FirstHit
  <2> QED
    BY <1>1, <1>3, <2>4, RuleApplies DEF tree
<1> QED
  BY <1>2, <1>3

\* The tree whose threshold depends on the ranks.
PercommSplit(ranks) ==
  IF ranks <= 32 THEN 8 * KiB ELSE IF ranks <= 8192 THEN 16 * KiB ELSE 64 * KiB

LEMMA PercommLeaf ==
  ASSUME NEW call \in Calls
  PROVE  Leaf(allreduce_ch4_percomm, call)
           = IF call.size <= PercommSplit(call.ranks) THEN "alpha" ELSE "beta"
<1> DEFINE tree == allreduce_ch4_percomm
           r == call.ranks
           s == call.size
<1>1. /\ DOMAIN tree = {1, 2, 3, 4, 5, 6}
      /\ tree[1] = Rule(32, 8 * KiB, BOOLEAN, "alpha")
      /\ tree[2] = Rule(32, Unlimited, BOOLEAN, "beta")
      /\ tree[3] = Rule(8192, 16 * KiB, BOOLEAN, "alpha")
      /\ tree[4] = Rule(8192, Unlimited, BOOLEAN, "beta")
      /\ tree[5] = Upto(64 * KiB, "alpha") /\ tree[6] = Otherwise("beta")
  <2> HIDE DEF Rule, Upto, Otherwise, Unlimited, KiB
  <2> QED
    BY DEF allreduce_ch4_percomm
<1>2. s \in Nat /\ s <= Unlimited /\ r \in Nat
  BY CallFields
<1> DEFINE A(k) == Applies(tree[k], call)
<1>a. \A ranks, split, leaf :
        Applies(Rule(ranks, split, BOOLEAN, leaf), call) <=> r <= ranks /\ s <= split
  BY RuleApplies
<1>3. A(1) <=> r <= 32 /\ s <= 8 * KiB
  BY <1>1, <1>a
<1>4. A(2) <=> r <= 32
  BY <1>1, <1>2, RuleApplies
<1>5. A(3) <=> r <= 8192 /\ s <= 16 * KiB
  BY <1>1, <1>a
<1>6. A(4) <=> r <= 8192
  BY <1>1, <1>2, RuleApplies
<1>7. A(5) <=> s <= 64 * KiB
  <2>1. Applies(Upto(64 * KiB, "alpha"), call) <=> call.size <= 64 * KiB
    <3>1. \A split : Applies(Upto(split, "alpha"), call) <=> call.size <= split
      BY RuleApplies
    <3> QED
      BY <3>1
  <2> QED
    BY <1>1, <2>1
<1>8. A(6)
  BY <1>1, RuleApplies
<1>9. /\ tree[1].leaf = "alpha" /\ tree[2].leaf = "beta" /\ tree[3].leaf = "alpha"
      /\ tree[4].leaf = "beta" /\ tree[5].leaf = "alpha" /\ tree[6].leaf = "beta"
  BY <1>1 DEF Rule, Upto, Otherwise
<1>10. DOMAIN tree \subseteq Nat
  BY <1>1
<1> DEFINE First(k) == A(k) /\ k \in DOMAIN tree /\ \A m \in DOMAIN tree : m < k => ~A(m)
<1>11. \A k \in DOMAIN tree : First(k) => Leaf(tree, call) = tree[k].leaf
  BY <1>10, FirstHit
<1> HIDE DEF tree, A
<1>12. /\ A(1) => First(1)
       /\ ~A(1) /\ A(2) => First(2)
       /\ ~A(1) /\ ~A(2) /\ A(3) => First(3)
       /\ ~A(1) /\ ~A(2) /\ ~A(3) /\ A(4) => First(4)
       /\ ~A(1) /\ ~A(2) /\ ~A(3) /\ ~A(4) /\ A(5) => First(5)
       /\ ~A(1) /\ ~A(2) /\ ~A(3) /\ ~A(4) /\ ~A(5) => First(6)
  BY <1>1, <1>8
<1> HIDE DEF First
<1>13. CASE r <= 32
  <2>1. CASE s <= 8 * KiB
    BY <1>1, <1>3, <1>9, <1>11, <1>12, <1>13, <2>1 DEF PercommSplit, tree
  <2>2. CASE ~(s <= 8 * KiB)
    BY <1>1, <1>3, <1>4, <1>9, <1>11, <1>12, <1>13, <2>2 DEF PercommSplit, tree
  <2> QED
    BY <2>1, <2>2
<1>14. CASE ~(r <= 32) /\ r <= 8192
  <2>1. CASE s <= 16 * KiB
    BY <1>1, <1>3, <1>4, <1>5, <1>9, <1>11, <1>12, <1>14, <2>1 DEF PercommSplit, tree
  <2>2. CASE ~(s <= 16 * KiB)
    BY <1>1, <1>3, <1>4, <1>5, <1>6, <1>9, <1>11, <1>12, <1>14, <2>2 DEF PercommSplit, tree
  <2> QED
    BY <2>1, <2>2
<1>15. CASE ~(r <= 32) /\ ~(r <= 8192)
  <2>1. CASE s <= 64 * KiB
    BY <1>1, <1>3, <1>4, <1>5, <1>6, <1>7, <1>9, <1>11, <1>12, <1>15, <2>1 DEF PercommSplit, tree
  <2>2. CASE ~(s <= 64 * KiB)
    BY <1>1, <1>3, <1>4, <1>5, <1>6, <1>7, <1>9, <1>11, <1>12, <1>15, <2>2
       DEF PercommSplit, tree
  <2> QED
    BY <2>1, <2>2
<1> QED
  BY <1>13, <1>14, <1>15

-----------------------------------------------------------------------------
(***************************************************************************)
(* Where the calls of each kind of launch end.                             *)
(***************************************************************************)
LEMMA PlainWay ==
  ASSUME NEW st \in PlainSettings, NEW call \in Calls, NEW bs
  PROVE  Selected(st, call, bs).at \in MpichAlgorithms \cup {"stock"}
<1>1. Leaf(StockMpir, call) = "stock" /\ Leaf(StockCh4, call) = "beta"
  BY SingleLeaf DEF StockMpir, StockCh4
<1>2. \A a, q : Point(a, q).at = a
  BY DEF Point
<1>3. CASE st = Automatic(StockMpir)
  <2>1. st.collectives = "none" /\ st.algorithm = "auto" /\ st.mpir = StockMpir
    BY <1>3 DEF Automatic, Settings
  <2>2. Step(st, call, bs, Point("MPI_Allreduce", FALSE)) = Point("impl", FALSE)
    BY <2>1, StepStart
  <2>3. Step(st, call, bs, Point("impl", FALSE)) = Point("allcomm_auto", FALSE)
    BY <2>1, StepImpl
  <2>4. Step(st, call, bs, Point("allcomm_auto", FALSE)) = Point("stock", FALSE)
    BY <1>1, <2>1, StepAuto
  <2>5. Step(st, call, bs, Point("stock", FALSE)) = Point("stock", FALSE)
    BY StepAtEnd
  <2>6. Selected(st, call, bs) = Point("stock", FALSE)
    BY <2>2, <2>3, <2>4, <2>5, FiveSteps
  <2> QED
    BY <1>2, <2>6
<1>4. CASE st = Compositions
  <2>1. st.collectives = "all" /\ st.algorithm = "auto" /\ st.mpir = StockMpir /\ st.ch4 = StockCh4
    BY <1>4 DEF Compositions, TwoLevel, Settings
  <2> DEFINE q == Composition(st, call, "beta", bs)
  <2>2. Step(st, call, bs, Point("MPI_Allreduce", FALSE)) = Point("beta", FALSE)
    BY <1>1, <2>1, StepStart
  <2>3. Step(st, call, bs, Point("beta", FALSE)) = Point("impl", q)
    BY StepComposition
  <2> HIDE DEF q
  <2>4. Step(st, call, bs, Point("impl", q)) = Point("allcomm_auto", q)
    BY <2>1, StepImpl
  <2>5. Step(st, call, bs, Point("allcomm_auto", q)) = Point("stock", q)
    BY <1>1, <2>1, StepAuto
  <2>6. Step(st, call, bs, Point("stock", q)) = Point("stock", q)
    BY StepAtEnd
  <2>7. Selected(st, call, bs) = Point("stock", q)
    BY <2>2, <2>3, <2>4, <2>5, <2>6, FiveSteps
  <2> QED
    BY <1>2, <2>7
<1>5. ASSUME NEW a \in MpichAlgorithms, st = Forced(a)
      PROVE  Selected(st, call, bs).at = a
  <2>1. st.collectives = "none" /\ st.algorithm = a
    BY <1>5 DEF Forced, Settings
  <2>2. Step(st, call, bs, Point("MPI_Allreduce", FALSE)) = Point("impl", FALSE)
    BY <2>1, StepStart
  <2>3. Step(st, call, bs, Point("impl", FALSE)) = Point(a, FALSE)
    <3>1. a # "auto"
      BY DEF MpichAlgorithms
    <3> QED
      BY <2>1, <3>1, StepImpl
  <2>4. Step(st, call, bs, Point(a, FALSE)) = Point(a, FALSE)
    BY StepAtEnd
  <2>5. Selected(st, call, bs) = Point(a, FALSE)
    BY <2>2, <2>3, <2>4, FiveSteps
  <2> QED
    BY <1>2, <2>5
<1> QED
  BY <1>3, <1>4, <1>5 DEF PlainSettings

\* A call on GPU buffers that was not staged is one that RCCL takes.
LEMMA CclTakes ==
  ASSUME NEW call \in Calls, call.buffer = "device"
  PROVE  /\ IntraCcl(call, FALSE) = "rccl"
         /\ \A q \in BOOLEAN : IntraCcl(call, q) = IF q THEN "allcomm_auto" ELSE "rccl"
<1>1. call.supported = TRUE
  BY CallFlags
<1>2. CheckRequirements(call, FALSE) = TRUE /\ CheckRequirements(call, TRUE) = FALSE
  BY <1>1 DEF CheckRequirements
<1>3. IntraCcl(call, FALSE) = "rccl" /\ IntraCcl(call, TRUE) = "allcomm_auto"
  BY <1>2 DEF IntraCcl
<1> QED
  BY <1>3, Zenon

LEMMA RcclWay ==
  ASSUME NEW st, NEW call \in Calls, NEW bs, call.buffer = "device",
         \/ st = ForcedCcl
         \/ st = Automatic(allreduce_rccl_auto) /\ call.size > 0
  PROVE  Selected(st, call, bs).at = "rccl"
<1>1. \A a, q : Point(a, q).at = a
  BY DEF Point
<1>2. /\ Step(st, call, bs, Point("ccl", FALSE)) = Point("rccl", FALSE)
      /\ Step(st, call, bs, Point("rccl", FALSE)) = Point("rccl", FALSE)
  <2>1. Step(st, call, bs, Point("ccl", FALSE)) = Point(IntraCcl(call, FALSE), FALSE)
    BY ONLY StepCcl
  <2>2. Step(st, call, bs, Point("rccl", FALSE)) = Point("rccl", FALSE)
    BY ONLY RcclStays
  <2> QED
    BY <2>1, <2>2, CclTakes
<1>3. st.collectives = "none"
  BY DEF ForcedCcl, Forced, Automatic, Settings
<1>4. Step(st, call, bs, Point("MPI_Allreduce", FALSE)) = Point("impl", FALSE)
  BY <1>3, StepStart
<1>5. CASE st = ForcedCcl
  <2>1. st.algorithm = "ccl"
    BY <1>5 DEF ForcedCcl, Forced, Settings
  <2>2. Step(st, call, bs, Point("impl", FALSE)) = Point("ccl", FALSE)
    BY <2>1, StepImpl
  <2>3. Selected(st, call, bs) = Point("rccl", FALSE)
    BY <1>2, <1>4, <2>2, FiveSteps
  <2> QED
    BY <1>1, <2>3
<1>6. CASE st = Automatic(allreduce_rccl_auto) /\ call.size > 0
  <2>1. st.algorithm = "auto" /\ st.mpir = allreduce_rccl_auto
    BY <1>6 DEF Automatic, Settings
  <2>2. Leaf(allreduce_rccl_auto, call) = "ccl"
    <3>1. ~(call.size <= 0)
      BY <1>6, CallFields
    <3> QED
      BY <3>1, BelowLeaf DEF allreduce_rccl_auto
  <2>3. Step(st, call, bs, Point("impl", FALSE)) = Point("allcomm_auto", FALSE)
    BY <2>1, StepImpl
  <2>4. Step(st, call, bs, Point("allcomm_auto", FALSE)) = Point("ccl", FALSE)
    <3>1. Leaf(st.mpir, call) = "ccl"
      BY <2>1, <2>2
    <3> QED
      BY ONLY <3>1, StepAuto
  <2>5. Selected(st, call, bs) = Point("rccl", FALSE)
    BY ONLY <1>2, <1>4, <2>3, <2>4, FiveSteps
  <2> QED
    BY <1>1, <2>5
<1> QED
  BY <1>5, <1>6

\* The swap buffer holds what is staged above, and the tree below keeps less from
\* RCCL: what is not staged and not kept ends at RCCL, what is staged and not
\* kept goes round.
LEMMA TwoLevelEnds ==
  ASSUME NEW swap \in Nat, NEW ch4, NEW split \in Nat, NEW low \in Nat,
         low <= split, split <= swap, NEW call \in Calls, NEW bs \in BOOLEAN,
         call.buffer = "device", NEW st, st = TwoLevel(swap, ch4, CclAbove(low)),
         Leaf(ch4, call) = (IF call.size <= split THEN "alpha" ELSE "beta")
  PROVE  IF Recurses(st, call, bs)
         THEN call.size <= st.swap /\ Leaf(st.mpir, call) = "ccl"
         ELSE /\ Selected(st, call, bs).at = "rccl" <=> call.size > split
              /\ Selected(st, call, bs).staged <=> call.size <= split
<1> DEFINE name == IF call.size <= split THEN "alpha" ELSE "beta"
           q == Composition(st, call, name, bs)
           end == IF call.size <= low THEN "recursive_doubling"
                  ELSE IF q THEN "allcomm_auto" ELSE "rccl"
<1>1. /\ st.collectives = "all" /\ st.algorithm = "auto" /\ st.ch4 = ch4
      /\ st.mpir = CclAbove(low)
  <2>1. st = TwoLevel(swap, ch4, CclAbove(low))
    OBVIOUS
  <2> QED
    BY ONLY <2>1 DEF TwoLevel, Settings
<1>2. q \in BOOLEAN
  BY DEF Composition
<1>3. Leaf(st.mpir, call) = IF call.size <= low THEN "recursive_doubling" ELSE "ccl"
  BY <1>1, BelowLeaf DEF CclAbove
<1>4. name \in {"alpha", "beta"}
  OBVIOUS
<1> HIDE DEF q
<1>5. Step(st, call, bs, Point("MPI_Allreduce", FALSE)) = Point(name, FALSE)
  <2>1. Leaf(st.ch4, call) = name
    BY <1>1
  <2> QED
    BY ONLY <1>1, <2>1, StepStart
<1>6. Step(st, call, bs, Point(name, FALSE)) = Point("impl", q)
  <2>1. q = Composition(st, call, name, bs)
    BY DEF q
  <2> HIDE DEF name
  <2>2. Step(st, call, bs, Point(name, FALSE)) = Point("impl", Composition(st, call, name, bs))
    <3>1. CASE name = "alpha"
      <4>1. Step(st, call, bs, Point("alpha", FALSE)) = Point("impl", Composition(st, call, "alpha", bs))
        BY ONLY StepComposition
      <4> QED
        BY ONLY <3>1, <4>1
    <3>2. CASE name = "beta"
      <4>1. Step(st, call, bs, Point("beta", FALSE)) = Point("impl", Composition(st, call, "beta", bs))
        BY ONLY StepComposition
      <4> QED
        BY ONLY <3>2, <4>1
    <3> QED
      BY ONLY <1>4, <3>1, <3>2
  <2> QED
    BY ONLY <2>1, <2>2
<1>7. Step(st, call, bs, Point("impl", q)) = Point("allcomm_auto", q)
  BY <1>1, StepImpl
<1>8. Step(st, call, bs, Point("allcomm_auto", q)) = Point(Leaf(st.mpir, call), q)
  BY StepAuto
<1>9. Step(st, call, bs, Point(Leaf(st.mpir, call), q)) = Point(end, q)
  <2>1. CASE call.size <= low
    BY <1>3, <2>1, StepAtEnd DEF MpichAlgorithms
  <2>2. CASE ~(call.size <= low)
    <3>1. Step(st, call, bs, Point("ccl", q)) = Point(IntraCcl(call, q), q)
      BY StepCcl
    <3>2. IntraCcl(call, q) = IF q THEN "allcomm_auto" ELSE "rccl"
      BY <1>2, CclTakes
    <3> QED
      BY <1>3, <2>2, <3>1, <3>2
  <2> QED
    BY <2>1, <2>2
<1> HIDE DEF end, name
<1>10. Selected(st, call, bs) = Point(end, q)
  BY ONLY <1>5, <1>6, <1>7, <1>8, <1>9, FiveSteps
<1>11. \A a, x : Point(a, x).at = a /\ Point(a, x).staged = x
  BY DEF Point
<1>12. Selected(st, call, bs).at = end /\ Selected(st, call, bs).staged = q
  BY <1>10, <1>11
<1>13. call.size \in Nat /\ st.swap = swap
  BY CallFields DEF TwoLevel, Settings
<1>14. /\ q => call.size <= swap
       /\ call.size <= split => q
  BY <1>13 DEF Composition, q, name
<1>15. /\ call.size <= low => call.size <= split
       /\ call.size > split <=> ~(call.size <= split)
  BY <1>13
<1>16. Recurses(st, call, bs) <=> ~(call.size <= low) /\ q
  BY <1>2, <1>12 DEF Recurses, end
<1>17. CASE Recurses(st, call, bs)
  BY <1>3, <1>13, <1>14, <1>16, <1>17
<1>18. CASE ~Recurses(st, call, bs)
  <2>1. Selected(st, call, bs).at = "rccl" <=> call.size > split
    BY <1>2, <1>12, <1>14, <1>15, <1>16, <1>18 DEF end
  <2>2. Selected(st, call, bs).staged <=> call.size <= split
    BY <1>2, <1>12, <1>14, <1>15, <1>16, <1>18
  <2> QED
    BY <1>18, <2>1, <2>2
<1> QED
  BY <1>17, <1>18

\* The call of a launch at a size, and what the two properties below say of it.
Goes(launch, size) ==
  LET call == TheCall(launch, size)
      out == Outcome(launch, size)
  IN  IF Recurses(launch.settings, call, betaSwaps)
      THEN size <= launch.settings.swap /\ Leaf(launch.settings.mpir, call) = "ccl"
      ELSE IF launch.file \in TwoLevelFiles
           THEN /\ out.at = "rccl" <=> size > Threshold
                /\ out.staged <=> size <= Threshold
           ELSE out.at = "rccl" <=> launch.file \in RcclFiles

LEMMA JobCalls ==
  ASSUME job \in DOMAIN Jobs, NEW launch, NEW size \in 0 .. Unlimited,
         launch.buffer \in {"host", "device"}
  PROVE  /\ TheCall(launch, size) \in Calls
         /\ TheCall(launch, size).size = size
         /\ TheCall(launch, size).ranks = TheJob.nodes * PPN
         /\ TheCall(launch, size).buffer = launch.buffer
<1>1. TheJob.nodes \in Nat /\ TheJob.nodes * PPN <= Unlimited
  BY StudyConstants DEF TheJob
<1>2. TheJob.nodes * PPN \in 0 .. Unlimited
  BY <1>1, Bounds DEF PPN
<1> HIDE DEF TheJob
<1>3. TheCall(launch, size) = OsuCall(size, TheJob.nodes * PPN, launch.buffer)
  BY DEF TheCall
<1> DEFINE ranks == TheJob.nodes * PPN
<1> HIDE DEF ranks
<1>4. OsuCall(size, ranks, launch.buffer) \in Calls
  BY <1>2 DEF Calls, ranks
<1> QED
  BY <1>3, <1>4 DEF OsuCall, Call, ranks

LEMMA PlainGoes ==
  ASSUME job \in DOMAIN Jobs, NEW launch, NEW size \in 0 .. Unlimited,
         launch.buffer \in {"host", "device"}, launch.settings \in PlainSettings,
         launch.file \notin RcclFiles \cup TwoLevelFiles
  PROVE  Goes(launch, size)
<1>1. Outcome(launch, size).at \in MpichAlgorithms \cup {"stock"}
  BY JobCalls, PlainWay DEF Outcome
<1>2. \A a \in MpichAlgorithms \cup {"stock"} : a \notin {"impl", "allcomm_auto", "ccl", "rccl"}
  BY DEF MpichAlgorithms
<1>3. ~Recurses(launch.settings, TheCall(launch, size), betaSwaps)
  BY <1>1, <1>2 DEF Recurses, Outcome
<1>4. Outcome(launch, size).at # "rccl"
  BY <1>1, <1>2
<1> QED
  BY <1>3, <1>4 DEF Goes

LEMMA RcclGoes ==
  ASSUME job \in DOMAIN Jobs, NEW launch, NEW size \in 0 .. Unlimited,
         launch.buffer = "device", launch.file \in RcclFiles,
         \/ launch.settings = ForcedCcl
         \/ launch.settings = Automatic(allreduce_rccl_auto) /\ size > 0
  PROVE  Goes(launch, size)
<1>1. Outcome(launch, size).at = "rccl"
  BY JobCalls, RcclWay DEF Outcome
<1>2. ~Recurses(launch.settings, TheCall(launch, size), betaSwaps)
  BY <1>1 DEF Recurses, Outcome
<1>3. launch.file \notin TwoLevelFiles
  BY DEF TwoLevelFiles, RcclFiles
<1> QED
  BY <1>1, <1>2, <1>3 DEF Goes

\* One threshold in both trees and a swap buffer of that size, or thresholds by the
\* ranks above and the least of them below.
LEMMA SplitGoes ==
  ASSUME job \in DOMAIN Jobs, betaSwaps \in BOOLEAN, NEW launch, NEW size \in 0 .. Unlimited,
         launch.buffer = "device", launch.file \in TwoLevelFiles,
         \/ /\ Threshold \in Nat
            /\ launch.settings = TwoLevel(Threshold, AlphaUpto(Threshold), CclAbove(Threshold))
         \/ /\ Threshold = PercommSplit(TheJob.nodes * PPN)
            /\ launch.settings
                 = TwoLevel(64 * KiB, allreduce_ch4_percomm, allreduce_mpir_percomm)
  PROVE  Goes(launch, size)
<1> DEFINE call == TheCall(launch, size)
           st == launch.settings
<1>1. /\ call \in Calls /\ call.size = size /\ call.buffer = "device"
      /\ call.ranks = TheJob.nodes * PPN
  BY JobCalls
<1>2. PICK swap \in Nat, low \in Nat : \E tree :
        /\ Threshold \in Nat /\ low <= Threshold /\ Threshold <= swap
        /\ st = TwoLevel(swap, tree, CclAbove(low))
        /\ Leaf(tree, call) = IF call.size <= Threshold THEN "alpha" ELSE "beta"
  <2>1. CASE Threshold \in Nat /\ st = TwoLevel(Threshold, AlphaUpto(Threshold), CclAbove(Threshold))
    <3> DEFINE split == Threshold
    <3> HIDE DEF split, call, st
    <3>1. split \in Nat /\ st = TwoLevel(split, AlphaUpto(split), CclAbove(split))
      BY <2>1 DEF split
    <3>2. Leaf(AlphaUpto(split), call) = IF call.size <= split THEN "alpha" ELSE "beta"
      BY <1>1, <3>1, AboveLeaf
    <3>3. split <= split
      BY <3>1
    <3> QED
      BY <3>1, <3>2, <3>3 DEF split
  <2>2. CASE /\ Threshold = PercommSplit(call.ranks)
             /\ st = TwoLevel(64 * KiB, allreduce_ch4_percomm, allreduce_mpir_percomm)
    <3> DEFINE split == PercommSplit(call.ranks)
               swap == 64 * KiB
               low == 8 * KiB
    <3>1. split \in Nat /\ swap \in Nat /\ low \in Nat /\ low <= split /\ split <= swap
      BY DEF PercommSplit, KiB
    <3>2. Leaf(allreduce_ch4_percomm, call) = IF call.size <= split THEN "alpha" ELSE "beta"
      BY <1>1, PercommLeaf
    <3>3. st = TwoLevel(swap, allreduce_ch4_percomm, CclAbove(low)) /\ Threshold = split
      BY <2>2 DEF allreduce_mpir_percomm
    <3> HIDE DEF split, swap, low, call, st
    <3> QED
      BY <3>1, <3>2, <3>3
  <2> QED
    BY <1>1, <2>1, <2>2
<1>3. PICK ch4 :
        /\ Threshold \in Nat /\ low <= Threshold /\ Threshold <= swap
        /\ st = TwoLevel(swap, ch4, CclAbove(low))
        /\ Leaf(ch4, call) = IF call.size <= Threshold THEN "alpha" ELSE "beta"
  BY <1>2
<1> DEFINE split == Threshold
<1>4. /\ split \in Nat /\ low <= split /\ split <= swap
      /\ st = TwoLevel(swap, ch4, CclAbove(low))
      /\ Leaf(ch4, call) = IF call.size <= split THEN "alpha" ELSE "beta"
  BY <1>3
<1> HIDE DEF split, call, st
<1>5. IF Recurses(st, call, betaSwaps)
      THEN call.size <= st.swap /\ Leaf(st.mpir, call) = "ccl"
      ELSE /\ Selected(st, call, betaSwaps).at = "rccl" <=> call.size > split
           /\ Selected(st, call, betaSwaps).staged <=> call.size <= split
  BY <1>1, <1>4, TwoLevelEnds
<1>6. Outcome(launch, size) = Selected(st, call, betaSwaps)
  BY DEF Outcome, st, call
<1>7. IF Recurses(st, call, betaSwaps)
      THEN size <= st.swap /\ Leaf(st.mpir, call) = "ccl"
      ELSE /\ Outcome(launch, size).at = "rccl" <=> size > split
           /\ Outcome(launch, size).staged <=> size <= split
  BY <1>1, <1>5, <1>6
<1> QED
  BY <1>7 DEF Goes, st, call, split

LEMMA LaunchGoes ==
  ASSUME job \in DOMAIN Jobs, betaSwaps \in BOOLEAN, NEW i \in Launches, NEW size \in Wanted(i),
         ThePlan[i].program = "osu_mine"
  PROVE  Goes(ThePlan[i], size)
<1> DEFINE launch == ThePlan[i]
<1>1. PICK F : launch \in LaunchSet(TheJob, F)
  BY PlanLaunches, PlanCommands
<1>2. PICK k \in DOMAIN launch.sizes : size = launch.sizes[k]
  BY PlanLaunches
<1>3. launch.sizes \in Seq(0 .. Unlimited) /\ launch.program = "osu_mine"
  BY PlanLaunches
<1> HIDE DEF launch
<1>4. size \in 0 .. Unlimited
  BY <1>2, <1>3, ElementOfSeq, LenProperties
<1>5. CASE launch.file \notin RcclFiles \cup TwoLevelFiles /\ launch.settings \in PlainSettings
  <2>1. launch.buffer \in {"host", "device"}
    BY <1>1, <1>5, LaunchKinds DEF LaunchSet, PlainSet, RcclSet, SplitSet, CraySet, TestSet,
         OnDevice, Cray, Measure
  <2> QED
    BY <1>4, <1>5, <2>1, PlainGoes DEF launch
<1>6. CASE launch.file \in RcclFiles /\ launch.buffer = "device" /\ launch.settings = ForcedCcl
  BY <1>4, <1>6, RcclGoes DEF launch
<1>7. CASE /\ launch.file \in RcclFiles /\ launch.buffer = "device"
           /\ launch.settings = Automatic(allreduce_rccl_auto) /\ launch.sizes \in Seq(1 .. Unlimited)
  <2>1. size \in 1 .. Unlimited
    BY <1>2, <1>7, ElementOfSeq, LenProperties
  <2>2. size > 0
    BY <2>1, Bounds
  <2> QED
    BY <1>4, <1>7, <2>2, RcclGoes DEF launch
<1>8. CASE /\ launch.file \in TwoLevelFiles /\ launch.buffer = "device"
           /\ TheJob.script \in SplitScripts /\ launch.settings = SplitSettings(TheJob)
  <2>1. \/ /\ Threshold \in Nat
           /\ launch.settings = TwoLevel(Threshold, AlphaUpto(Threshold), CclAbove(Threshold))
        \/ /\ Threshold = PercommSplit(TheJob.nodes * PPN)
           /\ launch.settings = TwoLevel(64 * KiB, allreduce_ch4_percomm, allreduce_mpir_percomm)
    <3>1. CASE TheJob.script = "run_csel_auto"
      <4>1. /\ Threshold = 32 * KiB
            /\ SplitSettings(TheJob)
                 = TwoLevel(32 * KiB, allreduce_ch4_hybrid, allreduce_mpir_hybrid)
        BY <3>1 DEF Threshold, SplitSettings
      <4>2. 32 * KiB \in Nat
        BY DEF KiB
      <4> QED
        BY <1>8, <4>1, <4>2 DEF allreduce_ch4_hybrid, allreduce_mpir_hybrid
    <3>2. CASE TheJob.script = "run_hybrid_prod"
      <4>1. /\ Threshold = 16 * KiB
            /\ SplitSettings(TheJob) = TwoLevel(16 * KiB, allreduce_ch4_prod, allreduce_mpir_prod)
        BY <3>2 DEF Threshold, SplitSettings
      <4>2. 16 * KiB \in Nat
        BY DEF KiB
      <4> QED
        BY <1>8, <4>1, <4>2 DEF allreduce_ch4_prod, allreduce_mpir_prod
    <3>3. CASE TheJob.script = "run_csel_confirm"
      <4>1. /\ Threshold = TheJob.split
            /\ SplitSettings(TheJob)
                 = TwoLevel(TheJob.split, AlphaUpto(TheJob.split), CclAbove(TheJob.split))
        BY <3>3 DEF Threshold, SplitSettings
      <4>2. TheJob.split \in Nat
        BY StudyConstants, Bounds DEF TheJob
      <4> QED
        BY <1>8, <4>1, <4>2
    <3>4. CASE TheJob.script = "run_hybrid_test"
      <4>1. SplitSettings(TheJob)
              = TwoLevel(64 * KiB, allreduce_ch4_percomm, allreduce_mpir_percomm)
        BY <3>4 DEF SplitSettings
      <4>2. Threshold = PercommSplit(TheJob.nodes * PPN)
        BY <3>4 DEF Threshold, PercommSplit
      <4> QED
        BY <1>8, <4>1, <4>2
    <3> QED
      BY <1>8, <3>1, <3>2, <3>3, <3>4 DEF SplitScripts
  <2> QED
    BY <1>4, <1>8, <2>1, SplitGoes DEF launch
<1>9. \/ launch.file \notin RcclFiles \cup TwoLevelFiles /\ launch.settings \in PlainSettings
      \/ launch.file \in RcclFiles /\ launch.buffer = "device" /\ launch.settings = ForcedCcl
      \/ /\ launch.file \in RcclFiles /\ launch.buffer = "device"
         /\ launch.settings = Automatic(allreduce_rccl_auto) /\ launch.sizes \in Seq(1 .. Unlimited)
      \/ /\ launch.file \in TwoLevelFiles /\ launch.buffer = "device"
         /\ TheJob.script \in SplitScripts /\ launch.settings = SplitSettings(TheJob)
  BY <1>1, <1>3, LaunchKinds
<1> QED
  BY <1>5, <1>6, <1>7, <1>8, <1>9 DEF launch

\* Every row measures what its file is named for, whatever the ranks, the split
\* and the account of composition beta (IntendedMechanism).
THEOREM RowsMeasureTheirFile == Spec => []IntendedMechanism
<1>1. ASSUME JobInv, RowsInv
      PROVE  IntendedMechanism
  <2>1. SUFFICES ASSUME NEW i \in Started, ThePlan[i].program = "osu_mine", NEW size \in Measured(i)
                 PROVE  IF ThePlan[i].file \in TwoLevelFiles
                        THEN /\ Outcome(ThePlan[i], size).at = "rccl" <=> size > Threshold
                             /\ Outcome(ThePlan[i], size).staged <=> size <= Threshold
                        ELSE Outcome(ThePlan[i], size).at = "rccl" <=> ThePlan[i].file \in RcclFiles
    BY DEF IntendedMechanism
  <2>2. i \in Launches /\ job \in DOMAIN Jobs /\ betaSwaps \in BOOLEAN
    BY <1>1, FileThere, StudyConstants DEF JobInv, Position
  <2>3. size \in Wanted(i) /\ \E k \in DOMAIN Rows(i) : Rows(i)[k] = [launch |-> i, size |-> size]
    BY DEF Measured
  <2>4. PICK k \in DOMAIN Rows(i) : Rows(i)[k] = [launch |-> i, size |-> size]
    BY <2>3
  <2>5. ThePlan[i].file \in DOMAIN files /\ Rows(i) = files[ThePlan[i].file]
    BY <2>4 DEF Rows
  <2>6. [launch |-> i, size |-> size] \in Entries(ThePlan[i].file)
    BY <1>1, <2>4, <2>5 DEF RowsInv
  <2>7. ~Endless(ThePlan[i], size)
    BY <2>6 DEF Entries
  <2>8. ~Recurses(ThePlan[i].settings, TheCall(ThePlan[i], size), betaSwaps)
    BY <2>1, <2>7 DEF Endless
  <2>9. Goes(ThePlan[i], size)
    BY <2>1, <2>2, <2>3, LaunchGoes
  <2> QED
    BY <2>8, <2>9 DEF Goes
<1> QED
  BY <1>1, JobInvariant, RowsInvariant, PTL

-----------------------------------------------------------------------------
\* A launch that died of a selection that calls itself had a size for that.
OverInv ==
  \A i \in Launches : i \in DOMAIN over /\ over[i] = "recursed" =>
    \E s \in Wanted(i) : Endless(ThePlan[i], s)

LEMMA OverNext ==
  ASSUME JobInv, OverInv, Next
  PROVE  OverInv'
<1>1. /\ ThePlan' = ThePlan /\ Launches' = Launches /\ (\A i : Wanted(i)' = Wanted(i))
      /\ TheJob' = TheJob /\ betaSwaps' = betaSwaps
  BY DoneNext DEF Next, LoadModules, Header, Launch, Row, Complete, LaunchFails, StackExhausted,
       EndLaunch, RunCase, End, Walltime
<1>2. \A launch, s : Endless(launch, s)' <=> Endless(launch, s)
  BY <1>1 DEF Endless, TheCall
<1>3. ASSUME NEW how, over' = Put(over, at, how),
             at \in Launches /\ how = "recursed" => \E s \in Wanted(at) : Endless(ThePlan[at], s)
      PROVE  OverInv'
  <2>1. \A i : i \in DOMAIN over' /\ i # at => i \in DOMAIN over /\ over'[i] = over[i]
    BY <1>3 DEF Put
  <2>2. at \in DOMAIN over' => over'[at] = how
    BY <1>3 DEF Put
  <2> QED
    BY <1>1, <1>2, <1>3, <2>1, <2>2 DEF OverInv
<1>4. CASE UNCHANGED over
  BY <1>1, <1>2, <1>4 DEF OverInv
<1>5. CASE Complete
  BY <1>3, <1>5 DEF Complete, EndLaunch
<1>6. CASE LaunchFails
  <2>1. PICK how \in {"failed", "quiet"} : over' = Put(over, at, how)
    BY <1>6 DEF LaunchFails, EndLaunch
  <2> QED
    BY <1>3, <2>1
<1>7. CASE StackExhausted
  <2>1. /\ over' = Put(over, at, "recursed") /\ at \in Launches /\ row > 0
        /\ row <= Len(ThePlan[at].sizes) /\ Endless(ThePlan[at], ThePlan[at].sizes[row])
    BY <1>7, AtCommand DEF StackExhausted, EndLaunch, RowsLeft, Size, Command, Launches
  <2>2. row \in DOMAIN ThePlan[at].sizes
    BY <2>1, PlanLaunches DEF JobInv, Position
  <2>3. ThePlan[at].sizes[row] \in Wanted(at)
    BY <2>1, <2>2, PlanLaunches DEF JobInv, Position
  <2> QED
    BY <1>3, <2>1, <2>3
<1>8. CASE RunCase
  <2>1. at \notin Launches
    BY <1>8, AtCommand DEF RunCase, Launches, Commands
  <2>2. PICK how : over' = Put(over, at, how)
    BY <1>8 DEF RunCase
  <2> QED
    BY <1>3, <2>1, <2>2
<1> QED
  BY <1>4, <1>5, <1>6, <1>7, <1>8 DEF Next, LoadModules, Header, Launch, Row, End, Walltime

LEMMA OverInvariant == Spec => []OverInv
<1>1. Init => OverInv
  BY DEF Init, OverInv
<1>2. ASSUME JobInv, OverInv, [Next]_vars
      PROVE  OverInv'
  <2>1. CASE UNCHANGED vars
    BY <1>2, <2>1 DEF vars, OverInv, Launches, Commands, Wanted, Endless, TheCall, TheJob, ThePlan
  <2> QED
    BY <1>2, <2>1, OverNext
<1> QED
  BY <1>1, <1>2, JobInvariant, PTL DEF Spec

\* A selection calls itself only where more fits the swap buffer than the tree
\* below keeps from RCCL (SwapMatchesSplit).
THEOREM OnlyMismatchRecurses == Spec => []SwapMatchesSplit
<1>1. ASSUME JobInv, OverInv
      PROVE  SwapMatchesSplit
  <2>1. SUFFICES ASSUME NEW i \in Started, Died(i), over[i] = "recursed"
                 PROVE  \E s \in Wanted(i) :
                          /\ s <= ThePlan[i].settings.swap
                          /\ Leaf(ThePlan[i].settings.mpir, TheCall(ThePlan[i], s)) = "ccl"
    BY DEF SwapMatchesSplit
  <2>2. i \in Launches /\ job \in DOMAIN Jobs /\ betaSwaps \in BOOLEAN
    BY <1>1, FileThere, StudyConstants DEF JobInv, Position
  <2>3. PICK s \in Wanted(i) : Endless(ThePlan[i], s)
    BY <1>1, <2>1, <2>2 DEF OverInv, Died
  <2>4. /\ ThePlan[i].program = "osu_mine"
        /\ Recurses(ThePlan[i].settings, TheCall(ThePlan[i], s), betaSwaps)
    BY <2>3 DEF Endless
  <2>5. Goes(ThePlan[i], s)
    BY <2>2, <2>4, LaunchGoes
  <2> QED
    BY <2>4, <2>5 DEF Goes
<1> QED
  BY <1>1, JobInvariant, OverInvariant, PTL

-----------------------------------------------------------------------------
(***************************************************************************)
(* The files of a job whose launches each have one of their own: the k-th  *)
(* row is of the k-th size of the launch.                                  *)
(***************************************************************************)
LoneFiles == \A i, k \in Launches : ThePlan[i].file = ThePlan[k].file => i = k

InOrder(file) ==
  \A k \in DOMAIN files[file] :
    LET r == files[file][k]
    IN  k \in DOMAIN ThePlan[r.launch].sizes /\ r.size = ThePlan[r.launch].sizes[k]

AlignInv ==
  LoneFiles =>
    /\ \A file \in DOMAIN files : InOrder(file)
    /\ row > 0 => Len(files[ThePlan[at].file]) = row - 1

LEMMA AlignNext ==
  ASSUME JobInv, RowsInv, AlignInv, Next
  PROVE  AlignInv'
<1>1. ThePlan' = ThePlan /\ Launches' = Launches
  BY DoneNext DEF Next, LoadModules, Header, Launch, Row, Complete, LaunchFails, StackExhausted,
       EndLaunch, RunCase, End, Walltime
<1>2. SUFFICES ASSUME LoneFiles
               PROVE  /\ \A file \in DOMAIN files' : InOrder(file)'
                      /\ row' > 0 => Len(files'[ThePlan[at'].file]) = row' - 1
  BY <1>1 DEF AlignInv, LoneFiles
<1>3. /\ \A file \in DOMAIN files : InOrder(file)
      /\ row > 0 => Len(files[ThePlan[at].file]) = row - 1
  BY <1>2 DEF AlignInv
<1>4. ASSUME NEW file \in DOMAIN files, files'[file] = files[file]
      PROVE  InOrder(file)'
  BY <1>1, <1>3, <1>4 DEF InOrder
<1>5. CASE Header
  <2>1. row' = 0
    BY <1>5, AtCommand DEF Header, JobInv, Position, Launches, Commands
  <2>2. CASE files' = files
    BY <1>4, <2>1, <2>2
  <2>3. CASE files' = Put(files, Command.file, <<>>)
    <3>1. ASSUME NEW file \in DOMAIN files'
          PROVE  InOrder(file)'
      <4>1. CASE file = Command.file
        <5>1. files'[file] = <<>>
          BY <2>3, <4>1 DEF Put
        <5>2. DOMAIN files'[file] = {}
          BY <5>1
        <5> QED
          BY <5>2 DEF InOrder
      <4>2. CASE file # Command.file
        <5>1. file \in DOMAIN files /\ files'[file] = files[file]
          BY <2>3, <4>2 DEF Put
        <5> QED
          BY <1>4, <5>1
      <4> QED
        BY <4>1, <4>2
    <3> QED
      BY <2>1, <3>1
  <2> QED
    BY <1>5, <2>2, <2>3 DEF Header
<1>6. CASE Launch
  <2> DEFINE f == ThePlan[at].file
  <2>1. row = 0 /\ row' = 1 /\ files' = files /\ at' = at /\ at \in Launches
    BY <1>6, AtCommand DEF Launch, Launches
  <2>2. at \notin Started
    <3>1. at \in Nat /\ ~(at < at)
      BY PlanShape DEF JobInv, Position
    <3> QED
      BY <2>1, <3>1 DEF JobInv, Progress, Done
  <2>3. f \in DOMAIN files
    <3>1. PICK h \in DOMAIN ThePlan :
            h < at /\ ThePlan[h].op = "header" /\ ThePlan[h].file = f
      BY <2>1, PlanShape, PlanLaunches DEF JobInv, Position, HasHeader
    <3>2. h \in Done("header")
      BY <3>1 DEF Done, Commands
    <3> QED
      BY <3>1, <3>2 DEF JobInv, Progress
  <2>4. files[f] \in Seq(Entries(f))
    BY <2>3 DEF RowsInv
  <2>5. Entries(f) = {}
    <3>1. ASSUME NEW r \in Entries(f)
          PROVE  FALSE
      <4>1. r.launch \in Started /\ ThePlan[r.launch].file = f
        BY DEF Entries
      <4>2. r.launch \in Launches
        BY <4>1, FileThere
      <4>3. r.launch = at
        BY <1>2, <2>1, <4>1, <4>2 DEF LoneFiles
      <4> QED
        BY <2>2, <4>1, <4>3
    <3> QED
      BY <3>1
  <2> HIDE DEF f
  <2>6. Len(files[f]) = 0
    <3>1. \A s \in Seq({}) : Len(s) = 0
      <4>1. ASSUME NEW s \in Seq({}), Len(s) # 0
            PROVE  FALSE
        <5>1. 1 \in 1 .. Len(s)
          BY <4>1, LenProperties
        <5> QED
          BY <5>1, ElementOfSeq
      <4> QED
        BY <4>1
    <3> QED
      BY <2>4, <2>5, <3>1
  <2> QED
    BY <1>4, <2>1, <2>6 DEF f
<1>7. CASE Row
  <2> DEFINE f == ThePlan[at].file
             r == [launch |-> at, size |-> ThePlan[at].sizes[row]]
  <2>1. /\ row > 0 /\ row' = row + 1 /\ at' = at /\ row <= Len(ThePlan[at].sizes)
        /\ files' = [files EXCEPT ![f] = Append(@, r)]
    BY <1>7 DEF Row, RowsLeft, Command, Size
  <2>2. at \in Started /\ row \in Nat
    BY <2>1 DEF JobInv, Position, Progress
  <2>3. at \in Launches /\ f \in DOMAIN files
    BY <2>2, FileThere
  <2>4. row \in DOMAIN ThePlan[at].sizes
    BY <2>1, <2>2, <2>3, PlanLaunches DEF JobInv, Position
  <2>5. files[f] \in Seq(Entries(f)) /\ Len(files[f]) = row - 1
    BY <1>3, <2>1, <2>3 DEF RowsInv
  <2>6. r.launch = at /\ r.size = ThePlan[at].sizes[row]
    OBVIOUS
  <2> HIDE DEF f, r
  <2>7. files'[f] = Append(files[f], r)
    BY <2>1, <2>3
  <2>8. /\ Len(Append(files[f], r)) = row
        /\ \A k \in DOMAIN Append(files[f], r) :
             \/ k \in DOMAIN files[f] /\ Append(files[f], r)[k] = files[f][k]
             \/ k = row /\ Append(files[f], r)[k] = r
    <3>1. \A S : \A x : \A q \in Seq(S) :
            /\ Len(Append(q, x)) = Len(q) + 1 /\ Len(q) \in Nat
            /\ \A k \in DOMAIN Append(q, x) :
                 \/ k \in DOMAIN q /\ Append(q, x)[k] = q[k]
                 \/ k = Len(q) + 1 /\ Append(q, x)[k] = x
      OBVIOUS
    <3>2. Len(files[f]) + 1 = row
      BY <2>2, <2>5
    <3> QED
      BY <2>5, <3>1, <3>2
  <2>9. ASSUME NEW k \in DOMAIN files'[f], NEW t, t = files'[f][k]
        PROVE  k \in DOMAIN ThePlan[t.launch].sizes /\ t.size = ThePlan[t.launch].sizes[k]
    <3>1. CASE k \in DOMAIN files[f] /\ t = files[f][k]
      BY <1>3, <2>3, <3>1 DEF InOrder
    <3>2. CASE k = row /\ t = r
      BY <2>4, <2>6, <3>2
    <3> QED
      BY <2>7, <2>8, <2>9, <3>1, <3>2
  <2>10. ASSUME NEW file \in DOMAIN files'
         PROVE  InOrder(file)'
    <3>1. file \in DOMAIN files
      BY <2>1
    <3>2. CASE file # f
      BY <1>4, <2>1, <3>1, <3>2
    <3>3. CASE file = f
      <4>1. ASSUME NEW k \in DOMAIN files'[file], NEW t, t = files'[file][k]
            PROVE  k \in DOMAIN ThePlan[t.launch].sizes /\ t.size = ThePlan[t.launch].sizes[k]
        BY <2>9, <3>3, <4>1
      <4> QED
        BY <1>1, <4>1 DEF InOrder
    <3> QED
      BY <3>2, <3>3
  <2>11. Len(files'[f]) = row' - 1
    BY <2>1, <2>2, <2>7, <2>8
  <2> QED
    BY <2>1, <2>10, <2>11 DEF f
<1>8. CASE ~(Header \/ Launch \/ Row)
  <2>1. files' = files /\ (row' = 0 \/ (row' = row /\ at' = at))
    <3>1. ASSUME LoadModules \/ RunCase
          PROVE  row' = 0
      BY <3>1, AtCommand DEF LoadModules, RunCase, JobInv, Position, Launches, Commands
    <3> QED
      BY <1>8, <3>1 DEF Next, LoadModules, RunCase, Complete, LaunchFails, StackExhausted,
           EndLaunch, End, Walltime
  <2> QED
    BY <1>3, <1>4, <2>1
<1> QED
  BY <1>5, <1>6, <1>7, <1>8

LEMMA AlignInvariant == Spec => []AlignInv
<1>1. ASSUME Init
      PROVE  AlignInv
  BY <1>1 DEF Init, AlignInv, InOrder
<1>2. ASSUME JobInv, RowsInv, AlignInv, [Next]_vars
      PROVE  AlignInv'
  <2>1. CASE UNCHANGED vars
    BY <1>2, <2>1 DEF vars, AlignInv, LoneFiles, InOrder, Launches, Commands, ThePlan
  <2> QED
    BY <1>2, <2>1, AlignNext
<1> QED
  BY <1>1, <1>2, JobInvariant, RowsInvariant, PTL DEF Spec

LEMMA AllreduceAlone ==
  ASSUME JobInv, TheJob.script = "run_allreduce"
  PROVE  /\ LoneFiles
         /\ \A i \in Launches :
              /\ ThePlan[i].file # "E_rccl_tests" =>
                   \A k, m \in DOMAIN ThePlan[i].sizes :
                     k < m => ThePlan[i].sizes[k] < ThePlan[i].sizes[m]
              /\ ThePlan[i].file \in {"A_mpich_host", "B_mpich_dev"} =>
                   \A k \in DOMAIN ThePlan[i].sizes : ThePlan[i].sizes[k] <= CPU_MAX
<1>1. ThePlan = Allreduce(TheJob)
  BY DEF ThePlan, TheJob, Plans, Plan, JobInv, Position
<1>2. LaunchesOnce(ThePlan, AllreduceLaunches(TheJob))
  BY <1>1, AllreduceOnce
<1> HIDE DEF ThePlan, TheJob
<1>3. ASSUME NEW i \in Launches
      PROVE  /\ i \in DOMAIN ThePlan /\ ThePlan[i].op = "launch"
             /\ ThePlan[i] \in AllreduceLaunches(TheJob)
  BY <1>2 DEF Launches, Commands, LaunchesOnce
<1>4. LoneFiles
  <2>1. ASSUME NEW i \in Launches, NEW k \in Launches, ThePlan[i].file = ThePlan[k].file
        PROVE  i = k
    <3>1. ThePlan[k] = ThePlan[i]
      BY <1>3, <2>1, AllreduceFiles
    <3> QED
      BY <1>2, <1>3, <3>1 DEF LaunchesOnce
  <2> QED
    BY <2>1 DEF LoneFiles
<1>5. ASSUME NEW i \in Launches, ThePlan[i].file # "E_rccl_tests",
             NEW k \in DOMAIN ThePlan[i].sizes, NEW m \in DOMAIN ThePlan[i].sizes, k < m
      PROVE  ThePlan[i].sizes[k] < ThePlan[i].sizes[m]
  <2>1. PICK hi \in Nat : ThePlan[i].sizes = Sweep(0, hi)
    BY <1>3, <1>5, AllreduceFiles
  <2>2. 0 \in Nat
    OBVIOUS
  <2> QED
    BY <1>5, <2>1, <2>2, SweepSizes
<1>6. ASSUME NEW i \in Launches, ThePlan[i].file \in {"A_mpich_host", "B_mpich_dev"},
             NEW k \in DOMAIN ThePlan[i].sizes
      PROVE  ThePlan[i].sizes[k] <= CPU_MAX
  <2>1. ThePlan[i].sizes = Sweep(0, CPU_MAX)
    BY <1>3, <1>6, AllreduceFiles
  <2>2. 0 \in Nat /\ CPU_MAX \in Nat
    BY Bounds
  <2>3. ThePlan[i].sizes \in Seq(0 .. CPU_MAX)
    BY <2>1, <2>2, SweepSizes
  <2>4. k \in 1 .. Len(ThePlan[i].sizes)
    BY <2>3, LenProperties
  <2>5. ThePlan[i].sizes[k] \in 0 .. CPU_MAX
    BY <2>3, <2>4, ElementOfSeq
  <2> QED
    BY <2>2, <2>5
<1> QED
  BY <1>4, <1>5, <1>6

\* A result file of run_allreduce that lacks rows is noticed, unless all it lacks
\* is sizes beyond the 1 GiB that check_results.sh wants (TruncationNoticed): the
\* last row is of the largest size there is, and no size below it is missing.
THEOREM TruncationShows == Spec => []TruncationNoticed
<1>1. ASSUME JobInv, RowsInv, AlignInv, TheJob.script = "run_allreduce",
             NEW file \in DOMAIN files \cap Scanned, ~Noticed(file),
             NEW i, i = LaunchOf(file), NEW size \in Lost(i)
      PROVE  size > 1 * GiB
  <2> DEFINE n == Len(files[file])
             rows == files[file]
  <2>1. /\ LoneFiles
        /\ \A h \in Launches :
              /\ ThePlan[h].file # "E_rccl_tests" =>
                   \A k, m \in DOMAIN ThePlan[h].sizes :
                     k < m => ThePlan[h].sizes[k] < ThePlan[h].sizes[m]
              /\ ThePlan[h].file \in {"A_mpich_host", "B_mpich_dev"} =>
                   \A k \in DOMAIN ThePlan[h].sizes : ThePlan[h].sizes[k] <= CPU_MAX
    BY <1>1, AllreduceAlone
  <2>2. rows \in Seq(Entries(file)) /\ InOrder(file)
    BY <1>1, <2>1 DEF RowsInv, AlignInv
  <2>3. /\ n \in Nat /\ DOMAIN rows = 1 .. n
        /\ \A k \in 1 .. n : rows[k] \in Entries(file)
    BY <2>2
  <2>4. /\ file # "E_rccl_tests" /\ n # 0
        /\ ~(rows[n].size < MaxWanted(file))
    <3>1. ~Flagged(file) /\ ~(MaxShown(file) < MaxWanted(file))
      BY <1>1 DEF Noticed
    <3>2. file # "E_rccl_tests"
      <4>1. Len(<<>>) = 0
        OBVIOUS
      <4> QED
        BY <3>1, <4>1 DEF Flagged, DataRows
    <3>3. DataRows(file) = rows
      BY <3>2 DEF DataRows
    <3> QED
      BY <3>1, <3>2, <3>3 DEF Flagged, MaxShown, Last
  <2> HIDE DEF n, rows
  <2>5. ASSUME NEW k \in 1 .. n
        PROVE  /\ rows[k].launch = i /\ i \in Launches /\ ThePlan[i].file = file
               /\ k \in DOMAIN ThePlan[i].sizes
               /\ rows[k] = [launch |-> i, size |-> ThePlan[i].sizes[k]]
    <3> DEFINE r == rows[k]
    <3>1. /\ r.launch \in Started /\ ThePlan[r.launch].file = file
          /\ r \in [launch : Started, size : 0 .. Unlimited]
      BY <2>3 DEF Entries
    <3>2. r = [launch |-> r.launch, size |-> r.size]
      BY <3>1
    <3>3. r.launch \in Launches
      BY <1>1, <3>1, FileThere
    <3>4. i \in Launches /\ ThePlan[i].file = file
      BY <1>1, <3>1, <3>3 DEF LaunchOf
    <3>5. r.launch = i
      BY <2>1, <3>1, <3>3, <3>4 DEF LoneFiles
    <3>6. k \in DOMAIN ThePlan[r.launch].sizes /\ r.size = ThePlan[r.launch].sizes[k]
      BY <2>2, <2>3 DEF InOrder, rows
    <3> HIDE DEF r
    <3>7. r = [launch |-> i, size |-> ThePlan[i].sizes[k]]
      BY <3>2, <3>5, <3>6
    <3> QED
      BY <3>4, <3>5, <3>6, <3>7 DEF r
  <2>6. i \in Launches /\ ThePlan[i].file = file /\ n \in 1 .. n /\ n \in DOMAIN ThePlan[i].sizes
    <3>1. n \in 1 .. n
      BY <2>3, <2>4
    <3> QED
      BY <2>5, <3>1
  <2>7. PICK k \in DOMAIN ThePlan[i].sizes : size = ThePlan[i].sizes[k]
    <3>1. size \in Wanted(i)
      BY <1>1 DEF Lost
    <3> QED
      BY <1>1, <2>6, <3>1, PlanLaunches DEF JobInv, Position
  <2>8. k \notin 1 .. n
    <3>1. ASSUME k \in 1 .. n
          PROVE  size \in Measured(i)
      <4>1. rows[k] = [launch |-> i, size |-> size]
        BY <2>5, <2>7, <3>1
      <4>2. Rows(i) = rows
        BY <1>1, <2>6 DEF Rows, rows
      <4>3. size \in Wanted(i)
        BY <1>1 DEF Lost
      <4> QED
        BY <2>3, <3>1, <4>1, <4>2, <4>3 DEF Measured
    <3> QED
      BY <1>1, <3>1 DEF Lost
  <2>9. /\ ThePlan[i].sizes \in Seq(0 .. Unlimited)
        /\ DOMAIN ThePlan[i].sizes = 1 .. Len(ThePlan[i].sizes)
    BY <1>1, <2>6, PlanLaunches DEF JobInv, Position
  <2>10. \A h \in DOMAIN ThePlan[i].sizes : ThePlan[i].sizes[h] \in Nat
    <3>1. ASSUME NEW h \in DOMAIN ThePlan[i].sizes
          PROVE  ThePlan[i].sizes[h] \in 0 .. Unlimited
      BY <2>9, ElementOfSeq
    <3> QED
      BY <3>1
  <2>11. ThePlan[i].sizes[n] < size
    <3>1. n < k
      BY <2>3, <2>7, <2>8, <2>9
    <3> QED
      BY <2>1, <2>4, <2>6, <2>7, <3>1
  <2>12. rows[n].size = ThePlan[i].sizes[n]
    <3>1. rows[n] = [launch |-> i, size |-> ThePlan[i].sizes[n]]
      BY <2>5, <2>6
    <3> QED
      BY <3>1
  <2>13. ThePlan[i].sizes[n] >= MaxWanted(file) /\ MaxWanted(file) \in Nat
    <3>1. MaxWanted(file) \in Nat
      BY DEF MaxWanted, GiB, MiB, KiB
    <3>2. ~(ThePlan[i].sizes[n] < MaxWanted(file)) /\ ThePlan[i].sizes[n] \in Nat
      BY <2>4, <2>6, <2>10, <2>12
    <3> HIDE DEF MaxWanted
    <3> QED
      BY <3>1, <3>2
  <2>14. size > MaxWanted(file)
    <3>1. size \in Nat /\ ThePlan[i].sizes[n] \in Nat
      BY <2>6, <2>7, <2>10
    <3> HIDE DEF MaxWanted
    <3> QED
      BY <2>11, <2>13, <3>1
  <2>15. file \notin {"A_mpich_host", "B_mpich_dev"}
    <3>1. ASSUME file \in {"A_mpich_host", "B_mpich_dev"}
          PROVE  FALSE
      <4>1. MaxWanted(file) = CPU_MAX
        BY <3>1 DEF MaxWanted, CPU_MAX
      <4>2. size <= CPU_MAX /\ size \in Nat /\ CPU_MAX \in Nat
        BY <2>1, <2>6, <2>7, <2>10, <3>1, Bounds
      <4> QED
        BY <2>14, <4>1, <4>2
    <3> QED
      BY <3>1
  <2> QED
    BY <2>14, <2>15 DEF MaxWanted
<1>2. ASSUME JobInv, RowsInv, AlignInv
      PROVE  TruncationNoticed
  BY <1>1, <1>2 DEF TruncationNoticed
<1> QED
  BY <1>2, JobInvariant, RowsInvariant, AlignInvariant, PTL

=============================================================================
