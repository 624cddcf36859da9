-------------------------- MODULE BlockingAllreduce -------------------------
(***************************************************************************)
(* What MPI_Allreduce promises to a program in which every rank makes the  *)
(* same calls: a rank leaves a reduction only after all ranks have entered *)
(* it, with the contributions they made to that very call; other calls     *)
(* (MPI_Comm_free) do not wait for anybody.  AllreduceCcl implements it    *)
(* where nothing fails and the ranks agree on the path.                    *)
(***************************************************************************)
EXTENDS Integers

CONSTANTS Ranks, NumCalls

VARIABLES
  reductions,  \* the indices of the calls that are reductions
  entered,     \* entered[r]: number of calls rank r has entered
  left,        \* left[r]: number of calls rank r has returned from
  sum          \* sum[r][i]: contributions in what call i gave to rank r

vars == <<reductions, entered, left, sum>>

Indices == 1 .. NumCalls

Init ==
  /\ reductions \in SUBSET Indices
  /\ entered = [r \in Ranks |-> 0]
  /\ left = [r \in Ranks |-> 0]
  /\ sum = [r \in Ranks |-> [i \in Indices |-> {}]]

EnterReduction(r) ==
  /\ entered[r] = left[r]
  /\ entered[r] + 1 \in reductions
  /\ entered' = [entered EXCEPT ![r] = @ + 1]
  /\ UNCHANGED <<reductions, left, sum>>

LeaveReduction(r) ==
  LET i == entered[r]
  IN  /\ left[r] < i
      /\ \A q \in Ranks : entered[q] >= i
      /\ left' = [left EXCEPT ![r] = i]
      /\ sum' = [sum EXCEPT ![r][i] = Ranks \X {i}]
      /\ UNCHANGED <<reductions, entered>>

OtherCall(r) ==
  /\ entered[r] = left[r]
  /\ entered[r] + 1 \in Indices \ reductions
  /\ entered' = [entered EXCEPT ![r] = @ + 1]
  /\ left' = [left EXCEPT ![r] = @ + 1]
  /\ UNCHANGED <<reductions, sum>>

Next == \E r \in Ranks : EnterReduction(r) \/ LeaveReduction(r) \/ OtherCall(r)

\* Without the promise that a call returns.
Safety == Init /\ [][Next]_vars

Spec ==
  /\ Safety
  /\ \A r \in Ranks :
       WF_vars(EnterReduction(r) \/ OtherCall(r)) /\ WF_vars(LeaveReduction(r))

=============================================================================
