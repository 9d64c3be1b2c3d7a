------------------------- MODULE WorkflowSagaProofs -------------------------
(***************************************************************************)
(* Theorems about WorkflowSaga for any number of workers, any number of    *)
(* steps and any bounds on the faults.                                     *)
(***************************************************************************)
EXTENDS WorkflowSaga, TLAPS

-----------------------------------------------------------------------------
(***************************************************************************)
(* Type correctness.                                                       *)
(***************************************************************************)

LEMMA InitTypeOK == Init => TypeOK
<1> SUFFICES ASSUME Init PROVE TypeOK
  OBVIOUS
<1>1. /\ status \in WorkflowStatus
      /\ due \in BOOLEAN
      /\ lease \in Worker \cup {NoWorker}
      /\ stray \subseteq Step \X Op
      /\ triggers \in Nat /\ abandons \in Nat
      /\ overruns \in Nat /\ orphans \in Nat
  BY DEF Init, WorkflowStatus
<1>2. /\ step \in [Step -> StepStatus]
      /\ attempts \in [Step -> Nat]
      /\ undoAttempts \in [Step -> Nat]
      /\ reserved \in [Step -> BOOLEAN]
  BY DEF Init, StepStatus
<1>3. /\ pc \in [Worker -> Location]
      /\ mode \in [Worker -> WorkflowStatus]
      /\ plan \in [Worker -> SUBSET Step]
      /\ seen \in [Worker -> Nat]
  BY DEF Init, Location, WorkflowStatus
<1> QED BY <1>1, <1>2, <1>3 DEF TypeOK

\* The helper actions on a worker's location and snapshot keep their types.
LEMMA GotoType ==
  ASSUME TypeOK, NEW w \in Worker, NEW l \in Location, Goto(w, l)
  PROVE  pc' \in [Worker -> Location]
  BY DEF TypeOK, Goto

LEMMA LeaveType ==
  ASSUME TypeOK, NEW w \in Worker, Leave(w)
  PROVE  /\ pc' \in [Worker -> Location]
         /\ mode' \in [Worker -> WorkflowStatus]
         /\ plan' \in [Worker -> SUBSET Step]
         /\ seen' \in [Worker -> Nat]
  BY DEF TypeOK, Leave, Goto, Location, WorkflowStatus

LEMMA LoopHeadType ==
  ASSUME NEW S
  PROVE  LoopHead(S) \in {"begin", "close"} /\ LoopHead(S) \in Location
  BY DEF LoopHead, Location

LEMMA NextTypeOK == TypeOK /\ [Next]_vars => TypeOK'
<1> SUFFICES ASSUME TypeOK, [Next]_vars
             PROVE  TypeOK'
  OBVIOUS
<1> USE DEF row, steps, world, local, budget
<1>1. CASE Trigger
  <2>1. status' \in WorkflowStatus /\ triggers' \in Nat
    BY <1>1 DEF Trigger, TypeOK, WorkflowStatus, Claimable
  <2>2. due' \in BOOLEAN
    BY <1>1, Zenon DEF Trigger, TypeOK
  <2>3. step' \in [Step -> StepStatus]
    BY <1>1 DEF Trigger, TypeOK, StepStatus
  <2> QED BY <1>1, <2>1, <2>2, <2>3 DEF Trigger, TypeOK
<1>2. CASE BackoffElapses
  BY <1>2 DEF BackoffElapses, TypeOK
<1>3. CASE LeaseExpires
  BY <1>3 DEF LeaseExpires, TypeOK
<1>4. CASE LeaseOverrun
  BY <1>4 DEF LeaseOverrun, TypeOK
<1>5. CASE StrayLands
  BY <1>5 DEF StrayLands, Served, TypeOK
<1>6. ASSUME NEW w \in Worker, Claim(w) PROVE TypeOK'
  BY <1>6 DEF Claim, Goto, TypeOK, Location
<1>7. ASSUME NEW w \in Worker, ReadRow(w) PROVE TypeOK'
  <2>1. CASE status \in Terminal
    BY <1>7, <2>1, LeaveType DEF ReadRow, TypeOK
  <2>2. CASE status \notin Terminal
    BY <1>7, <2>2 DEF ReadRow, Goto, TypeOK, Location
  <2> QED BY <2>1, <2>2
<1>8. ASSUME NEW w \in Worker, ReadSteps(w) PROVE TypeOK'
  <2>1. Remaining(w) \in SUBSET Step
    BY DEF Remaining
  <2>2. pc' \in [Worker -> Location]
    BY <1>8, GotoType, LoopHeadType DEF ReadSteps
  <2> QED BY <1>8, <2>1, <2>2 DEF ReadSteps, TypeOK
<1>9. ASSUME NEW w \in Worker, BeginStep(w) PROVE TypeOK'
  BY <1>9 DEF BeginStep, Goto, TypeOK, Location, StepStatus
<1>10. ASSUME NEW w \in Worker, CallReturns(w) PROVE TypeOK'
  BY <1>10 DEF CallReturns, Served, Goto, TypeOK, Location
<1>11. ASSUME NEW w \in Worker, CallFails(w) PROVE TypeOK'
  BY <1>11 DEF CallFails, Served, Goto, TypeOK, Location
<1>12. ASSUME NEW w \in Worker, CallTimesOut(w) PROVE TypeOK'
  <2>1. stray' \subseteq Step \X Op /\ orphans' \in Nat
    BY <1>12, SagaAssumption DEF CallTimesOut, Orphan, OpOf, Op, TypeOK
  <2> QED BY <1>12, <2>1 DEF CallTimesOut, Goto, TypeOK, Location
<1>13. ASSUME NEW w \in Worker, FinishStep(w) PROVE TypeOK'
  <2>1. pc' \in [Worker -> Location]
    BY <1>13, GotoType, LoopHeadType DEF FinishStep
  <2> QED BY <1>13, <2>1 DEF FinishStep, TypeOK, StepStatus
<1>14. ASSUME NEW w \in Worker, FinishFails(w) PROVE TypeOK'
  BY <1>14 DEF FinishFails, Goto, TypeOK, Location
<1>15. ASSUME NEW w \in Worker, RecordFailure(w) PROVE TypeOK'
  BY <1>15 DEF RecordFailure, Goto, TypeOK, Location, StepStatus
<1>16. ASSUME NEW w \in Worker, NEW s \in WorkflowStatus, NEW d \in BOOLEAN,
              SetStatus(w, s, d)
       PROVE  TypeOK'
  BY <1>16, LeaveType DEF SetStatus, TypeOK
<1>17. ASSUME NEW w \in Worker, Schedule(w) PROVE TypeOK'
  BY <1>16, <1>17 DEF Schedule, WorkflowStatus, Claimable, Terminal
<1>18. ASSUME NEW w \in Worker, Close(w) PROVE TypeOK'
  BY <1>16, <1>18 DEF Close, WorkflowStatus, Terminal
<1>19. ASSUME NEW w \in Worker, Abandon(w) PROVE TypeOK'
  <2>1. stray' \subseteq Step \X Op /\ orphans' \in Nat
    <3>1. CASE UNCHANGED <<stray, orphans>>
      BY <3>1 DEF TypeOK
    <3>2. CASE Orphan(w)
      BY <3>2, SagaAssumption DEF Orphan, OpOf, Op, TypeOK
    <3> QED BY <1>19, <3>1, <3>2 DEF Abandon
  <2> QED BY <1>19, <2>1, LeaveType DEF Abandon, TypeOK
<1>20. CASE UNCHANGED vars
  BY <1>20 DEF vars, TypeOK
<1> QED
  BY <1>1, <1>2, <1>3, <1>4, <1>5, <1>6, <1>7, <1>8, <1>9, <1>10, <1>11,
     <1>12, <1>13, <1>14, <1>15, <1>17, <1>18, <1>19, <1>20
  DEF Next, RunStep

\* The row, the steps, the participants and the workers keep their types.
THEOREM TypeCorrect == Spec => []TypeOK
<1>1. QED BY InitTypeOK, NextTypeOK, PTL DEF Spec

-----------------------------------------------------------------------------
(***************************************************************************)
(* The invariant behind everything that relies on the lease.  Every part   *)
(* is conditional on overruns = 0, the condition of the properties.        *)
(***************************************************************************)

\* Whoever runs holds the lease.
HolderInv == \A w \in Worker : Active(w) => lease = w

\* While someone runs, the row is not terminal, and it has the status that
\* the runner's snapshot says.
ModeInv ==
  \A w \in Worker :
     /\ Active(w) => status \in Claimable
     /\ pc[w] \notin {"idle", "row"} => mode[w] = status

LeaseInv == overruns = 0 => HolderInv /\ ModeInv

LEMMA InitLeaseInv == Init => LeaseInv
  BY DEF Init, LeaseInv, HolderInv, ModeInv, Active

\* At most one run ends or goes on at a time: the runner keeps the lease and
\* the others are idle.
LEMMA LeaseAlone ==
  ASSUME TypeOK, HolderInv, NEW v \in Worker, NEW w \in Worker,
         Active(v), Active(w)
  PROVE  v = w
  BY DEF HolderInv

\* A step inside a run that leaves row, lease and snapshot alone.
LEMMA RunStaysLeased ==
  ASSUME TypeOK, LeaseInv, NEW w \in Worker, NEW l \in Location \ {"idle", "row"},
         pc[w] \notin {"idle", "row"}, Goto(w, l),
         UNCHANGED <<status, lease, mode, overruns>>
  PROVE  LeaseInv'
  BY DEF TypeOK, LeaseInv, HolderInv, ModeInv, Active, Goto

\* A step that ends a run.
LEMMA LeaveStaysLeased ==
  ASSUME TypeOK, LeaseInv, NEW w \in Worker, Leave(w),
         UNCHANGED <<status, lease, overruns>>
  PROVE  LeaseInv'
  BY DEF TypeOK, LeaseInv, HolderInv, ModeInv, Active, Goto, Leave

LEMMA SetStatusStaysLeased ==
  ASSUME TypeOK, LeaseInv, NEW w \in Worker, Active(w),
         NEW s, NEW d, SetStatus(w, s, d)
  PROVE  LeaseInv'
<1> SUFFICES ASSUME overruns' = 0 PROVE HolderInv' /\ ModeInv'
  BY DEF LeaseInv
<1>1. overruns = 0 /\ HolderInv
  BY DEF SetStatus, budget, LeaseInv
<1>2. \A v \in Worker : pc'[v] = "idle"
  BY <1>1 DEF SetStatus, Leave, Goto, HolderInv, Active, TypeOK
<1> QED BY <1>2 DEF HolderInv, ModeInv, Active

LEMMA NextLeaseInv == TypeOK /\ LeaseInv /\ [Next]_vars => LeaseInv'
<1> SUFFICES ASSUME TypeOK, LeaseInv, [Next]_vars
             PROVE  LeaseInv'
  OBVIOUS
<1> USE DEF row, steps, world, local, budget
<1>1. CASE Trigger
  BY <1>1 DEF Trigger, LeaseInv, HolderInv, ModeInv, Active, Claimable
<1>2. CASE BackoffElapses
  BY <1>2 DEF BackoffElapses, LeaseInv, HolderInv, ModeInv, Active
<1>3. CASE LeaseExpires
  BY <1>3 DEF LeaseExpires, LeaseInv, HolderInv, ModeInv, Active
<1>4. CASE LeaseOverrun
  BY <1>4 DEF LeaseOverrun, LeaseInv, TypeOK
<1>5. CASE StrayLands
  BY <1>5 DEF StrayLands, LeaseInv, HolderInv, ModeInv, Active
<1>6. ASSUME NEW w \in Worker, Claim(w) PROVE LeaseInv'
  BY <1>6, SagaAssumption
  DEF Claim, LeaseFree, Goto, TypeOK, LeaseInv, HolderInv, ModeInv, Active
<1>7. ASSUME NEW w \in Worker, ReadRow(w) PROVE LeaseInv'
  <2>1. CASE status \in Terminal
    BY <1>7, <2>1, LeaveStaysLeased DEF ReadRow
  <2>2. CASE status \notin Terminal
    BY <1>7, <2>2
    DEF ReadRow, Goto, TypeOK, LeaseInv, HolderInv, ModeInv, Active
  <2> QED BY <2>1, <2>2
<1>8. ASSUME NEW w \in Worker, ReadSteps(w) PROVE LeaseInv'
  BY <1>8, LoopHeadType, RunStaysLeased DEF ReadSteps
<1>9. ASSUME NEW w \in Worker, BeginStep(w) PROVE LeaseInv'
  BY <1>9, RunStaysLeased DEF BeginStep, Location
<1>10. ASSUME NEW w \in Worker, CallReturns(w) PROVE LeaseInv'
  BY <1>10, RunStaysLeased DEF CallReturns, Location
<1>11. ASSUME NEW w \in Worker, CallFails(w) PROVE LeaseInv'
  BY <1>11, RunStaysLeased DEF CallFails, Location
<1>12. ASSUME NEW w \in Worker, CallTimesOut(w) PROVE LeaseInv'
  BY <1>12, RunStaysLeased DEF CallTimesOut, Location
<1>13. ASSUME NEW w \in Worker, FinishStep(w) PROVE LeaseInv'
  BY <1>13, LoopHeadType, RunStaysLeased DEF FinishStep
<1>14. ASSUME NEW w \in Worker, FinishFails(w) PROVE LeaseInv'
  BY <1>14, RunStaysLeased DEF FinishFails, Location
<1>15. ASSUME NEW w \in Worker, RecordFailure(w) PROVE LeaseInv'
  BY <1>15, RunStaysLeased DEF RecordFailure, Location
<1>16. ASSUME NEW w \in Worker, Schedule(w) PROVE LeaseInv'
  BY <1>16, SetStatusStaysLeased DEF Schedule, Active
<1>17. ASSUME NEW w \in Worker, Close(w) PROVE LeaseInv'
  BY <1>17, SetStatusStaysLeased DEF Close, Active
<1>18. ASSUME NEW w \in Worker, Abandon(w) PROVE LeaseInv'
  BY <1>18, LeaveStaysLeased DEF Abandon
<1>19. CASE UNCHANGED vars
  BY <1>19 DEF vars, LeaseInv, HolderInv, ModeInv, Active
<1> QED
  BY <1>1, <1>2, <1>3, <1>4, <1>5, <1>6, <1>7, <1>8, <1>9, <1>10, <1>11,
     <1>12, <1>13, <1>14, <1>15, <1>16, <1>17, <1>18, <1>19
  DEF Next, RunStep

LEMMA LeaseCorrect == Spec => []LeaseInv
<1>1. QED BY InitLeaseInv, NextLeaseInv, TypeCorrect, PTL DEF Spec

\* No two workers are ever inside a run while leases outlive runs.
THEOREM SoleRunnerHolds == Spec => []SoleRunner
<1>1. TypeOK /\ LeaseInv => SoleRunner
  BY DEF LeaseInv, HolderInv, SoleRunner
<1> QED BY <1>1, TypeCorrect, LeaseCorrect, PTL

\* Only Trigger, Schedule and Close write the status.
LEMMA StatusWriters ==
  ASSUME [Next]_vars, status' # status
  PROVE  \/ Trigger
         \/ \E w \in Worker : Schedule(w) \/ Close(w)
<1> USE DEF row
<1>1. ASSUME NEW w \in Worker, Claim(w) \/ RunStep(w) \/ Abandon(w)
      PROVE  Schedule(w) \/ Close(w)
  BY <1>1 DEF RunStep, Claim, Abandon, ReadRow, ReadSteps, BeginStep,
     CallReturns, CallFails, CallTimesOut, FinishStep, FinishFails,
     RecordFailure
<1> QED
  BY <1>1 DEF Next, vars, BackoffElapses, LeaseExpires, LeaseOverrun,
     StrayLands

\* The status only moves forward while leases outlive runs.
THEOREM StatusForwardHolds == Spec => StatusForward
<1>1. ASSUME TypeOK, LeaseInv, [Next]_vars, overruns = 0
      PROVE  status' \in {status} \cup Successors(status)
  <2>1. CASE status' = status
    BY <2>1
  <2>2. CASE Trigger
    BY <2>2 DEF Trigger, Successors
  <2>3. ASSUME NEW w \in Worker, Schedule(w)
        PROVE  status' \in {status} \cup Successors(status)
    <3>1. mode[w] = status /\ status \in Claimable
      BY <1>1, <2>3 DEF Schedule, LeaseInv, ModeInv, Active
    <3> QED
      BY <2>3, <3>1
      DEF Schedule, SetStatus, Applying, Successors, Claimable
  <2>4. ASSUME NEW w \in Worker, Close(w)
        PROVE  status' \in {status} \cup Successors(status)
    <3>1. mode[w] = status /\ status \in Claimable
      BY <1>1, <2>4 DEF Close, LeaseInv, ModeInv, Active
    <3> QED
      BY <2>4, <3>1 DEF Close, SetStatus, Applying, Successors, Claimable
  <2> QED BY <1>1, <2>1, <2>2, <2>3, <2>4, StatusWriters
<1>2. TypeOK /\ LeaseInv /\ [Next]_vars
        => [overruns = 0 => status' \in {status} \cup Successors(status)]_vars
  BY <1>1
<1> QED BY <1>2, TypeCorrect, LeaseCorrect, PTL DEF Spec, StatusForward

-----------------------------------------------------------------------------
(***************************************************************************)
(* Why an undo starts or is given up.  No part depends on the lease: a     *)
(* worker that overran still counts what it counted.                       *)
(***************************************************************************)

ApplyUsedUp == \E i \in Step : attempts[i] >= MaxAttempts
UndoUsedUp  == \E i \in Step : undoAttempts[i] >= MaxAttempts

CauseInv ==
  /\ GivesUpForCause
  /\ \A w \in Worker :
        /\ Active(w) => status # "absent"
        /\ pc[w] \notin {"idle", "row"} => mode[w] \in Claimable
        /\ mode[w] = "compensating" => ApplyUsedUp
        /\ pc[w] = "schedule" =>
             \E i \in Step : IF Applying(w) THEN seen[w] <= attempts[i]
                                            ELSE seen[w] <= undoAttempts[i]

LEMMA InitCauseInv == Init => CauseInv
  BY DEF Init, CauseInv, GivesUpForCause, Active

\* A step of w that leaves the counters alone and does not enter "schedule".
LEMMA RunKeepsCause ==
  ASSUME TypeOK, CauseInv, NEW w \in Worker,
         NEW l \in Location \ {"idle", "row", "schedule"},
         pc[w] \notin {"idle", "row"}, Goto(w, l),
         UNCHANGED <<status, mode, attempts, undoAttempts, seen>>
  PROVE  CauseInv'
  BY DEF TypeOK, CauseInv, GivesUpForCause, Active, Applying, Goto,
     ApplyUsedUp, UndoUsedUp

LEMMA LeaveKeepsCause ==
  ASSUME TypeOK, CauseInv, NEW w \in Worker, Leave(w),
         UNCHANGED <<status, attempts, undoAttempts>>
  PROVE  CauseInv'
  BY DEF TypeOK, CauseInv, GivesUpForCause, Active, Applying, Goto, Leave,
     ApplyUsedUp, UndoUsedUp

LEMMA SetStatusKeepsCause ==
  ASSUME TypeOK, CauseInv, NEW w \in Worker, NEW s \in WorkflowStatus, NEW d,
         SetStatus(w, s, d), s # "absent",
         s \in {"compensating", "compensated", "compensation_failed"}
           => ApplyUsedUp,
         s = "compensation_failed" => UndoUsedUp
  PROVE  CauseInv'
<1>1. UNCHANGED <<attempts, undoAttempts>> /\ status' = s /\ Leave(w)
  BY DEF SetStatus, steps
<1> QED
  BY <1>1 DEF TypeOK, CauseInv, GivesUpForCause, Active, Applying, Goto,
     Leave, ApplyUsedUp, UndoUsedUp

LEMMA RecordFailureKeepsCause ==
  ASSUME TypeOK, CauseInv, NEW w \in Worker, RecordFailure(w)
  PROVE  CauseInv'
<1>1. PICK i \in Step :
        IF Applying(w)
        THEN /\ attempts' = [attempts EXCEPT ![i] = @ + 1]
             /\ seen' = [seen EXCEPT ![w] = attempts[i] + 1]
             /\ UNCHANGED undoAttempts
        ELSE /\ undoAttempts' = [undoAttempts EXCEPT ![i] = @ + 1]
             /\ seen' = [seen EXCEPT ![w] = undoAttempts[i] + 1]
             /\ UNCHANGED attempts
  BY DEF RecordFailure
<1>2. UNCHANGED <<status, mode>> /\ pc[w] = "fail" /\ Goto(w, "schedule")
  BY DEF RecordFailure, row
<1>3. \A j \in Step : /\ attempts[j] <= attempts'[j]
                      /\ undoAttempts[j] <= undoAttempts'[j]
  BY <1>1 DEF TypeOK
<1>4. (ApplyUsedUp => ApplyUsedUp') /\ (UndoUsedUp => UndoUsedUp')
  BY <1>1, <1>3, SagaAssumption DEF ApplyUsedUp, UndoUsedUp, TypeOK
<1>5. GivesUpForCause'
  BY <1>2, <1>4 DEF CauseInv, GivesUpForCause, ApplyUsedUp, UndoUsedUp
<1>6. ASSUME NEW v \in Worker
      PROVE  /\ Active(v)' => status' # "absent"
             /\ pc'[v] \notin {"idle", "row"} => mode'[v] \in Claimable
             /\ mode'[v] = "compensating" => ApplyUsedUp'
  BY <1>2, <1>4 DEF CauseInv, Active, Goto, TypeOK
<1>7. ASSUME NEW v \in Worker, pc'[v] = "schedule"
      PROVE  \E j \in Step : IF Applying(v)' THEN seen'[v] <= attempts'[j]
                                             ELSE seen'[v] <= undoAttempts'[j]
  <2>1. CASE v = w
    BY <1>1, <1>2, <2>1 DEF Applying, TypeOK
  <2>2. CASE v # w
    <3>1. pc[v] = "schedule" /\ seen'[v] = seen[v]
      BY <1>1, <1>2, <1>7, <2>2 DEF Goto, TypeOK
    <3>2. PICK j \in Step : IF Applying(v) THEN seen[v] <= attempts[j]
                                          ELSE seen[v] <= undoAttempts[j]
      BY <3>1 DEF CauseInv
    <3>3. IF Applying(v)' THEN seen'[v] <= attempts'[j]
                          ELSE seen'[v] <= undoAttempts'[j]
      <4>1. /\ seen[v] \in Nat /\ attempts[j] \in Nat
            /\ undoAttempts[j] \in Nat
            /\ attempts'[j] \in Nat /\ undoAttempts'[j] \in Nat
        BY <1>1 DEF TypeOK
      <4> QED BY <1>2, <1>3, <3>1, <3>2, <4>1 DEF Applying
    <3> QED BY <3>3
  <2> QED BY <2>1, <2>2
<1> QED BY <1>5, <1>6, <1>7 DEF CauseInv

LEMMA NextCauseInv == TypeOK /\ CauseInv /\ [Next]_vars => CauseInv'
<1> SUFFICES ASSUME TypeOK, CauseInv, [Next]_vars
             PROVE  CauseInv'
  OBVIOUS
<1> USE DEF row, steps, world, local, budget
<1>1. CASE Trigger
  BY <1>1 DEF Trigger, CauseInv, GivesUpForCause, Active, Applying,
     ApplyUsedUp
<1>2. CASE BackoffElapses \/ LeaseExpires \/ LeaseOverrun \/ StrayLands
  <2>1. UNCHANGED <<status, pc, mode, attempts, undoAttempts, seen>>
    BY <1>2 DEF BackoffElapses, LeaseExpires, LeaseOverrun, StrayLands
  <2> QED
    BY <2>1 DEF CauseInv, GivesUpForCause, Active, Applying, ApplyUsedUp
<1>3. ASSUME NEW w \in Worker, Claim(w) PROVE CauseInv'
  BY <1>3 DEF Claim, Claimable, Goto, TypeOK, CauseInv, GivesUpForCause,
     Active, Applying, ApplyUsedUp
<1>4. ASSUME NEW w \in Worker, ReadRow(w) PROVE CauseInv'
  <2>1. CASE status \in Terminal
    BY <1>4, <2>1, LeaveKeepsCause DEF ReadRow
  <2>2. CASE status \notin Terminal
    <3>1. status \in Claimable
      BY <1>4, <2>2 DEF ReadRow, CauseInv, Active, TypeOK, WorkflowStatus
    <3>2. status = "compensating" => ApplyUsedUp
      BY DEF CauseInv, GivesUpForCause, ApplyUsedUp
    <3>3. /\ mode' = [mode EXCEPT ![w] = status] /\ Goto(w, "steps")
          /\ pc[w] = "row"
          /\ UNCHANGED <<status, attempts, undoAttempts, seen>>
      BY <1>4, <2>2 DEF ReadRow
    <3>4. GivesUpForCause' /\ (ApplyUsedUp => ApplyUsedUp')
      BY <3>3 DEF CauseInv, GivesUpForCause, ApplyUsedUp
    <3>5. ASSUME NEW v \in Worker, v # w
          PROVE  pc'[v] = pc[v] /\ mode'[v] = mode[v]
      BY <3>3, <3>5 DEF Goto, TypeOK
    <3>6. pc'[w] = "steps" /\ mode'[w] = status
      BY <3>3 DEF Goto, TypeOK
    <3> QED
      BY <3>1, <3>2, <3>3, <3>4, <3>5, <3>6 DEF CauseInv, Active, Applying
  <2> QED BY <2>1, <2>2
<1>5. ASSUME NEW w \in Worker, ReadSteps(w) PROVE CauseInv'
  <2>1. LoopHead(Remaining(w)) \in Location \ {"idle", "row", "schedule"}
    BY DEF LoopHead, Location
  <2> QED BY <1>5, <2>1, RunKeepsCause DEF ReadSteps
<1>6. ASSUME NEW w \in Worker, BeginStep(w) PROVE CauseInv'
  BY <1>6, RunKeepsCause DEF BeginStep, Location
<1>7. ASSUME NEW w \in Worker, CallReturns(w) PROVE CauseInv'
  BY <1>7, RunKeepsCause DEF CallReturns, Location
<1>8. ASSUME NEW w \in Worker, CallFails(w) PROVE CauseInv'
  BY <1>8, RunKeepsCause DEF CallFails, Location
<1>9. ASSUME NEW w \in Worker, CallTimesOut(w) PROVE CauseInv'
  BY <1>9, RunKeepsCause DEF CallTimesOut, Location
<1>10. ASSUME NEW w \in Worker, FinishStep(w) PROVE CauseInv'
  <2>1. PICK i \in Step : Goto(w, LoopHead(plan[w] \ {i}))
    BY <1>10 DEF FinishStep
  <2>2. LoopHead(plan[w] \ {i}) \in Location \ {"idle", "row", "schedule"}
    BY DEF LoopHead, Location
  <2> QED BY <1>10, <2>1, <2>2, RunKeepsCause DEF FinishStep
<1>11. ASSUME NEW w \in Worker, FinishFails(w) PROVE CauseInv'
  BY <1>11, RunKeepsCause DEF FinishFails, Location
<1>12. ASSUME NEW w \in Worker, RecordFailure(w) PROVE CauseInv'
  BY <1>12, RecordFailureKeepsCause
<1>13. ASSUME NEW w \in Worker, Schedule(w) PROVE CauseInv'
  <2>1. mode[w] \in Claimable /\ (mode[w] = "compensating" => ApplyUsedUp)
    BY <1>13 DEF Schedule, CauseInv
  <2>2. PICK i \in Step : IF Applying(w) THEN seen[w] <= attempts[i]
                                        ELSE seen[w] <= undoAttempts[i]
    BY <1>13 DEF Schedule, CauseInv
  <2>3. /\ seen[w] \in Nat /\ attempts[i] \in Nat
        /\ undoAttempts[i] \in Nat /\ MaxAttempts \in Nat
    BY SagaAssumption DEF TypeOK
  <2>4. UsedUp(w) => IF Applying(w) THEN ApplyUsedUp ELSE UndoUsedUp
    BY <2>2, <2>3 DEF UsedUp, ApplyUsedUp, UndoUsedUp
  <2>5. {"running", "compensating", "compensation_failed"}
          \subseteq WorkflowStatus
    BY DEF WorkflowStatus, Claimable, Terminal
  <2>6. CASE Applying(w) /\ UsedUp(w)
    BY <1>13, <2>4, <2>5, <2>6, SetStatusKeepsCause DEF Schedule
  <2>7. CASE Applying(w) /\ ~UsedUp(w)
    BY <1>13, <2>5, <2>7, SetStatusKeepsCause DEF Schedule
  <2>8. CASE ~Applying(w)
    BY <1>13, <2>1, <2>4, <2>5, <2>8, SetStatusKeepsCause
    DEF Schedule, Applying, Claimable
  <2> QED BY <2>6, <2>7, <2>8
<1>14. ASSUME NEW w \in Worker, Close(w) PROVE CauseInv'
  <2>1. mode[w] \in Claimable /\ (mode[w] = "compensating" => ApplyUsedUp)
    BY <1>14 DEF Close, CauseInv
  <2>2. {"completed", "compensated"} \subseteq WorkflowStatus
    BY DEF WorkflowStatus, Terminal
  <2> QED
    BY <1>14, <2>1, <2>2, SetStatusKeepsCause DEF Close, Applying, Claimable
<1>15. ASSUME NEW w \in Worker, Abandon(w) PROVE CauseInv'
  BY <1>15, LeaveKeepsCause DEF Abandon
<1>16. CASE UNCHANGED vars
  BY <1>16 DEF vars, CauseInv, GivesUpForCause, Active, Applying, ApplyUsedUp
<1> QED
  BY <1>1, <1>2, <1>3, <1>4, <1>5, <1>6, <1>7, <1>8, <1>9, <1>10, <1>11,
     <1>12, <1>13, <1>14, <1>15, <1>16
  DEF Next, RunStep

\* An undo starts, and is given up, only for the cause the code documents.
THEOREM GivesUpForCauseHolds == Spec => []GivesUpForCause
<1>1. CauseInv => GivesUpForCause
  BY DEF CauseInv
<1> QED BY <1>1, InitCauseInv, NextCauseInv, TypeCorrect, PTL DEF Spec

-----------------------------------------------------------------------------
(***************************************************************************)
(* What a runner knows of the steps.  While the lease is kept, the         *)
(* snapshot it took of the steps stays true except for its own writes.     *)
(***************************************************************************)

InLoop == {"begin", "call", "finish", "fail", "schedule", "close"}

CallStatus(w) == IF Applying(w) THEN "applying" ELSE "compensating"

\* The plan is what the table says remains, and the table shows what the
\* runner is doing to its current step.
RunnerKnows(w) ==
  /\ pc[w] \in InLoop => plan[w] = Remaining(w)
  /\ pc[w] = "close" => plan[w] = {}
  /\ pc[w] \in {"call", "finish", "fail"} =>
       \E i \in Step : Current(w, i) /\ step[i] = CallStatus(w)
  /\ pc[w] = "schedule" =>
       \E i \in Step : Current(w, i) /\ step[i] = "failed"
  /\ pc[w] = "finish" /\ Applying(w) =>
       \A i \in Step : Current(w, i) => reserved[i]

Undoing == status \in {"compensating", "compensated", "compensation_failed"}

\* What the row says of the steps and of the participants.
RowKnows ==
  /\ status = "absent" => \A i \in Step : step[i] = "pending"
  /\ status \in {"running", "completed"} =>
       \A i \in Step : step[i] = "applied" => reserved[i]
  /\ status = "completed" => \A i \in Step : step[i] = "applied"
  /\ \A i \in Step : <<i, "undo">> \in stray => Undoing

StepInv ==
  overruns = 0 => RowKnows /\ \A w \in Worker : RunnerKnows(w)

LEMMA CurrentUnique ==
  ASSUME TypeOK, NEW w \in Worker, NEW i \in Step, NEW j \in Step,
         Current(w, i), Current(w, j)
  PROVE  i = j
  BY DEF Current, Step

LEMMA InitStepInv == Init => StepInv
  BY DEF Init, StepInv, RowKnows, RunnerKnows, InLoop

\* What a runner knows depends on nothing else.
LEMMA KnowsFrame ==
  ASSUME NEW w \in Worker, RunnerKnows(w),
         UNCHANGED <<step, pc, mode, plan>>,
         \A i \in Step : reserved[i] => reserved'[i]
  PROVE  RunnerKnows(w)'
  BY DEF RunnerKnows, Remaining, Current, CallStatus, Applying

\* A step of w leaves the others idle, and idle workers know nothing.
LEMMA OthersIdle ==
  ASSUME TypeOK, HolderInv, NEW w \in Worker, Active(w),
         NEW v \in Worker, v # w, pc'[v] = pc[v]
  PROVE  RunnerKnows(v)'
<1>1. pc'[v] = "idle"
  BY DEF HolderInv, Active
<1> QED BY <1>1 DEF RunnerKnows, InLoop

LEMMA IdleKnows ==
  ASSUME NEW w \in Worker, pc[w] \in {"idle", "row", "steps"}
  PROVE  RunnerKnows(w)
  BY DEF RunnerKnows, InLoop

\* A run inside the loop: everybody else is idle, the row has the status of
\* the runner's snapshot.
LEMMA RunnerFacts ==
  ASSUME TypeOK, LeaseInv, StepInv, overruns = 0,
         NEW w \in Worker, pc[w] \notin {"idle", "row"}
  PROVE  /\ HolderInv /\ ModeInv /\ RowKnows /\ RunnerKnows(w)
         /\ Active(w)
         /\ mode[w] = status
         /\ status \in Claimable
         /\ ~Applying(w) => Undoing
  BY DEF LeaseInv, StepInv, ModeInv, Active, Claimable, Applying, Undoing

\* It is enough to look at the row and at the worker that moves.
LEMMA OneMoves ==
  ASSUME TypeOK, HolderInv, NEW w \in Worker, Active(w),
         NEW l, Goto(w, l), RowKnows', RunnerKnows(w)'
  PROVE  StepInv'
<1>1. ASSUME NEW v \in Worker, v # w PROVE RunnerKnows(v)'
  <2>1. pc'[v] = pc[v]
    BY <1>1 DEF Goto, TypeOK
  <2> QED BY <1>1, <2>1, OthersIdle
<1> QED BY <1>1 DEF StepInv

\* A run that ends leaves every worker idle.
LEMMA LeaveMoves ==
  ASSUME TypeOK, HolderInv, NEW w \in Worker, Active(w), Leave(w), RowKnows'
  PROVE  StepInv'
<1>1. Goto(w, "idle")
  BY DEF Leave
<1>2. pc'[w] = "idle"
  BY <1>1 DEF Goto, TypeOK
<1>3. RunnerKnows(w)'
  BY <1>2 DEF RunnerKnows, InLoop
<1> QED BY <1>1, <1>3, OneMoves

LEMMA RowFrame ==
  ASSUME RowKnows, UNCHANGED <<status, step>>,
         \A i \in Step : reserved[i] => reserved'[i],
         \A i \in Step : <<i, "undo">> \in stray' =>
            Undoing \/ <<i, "undo">> \in stray
  PROVE  RowKnows'
  BY DEF RowKnows, Undoing

\* A runner's request that is left in flight is an undo only while undoing.
LEMMA OrphanKnows ==
  ASSUME TypeOK, NEW w \in Worker, ~Applying(w) => Undoing,
         Orphan(w) \/ UNCHANGED stray,
         NEW i \in Step, <<i, "undo">> \in stray'
  PROVE  Undoing \/ <<i, "undo">> \in stray
<1>1. CASE ~Applying(w)
  BY <1>1
<1>2. CASE UNCHANGED stray
  BY <1>2
<1>3. CASE Orphan(w) /\ Applying(w)
  <2>1. PICK j \in Remote : stray' = stray \cup {<<j, "apply">>}
    BY <1>3 DEF Orphan, OpOf
  <2>2. <<i, "undo">> # <<j, "apply">>
    OBVIOUS
  <2> QED BY <2>1, <2>2
<1> QED BY <1>1, <1>2, <1>3

LEMMA BeginStepKnows ==
  ASSUME TypeOK, LeaseInv, StepInv, overruns = 0,
         NEW w \in Worker, BeginStep(w)
  PROVE  StepInv'
<1> USE DEF row, steps, world, local, budget
<1>1. pc[w] = "begin" /\ Goto(w, "call")
  BY DEF BeginStep
<1>2. PICK i \in Step :
        Current(w, i) /\ step' = [step EXCEPT ![i] = CallStatus(w)]
  BY DEF BeginStep, CallStatus
<1>3. /\ HolderInv /\ RowKnows /\ RunnerKnows(w) /\ Active(w)
      /\ mode[w] = status /\ status \in Claimable
  BY <1>1, RunnerFacts
<1>4. UNCHANGED <<status, mode, plan, reserved, stray>>
  BY DEF BeginStep
<1>5. pc'[w] = "call"
  BY <1>1 DEF Goto, TypeOK
<1>6. /\ i \in Remaining(w) /\ plan[w] = Remaining(w)
  BY <1>1, <1>2, <1>3 DEF RunnerKnows, InLoop, Current
<1>7. Remaining(w)' = Remaining(w)
  <2>1. step'[i] = CallStatus(w) /\ \A j \in Step : j # i => step'[j] = step[j]
    BY <1>2 DEF TypeOK
  <2>2. CASE Applying(w)
    BY <1>4, <1>6, <2>1, <2>2 DEF Remaining, Applying, CallStatus
  <2>3. CASE ~Applying(w)
    BY <1>4, <1>6, <2>1, <2>3 DEF Remaining, Applying, CallStatus, Undoable
  <2> QED BY <2>2, <2>3
<1>8. Current(w, i)' /\ step'[i] = CallStatus(w)'
  BY <1>2, <1>4 DEF Current, CallStatus, Applying, TypeOK
<1>9. RunnerKnows(w)'
  BY <1>4, <1>5, <1>6, <1>7, <1>8 DEF RunnerKnows
<1>10. RowKnows'
  <2>1. step'[i] # "applied" /\ \A j \in Step : j # i => step'[j] = step[j]
    BY <1>2 DEF CallStatus, TypeOK
  <2> QED BY <1>3, <1>4, <2>1 DEF RowKnows, Undoing, Claimable
<1> QED BY <1>1, <1>3, <1>9, <1>10, OneMoves

LEMMA CallKnows ==
  ASSUME TypeOK, LeaseInv, StepInv, overruns = 0, NEW w \in Worker,
         CallReturns(w) \/ CallFails(w) \/ CallTimesOut(w)
  PROVE  StepInv'
<1> USE DEF row, steps, world, local, budget
<1>1. /\ pc[w] = "call"
      /\ UNCHANGED <<status, step, mode, plan>>
      /\ Orphan(w) \/ UNCHANGED stray
      /\ Goto(w, "finish") \/ Goto(w, "fail")
  BY DEF CallReturns, CallFails, CallTimesOut
<1>2. /\ HolderInv /\ RowKnows /\ RunnerKnows(w) /\ Active(w)
      /\ mode[w] = status /\ status \in Claimable
      /\ ~Applying(w) => Undoing
  BY <1>1, RunnerFacts
<1>3. UNCHANGED reserved \/ \E i \in Step : Current(w, i) /\ Served(i, OpOf(w))
  BY DEF CallReturns, CallFails, CallTimesOut
<1>4. Applying(w) => \A i \in Step : reserved[i] => reserved'[i]
  BY <1>3 DEF Served, OpOf, TypeOK
<1>5. RowKnows'
  <2>1. CASE Applying(w)
    BY <1>1, <1>2, <1>4, <2>1, RowFrame, OrphanKnows
  <2>2. CASE ~Applying(w)
    <3>1. Undoing' /\ status' \notin {"absent", "running", "completed"}
      BY <1>1, <1>2, <2>2 DEF Undoing
    <3> QED BY <3>1 DEF RowKnows
  <2> QED BY <2>1, <2>2
<1>6. /\ Remaining(w)' = Remaining(w)
      /\ CallStatus(w)' = CallStatus(w)
      /\ Applying(w)' = Applying(w)
      /\ \A i \in Step : Current(w, i)' = Current(w, i)
  BY <1>1 DEF Remaining, CallStatus, Applying, Current
<1>7. /\ plan[w] = Remaining(w)
      /\ \E i \in Step : Current(w, i) /\ step[i] = CallStatus(w)
  BY <1>1, <1>2 DEF RunnerKnows, InLoop
<1>8. CASE Goto(w, "fail")
  <2>1. pc'[w] = "fail"
    BY <1>8 DEF Goto, TypeOK
  <2>2. RunnerKnows(w)'
    BY <1>1, <1>6, <1>7, <2>1 DEF RunnerKnows
  <2> QED BY <1>2, <1>5, <1>8, <2>2, OneMoves
<1>9. CASE Goto(w, "finish")
  <2>1. pc'[w] = "finish"
    BY <1>9 DEF Goto, TypeOK
  <2>2. PICK i \in Step : Current(w, i) /\ Served(i, OpOf(w))
    BY <2>1 DEF CallReturns, CallFails, CallTimesOut, Goto, TypeOK
  <2>3. Applying(w) => reserved'[i]
    BY <2>2 DEF Served, OpOf, TypeOK
  <2>4. Applying(w) => \A j \in Step : Current(w, j) => reserved'[j]
    BY <2>2, <2>3, CurrentUnique
  <2>5. RunnerKnows(w)'
    BY <1>1, <1>6, <1>7, <2>1, <2>4 DEF RunnerKnows
  <2> QED BY <1>2, <1>5, <1>9, <2>5, OneMoves
<1> QED BY <1>1, <1>8, <1>9

LEMMA FinishStepKnows ==
  ASSUME TypeOK, LeaseInv, StepInv, overruns = 0,
         NEW w \in Worker, FinishStep(w)
  PROVE  StepInv'
<1> USE DEF row, steps, world, local, budget
<1>1. PICK i \in Step :
        /\ Current(w, i)
        /\ step' = [step EXCEPT
                      ![i] = IF Applying(w) THEN "applied" ELSE "compensated"]
        /\ plan' = [plan EXCEPT ![w] = @ \ {i}]
        /\ Goto(w, LoopHead(plan[w] \ {i}))
  BY DEF FinishStep
<1>2. pc[w] = "finish" /\ UNCHANGED <<status, mode, reserved, stray>>
  BY DEF FinishStep
<1>3. /\ HolderInv /\ RowKnows /\ RunnerKnows(w) /\ Active(w)
      /\ mode[w] = status /\ status \in Claimable
  BY <1>2, RunnerFacts
<1>4. /\ plan[w] = Remaining(w) /\ i \in Remaining(w)
      /\ Applying(w) => reserved[i]
  BY <1>1, <1>2, <1>3 DEF RunnerKnows, InLoop, Current
<1>5. /\ step'[i] = IF Applying(w) THEN "applied" ELSE "compensated"
      /\ \A j \in Step : j # i => step'[j] = step[j]
  BY <1>1 DEF TypeOK
<1>6. Remaining(w)' = Remaining(w) \ {i}
  <2>1. CASE Applying(w)
    BY <1>2, <1>4, <1>5, <2>1 DEF Remaining, Applying
  <2>2. CASE ~Applying(w)
    BY <1>2, <1>4, <1>5, <2>2 DEF Remaining, Applying, Undoable
  <2> QED BY <2>1, <2>2
<1>7. plan'[w] = Remaining(w)'
  BY <1>1, <1>4, <1>6 DEF TypeOK
<1>8. pc'[w] = LoopHead(plan'[w])
  BY <1>1 DEF Goto, TypeOK
<1>9. RunnerKnows(w)'
  BY <1>7, <1>8 DEF RunnerKnows, LoopHead
<1>10. RowKnows'
  <2>1. CASE Applying(w)
    BY <1>2, <1>3, <1>4, <1>5, <2>1 DEF RowKnows, Undoing, Claimable
  <2>2. CASE ~Applying(w)
    <3>1. status' = "compensating"
      BY <1>2, <1>3, <2>2 DEF Applying, Claimable
    <3> QED BY <3>1 DEF RowKnows, Undoing
  <2> QED BY <2>1, <2>2
<1> QED BY <1>1, <1>3, <1>9, <1>10, OneMoves

LEMMA RecordFailureKnows ==
  ASSUME TypeOK, LeaseInv, StepInv, overruns = 0,
         NEW w \in Worker, RecordFailure(w)
  PROVE  StepInv'
<1> USE DEF row, steps, world, local, budget
<1>1. PICK i \in Step :
        Current(w, i) /\ step' = [step EXCEPT ![i] = "failed"]
  BY DEF RecordFailure
<1>2. /\ pc[w] = "fail" /\ Goto(w, "schedule")
      /\ UNCHANGED <<status, mode, plan, reserved, stray>>
  BY DEF RecordFailure
<1>3. /\ HolderInv /\ RowKnows /\ RunnerKnows(w) /\ Active(w)
      /\ mode[w] = status /\ status \in Claimable
  BY <1>2, RunnerFacts
<1>4. plan[w] = Remaining(w) /\ i \in Remaining(w)
  BY <1>1, <1>2, <1>3 DEF RunnerKnows, InLoop, Current
<1>5. step'[i] = "failed" /\ \A j \in Step : j # i => step'[j] = step[j]
  BY <1>1 DEF TypeOK
<1>6. Remaining(w)' = Remaining(w)
  <2>1. CASE Applying(w)
    BY <1>2, <1>4, <1>5, <2>1 DEF Remaining, Applying
  <2>2. CASE ~Applying(w)
    BY <1>2, <1>4, <1>5, <2>2 DEF Remaining, Applying, Undoable
  <2> QED BY <2>1, <2>2
<1>7. pc'[w] = "schedule" /\ Current(w, i)'
  BY <1>1, <1>2 DEF Goto, Current, TypeOK
<1>8. RunnerKnows(w)'
  BY <1>2, <1>4, <1>5, <1>6, <1>7 DEF RunnerKnows
<1>9. RowKnows'
  BY <1>2, <1>3, <1>5 DEF RowKnows, Undoing, Claimable
<1> QED BY <1>2, <1>3, <1>8, <1>9, OneMoves

LEMMA SetStatusKnows ==
  ASSUME TypeOK, LeaseInv, StepInv, overruns = 0,
         NEW w \in Worker, Schedule(w) \/ Close(w)
  PROVE  StepInv'
<1> USE DEF row, steps, world, local, budget
<1>1. /\ pc[w] \in {"schedule", "close"} /\ Leave(w)
      /\ UNCHANGED <<step, reserved, stray>>
  BY DEF Schedule, Close, SetStatus
<1>2. /\ HolderInv /\ RowKnows /\ RunnerKnows(w) /\ Active(w)
      /\ mode[w] = status /\ status \in Claimable
  BY <1>1, RunnerFacts
<1>3. status' = "completed" => Applying(w) /\ \A i \in Step : step[i] = "applied"
  <2>1. CASE Schedule(w)
    BY <2>1 DEF Schedule, SetStatus
  <2>2. CASE Close(w)
    <3>1. Remaining(w) = {}
      BY <1>2, <2>2 DEF Close, RunnerKnows, InLoop
    <3> QED BY <2>2, <3>1 DEF Close, SetStatus, Remaining, Applying
  <2> QED BY <2>1, <2>2
<1>4. status' \in {"running", "completed"} => status = "running"
  BY <1>2 DEF Schedule, Close, SetStatus, Applying
<1>5. /\ status' \in {"running", "completed"} \/ Undoing'
      /\ status' # "absent"
  BY DEF Schedule, Close, SetStatus, Undoing
<1>6. RowKnows'
  <2>1. CASE Undoing'
    <3>1. status' \notin {"absent", "running", "completed"}
      BY <2>1 DEF Undoing
    <3> QED BY <2>1, <3>1 DEF RowKnows
  <2>2. CASE ~Undoing'
    <3>1. /\ status = "running" /\ ~Undoing
          /\ status' \in {"running", "completed"}
      BY <1>4, <1>5, <2>2 DEF Undoing
    <3>2. \A i \in Step : <<i, "undo">> \notin stray'
      BY <1>1, <1>2, <3>1 DEF RowKnows
    <3> QED BY <1>1, <1>2, <1>3, <3>1, <3>2 DEF RowKnows
  <2> QED BY <2>1, <2>2
<1> QED BY <1>1, <1>2, <1>6, LeaveMoves

LEMMA NextStepInv == TypeOK /\ LeaseInv /\ StepInv /\ [Next]_vars => StepInv'
<1> SUFFICES ASSUME TypeOK, LeaseInv, StepInv, [Next]_vars, overruns' = 0
             PROVE  StepInv'
  BY DEF StepInv
<1> USE DEF row, steps, world, local, budget
<1>1. overruns = 0
  <2>1. overruns' = overruns \/ LeaseOverrun
    BY DEF Next, RunStep, vars, Trigger, BackoffElapses, LeaseExpires,
       StrayLands, Claim, Abandon, ReadRow, ReadSteps, BeginStep, CallReturns,
       CallFails, CallTimesOut, FinishStep, FinishFails, RecordFailure,
       Schedule, Close, SetStatus
  <2> QED BY <2>1 DEF LeaseOverrun, TypeOK
<1>2. /\ HolderInv /\ ModeInv /\ RowKnows
      /\ \A w \in Worker : RunnerKnows(w)
  BY <1>1 DEF LeaseInv, StepInv
<1>3. CASE Trigger
  <2>1. CASE status = "absent"
    <3>1. \A w \in Worker : pc'[w] = "idle"
      BY <1>2, <1>3, <2>1 DEF Trigger, ModeInv, Active, Claimable
    <3>2. \A w \in Worker : RunnerKnows(w)'
      BY <3>1 DEF RunnerKnows, InLoop
    <3>3. RowKnows'
      BY <1>2, <1>3, <2>1 DEF Trigger, RowKnows, Undoing
    <3> QED BY <3>2, <3>3 DEF StepInv
  <2>2. CASE status # "absent"
    <3>1. UNCHANGED <<status, step, pc, mode, plan, reserved, stray>>
      BY <1>3, <2>2 DEF Trigger
    <3> QED BY <1>2, <3>1, RowFrame, KnowsFrame DEF StepInv
  <2> QED BY <2>1, <2>2
<1>4. CASE BackoffElapses \/ LeaseExpires \/ UNCHANGED vars
  <2>1. UNCHANGED <<status, step, pc, mode, plan, reserved, stray>>
    BY <1>4 DEF BackoffElapses, LeaseExpires, vars
  <2> QED BY <1>2, <2>1, RowFrame, KnowsFrame DEF StepInv
<1>5. CASE LeaseOverrun
  BY <1>1, <1>5 DEF LeaseOverrun
<1>6. CASE StrayLands
  <2>1. PICK i \in Step, op \in Op :
          <<i, op>> \in stray /\ stray' = stray \ {<<i, op>>} /\ Served(i, op)
    BY <1>6 DEF StrayLands
  <2>2. UNCHANGED <<status, step, pc, mode, plan>>
    BY <1>6 DEF StrayLands
  <2>3. CASE op = "apply"
    <3>1. \A j \in Step : reserved[j] => reserved'[j]
      BY <2>1, <2>3 DEF Served, TypeOK
    <3> QED BY <1>2, <2>1, <2>2, <3>1, RowFrame, KnowsFrame DEF StepInv
  <2>4. CASE op = "undo"
    <3>1. Undoing
      BY <1>2, <2>1, <2>4 DEF RowKnows
    <3>2. RowKnows'
      BY <1>2, <2>1, <2>2, <3>1 DEF RowKnows, Undoing
    <3>3. ASSUME NEW w \in Worker PROVE RunnerKnows(w)'
      <4>1. pc[w] = "finish" => ~Applying(w)
        BY <1>2, <3>1 DEF ModeInv, Undoing, Applying
      <4> QED BY <1>2, <2>2, <4>1
              DEF RunnerKnows, Remaining, Current, CallStatus, Applying
    <3> QED BY <3>2, <3>3 DEF StepInv
  <2> QED BY <2>1, <2>3, <2>4 DEF Op
<1>7. ASSUME NEW w \in Worker, Claim(w) PROVE StepInv'
  <2>1. \A v \in Worker : pc[v] = "idle"
    BY <1>2, <1>7, SagaAssumption DEF Claim, LeaseFree, HolderInv, Active
  <2>2. \A v \in Worker : pc'[v] \in {"idle", "row"}
    BY <1>7, <2>1 DEF Claim, Goto, TypeOK
  <2>3. \A v \in Worker : RunnerKnows(v)'
    BY <2>2 DEF RunnerKnows, InLoop
  <2>4. RowKnows'
    BY <1>2, <1>7, RowFrame DEF Claim
  <2> QED BY <2>3, <2>4 DEF StepInv
<1>8. ASSUME NEW w \in Worker, ReadRow(w) PROVE StepInv'
  <2>1. Active(w) /\ RowKnows'
    BY <1>2, <1>8, RowFrame DEF ReadRow, Active
  <2>2. CASE Leave(w)
    BY <1>2, <2>1, <2>2, LeaveMoves
  <2>3. CASE Goto(w, "steps")
    <3>1. pc'[w] = "steps"
      BY <2>3 DEF Goto, TypeOK
    <3>2. RunnerKnows(w)'
      BY <3>1 DEF RunnerKnows, InLoop
    <3> QED BY <1>2, <2>1, <2>3, <3>2, OneMoves
  <2> QED BY <1>8, <2>2, <2>3 DEF ReadRow
<1>9. ASSUME NEW w \in Worker, ReadSteps(w) PROVE StepInv'
  <2>1. Active(w) /\ RowKnows'
    BY <1>2, <1>9, RowFrame DEF ReadSteps, Active
  <2>2. /\ plan'[w] = Remaining(w) /\ Remaining(w)' = Remaining(w)
        /\ pc'[w] = LoopHead(Remaining(w))
    BY <1>9 DEF ReadSteps, Goto, Remaining, TypeOK
  <2>3. RunnerKnows(w)'
    BY <2>2 DEF RunnerKnows, LoopHead
  <2> QED BY <1>2, <1>9, <2>1, <2>3, OneMoves DEF ReadSteps
<1>10. ASSUME NEW w \in Worker, BeginStep(w) PROVE StepInv'
  BY <1>1, <1>10, BeginStepKnows
<1>11. ASSUME NEW w \in Worker,
              CallReturns(w) \/ CallFails(w) \/ CallTimesOut(w)
       PROVE  StepInv'
  BY <1>1, <1>11, CallKnows
<1>12. ASSUME NEW w \in Worker, FinishStep(w) PROVE StepInv'
  BY <1>1, <1>12, FinishStepKnows
<1>13. ASSUME NEW w \in Worker, FinishFails(w) PROVE StepInv'
  <2>1. /\ pc[w] = "finish" /\ Goto(w, "fail") /\ Active(w)
        /\ UNCHANGED <<status, step, mode, plan, reserved, stray>>
    BY <1>13 DEF FinishFails, Active
  <2>2. pc'[w] = "fail"
    BY <2>1 DEF Goto, TypeOK
  <2>3. RunnerKnows(w)'
    <3>1. /\ plan[w] = Remaining(w)
          /\ \E i \in Step : Current(w, i) /\ step[i] = CallStatus(w)
      BY <1>2, <2>1 DEF RunnerKnows, InLoop
    <3> QED BY <2>1, <2>2, <3>1
            DEF RunnerKnows, Remaining, Current, CallStatus, Applying
  <2> QED BY <1>2, <2>1, <2>3, RowFrame, OneMoves
<1>14. ASSUME NEW w \in Worker, RecordFailure(w) PROVE StepInv'
  BY <1>1, <1>14, RecordFailureKnows
<1>15. ASSUME NEW w \in Worker, Schedule(w) \/ Close(w) PROVE StepInv'
  BY <1>1, <1>15, SetStatusKnows
<1>16. ASSUME NEW w \in Worker, Abandon(w) PROVE StepInv'
  <2>1. /\ Active(w) /\ Leave(w)
        /\ UNCHANGED <<status, step, reserved>>
        /\ UNCHANGED stray \/ (pc[w] = "call" /\ Orphan(w))
    BY <1>16 DEF Abandon, Active
  <2>2. pc[w] = "call" => (~Applying(w) => Undoing)
    BY <1>1, RunnerFacts
  <2>3. RowKnows'
    BY <1>2, <2>1, <2>2, RowFrame, OrphanKnows
  <2> QED BY <1>2, <2>1, <2>3, LeaveMoves
<1> QED
  BY <1>3, <1>4, <1>5, <1>6, <1>7, <1>8, <1>9, <1>10, <1>11, <1>12, <1>13,
     <1>14, <1>15, <1>16
  DEF Next, RunStep

LEMMA StepCorrect == Spec => []StepInv
<1>1. QED BY InitStepInv, NextStepInv, TypeCorrect, LeaseCorrect, PTL DEF Spec

\* "completed" means that every participant holds its reservation.
THEOREM CompletedHoldsAllHolds == Spec => []CompletedHoldsAll
<1>1. StepInv => CompletedHoldsAll
  BY DEF StepInv, RowKnows, CompletedHoldsAll
<1> QED BY <1>1, StepCorrect, PTL

-----------------------------------------------------------------------------
(***************************************************************************)
(* The order of the reservations, while leases are kept and no request     *)
(* outlives its caller.                                                    *)
(***************************************************************************)

Calm == overruns = 0 /\ orphans = 0

\* Nothing was done, or everything was undone.
Clear(i) == step[i] \in {"pending", "compensated"}

\* The steps before the one in progress are applied, those after it are
\* clear; the table agrees with the participants, except at that one step.
OrderInv ==
  Calm =>
    /\ stray = {}
    /\ \A i, j \in Step : i < j /\ step[i] # "applied" => Clear(j)
    /\ \A i \in Step : step[i] = "applied" => reserved[i]
    /\ \A i \in Step : Clear(i) => ~reserved[i]
    /\ Undoing => \A i \in Step : step[i] # "applying"
    /\ status = "compensated" => \A i \in Step : Clear(i)
    /\ \A w \in Worker : pc[w] = "finish" /\ ~Applying(w) =>
          \A i \in Step : Current(w, i) => ~reserved[i]

LEMMA InitOrderInv == Init => OrderInv
  BY DEF Init, OrderInv, Clear, Undoing

\* Orphans are only ever counted up.
LEMMA CalmBefore ==
  ASSUME TypeOK, [Next]_vars, Calm'
  PROVE  /\ Calm
         /\ ~LeaseOverrun
         /\ \A w \in Worker : ~CallTimesOut(w)
         /\ \A w \in Worker : Abandon(w) => UNCHANGED <<stray, orphans>>
<1> USE DEF row, steps, world, local, budget
<1>1. ~LeaseOverrun
  BY DEF LeaseOverrun, Calm, TypeOK
<1>2. ASSUME NEW w \in Worker PROVE ~Orphan(w)
  BY DEF Orphan, Calm, TypeOK
<1>3. UNCHANGED <<overruns, orphans>>
  BY <1>1, <1>2 DEF Next, RunStep, vars, Trigger, BackoffElapses,
     LeaseExpires, StrayLands, Claim, Abandon, ReadRow, ReadSteps, BeginStep,
     CallReturns, CallFails, CallTimesOut, FinishStep, FinishFails,
     RecordFailure, Schedule, Close, SetStatus
<1> QED BY <1>1, <1>2, <1>3 DEF Calm, CallTimesOut, Abandon

\* What OrderInv says, with its condition discharged.
OrderNow ==
  /\ stray = {}
  /\ \A i, j \in Step : i < j /\ step[i] # "applied" => Clear(j)
  /\ \A i \in Step : step[i] = "applied" => reserved[i]
  /\ \A i \in Step : Clear(i) => ~reserved[i]
  /\ Undoing => \A i \in Step : step[i] # "applying"
  /\ status = "compensated" => \A i \in Step : Clear(i)
  /\ \A w \in Worker : pc[w] = "finish" /\ ~Applying(w) =>
        \A i \in Step : Current(w, i) => ~reserved[i]

LEMMA OrderNowInv == OrderInv <=> (Calm => OrderNow)
  BY DEF OrderInv, OrderNow

\* A step that changes nothing OrderNow looks at but the locations, none of
\* which becomes "finish".
LEMMA OrderFrame ==
  ASSUME TypeOK, OrderNow, UNCHANGED <<status, step, reserved, stray>>,
         \A w \in Worker : pc'[w] = "finish" =>
            /\ pc[w] = "finish"
            /\ mode'[w] = mode[w] /\ plan'[w] = plan[w]
  PROVE  OrderNow'
<1>1. \A w \in Worker : pc'[w] = "finish" =>
         /\ Applying(w)' = Applying(w)
         /\ \A i \in Step : Current(w, i)' = Current(w, i)
  BY DEF Applying, Current
<1> QED BY <1>1 DEF OrderNow, Clear, Undoing

LEMMA GotoFrame ==
  ASSUME TypeOK, NEW w \in Worker, NEW l, l # "finish", Goto(w, l),
         \A v \in Worker : v # w => mode'[v] = mode[v] /\ plan'[v] = plan[v]
  PROVE  \A v \in Worker : pc'[v] = "finish" =>
            /\ pc[v] = "finish"
            /\ mode'[v] = mode[v] /\ plan'[v] = plan[v]
  BY DEF Goto, TypeOK

LEMMA LeaveFrame ==
  ASSUME TypeOK, NEW w \in Worker, Leave(w)
  PROVE  \A v \in Worker : pc'[v] = "finish" =>
            /\ pc[v] = "finish"
            /\ mode'[v] = mode[v] /\ plan'[v] = plan[v]
  BY DEF Leave, Goto, TypeOK

\* Around the current step: applied before it, clear after it.
LEMMA AroundCurrent ==
  ASSUME TypeOK, OrderNow, NEW w \in Worker, RunnerKnows(w),
         pc[w] \in InLoop, ~Applying(w) => Undoing,
         NEW i \in Step, Current(w, i)
  PROVE  /\ \A j \in Step : i < j => Clear(j)
         /\ \A j \in Step : j < i => step[j] = "applied"
<1>1. i \in Remaining(w) /\ plan[w] = Remaining(w)
  BY DEF RunnerKnows, Current
<1>2. \A j \in Step : step[j] \in StepStatus
  BY DEF TypeOK
<1>3. CASE Applying(w)
  <2>1. step[i] # "applied" /\ \A j \in Step : step[j] # "applied" => i <= j
    BY <1>1, <1>3 DEF Remaining, Current, Applying
  <2> QED BY <2>1 DEF OrderNow, Step
<1>4. CASE ~Applying(w)
  <2>1. ~Clear(i) /\ \A j \in Step : step[j] \in Undoable => j <= i
    BY <1>1, <1>4 DEF Remaining, Current, Applying, Clear, Undoable
  <2>2. \A j \in Step : step[j] # "applying"
    BY <1>4 DEF OrderNow
  <2>3. \A j \in Step : ~Clear(j) => step[j] \in Undoable
    BY <1>2, <2>2 DEF StepStatus, Clear, Undoable
  <2> QED BY <2>1, <2>3 DEF OrderNow, Step
<1> QED BY <1>3, <1>4

\* The current step is given a status that is neither applied nor clear.
LEMMA MarkOrder ==
  ASSUME TypeOK, OrderNow, NEW w \in Worker, RunnerKnows(w),
         pc[w] \in InLoop, ~Applying(w) => Undoing,
         status \in Claimable,
         NEW i \in Step, Current(w, i),
         NEW s \in {"applying", "compensating", "failed"},
         s = "applying" => ~Undoing,
         step' = [step EXCEPT ![i] = s],
         NEW l, l # "finish", Goto(w, l),
         UNCHANGED <<status, mode, plan, reserved, stray>>
  PROVE  OrderNow'
<1>1. step'[i] = s /\ \A j \in Step : j # i => step'[j] = step[j]
  BY DEF TypeOK
<1>2. /\ \A j \in Step : i < j => Clear(j)
      /\ \A j \in Step : j < i => step[j] = "applied"
  BY AroundCurrent
<1>3. \A a, b \in Step : a < b /\ step'[a] # "applied" => Clear(b)'
  BY <1>1, <1>2 DEF OrderNow, Clear, Step
<1>4. \A j \in Step : /\ step'[j] = "applied" => reserved'[j]
                      /\ Clear(j)' => ~reserved'[j]
                      /\ Undoing' => step'[j] # "applying"
  BY <1>1 DEF OrderNow, Clear, Undoing
<1>5. status' # "compensated"
  BY DEF Claimable
<1>6. \A v \in Worker : pc'[v] = "finish" => pc[v] = "finish"
  BY DEF Goto, TypeOK
<1>7. \A v \in Worker : pc'[v] = "finish" /\ ~Applying(v)' =>
        \A j \in Step : Current(v, j)' => ~reserved'[j]
  BY <1>6 DEF OrderNow, Applying, Current
<1>8. stray' = {}
  BY DEF OrderNow
<1> QED BY <1>3, <1>4, <1>5, <1>7, <1>8 DEF OrderNow

\* A participant serves the call of the runner.
LEMMA ServeOrder ==
  ASSUME TypeOK, OrderNow, HolderInv, NEW w \in Worker, RunnerKnows(w),
         pc[w] = "call", NEW i \in Step, Current(w, i), Served(i, OpOf(w)),
         NEW l, Goto(w, l),
         UNCHANGED <<status, step, mode, plan, stray>>
  PROVE  OrderNow'
<1>1. step[i] = CallStatus(w)
  BY CurrentUnique DEF RunnerKnows
<1>2. step[i] # "applied" /\ ~Clear(i)
  BY <1>1 DEF CallStatus, Clear
<1>3. /\ ~Applying(w) => ~reserved'[i]
      /\ \A j \in Step : j # i => reserved'[j] = reserved[j]
  BY DEF Served, OpOf, TypeOK
<1>4. \A j \in Step : /\ step'[j] = "applied" => reserved'[j]
                      /\ Clear(j)' => ~reserved'[j]
  BY <1>2, <1>3 DEF OrderNow, Clear
<1>5. ASSUME NEW v \in Worker, pc'[v] = "finish", ~Applying(v)',
             NEW j \in Step, Current(v, j)'
      PROVE  ~reserved'[j]
  <2>1. v = w
    BY <1>5 DEF HolderInv, Active, Goto, TypeOK
  <2>2. Current(w, j) /\ ~Applying(w)
    BY <1>5, <2>1 DEF Current, Applying
  <2> QED BY <1>3, <2>2, CurrentUnique
<1>6. /\ \A a, b \in Step : a < b /\ step'[a] # "applied" => Clear(b)'
      /\ Undoing' => \A j \in Step : step'[j] # "applying"
      /\ status' = "compensated" => \A j \in Step : Clear(j)'
      /\ stray' = {}
  BY DEF OrderNow, Clear, Undoing
<1> QED BY <1>4, <1>5, <1>6 DEF OrderNow

LEMMA FinishOrder ==
  ASSUME TypeOK, OrderNow, HolderInv, NEW w \in Worker, RunnerKnows(w),
         ~Applying(w) => Undoing, Applying(w) => ~Undoing,
         status \in Claimable, FinishStep(w)
  PROVE  OrderNow'
<1>1. PICK i \in Step :
        /\ Current(w, i)
        /\ step' = [step EXCEPT
                      ![i] = IF Applying(w) THEN "applied" ELSE "compensated"]
        /\ Goto(w, LoopHead(plan[w] \ {i}))
  BY DEF FinishStep
<1>2. pc[w] = "finish" /\ UNCHANGED <<status, mode, reserved, stray>>
  BY DEF FinishStep, row, world
<1>3. /\ step'[i] = IF Applying(w) THEN "applied" ELSE "compensated"
      /\ \A j \in Step : j # i => step'[j] = step[j]
  BY <1>1 DEF TypeOK
<1>4. /\ \A j \in Step : i < j => Clear(j)
      /\ \A j \in Step : j < i => step[j] = "applied"
  BY <1>1, <1>2, AroundCurrent DEF InLoop
<1>5. IF Applying(w) THEN reserved[i] ELSE ~reserved[i]
  BY <1>1, <1>2 DEF RunnerKnows, OrderNow
<1>6. \A a, b \in Step : a < b /\ step'[a] # "applied" => Clear(b)'
  BY <1>3, <1>4 DEF OrderNow, Clear, Step
<1>7. \A j \in Step : /\ step'[j] = "applied" => reserved'[j]
                      /\ Clear(j)' => ~reserved'[j]
                      /\ Undoing' => step'[j] # "applying"
  BY <1>2, <1>3, <1>5 DEF OrderNow, Clear, Undoing
<1>8. \A v \in Worker : pc'[v] # "finish"
  BY <1>1, <1>2 DEF HolderInv, Active, Goto, LoopHead, TypeOK
<1>9. status' # "compensated" /\ stray' = {}
  BY <1>2 DEF OrderNow, Claimable
<1> QED BY <1>6, <1>7, <1>8, <1>9 DEF OrderNow

LEMMA SetStatusOrder ==
  ASSUME TypeOK, OrderNow, HolderInv, NEW w \in Worker, RunnerKnows(w),
         ~Applying(w) => Undoing,
         status \in Claimable, Schedule(w) \/ Close(w)
  PROVE  OrderNow'
<1>1. /\ pc[w] \in {"schedule", "close"} /\ Leave(w)
      /\ UNCHANGED <<step, reserved, stray>>
  BY DEF Schedule, Close, SetStatus, steps, world
<1>2. \A v \in Worker : pc'[v] # "finish"
  BY <1>1 DEF HolderInv, Active, Leave, Goto, TypeOK
<1>3. Undoing' => \A i \in Step : step[i] # "applying"
  <2>1. CASE ~Applying(w)
    BY <2>1 DEF OrderNow
  <2>2. CASE Applying(w) /\ Schedule(w)
    <3>1. PICK i \in Step : Current(w, i) /\ step[i] = "failed"
      BY <2>2 DEF Schedule, RunnerKnows
    <3>2. /\ \A j \in Step : i < j => Clear(j)
          /\ \A j \in Step : j < i => step[j] = "applied"
      BY <1>1, <2>2, <3>1, AroundCurrent DEF InLoop
    <3> QED BY <3>1, <3>2 DEF Clear, Step
  <2>3. CASE Applying(w) /\ Close(w)
    BY <2>3 DEF Close, SetStatus, Undoing
  <2> QED BY <2>1, <2>2, <2>3
<1>4. status' = "compensated" => \A i \in Step : Clear(i)
  <2>1. CASE Schedule(w)
    BY <2>1 DEF Schedule, SetStatus
  <2>2. CASE Close(w) /\ Applying(w)
    BY <2>2 DEF Close, SetStatus
  <2>3. CASE Close(w) /\ ~Applying(w)
    <3>1. \A i \in Step : step[i] \notin Undoable
      BY <2>3 DEF Close, RunnerKnows, InLoop, Remaining, Applying
    <3>2. \A i \in Step : step[i] # "applying" /\ step[i] \in StepStatus
      BY <2>3 DEF OrderNow, TypeOK
    <3> QED BY <3>1, <3>2 DEF StepStatus, Undoable, Clear
  <2> QED BY <2>1, <2>2, <2>3
<1> QED BY <1>1, <1>2, <1>3, <1>4 DEF OrderNow, Clear

LEMMA NextOrderInv ==
  TypeOK /\ LeaseInv /\ StepInv /\ OrderInv /\ [Next]_vars => OrderInv'
<1> SUFFICES ASSUME TypeOK, LeaseInv, StepInv, OrderInv, [Next]_vars, Calm'
             PROVE  OrderNow'
  BY OrderNowInv DEF OrderInv, OrderNow
<1> USE DEF row, steps, world, local, budget
<1>1. /\ Calm /\ OrderNow /\ overruns = 0
      /\ HolderInv /\ ModeInv /\ RowKnows
      /\ \A w \in Worker : RunnerKnows(w)
  BY CalmBefore, OrderNowInv DEF Calm, LeaseInv, StepInv
<1>2. ASSUME NEW w \in Worker, pc[w] \notin {"idle", "row"}
      PROVE  /\ ~Applying(w) => Undoing
             /\ Applying(w) => ~Undoing
             /\ status \in Claimable
  BY <1>1, <1>2, RunnerFacts DEF Applying, Undoing
<1>3. CASE Trigger
  <2>1. CASE status = "absent"
    <3>1. /\ \A i \in Step : step[i] = "pending" /\ step'[i] = "pending"
          /\ status' = "running"
          /\ UNCHANGED <<reserved, stray, pc>>
      BY <1>1, <1>3, <2>1 DEF Trigger, RowKnows
    <3>2. \A w \in Worker : pc'[w] # "finish"
      BY <1>1, <2>1, <3>1 DEF ModeInv, Active, Claimable
    <3> QED BY <1>1, <3>1, <3>2 DEF OrderNow, Clear, Undoing
  <2>2. CASE status # "absent"
    <3>1. UNCHANGED <<status, step, reserved, stray, pc, mode, plan>>
      BY <1>3, <2>2 DEF Trigger
    <3> QED BY <1>1, <3>1, OrderFrame
  <2> QED BY <2>1, <2>2
<1>4. CASE BackoffElapses \/ LeaseExpires \/ UNCHANGED vars
  <2>1. UNCHANGED <<status, step, reserved, stray, pc, mode, plan>>
    BY <1>4 DEF BackoffElapses, LeaseExpires, vars
  <2> QED BY <1>1, <2>1, OrderFrame
<1>5. CASE LeaseOverrun
  BY <1>5, CalmBefore
<1>6. CASE StrayLands
  BY <1>1, <1>6 DEF StrayLands, OrderNow
<1>7. ASSUME NEW w \in Worker, Claim(w) \/ FinishFails(w) PROVE OrderNow'
  <2>1. /\ UNCHANGED <<status, step, reserved, stray, mode, plan>>
        /\ Goto(w, "row") \/ Goto(w, "fail")
    BY <1>7 DEF Claim, FinishFails
  <2> QED BY <1>1, <2>1, GotoFrame, OrderFrame
<1>8. ASSUME NEW w \in Worker, ReadRow(w) PROVE OrderNow'
  <2>1. UNCHANGED <<status, step, reserved, stray>>
    BY <1>8 DEF ReadRow
  <2>2. CASE Leave(w)
    BY <1>1, <2>1, <2>2, LeaveFrame, OrderFrame
  <2>3. CASE Goto(w, "steps") /\ mode' = [mode EXCEPT ![w] = status]
             /\ UNCHANGED plan
    <3>1. \A v \in Worker : v # w => mode'[v] = mode[v] /\ plan'[v] = plan[v]
      BY <2>3 DEF TypeOK
    <3> QED BY <1>1, <2>1, <2>3, <3>1, GotoFrame, OrderFrame
  <2> QED BY <1>8, <2>2, <2>3 DEF ReadRow
<1>9. ASSUME NEW w \in Worker, ReadSteps(w) PROVE OrderNow'
  <2>1. UNCHANGED <<status, step, reserved, stray>>
    BY <1>9 DEF ReadSteps
  <2>2. \A v \in Worker : v # w => mode'[v] = mode[v] /\ plan'[v] = plan[v]
    BY <1>9 DEF ReadSteps, TypeOK
  <2>3. LoopHead(Remaining(w)) # "finish"
    BY DEF LoopHead
  <2> QED BY <1>1, <1>9, <2>1, <2>2, <2>3, GotoFrame, OrderFrame DEF ReadSteps
<1>10. ASSUME NEW w \in Worker, BeginStep(w) PROVE OrderNow'
  <2>1. PICK i \in Step :
          Current(w, i) /\ step' = [step EXCEPT ![i] = CallStatus(w)]
    BY <1>10 DEF BeginStep, CallStatus
  <2>2. /\ pc[w] = "begin" /\ Goto(w, "call")
        /\ UNCHANGED <<status, mode, plan, reserved, stray>>
    BY <1>10 DEF BeginStep
  <2>3. /\ CallStatus(w) \in {"applying", "compensating", "failed"}
        /\ CallStatus(w) = "applying" => ~Undoing
    BY <1>2, <2>2 DEF CallStatus
  <2> QED BY <1>1, <1>2, <2>1, <2>2, <2>3, MarkOrder DEF InLoop
<1>11. ASSUME NEW w \in Worker, CallReturns(w) \/ CallFails(w)
       PROVE  OrderNow'
  <2>1. /\ pc[w] = "call" /\ UNCHANGED <<status, step, mode, plan, stray>>
        /\ Goto(w, "finish") \/ Goto(w, "fail")
    BY <1>11 DEF CallReturns, CallFails
  <2>2. CASE \E i \in Step : Current(w, i) /\ Served(i, OpOf(w))
    BY <1>1, <2>1, <2>2, ServeOrder
  <2>3. CASE UNCHANGED reserved /\ Goto(w, "fail")
    BY <1>1, <2>1, <2>3, GotoFrame, OrderFrame
  <2> QED BY <1>11, <2>2, <2>3 DEF CallReturns, CallFails
<1>12. ASSUME NEW w \in Worker, CallTimesOut(w) PROVE OrderNow'
  BY <1>12, CalmBefore
<1>13. ASSUME NEW w \in Worker, FinishStep(w) PROVE OrderNow'
  BY <1>1, <1>2, <1>13, FinishOrder DEF FinishStep
<1>14. ASSUME NEW w \in Worker, RecordFailure(w) PROVE OrderNow'
  <2>1. PICK i \in Step :
          Current(w, i) /\ step' = [step EXCEPT ![i] = "failed"]
    BY <1>14 DEF RecordFailure
  <2>2. /\ pc[w] = "fail" /\ Goto(w, "schedule")
        /\ UNCHANGED <<status, mode, plan, reserved, stray>>
    BY <1>14 DEF RecordFailure
  <2> QED BY <1>1, <1>2, <2>1, <2>2, MarkOrder DEF InLoop
<1>15. ASSUME NEW w \in Worker, Schedule(w) \/ Close(w) PROVE OrderNow'
  BY <1>1, <1>2, <1>15, SetStatusOrder DEF Schedule, Close
<1>16. ASSUME NEW w \in Worker, Abandon(w) PROVE OrderNow'
  <2>1. Leave(w) /\ UNCHANGED <<status, step, reserved, stray>>
    BY <1>16, CalmBefore DEF Abandon
  <2> QED BY <1>1, <2>1, LeaveFrame, OrderFrame
<1> QED
  BY <1>3, <1>4, <1>5, <1>6, <1>7, <1>8, <1>9, <1>10, <1>11, <1>12, <1>13,
     <1>14, <1>15, <1>16
  DEF Next, RunStep

LEMMA OrderCorrect == Spec => []OrderInv
<1>1. QED
  BY InitOrderInv, NextOrderInv, TypeCorrect, LeaseCorrect, StepCorrect, PTL
  DEF Spec

\* Reservations are made forwards and dropped backwards.
THEOREM HeldInOrderHolds == Spec => []HeldInOrder
<1>1. OrderInv => HeldInOrder
  BY DEF OrderInv, Calm, HeldInOrder, Clear
<1> QED BY <1>1, OrderCorrect, PTL

\* "compensated" means that no participant holds a reservation.
THEOREM CompensatedHoldsNoneHolds == Spec => []CompensatedHoldsNone
<1>1. OrderInv => CompensatedHoldsNone
  BY DEF OrderInv, Calm, CompensatedHoldsNone
<1> QED BY <1>1, OrderCorrect, PTL

-----------------------------------------------------------------------------
(***************************************************************************)
(* Without overruns and orphans, the workers implement ProvisioningSpec.   *)
(***************************************************************************)

\* The two fault counters respect their bounds.
BudgetInv ==
  /\ overruns <= MaxOverruns
  /\ orphans <= MaxOrphans

LEMMA BudgetCorrect == Spec => []BudgetInv
<1> USE DEF row, steps, world, local, budget
<1>1. Init => BudgetInv
  BY SagaAssumption DEF Init, BudgetInv
<1>2. TypeOK /\ BudgetInv /\ [Next]_vars => BudgetInv'
  <2> SUFFICES ASSUME TypeOK, BudgetInv, [Next]_vars PROVE BudgetInv'
    OBVIOUS
  <2>1. CASE LeaseOverrun
    BY <2>1, SagaAssumption DEF LeaseOverrun, BudgetInv, TypeOK
  <2>2. ASSUME NEW w \in Worker, Orphan(w), UNCHANGED overruns
        PROVE  BudgetInv'
    BY <2>2, SagaAssumption DEF Orphan, BudgetInv, TypeOK
  <2>3. \/ LeaseOverrun
        \/ \E w \in Worker : Orphan(w) /\ UNCHANGED overruns
        \/ UNCHANGED <<overruns, orphans>>
    BY DEF Next, RunStep, vars, Trigger, BackoffElapses,
       LeaseExpires, StrayLands, Claim, Abandon, ReadRow, ReadSteps,
       BeginStep, CallReturns, CallFails, CallTimesOut, FinishStep,
       FinishFails, RecordFailure, Schedule, Close, SetStatus
  <2> QED BY <2>1, <2>2, <2>3 DEF BudgetInv
<1> QED BY <1>1, <1>2, TypeCorrect, PTL DEF Spec

Held == {i \in Step : reserved[i]}

\* A participant that serves the runner's call makes an abstract step.
LEMMA ServeRefines ==
  ASSUME TypeOK, OrderNow, HeldInOrder, Calm,
         NEW w \in Worker, RunnerKnows(w), pc[w] = "call",
         mode[w] = status, status \in Claimable, ~Applying(w) => Undoing,
         NEW i \in Step, Current(w, i), Served(i, OpOf(w)), UNCHANGED status
  PROVE  Provisioning!ANext \/ UNCHANGED <<status, Held>>
<1>1. /\ \A j \in Step : i < j => Clear(j)
      /\ \A j \in Step : j < i => step[j] = "applied"
  BY AroundCurrent DEF InLoop
<1>2. CASE Applying(w)
  <2>1. Held' = Held \cup {i} /\ i \in Step
    BY <1>2 DEF Held, Served, OpOf, TypeOK
  <2>2. CASE i \in Held
    BY <2>1, <2>2
  <2>3. CASE i \notin Held
    <3>1. \A j \in Step : j < i => j \in Held
      BY <1>1 DEF OrderNow, Held
    <3>2. Provisioning!Reserve
      BY <1>2, <2>1, <2>3, <3>1
      DEF Provisioning!Reserve, Provisioning!AStep, Step, Held, Applying
    <3> QED BY <3>2 DEF Provisioning!ANext
  <2> QED BY <2>2, <2>3
<1>3. CASE ~Applying(w)
  <2>1. Held' = Held \ {i} /\ status = "compensating"
    BY <1>3 DEF Held, Served, OpOf, TypeOK, Claimable, Applying
  <2>2. CASE i \notin Held
    BY <2>1, <2>2
  <2>3. CASE i \in Held
    <3>1. \A j \in Held : j <= i
      BY <1>1 DEF OrderNow, Held, Step
    <3>2. Provisioning!Release
      BY <2>1, <2>3, <3>1 DEF Provisioning!Release, Held
    <3> QED BY <3>2 DEF Provisioning!ANext
  <2> QED BY <2>2, <2>3
<1> QED BY <1>2, <1>3

LEMMA InitRefines == Init => Provisioning!AInit
  BY DEF Init, Provisioning!AInit

LEMMA NextRefines ==
  ASSUME TypeOK, LeaseInv, StepInv, OrderInv, Calm, [Next]_vars
  PROVE  Provisioning!ANext \/ UNCHANGED <<status, Held>>
<1> USE DEF row, steps, world, local, budget
<1>1. /\ OrderNow /\ overruns = 0 /\ HeldInOrder
      /\ HolderInv /\ ModeInv /\ RowKnows
      /\ \A w \in Worker : RunnerKnows(w)
  BY DEF OrderInv, OrderNow, HeldInOrder, Clear, Calm, LeaseInv, StepInv
<1>2. ASSUME NEW w \in Worker, pc[w] \notin {"idle", "row"}
      PROVE  /\ mode[w] = status /\ status \in Claimable
             /\ ~Applying(w) => Undoing
  BY <1>1, <1>2, RunnerFacts
<1>3. CASE Trigger
  BY <1>3 DEF Trigger, Held, Provisioning!ANext, Provisioning!Accept
<1>4. CASE StrayLands
  BY <1>1, <1>4 DEF StrayLands, OrderNow
<1>5. ASSUME NEW w \in Worker, CallReturns(w) \/ CallFails(w)
      PROVE  Provisioning!ANext \/ UNCHANGED <<status, Held>>
  <2>1. pc[w] = "call" /\ UNCHANGED status
    BY <1>5 DEF CallReturns, CallFails
  <2>2. CASE \E i \in Step : Current(w, i) /\ Served(i, OpOf(w))
    BY <1>1, <1>2, <2>1, <2>2, ServeRefines
  <2>3. CASE UNCHANGED reserved
    BY <2>1, <2>3 DEF Held
  <2> QED BY <1>5, <2>2, <2>3 DEF CallReturns, CallFails
<1>6. ASSUME NEW w \in Worker, Schedule(w)
      PROVE  Provisioning!ANext \/ UNCHANGED <<status, Held>>
  <2>1. mode[w] = status /\ status \in Claimable
    BY <1>2, <1>6 DEF Schedule
  <2>2. UNCHANGED Held
    BY <1>6 DEF Schedule, SetStatus, Held
  <2>3. \/ UNCHANGED status
        \/ status = "running" /\ status' = "compensating"
        \/ status = "compensating" /\ status' = "compensation_failed"
    BY <1>6, <2>1 DEF Schedule, SetStatus, Applying, Claimable
  <2> QED
    BY <2>2, <2>3
    DEF Held, Provisioning!ANext, Provisioning!GiveUp, Provisioning!Stuck
<1>7. ASSUME NEW w \in Worker, Close(w)
      PROVE  Provisioning!ANext \/ UNCHANGED <<status, Held>>
  <2>1. mode[w] = status /\ status \in Claimable
    BY <1>2, <1>7 DEF Close
  <2>2. UNCHANGED Held
    BY <1>7 DEF Close, SetStatus, Held
  <2>3. CASE Applying(w)
    <3>1. Held = Step
      BY <1>1, <1>7, <2>3
      DEF Close, RunnerKnows, InLoop, Remaining, Applying, OrderNow, Held
    <3>2. status = "running" /\ status' = "completed"
      BY <1>7, <2>1, <2>3 DEF Close, SetStatus, Applying
    <3> QED
      BY <2>2, <3>1, <3>2
      DEF Held, Step, Provisioning!ANext, Provisioning!Complete,
          Provisioning!AStep
  <2>4. CASE ~Applying(w)
    <3>1. status = "compensating" /\ status' = "compensated"
      BY <1>7, <2>1, <2>4 DEF Close, SetStatus, Applying, Claimable
    <3>2. OrderNow'
      BY <1>1, <1>2, <1>7, <2>1, SetStatusOrder DEF Close
    <3>3. Held' = {}
      BY <3>1, <3>2 DEF OrderNow, Held
    <3> QED
      BY <2>2, <3>1, <3>3
      DEF Held, Provisioning!ANext, Provisioning!Undone
  <2> QED BY <2>3, <2>4
<1>8. CASE BackoffElapses \/ LeaseExpires \/ LeaseOverrun \/ UNCHANGED vars
  BY <1>8 DEF BackoffElapses, LeaseExpires, LeaseOverrun, vars, Held
<1>9. ASSUME NEW w \in Worker,
             \/ Claim(w) \/ ReadRow(w) \/ ReadSteps(w) \/ BeginStep(w)
             \/ CallTimesOut(w) \/ FinishStep(w) \/ FinishFails(w)
             \/ RecordFailure(w) \/ Abandon(w)
      PROVE  UNCHANGED <<status, Held>>
  BY <1>9 DEF Claim, ReadRow, ReadSteps, BeginStep, CallTimesOut, FinishStep,
     FinishFails, RecordFailure, Abandon, Held
<1> QED
  BY <1>3, <1>4, <1>5, <1>6, <1>7, <1>8, <1>9 DEF Next, RunStep

\* Where every lease outlives its run and every request its answer, the
\* workers, their retries and their crashes are invisible: provisioning is
\* the all-or-nothing operation ProvisioningSpec promises.
THEOREM ProvisioningImplemented ==
  ASSUME MaxOverruns = 0, MaxOrphans = 0
  PROVE  Spec => ImplementsProvisioning
<1>1. TypeOK /\ BudgetInv => Calm
  BY DEF TypeOK, BudgetInv, Calm
<1>2. TypeOK /\ LeaseInv /\ StepInv /\ OrderInv /\ Calm /\ [Next]_vars
        => [Provisioning!ANext]_(Provisioning!avars)
  BY NextRefines DEF Provisioning!avars, Held
<1> QED
  BY <1>1, <1>2, InitRefines, TypeCorrect, LeaseCorrect, StepCorrect,
     OrderCorrect, BudgetCorrect, PTL
  DEF Spec, ImplementsProvisioning, Provisioning!ASpec

-----------------------------------------------------------------------------
(***************************************************************************)
(* How often a participant is called.                                      *)
(***************************************************************************)

Allowed == MaxAttempts + abandons

\* Some worker is about to decide on the count it has just written.
ApplyDeciding(i) ==
  \E w \in Worker : /\ pc[w] = "schedule" /\ mode[w] = "running"
                    /\ Current(w, i) /\ seen[w] = attempts[i]

UndoDeciding(i) ==
  \E w \in Worker : /\ pc[w] = "schedule" /\ mode[w] # "running"
                    /\ Current(w, i) /\ seen[w] = undoAttempts[i]

\* A step that may still be tried has not used up its attempts, unless the
\* decision on the last one is pending.
AttemptsInv ==
  overruns = 0 =>
    \A i \in Step :
       /\ attempts[i] <= Allowed
       /\ undoAttempts[i] <= Allowed
       /\ status \in {"absent", "running"} =>
            attempts[i] < Allowed \/ ApplyDeciding(i)
       /\ status \in {"absent", "running", "compensating"} =>
            undoAttempts[i] < Allowed \/ UndoDeciding(i)

LEMMA InitAttemptsInv == Init => AttemptsInv
  BY SagaAssumption DEF Init, AttemptsInv, Allowed

\* Nothing is counted and nobody at "schedule" moves.
LEMMA AttemptsFrame ==
  ASSUME TypeOK, AttemptsInv, overruns = 0,
         UNCHANGED <<attempts, undoAttempts, abandons, status>>,
         \A w \in Worker : pc[w] = "schedule" =>
            /\ pc'[w] = "schedule"
            /\ mode'[w] = mode[w] /\ plan'[w] = plan[w] /\ seen'[w] = seen[w]
  PROVE  AttemptsInv'
<1>1. ASSUME NEW i \in Step, ApplyDeciding(i)
      PROVE  ApplyDeciding(i)'
  BY <1>1 DEF ApplyDeciding, Current
<1>2. ASSUME NEW i \in Step, UndoDeciding(i)
      PROVE  UndoDeciding(i)'
  BY <1>2 DEF UndoDeciding, Current
<1> QED BY <1>1, <1>2 DEF AttemptsInv, Allowed

\* A run cut short leaves room for one more attempt.
LEMMA AbandonAttempts ==
  ASSUME TypeOK, AttemptsInv, overruns = 0, abandons' = abandons + 1,
         UNCHANGED <<attempts, undoAttempts>>
  PROVE  AttemptsInv'
<1>1. Allowed \in Nat /\ Allowed' = Allowed + 1
  BY SagaAssumption DEF Allowed, TypeOK
<1>2. \A i \in Step : /\ attempts[i] \in Nat /\ attempts[i] <= Allowed
                      /\ undoAttempts[i] \in Nat /\ undoAttempts[i] <= Allowed
  BY DEF AttemptsInv, TypeOK
<1>3. \A i \in Step : attempts'[i] < Allowed' /\ undoAttempts'[i] < Allowed'
  BY <1>1, <1>2
<1>4. \A i \in Step : attempts'[i] <= Allowed' /\ undoAttempts'[i] <= Allowed'
  BY <1>1, <1>2
<1> QED BY <1>3, <1>4 DEF AttemptsInv

LEMMA RecordFailureAttempts ==
  ASSUME TypeOK, LeaseInv, StepInv, AttemptsInv, overruns = 0,
         NEW w \in Worker, RecordFailure(w)
  PROVE  AttemptsInv'
<1> USE DEF row, steps, world, local, budget
<1>1. PICK i \in Step :
        /\ Current(w, i)
        /\ IF Applying(w)
           THEN /\ attempts' = [attempts EXCEPT ![i] = @ + 1]
                /\ seen' = [seen EXCEPT ![w] = attempts[i] + 1]
                /\ UNCHANGED undoAttempts
           ELSE /\ undoAttempts' = [undoAttempts EXCEPT ![i] = @ + 1]
                /\ seen' = [seen EXCEPT ![w] = undoAttempts[i] + 1]
                /\ UNCHANGED attempts
  BY DEF RecordFailure
<1>2. /\ pc[w] = "fail" /\ Goto(w, "schedule")
      /\ UNCHANGED <<status, mode, plan, abandons>>
  BY DEF RecordFailure
<1>3. HolderInv /\ mode[w] = status /\ status \in Claimable
  BY <1>2, RunnerFacts
<1>4. \A v \in Worker : pc[v] # "schedule"
  BY <1>2, <1>3 DEF HolderInv, Active
<1>5. \A j \in Step : ~ApplyDeciding(j)
                   /\ ~UndoDeciding(j)
  BY <1>4 DEF ApplyDeciding, UndoDeciding, Applying
<1>6. /\ Current(w, i)' /\ Applying(w)' = Applying(w) /\ pc'[w] = "schedule"
      /\ seen'[w] = IF Applying(w) THEN attempts'[i] ELSE undoAttempts'[i]
  BY <1>1, <1>2 DEF Current, Applying, Goto, TypeOK
<1>7. /\ Allowed \in Nat /\ Allowed' = Allowed
      /\ \A j \in Step : attempts[j] \in Nat /\ undoAttempts[j] \in Nat
  BY <1>2, SagaAssumption DEF Allowed, TypeOK
<1>8. CASE Applying(w)
  <2>1. /\ status = "running" /\ attempts'[i] = attempts[i] + 1
        /\ \A j \in Step : j # i => attempts'[j] = attempts[j]
        /\ UNCHANGED undoAttempts
    BY <1>1, <1>3, <1>8 DEF Applying, TypeOK
  <2>2. \A j \in Step : attempts[j] < Allowed /\ undoAttempts[j] < Allowed
    BY <1>5, <2>1 DEF AttemptsInv
  <2>3. ApplyDeciding(i)'
    BY <1>6, <1>8 DEF ApplyDeciding, UndoDeciding, Applying
  <2>4. ASSUME NEW j \in Step
        PROVE  /\ attempts'[j] <= Allowed' /\ undoAttempts'[j] <= Allowed'
               /\ attempts'[j] < Allowed' \/ j = i
               /\ undoAttempts'[j] < Allowed'
    BY <1>7, <2>1, <2>2
  <2> QED BY <2>3, <2>4 DEF AttemptsInv
<1>9. CASE ~Applying(w)
  <2>1. /\ status = "compensating" /\ undoAttempts'[i] = undoAttempts[i] + 1
        /\ \A j \in Step : j # i => undoAttempts'[j] = undoAttempts[j]
        /\ UNCHANGED attempts
    BY <1>1, <1>3, <1>9 DEF Applying, Claimable, TypeOK
  <2>2. \A j \in Step : attempts[j] <= Allowed /\ undoAttempts[j] < Allowed
    BY <1>5, <2>1 DEF AttemptsInv
  <2>3. UndoDeciding(i)'
    BY <1>6, <1>9 DEF ApplyDeciding, UndoDeciding, Applying
  <2>4. ASSUME NEW j \in Step
        PROVE  /\ attempts'[j] <= Allowed' /\ undoAttempts'[j] <= Allowed'
               /\ undoAttempts'[j] < Allowed' \/ j = i
    BY <1>7, <2>1, <2>2
  <2>5. status' = "compensating"
    BY <1>2, <2>1
  <2> QED BY <2>3, <2>4, <2>5 DEF AttemptsInv
<1> QED BY <1>8, <1>9

LEMMA ScheduleAttempts ==
  ASSUME TypeOK, LeaseInv, StepInv, AttemptsInv, overruns = 0,
         NEW w \in Worker, Schedule(w)
  PROVE  AttemptsInv'
<1> USE DEF row, steps, world, local, budget
<1>1. /\ pc[w] = "schedule"
      /\ UNCHANGED <<attempts, undoAttempts, abandons>>
  BY DEF Schedule, SetStatus
<1>2. /\ HolderInv /\ mode[w] = status /\ status \in Claimable
  BY <1>1, RunnerFacts
<1>3. \A v \in Worker : pc[v] = "schedule" => v = w
  BY <1>1, <1>2 DEF HolderInv, Active
<1>4. /\ Allowed \in Nat /\ Allowed' = Allowed /\ MaxAttempts <= Allowed
      /\ seen[w] \in Nat /\ MaxAttempts \in Nat
      /\ \A j \in Step : attempts[j] \in Nat /\ undoAttempts[j] \in Nat
  BY <1>1, SagaAssumption DEF Allowed, TypeOK
<1>5. ASSUME ~UsedUp(w) PROVE seen[w] < Allowed
  BY <1>4, <1>5 DEF UsedUp
<1>6. \A j \in Step : attempts'[j] <= Allowed' /\ undoAttempts'[j] <= Allowed'
  BY <1>1, <1>4 DEF AttemptsInv
<1>7. CASE Applying(w)
  <2>1. status = "running" /\ status' \in {"running", "compensating"}
    BY <1>2, <1>7 DEF Schedule, SetStatus, Applying
  <2>2. \A j \in Step : ~UndoDeciding(j)
    BY <1>3, <1>7 DEF ApplyDeciding, UndoDeciding, Applying
  <2>3. \A j \in Step : undoAttempts'[j] < Allowed'
    BY <1>1, <1>4, <2>1, <2>2 DEF AttemptsInv
  <2>4. ASSUME status' = "running", NEW j \in Step
        PROVE  attempts'[j] < Allowed'
    <3>1. ~UsedUp(w)
      BY <1>7, <2>4 DEF Schedule, SetStatus
    <3>2. CASE ApplyDeciding(j)
      BY <1>1, <1>3, <1>4, <1>5, <3>1, <3>2 DEF ApplyDeciding, UndoDeciding, Applying
    <3>3. CASE ~ApplyDeciding(j)
      BY <1>1, <1>4, <2>1, <3>3 DEF AttemptsInv
    <3> QED BY <3>2, <3>3
  <2> QED BY <1>6, <2>1, <2>3, <2>4 DEF AttemptsInv
<1>8. CASE ~Applying(w)
  <2>1. /\ status = "compensating"
        /\ status' \in {"compensating", "compensation_failed"}
    BY <1>2, <1>8 DEF Schedule, SetStatus, Applying, Claimable
  <2>2. ASSUME status' = "compensating", NEW j \in Step
        PROVE  undoAttempts'[j] < Allowed'
    <3>1. ~UsedUp(w)
      BY <1>8, <2>2 DEF Schedule, SetStatus
    <3>2. CASE UndoDeciding(j)
      BY <1>1, <1>3, <1>4, <1>5, <3>1, <3>2 DEF ApplyDeciding, UndoDeciding, Applying
    <3>3. CASE ~UndoDeciding(j)
      BY <1>1, <1>4, <2>1, <3>3 DEF AttemptsInv
    <3> QED BY <3>2, <3>3
  <2> QED BY <1>6, <2>1, <2>2 DEF AttemptsInv
<1> QED BY <1>7, <1>8

LEMMA NextAttemptsInv ==
  TypeOK /\ LeaseInv /\ StepInv /\ AttemptsInv /\ [Next]_vars => AttemptsInv'
<1> SUFFICES ASSUME TypeOK, LeaseInv, StepInv, AttemptsInv, [Next]_vars,
                    overruns' = 0
             PROVE  AttemptsInv'
  BY DEF AttemptsInv
<1> USE DEF row, steps, world, local, budget
<1>1. overruns = 0
  <2>1. overruns' = overruns \/ LeaseOverrun
    BY DEF Next, RunStep, vars, Trigger, BackoffElapses, LeaseExpires,
       StrayLands, Claim, Abandon, ReadRow, ReadSteps, BeginStep, CallReturns,
       CallFails, CallTimesOut, FinishStep, FinishFails, RecordFailure,
       Schedule, Close, SetStatus
  <2> QED BY <2>1 DEF LeaseOverrun, TypeOK
<1>2. CASE Trigger
  <2>1. CASE status = "absent"
    <3>1. \A v \in Worker : pc[v] # "schedule"
      BY <1>1, <2>1 DEF LeaseInv, ModeInv, Active, Claimable
    <3>2. /\ status' = "running"
          /\ UNCHANGED <<attempts, undoAttempts, abandons>>
      BY <1>2, <2>1 DEF Trigger
    <3>3. \A j \in Step : attempts[j] < Allowed /\ undoAttempts[j] < Allowed
      BY <1>1, <2>1, <3>1 DEF AttemptsInv, ApplyDeciding, UndoDeciding
    <3> QED BY <1>1, <3>2, <3>3 DEF AttemptsInv, Allowed
  <2>2. CASE status # "absent"
    BY <1>1, <1>2, <2>2, AttemptsFrame DEF Trigger
  <2> QED BY <2>1, <2>2
<1>3. CASE BackoffElapses \/ LeaseExpires \/ StrayLands \/ UNCHANGED vars
  <2>1. UNCHANGED <<attempts, undoAttempts, abandons, status, pc, mode, plan,
                    seen>>
    BY <1>3 DEF BackoffElapses, LeaseExpires, StrayLands, vars
  <2> QED BY <1>1, <2>1, AttemptsFrame
<1>4. CASE LeaseOverrun
  BY <1>1, <1>4 DEF LeaseOverrun
<1>5. ASSUME NEW w \in Worker, NEW l, Goto(w, l), pc[w] # "schedule",
             UNCHANGED <<attempts, undoAttempts, abandons, status, seen>>,
             \A v \in Worker : v # w => mode'[v] = mode[v] /\ plan'[v] = plan[v]
      PROVE  AttemptsInv'
  BY <1>1, <1>5, AttemptsFrame DEF Goto, TypeOK
<1>6. ASSUME NEW w \in Worker,
             \/ Claim(w) \/ BeginStep(w) \/ CallReturns(w) \/ CallFails(w)
             \/ CallTimesOut(w) \/ FinishFails(w)
      PROVE  AttemptsInv'
  BY <1>5, <1>6 DEF Claim, BeginStep, CallReturns, CallFails, CallTimesOut,
     FinishFails
<1>7. ASSUME NEW w \in Worker, ReadRow(w) PROVE AttemptsInv'
  BY <1>1, <1>7, AttemptsFrame DEF ReadRow, Leave, Goto, TypeOK
<1>8. ASSUME NEW w \in Worker, ReadSteps(w) \/ FinishStep(w)
      PROVE  AttemptsInv'
  <2>1. \A v \in Worker : v # w => mode'[v] = mode[v] /\ plan'[v] = plan[v]
    BY <1>8 DEF ReadSteps, FinishStep, TypeOK
  <2> QED BY <1>5, <1>8, <2>1 DEF ReadSteps, FinishStep
<1>9. ASSUME NEW w \in Worker, RecordFailure(w) PROVE AttemptsInv'
  BY <1>1, <1>9, RecordFailureAttempts
<1>10. ASSUME NEW w \in Worker, Schedule(w) PROVE AttemptsInv'
  BY <1>1, <1>10, ScheduleAttempts
<1>11. ASSUME NEW w \in Worker, Close(w) PROVE AttemptsInv'
  <2>1. /\ UNCHANGED <<attempts, undoAttempts, abandons>>
        /\ status' \in {"completed", "compensated"}
    BY <1>11 DEF Close, SetStatus
  <2> QED BY <1>1, <2>1 DEF AttemptsInv, Allowed
<1>12. ASSUME NEW w \in Worker, Abandon(w) PROVE AttemptsInv'
  BY <1>1, <1>12, AbandonAttempts DEF Abandon
<1> QED
  BY <1>2, <1>3, <1>4, <1>6, <1>7, <1>8, <1>9, <1>10, <1>11, <1>12
  DEF Next, RunStep

\* Only a run cut short grants a participant an extra call.
THEOREM AttemptsBoundedHolds == Spec => []AttemptsBounded
<1>1. AttemptsInv => AttemptsBounded
  BY DEF AttemptsInv, AttemptsBounded, Allowed
<1> QED
  BY <1>1, InitAttemptsInv, NextAttemptsInv, TypeCorrect, LeaseCorrect,
     StepCorrect, PTL
  DEF Spec
=============================================================================
