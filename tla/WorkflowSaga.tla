---------------------------- MODULE WorkflowSaga ----------------------------
(***************************************************************************)
(* The workspace-provisioning workflow of Account Service: one row of      *)
(* "workflows" with its "workflow_steps", the workers that poll and run    *)
(* it (workflow.worker.ts, workflow.orchestrator.ts), the unguarded        *)
(* updates of postgres.workflow.repository.ts, and the three participants  *)
(* that keep one reservation each (a local table, Todo Service over HTTP,  *)
(* Gateway over HTTP).                                                     *)
(*                                                                         *)
(* Every SQL statement of a worker is an action of its own, so another     *)
(* worker, a crash or a late request may come between any two.  Time is    *)
(* abstracted to "the lease has lapsed" and "the next attempt is due".     *)
(* current_step, last_error and the time stamps of the row are displayed   *)
(* but never read by the program and are left out.                         *)
(***************************************************************************)
EXTENDS Naturals

CONSTANTS
  Worker,        \* the processes running workflow.worker.ts
  NoWorker,      \* the row's lease is NULL or in the past
  NSteps,        \* length of STEP_ORDER
  Remote,        \* the steps whose participant is called over HTTP
  MaxAttempts,   \* WORKFLOW_MAX_ATTEMPTS
  MaxTriggers,   \* bound: POSTs with the same idempotency key
  MaxAbandons,   \* bound: crashes and database errors that end a run
  MaxOverruns,   \* bound: leases that lapse under a running worker
  MaxOrphans     \* bound: requests served after their caller has given up

Step == 1..NSteps

ASSUME SagaAssumption ==
  /\ NSteps \in Nat \ {0}
  /\ Remote \subseteq Step
  /\ NoWorker \notin Worker
  /\ MaxAttempts \in Nat \ {0}
  /\ {MaxTriggers, MaxAbandons, MaxOverruns, MaxOrphans} \subseteq Nat

VARIABLES
  status,        \* workflows.status, "absent" before the INSERT
  due,           \* next_attempt_at <= CURRENT_TIMESTAMP
  lease,         \* the worker whose lease is unexpired, or NoWorker
  step,          \* workflow_steps.status
  attempts,      \* workflow_steps.attempts
  undoAttempts,  \* workflow_steps.compensation_attempts
  reserved,      \* does the participant hold a reservation ?
  stray,         \* requests whose caller has given up, still being served
  pc,            \* where in claimNext / run / compensate a worker is
  mode,          \* the status in the worker's snapshot of the row
  plan,          \* the steps its snapshot leaves it to handle
  seen,          \* the attempts count recordFailure returned to it
  triggers, abandons, overruns, orphans   \* how often, against the bounds

row     == <<status, due, lease>>
steps   == <<step, attempts, undoAttempts>>
world   == <<reserved, stray>>
local   == <<mode, plan, seen>>
budget  == <<triggers, abandons, overruns, orphans>>
vars    == <<row, steps, world, pc, local, budget>>

Terminal  == {"completed", "compensated", "compensation_failed"}
Claimable == {"running", "compensating"}
Undoable  == {"applied", "compensating", "failed"}
Op        == {"apply", "undo"}

WorkflowStatus == {"absent"} \cup Claimable \cup Terminal
StepStatus ==
  {"pending", "applying", "applied", "failed", "compensating", "compensated"}
Location ==
  {"idle", "row", "steps", "begin", "call", "finish", "fail", "schedule",
   "close"}

TypeOK ==
  /\ status \in WorkflowStatus
  /\ due \in BOOLEAN
  /\ lease \in Worker \cup {NoWorker}
  /\ step \in [Step -> StepStatus]
  /\ attempts \in [Step -> Nat]
  /\ undoAttempts \in [Step -> Nat]
  /\ reserved \in [Step -> BOOLEAN]
  /\ stray \subseteq Step \X Op
  /\ pc \in [Worker -> Location]
  /\ mode \in [Worker -> WorkflowStatus]
  /\ plan \in [Worker -> SUBSET Step]
  /\ seen \in [Worker -> Nat]
  /\ triggers \in Nat /\ abandons \in Nat
  /\ overruns \in Nat /\ orphans \in Nat

Init ==
  /\ status = "absent"
  /\ due = FALSE
  /\ lease = NoWorker
  /\ step = [i \in Step |-> "pending"]
  /\ attempts = [i \in Step |-> 0]
  /\ undoAttempts = [i \in Step |-> 0]
  /\ reserved = [i \in Step |-> FALSE]
  /\ stray = {}
  /\ pc = [w \in Worker |-> "idle"]
  /\ mode = [w \in Worker |-> "absent"]
  /\ plan = [w \in Worker |-> {}]
  /\ seen = [w \in Worker |-> 0]
  /\ triggers = 0 /\ abandons = 0 /\ overruns = 0 /\ orphans = 0

-----------------------------------------------------------------------------
(***************************************************************************)
(* The request and the passing of time.                                    *)
(***************************************************************************)

\* Mutant: the INSERT ends in ON CONFLICT ... DO UPDATE SET status.
TriggerResets ==
  /\ triggers < MaxTriggers
  /\ triggers' = triggers + 1
  /\ status' = "running"
  /\ due' = TRUE
  /\ UNCHANGED <<lease, steps, world, pc, local, abandons, overruns, orphans>>

\* POST /workspace-provisioning: the row and its steps are inserted once per
\* (owner, idempotency key); a repeated POST returns the existing row.
Trigger ==
  /\ triggers < MaxTriggers
  /\ triggers' = triggers + 1
  /\ IF status = "absent"
     THEN /\ status' = "running"
          /\ due' = TRUE
          /\ step' = [i \in Step |-> "pending"]
     ELSE UNCHANGED <<status, due, step>>
  /\ UNCHANGED <<lease, attempts, undoAttempts, world, pc, local,
                 abandons, overruns, orphans>>

BackoffElapses ==
  /\ status # "absent"
  /\ ~due
  /\ due' = TRUE
  /\ UNCHANGED <<status, lease, steps, world, pc, local, budget>>

\* Mutant: claimNext only takes rows whose lease_expires_at is NULL.
LeaseNeverExpires == FALSE /\ UNCHANGED vars

\* The lease of a worker that has abandoned its run reaches lease_expires_at.
LeaseExpires ==
  /\ lease # NoWorker
  /\ pc[lease] = "idle"
  /\ lease' = NoWorker
  /\ UNCHANGED <<status, due, steps, world, pc, local, budget>>

\* The lease lapses under a worker that is still running: nothing renews it.
LeaseOverrun ==
  /\ overruns < MaxOverruns
  /\ lease # NoWorker
  /\ pc[lease] # "idle"
  /\ lease' = NoWorker
  /\ overruns' = overruns + 1
  /\ UNCHANGED <<status, due, steps, world, pc, local,
                 triggers, abandons, orphans>>

-----------------------------------------------------------------------------
(***************************************************************************)
(* Claiming: claimNext is one UPDATE ... FOR UPDATE SKIP LOCKED, followed  *)
(* by two separate SELECTs that make the worker's snapshot.                *)
(***************************************************************************)

Goto(w, l) == pc' = [pc EXCEPT ![w] = l]

\* run() returns or throws: its snapshot is gone.
Leave(w) ==
  /\ Goto(w, "idle")
  /\ mode' = [mode EXCEPT ![w] = "absent"]
  /\ plan' = [plan EXCEPT ![w] = {}]
  /\ seen' = [seen EXCEPT ![w] = 0]

\* Mutant: claimNext without its condition on lease_expires_at.
LeaseIgnored == TRUE

LeaseFree == lease = NoWorker

Claim(w) ==
  /\ pc[w] = "idle"
  /\ status \in Claimable
  /\ due
  /\ LeaseFree
  /\ lease' = w
  /\ Goto(w, "row")
  /\ UNCHANGED <<status, due, steps, world, local, budget>>

\* SELECT of the workflow row; run() returns at once on a terminal status.
ReadRow(w) ==
  /\ pc[w] = "row"
  /\ IF status \in Terminal
     THEN Leave(w)
     ELSE /\ mode' = [mode EXCEPT ![w] = status]
          /\ Goto(w, "steps")
          /\ UNCHANGED <<plan, seen>>
  /\ UNCHANGED <<row, steps, world, budget>>

\* Where the loop over the remaining steps goes on.
LoopHead(remaining) == IF remaining = {} THEN "close" ELSE "begin"

\* Mutant: run() also skips the steps it has tried before.
RemainingUntried(w) ==
  {i \in Step : IF mode[w] = "running" THEN step[i] = "pending"
                                      ELSE step[i] \in Undoable}

\* Mutant: compensate() only undoes the steps known to be applied.
RemainingApplied(w) ==
  {i \in Step : (mode[w] = "running") # (step[i] = "applied")}

\* run() skips what is applied, compensate() what is neither applied,
\* compensating nor failed.
Remaining(w) ==
  {i \in Step : IF mode[w] = "running" THEN step[i] # "applied"
                                      ELSE step[i] \in Undoable}

\* SELECT of the step rows.
ReadSteps(w) ==
  /\ pc[w] = "steps"
  /\ plan' = [plan EXCEPT ![w] = Remaining(w)]
  /\ Goto(w, LoopHead(Remaining(w)))
  /\ UNCHANGED <<row, steps, world, mode, seen, budget>>

-----------------------------------------------------------------------------
(***************************************************************************)
(* One iteration of the loop of run() or of compensate().                  *)
(***************************************************************************)

\* Mutant: compensate() without the reverse().
CurrentForwards(w, i) == i \in plan[w] /\ \A j \in plan[w] : i <= j

\* The step the loop of w is at: STEP_ORDER forwards or backwards.
Current(w, i) ==
  /\ i \in plan[w]
  /\ \A j \in plan[w] : IF mode[w] = "running" THEN i <= j ELSE j <= i

Applying(w) == mode[w] = "running"

OpOf(w) == IF Applying(w) THEN "apply" ELSE "undo"

\* beginStep: no condition on the lease, on the status or on the step.
BeginStep(w) ==
  /\ pc[w] = "begin"
  /\ \E i \in Step :
        /\ Current(w, i)
        /\ step' = [step EXCEPT
                      ![i] = IF Applying(w) THEN "applying" ELSE "compensating"]
  /\ Goto(w, "call")
  /\ UNCHANGED <<row, attempts, undoAttempts, world, local, budget>>

\* What serving a request does: INSERT ... ON CONFLICT DO NOTHING and HSET
\* leave a reservation behind, DELETE and DEL leave none.
Served(i, op) == reserved' = [reserved EXCEPT ![i] = (op = "apply")]

\* The participant serves the call and the worker gets its answer.
CallReturns(w) ==
  /\ pc[w] = "call"
  /\ \E i \in Step : Current(w, i) /\ Served(i, OpOf(w))
  /\ Goto(w, "finish")
  /\ UNCHANGED <<row, steps, stray, local, budget>>

\* The call throws: it was refused, or served and its answer was lost.
CallFails(w) ==
  /\ pc[w] = "call"
  /\ \/ UNCHANGED reserved
     \/ \E i \in Step : Current(w, i) /\ Served(i, OpOf(w))
  /\ Goto(w, "fail")
  /\ UNCHANGED <<row, steps, stray, local, budget>>

\* The worker no longer waits for its request, which is still to be served.
Orphan(w) ==
  /\ orphans < MaxOrphans
  /\ orphans' = orphans + 1
  /\ \E i \in Remote :
        /\ Current(w, i)
        /\ <<i, OpOf(w)>> \notin stray
        /\ stray' = stray \cup {<<i, OpOf(w)>>}

\* AbortSignal.timeout(2_000) fires while the participant is still working.
CallTimesOut(w) ==
  /\ pc[w] = "call"
  /\ Orphan(w)
  /\ Goto(w, "fail")
  /\ UNCHANGED <<row, steps, reserved, local, triggers, abandons, overruns>>

\* A participant serves a request nobody waits for any more.
StrayLands ==
  \E i \in Step, op \in Op :
     /\ <<i, op>> \in stray
     /\ stray' = stray \ {<<i, op>>}
     /\ Served(i, op)
     /\ UNCHANGED <<row, steps, pc, local, budget>>

\* finishStep, then the next iteration.
FinishStep(w) ==
  /\ pc[w] = "finish"
  /\ \E i \in Step :
        /\ Current(w, i)
        /\ step' = [step EXCEPT
                      ![i] = IF Applying(w) THEN "applied" ELSE "compensated"]
        /\ plan' = [plan EXCEPT ![w] = @ \ {i}]
        /\ Goto(w, LoopHead(plan[w] \ {i}))
  /\ UNCHANGED <<row, attempts, undoAttempts, world, mode, seen, budget>>

\* finishStep throws inside the same try block as the call.
FinishFails(w) ==
  /\ pc[w] = "finish"
  /\ Goto(w, "fail")
  /\ UNCHANGED <<row, steps, world, local, budget>>

-----------------------------------------------------------------------------
(***************************************************************************)
(* The catch block and the end of a run.                                   *)
(***************************************************************************)

\* recordFailure: count the attempt and mark the step failed.
RecordFailure(w) ==
  /\ pc[w] = "fail"
  /\ \E i \in Step :
        /\ Current(w, i)
        /\ step' = [step EXCEPT ![i] = "failed"]
        /\ IF Applying(w)
           THEN /\ attempts' = [attempts EXCEPT ![i] = @ + 1]
                /\ seen' = [seen EXCEPT ![w] = attempts[i] + 1]
                /\ UNCHANGED undoAttempts
           ELSE /\ undoAttempts' = [undoAttempts EXCEPT ![i] = @ + 1]
                /\ seen' = [seen EXCEPT ![w] = undoAttempts[i] + 1]
                /\ UNCHANGED attempts
  /\ Goto(w, "schedule")
  /\ UNCHANGED <<row, world, mode, plan, budget>>

\* setStatus: clears the lease, whoever holds it.
SetStatus(w, s, isDue) ==
  /\ status' = s
  /\ lease' = NoWorker
  /\ due' = isDue
  /\ Leave(w)
  /\ UNCHANGED <<steps, world, budget>>

\* Mutant: attempts > maxAttempts.
UsedUpLate(w) == seen[w] > MaxAttempts

\* Mutant: maxAttempts is not looked at.
UsedUpAtOnce(w) == TRUE

UsedUp(w) == seen[w] >= MaxAttempts

\* Mutant: a failed undo is scheduled like a failed apply.
ScheduleRestarts(w) ==
  /\ pc[w] = "schedule"
  /\ IF UsedUp(w) THEN SetStatus(w, "compensating", TRUE)
                  ELSE SetStatus(w, "running", FALSE)

\* A failed apply is retried after a delay, or the workflow turns to
\* compensation, due at once; a failed undo is retried or given up.
Schedule(w) ==
  /\ pc[w] = "schedule"
  /\ IF Applying(w)
     THEN IF UsedUp(w) THEN SetStatus(w, "compensating", TRUE)
                       ELSE SetStatus(w, "running", FALSE)
     ELSE SetStatus(w, IF UsedUp(w) THEN "compensation_failed"
                                    ELSE "compensating", FALSE)

\* Mutant: the status of the step is written to the workflow.
CloseAsStep(w) ==
  /\ pc[w] = "close"
  /\ SetStatus(w, IF Applying(w) THEN "applied" ELSE "compensated", TRUE)

\* The loop is done.
Close(w) ==
  /\ pc[w] = "close"
  /\ SetStatus(w, IF Applying(w) THEN "completed" ELSE "compensated", TRUE)

\* The process stops, or a statement outside the try block throws and poll()
\* drops the run.  A request under way may still be served.
Abandon(w) ==
  /\ abandons < MaxAbandons
  /\ abandons' = abandons + 1
  /\ pc[w] # "idle"
  /\ UNCHANGED <<stray, orphans>> \/ (pc[w] = "call" /\ Orphan(w))
  /\ Leave(w)
  /\ UNCHANGED <<row, steps, reserved, triggers, overruns>>

-----------------------------------------------------------------------------
RunStep(w) ==
  \/ ReadRow(w) \/ ReadSteps(w)
  \/ BeginStep(w) \/ CallReturns(w) \/ CallFails(w) \/ CallTimesOut(w)
  \/ FinishStep(w) \/ FinishFails(w)
  \/ RecordFailure(w) \/ Schedule(w) \/ Close(w)

Next ==
  \/ Trigger \/ BackoffElapses \/ LeaseExpires \/ LeaseOverrun \/ StrayLands
  \/ \E w \in Worker : Claim(w) \/ RunStep(w) \/ Abandon(w)

Spec == Init /\ [][Next]_vars

\* poll() loops for ever and a stopped container is restarted, clocks advance:
\* no worker rests while it has a statement to execute.  Nothing is assumed
\* of a participant's answer, nor that a stray request is ever served.
Fairness ==
  /\ WF_vars(BackoffElapses)
  /\ WF_vars(LeaseExpires)
  /\ \A w \in Worker : WF_vars(Claim(w) \/ RunStep(w))

FairSpec == Spec /\ Fairness

-----------------------------------------------------------------------------
(***************************************************************************)
(* Properties.  Each says under which faults the code keeps it: overruns   *)
(* counts the leases that lapsed under a running worker, orphans the       *)
(* requests left in flight by their caller, abandons the runs cut short.   *)
(***************************************************************************)
Active(w) == pc[w] # "idle"

\* As long as no lease lapses under its holder, the lease keeps a second
\* worker out of the whole run, crashes and restarts included.
SoleRunner ==
  overruns = 0 => \A v, w \in Worker : Active(v) /\ Active(w) => v = w

\* The status moves along running -> completed and running -> compensating
\* -> compensated or compensation_failed only: no terminal outcome is
\* reopened and no undo turns back into an apply, although setStatus does
\* not look at the status it replaces.
Successors(s) ==
  CASE s = "absent"       -> {"running"}
    [] s = "running"      -> {"completed", "compensating"}
    [] s = "compensating" -> {"compensated", "compensation_failed"}
    [] OTHER              -> {}

StatusForward ==
  [][overruns = 0 => status' \in {status} \cup Successors(status)]_vars

\* A client that reads "completed" finds the reservation of every
\* participant, whatever answers were lost or came late on the way.
CompletedHoldsAll ==
  overruns = 0 /\ status = "completed" => \A i \in Step : reserved[i]

\* A client that reads "compensated" finds no reservation left, unless some
\* request outlived its caller.
CompensatedHoldsNone ==
  overruns = 0 /\ orphans = 0 /\ status = "compensated"
    => \A i \in Step : ~reserved[i]

\* Reservations are made forwards and dropped backwards: no participant
\* holds one while an earlier participant does not.
HeldInOrder ==
  overruns = 0 /\ orphans = 0
    => \A i, j \in Step : i < j /\ reserved[j] => reserved[i]

\* recordFailure commits before setStatus: a run cut short between the two
\* grants one more attempt, and nothing else does.
AttemptsBounded ==
  overruns = 0
    => \A i \in Step : /\ attempts[i] <= MaxAttempts + abandons
                       /\ undoAttempts[i] <= MaxAttempts + abandons

\* The undo starts only after some step used up its attempts, and is given
\* up only after some step used up its undo attempts, in every behaviour.
GivesUpForCause ==
  /\ status \in {"compensating", "compensated", "compensation_failed"}
       => \E i \in Step : attempts[i] >= MaxAttempts
  /\ status = "compensation_failed"
       => \E i \in Step : undoAttempts[i] >= MaxAttempts

\* An accepted workflow reaches a terminal status, whatever participants
\* answer and wherever a worker stops.
Terminates == status = "running" ~> status \in Terminal

\* With neither overruns nor orphans the workers implement the promise.
Provisioning == INSTANCE ProvisioningSpec
                  WITH phase <- status, held <- {i \in Step : reserved[i]}

ImplementsProvisioning == Provisioning!ASpec

\* What docs/distributed-workflow.md says of two workers ("a time-bounded
\* database lease gives one worker ownership") and of "completed", without
\* the condition on the lease.
CompletedAlwaysHoldsAll ==
  status = "completed" => \A i \in Step : reserved[i]
=============================================================================
