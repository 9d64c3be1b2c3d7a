--------------------------- MODULE AccountDeletion ---------------------------
(***************************************************************************)
(* The deletion of one account: the leased workers of Account Service that *)
(* carry out an account_deletion_requests row, the erasure in Todo Service *)
(* they call, and everything that goes on meanwhile: e-mail changes, the   *)
(* publication and consumption of the account's events (OwnerProjection),  *)
(* workspaces that the account founds, joins and is removed from.          *)
(***************************************************************************)
EXTENDS OwnerProjection

CONSTANTS
  Worker,      \* worker processes
  NoWorker,    \* no lease
  MaxMishaps,  \* bound: calls that fail, time out or lose their answer, runs
               \* cut short, leases that lapse under a running worker
  MaxOthers,   \* bound: workspaces founded or joined, passwords reset
  Mixed        \* bound: whether these and e-mail changes meet in one run

ASSUME WorkersAssumption ==
  /\ NoWorker \notin Worker
  /\ MaxMishaps \in Nat /\ MaxOthers \in Nat /\ Mixed \in BOOLEAN

VARIABLES
  status, step,   \* the request's row: status and current_step
  lease,          \* the worker whose unexpired lease the row holds
  due,            \* next_attempt_at has passed
  ties,           \* the workspaces that refer to the account, one of a kind
  notices,        \* events of its sessions or memberships are unpublished
  pc,             \* where each worker is in processNextAccountDeletion
  stray,          \* an erasure request whose caller has given up is under way
  mishaps, others

rowVars == <<status, step, lease, due>>
boundVars == <<mishaps, others>>
requestVars == <<rowVars, ties, notices, pc, stray, boundVars>>
vars == <<ownerVars, requestVars>>

\* A workspace it joined; one it founded, and is a member and `created_by' of;
\* one it founded and was removed from: `created_by' still names it.
Tie == {"joined", "founded", "left"}
Status == {"none", "pending", "running", "completed"}
Step == {"prepare-workspaces", "todo-cleanup", "account-cleanup"}
Position == {"idle", "prepare", "erase", "advance", "check", "purge",
             "complete", "delete", "retry"}

DeletionTypeOK ==
  /\ TypeOK
  /\ status \in Status /\ step \in Step
  /\ lease \in Worker \cup {NoWorker} /\ due \in BOOLEAN
  /\ ties \subseteq Tie /\ notices \in BOOLEAN /\ stray \in BOOLEAN
  /\ pc \in [Worker -> Position]
  /\ mishaps \in 0..MaxMishaps /\ others \in 0..MaxOthers

DeletionInit ==
  /\ Init
  /\ status = "none" /\ step = "prepare-workspaces"
  /\ lease = NoWorker /\ due = TRUE
  /\ ties = {} /\ notices = FALSE /\ stray = FALSE
  /\ pc = [w \in Worker |-> "idle"]
  /\ mishaps = 0 /\ others = 0

-----------------------------------------------------------------------------
(* The rest of Account Service *)

\* The transaction of complete() holds the locks of the request and the user.
Completing == \E w \in Worker : pc[w] = "delete"

\* The bounds on what else happens to the account.
MoreOthers == others < MaxOthers /\ (asks = 0 \/ Mixed)

\* Registration makes a new identity; an e-mail change is asked for with an
\* active session, and those end with the request for deletion.
OwnerStep ==
  /\ \/ status = "none" /\ Register
     \/ status = "none" /\ (others = 0 \/ Mixed) /\ AskEmailChange
     \/ ~Completing /\ \E row \in asked : ChangeEmail(row)
     \/ Delivery
     \/ Rebuild
  /\ UNCHANGED requestVars

\* With a token from before the request; the event goes to the notifications.
NewPassword ==
  /\ ~Completing
  /\ MoreOthers
  /\ others' = others + 1
  /\ \E t \in 1..MaxTime : ResetPassword(t)
  /\ notices' = TRUE
  /\ UNCHANGED <<rowVars, ties, pc, stray, mishaps>>

\* The outbox publisher has published the last event that does not concern
\* the owner projection.
PublishNotices ==
  /\ notices
  /\ notices' = FALSE
  /\ UNCHANGED <<ownerVars, rowVars, ties, pc, stray, boundVars>>

\* createWorkspace, with a token from before the request.
CreateWorkspace ==
  /\ Present(user) /\ ~Completing
  /\ MoreOthers
  /\ others' = others + 1
  /\ "founded" \notin ties
  /\ ties' = ties \cup {"founded"}
  /\ notices' = TRUE
  /\ UNCHANGED <<ownerVars, rowVars, pc, stray, mishaps>>

\* An administrator adds the account to a workspace, which may be the one it
\* founded and left: addMember asks only whether the row of users exists, and
\* its foreign key waits for the row.
JoinWorkspace ==
  /\ Present(user) /\ ~Completing
  /\ MoreOthers
  /\ others' = others + 1
  /\ \/ "joined" \notin ties /\ ties' = ties \cup {"joined"}
     \/ /\ "left" \in ties /\ "founded" \notin ties
        /\ ties' = (ties \ {"left"}) \cup {"founded"}
  /\ notices' = TRUE
  /\ UNCHANGED <<ownerVars, rowVars, pc, stray, mishaps>>

\* removeMember locks the workspace, not the user, and leaves `created_by'.
LeaveWorkspace ==
  /\ \/ "joined" \in ties /\ ties' = ties \ {"joined"}
     \/ /\ "founded" \in ties
        /\ ties' = (ties \ {"founded"}) \cup {"left"}
  /\ notices' = TRUE
  /\ UNCHANGED <<ownerVars, rowVars, pc, stray, boundVars>>

\* The last member of the workspace deletes their account, and it goes too.
LeftWorkspaceEnds ==
  /\ "left" \in ties
  /\ ties' = ties \ {"left"}
  /\ UNCHANGED <<ownerVars, rowVars, notices, pc, stray, boundVars>>

\* Repeated requests find the one that is pending or running.
RequestDeletion ==
  /\ Present(user)
  /\ status = "none"
  /\ status' = "pending"
  /\ notices' = TRUE
  /\ UNCHANGED <<ownerVars, step, lease, due, ties, pc, stray, boundVars>>

-----------------------------------------------------------------------------
(* The worker *)

Goto(w, position) == pc' = [pc EXCEPT ![w] = position]

\* Every error inside the run leads to retry().
CallFails(w) ==
  /\ pc[w] \in {"prepare", "erase", "advance", "check", "purge", "complete",
               "delete"}
  /\ mishaps < MaxMishaps
  /\ mishaps' = mishaps + 1
  /\ Goto(w, "retry")
  /\ UNCHANGED <<ownerVars, rowVars, ties, notices, stray, others>>

\* Mutant: the erasure is not repeated.
ClaimPastErasure(w) ==
  /\ pc[w] = "idle"
  /\ status \in {"pending", "running"} /\ due /\ lease = NoWorker
  /\ ~Completing
  /\ status' = "running" /\ lease' = w
  /\ Goto(w, IF step = "prepare-workspaces" THEN "prepare" ELSE "check")
  /\ UNCHANGED <<ownerVars, step, due, ties, notices, stray, boundVars>>

\* Mutant: only pending requests are claimed.
ClaimPending(w) ==
  /\ pc[w] = "idle"
  /\ status = "pending" /\ due /\ lease = NoWorker /\ ~Completing
  /\ status' = "running" /\ lease' = w
  /\ Goto(w, CASE step = "prepare-workspaces" -> "prepare"
               [] step = "todo-cleanup" -> "erase"
               [] step = "account-cleanup" -> "check")
  /\ UNCHANGED <<ownerVars, step, due, ties, notices, stray, boundVars>>

\* FOR UPDATE SKIP LOCKED
ClaimNext(w) ==
  /\ pc[w] = "idle"
  /\ status \in {"pending", "running"} /\ due /\ lease = NoWorker
  /\ ~Completing
  /\ status' = "running" /\ lease' = w
  /\ Goto(w, CASE step = "prepare-workspaces" -> "prepare"
               [] step = "todo-cleanup" -> "erase"
               [] step = "account-cleanup" -> "check")
  /\ UNCHANGED <<ownerVars, step, due, ties, notices, stray, boundVars>>

\* Members leave; a workspace left empty is deleted, without an event, and one
\* the account founded gets another `created_by'.  Only workspaces the account
\* is a member of are looked at.
PrepareWorkspaceDeletion(w) ==
  /\ pc[w] = "prepare" /\ ~Completing
  /\ IF step = "prepare-workspaces"
     THEN /\ step' = "todo-cleanup"
          /\ ties' = ties \cap {"left"}
          /\ notices' \in {notices, notices \/ ties' # ties}
     ELSE UNCHANGED <<step, ties, notices>>
  /\ Goto(w, "erase")
  /\ UNCHANGED <<ownerVars, status, lease, due, stray, boundVars>>

\* DELETE /internal/v1/account-deletions is answered with 204, or with an error
\* if the transaction violates a constraint and is rolled back.
EraseTodoCopies(w) ==
  /\ pc[w] = "erase"
  /\ IF PlaceholderFits
     THEN EraseAccountData /\ Goto(w, "advance")
     ELSE UNCHANGED ownerVars /\ Goto(w, "retry")
  /\ UNCHANGED <<rowVars, ties, notices, stray, boundVars>>

\* The erasure was committed and the answer lost.
EraseAnswerLost(w) ==
  /\ pc[w] = "erase"
  /\ mishaps < MaxMishaps
  /\ mishaps' = mishaps + 1
  /\ EraseAccountData
  /\ Goto(w, "retry")
  /\ UNCHANGED <<rowVars, ties, notices, stray, others>>

\* The caller gives up after 5 s and the request is still served.
EraseTimesOut(w) ==
  /\ pc[w] = "erase"
  /\ mishaps < MaxMishaps
  /\ mishaps' = mishaps + 1
  /\ stray' = TRUE
  /\ Goto(w, "retry")
  /\ UNCHANGED <<ownerVars, rowVars, ties, notices, others>>

StrayLands ==
  /\ stray
  /\ stray' = FALSE
  /\ EraseAccountData
  /\ UNCHANGED <<rowVars, ties, notices, pc, boundVars>>

\* Mutant: the name of the step is not the one claimNext knows.
AdvanceMisnamed(w) ==
  /\ pc[w] = "advance" /\ ~Completing
  /\ step' = IF status = "running" THEN "account_cleanup" ELSE step
  /\ Goto(w, "check")
  /\ UNCHANGED <<ownerVars, status, lease, due, ties, notices, stray,
                 boundVars>>

Advance(w) ==
  /\ pc[w] = "advance" /\ ~Completing
  /\ step' = IF status = "running" THEN "account-cleanup" ELSE step
  /\ Goto(w, "check")
  /\ UNCHANGED <<ownerVars, status, lease, due, ties, notices, stray,
                 boundVars>>

\* Mutant: the events of the account itself are not looked for.
OtherUnpublishedEvents == notices

UnpublishedIdentityEvents == outbox # {} \/ notices

\* findDeletionEmail and hasUnpublishedIdentityEvents
CheckEvents(w) ==
  /\ pc[w] = "check"
  /\ Goto(w, IF Present(user) /\ ~UnpublishedIdentityEvents
             THEN "purge" ELSE "retry")
  /\ UNCHANGED <<ownerVars, rowVars, ties, notices, stray, boundVars>>

\* purgeAccountMessages; the caches purged next are those of the membership
\* and session projections.
Purge(w) ==
  /\ pc[w] = "purge"
  /\ PurgeQueue
  /\ Goto(w, "complete")
  /\ UNCHANGED <<rowVars, ties, notices, stray, boundVars>>

\* The transaction starts: it locks the request, then the user, and looks for
\* unpublished events once more.
LockAccount(w) ==
  /\ pc[w] = "complete" /\ ~Completing
  /\ \/ /\ status = "completed"
        /\ step' = "account-cleanup" /\ lease' = NoWorker
        /\ Goto(w, "idle")
     \/ /\ status # "completed"
        /\ Goto(w, IF UnpublishedIdentityEvents THEN "retry" ELSE "delete")
        /\ UNCHANGED <<step, lease>>
  /\ UNCHANGED <<ownerVars, status, due, ties, notices, stray, boundVars>>

\* Mutant: the DELETE commits before the UPDATE of the request.
CompleteInTwo(w) ==
  /\ pc[w] = "delete"
  /\ ties = {}
  /\ DeleteUser
  /\ Goto(w, "retry")
  /\ UNCHANGED <<status, step, lease, due, ties, notices, stray, boundVars>>

\* The rest of the transaction.  The foreign keys of memberships and
\* workspaces restrict the DELETE of the user; the DELETE of the events takes
\* what a removal from a workspace has inserted since the look at them, or
\* comes before it.
Complete(w) ==
  /\ pc[w] = "delete"
  /\ \/ /\ ties # {}
        /\ Goto(w, "retry")
        /\ UNCHANGED <<ownerVars, status, step, lease, notices>>
     \/ /\ ties = {}
        /\ DeleteUser
        /\ notices' \in {notices, FALSE}
        /\ status' = "completed" /\ step' = "account-cleanup"
        /\ lease' = NoWorker
        /\ Goto(w, "idle")
  /\ UNCHANGED <<due, ties, stray, boundVars>>

\* Mutant: the UPDATE has no condition on the status.
RetryAlways(w) ==
  /\ pc[w] = "retry" /\ ~Completing
  /\ status' = "pending" /\ lease' = NoWorker /\ due' = FALSE
  /\ Goto(w, "idle")
  /\ UNCHANGED <<ownerVars, step, ties, notices, stray, boundVars>>

Retry(w) ==
  /\ pc[w] = "retry" /\ ~Completing
  /\ IF status = "running"
     THEN status' = "pending" /\ lease' = NoWorker /\ due' = FALSE
     ELSE UNCHANGED <<status, lease, due>>
  /\ Goto(w, "idle")
  /\ UNCHANGED <<ownerVars, step, ties, notices, stray, boundVars>>

\* The process stops, or retry() itself fails: the lease stays.
Stop(w) ==
  /\ pc[w] # "idle"
  /\ mishaps < MaxMishaps
  /\ mishaps' = mishaps + 1
  /\ Goto(w, "idle")
  /\ UNCHANGED <<ownerVars, rowVars, ties, notices, stray, others>>

-----------------------------------------------------------------------------
(* Clocks *)

BackoffElapses ==
  /\ ~due
  /\ due' = TRUE
  /\ UNCHANGED <<ownerVars, status, step, lease, ties, notices, pc, stray,
                 boundVars>>

LeaseExpires ==
  /\ lease \in Worker /\ pc[lease] = "idle"
  /\ lease' = NoWorker
  /\ UNCHANGED <<ownerVars, status, step, due, ties, notices, pc, stray,
                 boundVars>>

\* Nobody renews the lease of a run that takes longer.
LeaseOverrun ==
  /\ lease \in Worker /\ pc[lease] # "idle"
  /\ mishaps < MaxMishaps
  /\ mishaps' = mishaps + 1
  /\ lease' = NoWorker
  /\ UNCHANGED <<ownerVars, status, step, due, ties, notices, pc, stray,
                 others>>

RunStep(w) ==
  \/ PrepareWorkspaceDeletion(w) \/ EraseTodoCopies(w) \/ Advance(w)
  \/ CheckEvents(w) \/ Purge(w) \/ LockAccount(w) \/ Complete(w) \/ Retry(w)

Fault(w) == CallFails(w) \/ EraseAnswerLost(w) \/ EraseTimesOut(w) \/ Stop(w)

DeletionNext ==
  \/ OwnerStep \/ NewPassword \/ PublishNotices
  \/ CreateWorkspace \/ JoinWorkspace \/ LeaveWorkspace \/ LeftWorkspaceEnds
  \/ RequestDeletion
  \/ \E w \in Worker : ClaimNext(w) \/ RunStep(w) \/ Fault(w)
  \/ StrayLands \/ BackoffElapses \/ LeaseExpires \/ LeaseOverrun

DeletionSpec == DeletionInit /\ [][DeletionNext]_vars

\* Workers poll, publishers publish and mark, the clock advances, requests
\* under way come to an end.
Fairness ==
  /\ \A w \in Worker : WF_vars(ClaimNext(w) \/ RunStep(w))
  /\ WF_vars(PublishNotices)
  /\ \A e \in Event : WF_vars(Publish(e) /\ e \notin outbox'
                               /\ UNCHANGED requestVars)
  /\ WF_vars(BackoffElapses) /\ WF_vars(LeaseExpires)

FairDeletionSpec == DeletionSpec /\ Fairness

-----------------------------------------------------------------------------
(* Properties *)

\* A request that is completed has left nothing to delete: the user is gone,
\* no workspace and no unpublished change of its address refers to the
\* account, and Todo Service has erased its copy, whichever workers carried the
\* steps out and whichever answers they missed (processNextAccountDeletion,
\* complete).
CompletedMeansErased ==
  status = "completed" =>
    ~Present(user) /\ ties = {} /\ outbox = {} /\ tombstone

\* What a test says: an account is not deleted while identity events are
\* unpublished (account-deletion.repository.test.ts:152).
NoEventOutlivesAccount == status = "completed" => ~UnpublishedIdentityEvents

\* The account is deleted only with its request, so a failure in between
\* never leaves a request that can find no account (complete; the error of
\* findDeletionEmail).
DeletedOnlyWhenCompleted ==
  status \in {"pending", "running"} => Present(user)

\* No worker that lost its lease reopens a completed request or takes a step
\* back: the steps advance, and completion is final (advance and retry test
\* the status, complete does not).
Rank(s) == CASE s = "prepare-workspaces" -> 0 [] s = "todo-cleanup" -> 1
             [] s = "account-cleanup" -> 2
NeverReopened ==
  [][/\ status = "completed" => status' = "completed"
     /\ Rank(step') >= Rank(step)]_vars

\* The deletion keeps what the projection relies on: it deletes the account
\* only after the erasure and after all its events were published.
KeepsProjection == Spec

\* A request is completed in the end, unless some workspace refers to the
\* account from some moment on for ever: one it founded and was removed from,
\* which prepareWorkspaceDeletion does not look at (workspaces.created_by
\* restricts the DELETE), or one it was added to after it had left them all.
Completes ==
  status = "pending" ~>
    \/ status = "completed"
    \/ [](\/ "left" \in ties
          \/ ties # {} /\ step # "prepare-workspaces")
=============================================================================
