---------------------------- MODULE AccountOutbox ----------------------------
(***************************************************************************)
(* The outbox of Account Service and its publisher, which connects again    *)
(* when it has no channel and gives up its locks when it is shut down.      *)
(***************************************************************************)
EXTENDS TodoOutbox

CONSTANT AccountPublisher  \* processes of the publisher

ASSUME AccountOutboxAssumption == NoPublisher \notin AccountPublisher

VARIABLES
  accountRow,        \* rows of outbox_events
  accountPublisher,  \* what a process is doing
  ready              \* its publisher is connected

accountOutboxVars == <<accountRow, accountPublisher, ready>>

AccountOutboxTypeOK ==
  /\ accountRow \in [AccountEvent -> [state : {"none", "pending", "published"},
                                      holder : AccountPublisher \cup {NoPublisher},
                                      fresh : BOOLEAN]]
  /\ accountPublisher \in
       [AccountPublisher ->
          [at : {"idle", "next"}, batch : SUBSET AccountEvent]
            \cup [at : {"mark", "fail"}, batch : SUBSET AccountEvent,
                  event : AccountEvent]]
  /\ ready \in [AccountPublisher -> BOOLEAN]

AccountOutboxInit ==
  /\ accountRow = [e \in AccountEvent |-> NoRow]
  /\ accountPublisher = [p \in AccountPublisher |-> Resting]
  /\ ready = [p \in AccountPublisher |-> FALSE]

-----------------------------------------------------------------------------
\* Registration writes the event in its own transaction.
Register(e) ==
  /\ accountRow[e].state = "none"
  /\ accountRow' = [accountRow EXCEPT ![e].state = "pending"]
  /\ UNCHANGED <<accountPublisher, ready, faults, queue>>

AccountLockLapses(e) ==
  /\ accountRow[e].fresh
  /\ accountRow' = [accountRow EXCEPT ![e].fresh = FALSE]
  /\ IF accountPublisher[accountRow[e].holder].at # "idle" THEN Fault
     ELSE UNCHANGED faults
  /\ UNCHANGED <<accountPublisher, ready, queue>>

\* connect, before a batch
Connect(p) ==
  /\ accountPublisher[p].at = "idle" /\ ~ready[p]
  /\ ready' = [ready EXCEPT ![p] = TRUE]
  /\ UNCHANGED <<accountRow, accountPublisher, faults, queue>>

ClaimAccountEvents(p) ==
  LET free == {e \in AccountEvent :
                 accountRow[e].state = "pending" /\ ~accountRow[e].fresh}
  IN /\ accountPublisher[p].at = "idle" /\ ready[p] /\ free # {}
     /\ accountRow' =
          [e \in AccountEvent |->
             IF e \in free THEN [accountRow[e] EXCEPT !.holder = p, !.fresh = TRUE]
             ELSE accountRow[e]]
     /\ accountPublisher' = [accountPublisher EXCEPT
                               ![p] = [at |-> "next", batch |-> free]]
     /\ UNCHANGED <<ready, faults, queue>>

HoldAccount(p, e, position) ==
  accountPublisher' = [accountPublisher EXCEPT
    ![p] = [at |-> position, batch |-> accountPublisher[p].batch \ {e}, event |-> e]]

\* The callback of the confirmation; without a connection publish throws.
PublishAccountEvent(p, e) ==
  /\ accountPublisher[p].at = "next" /\ e \in accountPublisher[p].batch
  /\ queue' = IF ready[p] THEN Routed(queue, e, 0) ELSE queue
  /\ HoldAccount(p, e, IF ready[p] THEN "mark" ELSE "fail")
  /\ UNCHANGED <<accountRow, ready, faults>>

AccountConfirmLost(p, e) ==
  /\ accountPublisher[p].at = "next" /\ e \in accountPublisher[p].batch /\ ready[p]
  /\ Fault
  /\ queue' = Routed(queue, e, 0)
  /\ HoldAccount(p, e, "fail")
  /\ UNCHANGED <<accountRow, ready>>

AdvanceAccount(p) ==
  LET w == accountPublisher[p]
  IN accountPublisher' = [accountPublisher EXCEPT
       ![p] = IF w.batch = {} THEN Resting ELSE [at |-> "next", batch |-> w.batch]]

OwnsAccount(p, e) == accountRow[e].state = "pending" /\ accountRow[e].holder = p

MarkAccountPublished(p) ==
  LET e == accountPublisher[p].event
  IN /\ accountPublisher[p].at = "mark"
     /\ IF OwnsAccount(p, e)
        THEN /\ accountRow' = [accountRow EXCEPT
                               ![e] = [Unlocked(accountRow[e]) EXCEPT !.state = "published"]]
             /\ AdvanceAccount(p)
        ELSE /\ accountPublisher' = [accountPublisher EXCEPT ![p].at = "fail"]
             /\ UNCHANGED accountRow
     /\ UNCHANGED <<ready, faults, queue>>

MarkAccountFailed(p) ==
  LET e == accountPublisher[p].event
  IN /\ accountPublisher[p].at = "fail"
     /\ IF OwnsAccount(p, e)
        THEN /\ accountRow' = [accountRow EXCEPT ![e] = Unlocked(accountRow[e])]
             /\ AdvanceAccount(p)
        ELSE /\ accountPublisher' = [accountPublisher EXCEPT ![p] = Resting]
             /\ UNCHANGED accountRow
     /\ UNCHANGED <<ready, faults, queue>>

PublisherCloses(p) ==
  /\ ready[p]
  /\ Fault
  /\ ready' = [ready EXCEPT ![p] = FALSE]
  /\ UNCHANGED <<accountRow, accountPublisher, queue>>

\* A shutdown waits for the batch and releases what the process still holds.
ReleaseWorkerLocks(p) ==
  /\ accountPublisher[p].at = "idle"
  /\ \E e \in AccountEvent : OwnsAccount(p, e)
  /\ accountRow' = [e \in AccountEvent |-> IF OwnsAccount(p, e) THEN Unlocked(accountRow[e])
                                          ELSE accountRow[e]]
  /\ ready' = [ready EXCEPT ![p] = FALSE]
  /\ UNCHANGED <<accountPublisher, faults, queue>>

\* The process dies; another takes its place under a new worker id.
AccountPublisherDies(p) ==
  /\ accountPublisher[p].at # "idle"
  /\ Fault
  /\ accountPublisher' = [accountPublisher EXCEPT ![p] = Resting]
  /\ ready' = [ready EXCEPT ![p] = FALSE]
  /\ UNCHANGED <<accountRow, queue>>

AccountPublisherStep(p) ==
  \/ Connect(p) \/ ClaimAccountEvents(p)
  \/ MarkAccountPublished(p) \/ MarkAccountFailed(p)
  \/ \E e \in AccountEvent : PublishAccountEvent(p, e)

AccountOutboxNext ==
  \/ \E e \in AccountEvent : Register(e) \/ AccountLockLapses(e)
  \/ \E p \in AccountPublisher :
       \/ AccountPublisherStep(p) \/ PublisherCloses(p) \/ ReleaseWorkerLocks(p)
       \/ AccountPublisherDies(p)
       \/ \E e \in AccountEvent : AccountConfirmLost(p, e)
=============================================================================
