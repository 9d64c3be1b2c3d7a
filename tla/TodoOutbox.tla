------------------------------ MODULE TodoOutbox ------------------------------
(***************************************************************************)
(* The outbox of Todo Service and its workers: rows that were written with  *)
(* a change are claimed in batches, published and marked.                   *)
(***************************************************************************)
EXTENDS Broker

CONSTANTS
  TodoPublisher,  \* worker processes
  NoPublisher,    \* locked_by IS NULL
  MaxFaults       \* bound: what fails, stops, is lost or is cleaned up

ASSUME OutboxAssumption == NoPublisher \notin TodoPublisher /\ MaxFaults \in Nat

VARIABLES
  todoRow,        \* rows of outbox_events
  todoPublisher,  \* what a worker is doing
  connected,      \* its channel is open
  faults

todoOutboxVars == <<todoRow, todoPublisher, connected>>

Resting == [at |-> "idle", batch |-> {}]
NoRow == [state |-> "none", holder |-> NoPublisher, fresh |-> FALSE]
Unlocked(row) == [row EXCEPT !.holder = NoPublisher, !.fresh = FALSE]
Fault == faults < MaxFaults /\ faults' = faults + 1

TodoOutboxTypeOK ==
  /\ todoRow \in [TodoEvent -> [state : {"none", "pending", "published", "deleted"},
                                holder : TodoPublisher \cup {NoPublisher},
                                fresh : BOOLEAN]]
  /\ todoPublisher \in
       [TodoPublisher ->
          [at : {"idle", "next"}, batch : SUBSET TodoEvent]
            \cup [at : {"mark", "fail"}, batch : SUBSET TodoEvent, event : TodoEvent]]
  /\ connected \in [TodoPublisher -> BOOLEAN]
  /\ faults \in 0..MaxFaults

TodoOutboxInit ==
  /\ todoRow = [e \in TodoEvent |-> NoRow]
  /\ todoPublisher = [p \in TodoPublisher |-> Resting]
  /\ connected = [p \in TodoPublisher |-> TRUE]
  /\ faults = 0

-----------------------------------------------------------------------------
\* The writer's INSERT, in the transaction of the change.
Append(e) ==
  /\ todoRow[e].state = "none"
  /\ todoRow' = [todoRow EXCEPT ![e].state = "pending"]
  /\ UNCHANGED <<todoPublisher, connected, faults, queue>>

\* The lock timeout passes; that the worker is still at it is a fault.
LockLapses(e) ==
  /\ todoRow[e].fresh
  /\ todoRow' = [todoRow EXCEPT ![e].fresh = FALSE]
  /\ LET w == todoPublisher[todoRow[e].holder]
     IN IF w.at # "idle" THEN Fault ELSE UNCHANGED faults
  /\ UNCHANGED <<todoPublisher, connected, queue>>

\* FOR UPDATE SKIP LOCKED, the whole batch.
ClaimPendingEvents(p) ==
  LET free == {e \in TodoEvent : todoRow[e].state = "pending" /\ ~todoRow[e].fresh}
  IN /\ todoPublisher[p].at = "idle" /\ free # {}
     /\ todoRow' = [e \in TodoEvent |->
                      IF e \in free THEN [todoRow[e] EXCEPT !.holder = p, !.fresh = TRUE]
                      ELSE todoRow[e]]
     /\ todoPublisher' = [todoPublisher EXCEPT ![p] = [at |-> "next", batch |-> free]]
     /\ UNCHANGED <<connected, faults, queue>>

Hold(p, e, position) ==
  todoPublisher' = [todoPublisher EXCEPT
    ![p] = [at |-> position, batch |-> todoPublisher[p].batch \ {e}, event |-> e]]

\* Mutant: published as soon as it is written to the channel.
PublishUnconfirmed(p, e) ==
  /\ todoPublisher[p].at = "next" /\ e \in todoPublisher[p].batch
  /\ queue' = IF connected[p] THEN Routed(queue, e, 0) ELSE queue
  /\ Hold(p, e, "mark")
  /\ UNCHANGED <<todoRow, connected, faults>>

\* publish and waitForConfirms; without a channel publish throws.
Publish(p, e) ==
  /\ todoPublisher[p].at = "next" /\ e \in todoPublisher[p].batch
  /\ queue' = IF connected[p] THEN Routed(queue, e, 0) ELSE queue
  /\ Hold(p, e, IF connected[p] THEN "mark" ELSE "fail")
  /\ UNCHANGED <<todoRow, connected, faults>>

\* The broker took the message, and its confirmation is lost.
ConfirmLost(p, e) ==
  /\ todoPublisher[p].at = "next" /\ e \in todoPublisher[p].batch /\ connected[p]
  /\ Fault
  /\ queue' = Routed(queue, e, 0)
  /\ Hold(p, e, "fail")
  /\ UNCHANGED <<todoRow, connected>>

\* On to the next of the batch, or the batch is done.
Advance(p) ==
  LET w == todoPublisher[p]
  IN todoPublisher' = [todoPublisher EXCEPT
       ![p] = IF w.batch = {} THEN Resting ELSE [at |-> "next", batch |-> w.batch]]

Owns(p, e) == todoRow[e].state = "pending" /\ todoRow[e].holder = p

MarkPublished(p) ==
  LET e == todoPublisher[p].event
  IN /\ todoPublisher[p].at = "mark"
     /\ IF Owns(p, e)
        THEN /\ todoRow' = [todoRow EXCEPT
                              ![e] = [Unlocked(todoRow[e]) EXCEPT !.state = "published"]]
             /\ Advance(p)
        ELSE /\ todoPublisher' = [todoPublisher EXCEPT ![p].at = "fail"]
             /\ UNCHANGED todoRow
     /\ UNCHANGED <<connected, faults, queue>>

\* A row that is no longer the worker's makes the batch end: its other rows
\* stay locked.
MarkFailed(p) ==
  LET e == todoPublisher[p].event
  IN /\ todoPublisher[p].at = "fail"
     /\ IF Owns(p, e)
        THEN todoRow' = [todoRow EXCEPT ![e] = Unlocked(todoRow[e])] /\ Advance(p)
        ELSE /\ todoPublisher' = [todoPublisher EXCEPT ![p] = Resting]
             /\ UNCHANGED todoRow
     /\ UNCHANGED <<connected, faults, queue>>

\* The broker closes the connection: the worker logs it and goes on polling
\* with the channel it has.
ConnectionCloses(p) ==
  /\ connected[p]
  /\ Fault
  /\ connected' = [connected EXCEPT ![p] = FALSE]
  /\ UNCHANGED <<todoRow, todoPublisher, queue>>

\* The process stops and is started again; its locks stay.
PublisherStops(p) ==
  /\ Fault
  /\ todoPublisher[p].at # "idle" \/ ~connected[p]
  /\ todoPublisher' = [todoPublisher EXCEPT ![p] = Resting]
  /\ connected' = [connected EXCEPT ![p] = TRUE]
  /\ UNCHANGED <<todoRow, queue>>

\* Published rows are deleted when they are old enough.
CleanUpRow(e) ==
  /\ todoRow[e].state = "published"
  /\ Fault
  /\ todoRow' = [todoRow EXCEPT ![e].state = "deleted"]
  /\ UNCHANGED <<todoPublisher, connected, queue>>

TodoPublisherStep(p) ==
  \/ ClaimPendingEvents(p) \/ MarkPublished(p) \/ MarkFailed(p)
  \/ \E e \in TodoEvent : Publish(p, e)

TodoOutboxNext ==
  \/ \E e \in TodoEvent : Append(e) \/ LockLapses(e) \/ CleanUpRow(e)
  \/ \E p \in TodoPublisher :
       \/ TodoPublisherStep(p) \/ ConnectionCloses(p) \/ PublisherStops(p)
       \/ \E e \in TodoEvent : ConfirmLost(p, e)
=============================================================================
