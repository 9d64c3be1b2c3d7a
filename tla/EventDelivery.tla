---------------------------- MODULE EventDelivery ----------------------------
(***************************************************************************)
(* The delivery of events from end to end: the two outboxes, the queues of   *)
(* the broker, the consumers of history and owner projection, and the       *)
(* notification consumer with the replay command.  All faults share one     *)
(* bound.                                                                    *)
(***************************************************************************)
EXTENDS AccountOutbox, TodoHistory, Notification

others == <<historyVars, mailVars>>
vars == <<queue, faults, todoOutboxVars, accountOutboxVars, historyVars, mailVars>>

DeliveryTypeOK ==
  /\ BrokerTypeOK /\ TodoOutboxTypeOK /\ AccountOutboxTypeOK
  /\ HistoryTypeOK /\ NotificationTypeOK

DeliveryInit ==
  BrokerInit /\ TodoOutboxInit /\ AccountOutboxInit /\ HistoryInit /\ NotificationInit

ConsumerNext ==
  \/ UNCHANGED faults /\ \E p \in Arrival : \E m \in HeldBy(p) : AppendHistory(p, m)
  \/ UNCHANGED faults /\ \E m \in HeldBy("owner") : ApplyOwnerEvent(m)
  \* an event that is not fit fails for no other reason
  \/ \E p \in Arrival : \E m \in HeldBy(p) :
       AppendFails(p, m) /\ IF m.event \in Unfit THEN UNCHANGED faults ELSE Fault
  \/ \E m \in HeldBy("owner") :
       OwnerEventFails(m) /\ IF m.event \in Unfit THEN UNCHANGED faults ELSE Fault
  \/ Fault /\ \E p \in Arrival : \E m \in HeldBy(p) :
                 AppendUnacked(p, m) \/ RetryUnacked(p, m)
  \/ Fault /\ \E m \in HeldBy("owner") : OwnerRetryUnacked(m)

MailNext ==
  \/ UNCHANGED faults /\ ((\E c \in Mailer : MailerStep(c)) \/ ReplayStep)
  \/ UNCHANGED faults /\ RequestDeletion
  \/ UNCHANGED faults /\ \E e \in TodoEvent : LateMail(e)
  \/ \E e \in TodoEvent :
       LeaseLapses(e) /\ IF delivery[e].holder = Nobody THEN UNCHANGED faults ELSE Fault
  \/ Fault /\ \E c \in Mailer : SendFails(c) \/ SendTimesOut(c) \/ MailerStops(c)
  \/ Fault /\ ReplayStops
  \/ Fault /\ \E e \in TodoEvent : CleanUpDelivery(e)

Replayed ==
  /\ replays < MaxReplays /\ replays' = replays + 1
  /\ UNCHANGED <<faults, todoOutboxVars, accountOutboxVars>>
  /\ UNCHANGED <<delivery, reserved, guard, account, mailer, replay, mails, adrift,
                 careless, misdirected>>

\* The replay command for history takes a published event from the outbox to the
\* queue itself; what the history holds it has read before.
ReplayEvent(e) ==
  /\ todoRow[e].state = "published"
  /\ queue' = With(queue, {"historySent"}, Message(e, 0))
  /\ UNCHANGED historyVars

\* So does the one for the owner projection; the receipts it has read, too, may
\* be out of date.
ReplayOwnerEvent(e) ==
  /\ accountRow[e].state = "published"
  /\ queue' = With(queue, {"owner"}, Message(e, 0))
  /\ UNCHANGED historyVars

DeliveryNext ==
  \/ TodoOutboxNext /\ UNCHANGED <<accountOutboxVars, others>>
  \/ AccountOutboxNext /\ UNCHANGED <<todoOutboxVars, others>>
  \/ RetryDue /\ UNCHANGED <<faults, todoOutboxVars, accountOutboxVars, others>>
  \/ ConsumerNext /\ UNCHANGED <<todoOutboxVars, accountOutboxVars, mailVars>>
  \/ MailNext /\ UNCHANGED <<todoOutboxVars, accountOutboxVars, historyVars>>
  \/ Replayed /\ \/ \E dead \in Place : ReplayDead(dead)
                 \/ \E e \in TodoEvent : ReplayEvent(e)
                 \/ \E e \in AccountEvent : ReplayOwnerEvent(e)

DeliverySpec == DeliveryInit /\ [][DeliveryNext]_vars

-----------------------------------------------------------------------------
Waits(e, places) == \E p \in places : \E m \in HeldBy(p) : m.event = e

\* An event that was committed with its change is in the outbox until the
\* broker has it, then in a queue, an error queue or the place it is meant for:
\* no stop, lost confirmation, expired lock or failure loses it.  The exception
\* is a message that an operator sent to the history's queue itself: its retry
\* comes back under a key that nothing is bound to, and the broker drops it.
HistoryWaits == {"history", "historySent", "historyRetry", "historyRetrySent",
                 "historyDead"}

NothingLost ==
  /\ \A e \in TodoEvent : todoRow[e].state \in {"published", "deleted"} =>
       /\ \/ e \in history
          \/ Waits(e, HistoryWaits)
          \/ replays > 0 /\ Waits(e, {"dropped"})
       /\ delivery[e].status # "none" \/ Waits(e, {"mail", "mailRetry"})
  /\ \A e \in AccountEvent : accountRow[e].state = "published" =>
       e \in applied \/ Waits(e, {"owner", "ownerRetry", "ownerDead"})

\* A retry of the owner consumer comes back from two queues.
Growth(e) == IF e \in TodoEvent THEN 1 ELSE 2

\* What messages become that are all retried to the end, when counts[n] of them
\* have been retried n times.
Becoming(growth, counts) ==
  LET after[n \in 0..MaxRetries] ==
        counts[n] + IF n = 0 THEN 0 ELSE growth * after[n - 1]
  IN after[MaxRetries]

\* By retries, the messages of an event that may be retried, and dead letters.
Count(q, p, m) == IF m \in DOMAIN q[p] THEN q[p][m] ELSE 0
Alive(q, e) ==
  [n \in 0..MaxRetries |->
     LET in(p) == Count(q, p, Message(e, n))
     IN in("history") + in("historySent") + in("historyRetry")
          + in("historyRetrySent") + in("owner") + in("ownerRetry")]
Dead(q, e) ==
  [n \in 0..MaxRetries |->
     Count(q, "historyDead", Message(e, n)) + Count(q, "ownerDead", Message(e, n))]
Copies(q, e) == Becoming(Growth(e), Alive(q, e)) + Becoming(1, Dead(q, e))

\* What one message becomes: 2^MaxRetries for an event of the owner consumer.
Allowance(e) == Becoming(Growth(e), [n \in 0..MaxRetries |-> IF n = 0 THEN 1 ELSE 0])

\* Retries come to an end: no message is retried beyond the last, and the copies
\* of an event, with all they may become, are no more than those of one
\* publication, and as many again for a fault or a replay (retryOrDeadLetter).
RetriesBounded ==
  /\ \A p \in HistoryWaits \cup {"owner", "ownerRetry", "ownerDead"} :
       \A m \in HeldBy(p) : m.n <= MaxRetries
  /\ \A e \in Event : Copies(queue, e) <= (1 + faults + replays) * Allowance(e)

\* A message of attempt n is in the queue, waits for its time or is being
\* handled.
Driven(e, n) ==
  \/ \E p \in {"mail", "mailRetry"} : Message(e, n) \in HeldBy(p)
  \/ \E c \in Mailer : ~At(c, "idle") /\ mailer[c].msg = Message(e, n)

\* Every delivery that has not come to its end has a message that will take it
\* on, one that was given up is in the dead-letter queue, and none counts as
\* sent that never was, but for the deletion of the account.  The dead letter
\* is sure with one replay only.  With two, a consumer that was overtaken
\* between its publication to the dead-letter queue and the mark that follows
\* may mark the failure of a later cycle (markDeadLetter asks for the status
\* only), and the consumer of that cycle, should it stop now, leaves a dead
\* letter without a message.
MailDriven ==
  \A e \in TodoEvent :
    LET row == delivery[e]
    IN CASE row.status \in {"processing", "dead_letter_pending"} -> Driven(e, row.attempts)
         [] row.status = "retry_pending" ->
              Driven(e, row.attempts) \/ Driven(e, row.attempts + 1)
         [] row.status = "replay_queued" -> Driven(e, 1)
         [] row.status \in {"dead_letter", "replay_publishing"} ->
              replays <= 1 => Waits(e, {"mailDead"})
         [] row.status = "sent" -> mails[e] > 0 \/ account = "deleting"
         [] OTHER -> TRUE

\* A mail goes out twice only if a consumer stopped, failed or was overtaken
\* while it may have gone out.
OneMail == \A e \in TodoEvent : mails[e] > 1 => e \in careless

\* No mail that was not given up goes to an account that is being deleted.
NoMailToDeleted == ~misdirected

-----------------------------------------------------------------------------
\* A worker of the TODO outbox that has work gets on with it, and its locks
\* expire.
FairDelivery ==
  /\ DeliverySpec
  /\ \A p \in TodoPublisher :
       WF_vars(TodoPublisherStep(p) /\ UNCHANGED <<accountOutboxVars, others>>)
  /\ \A e \in TodoEvent :
       WF_vars(LockLapses(e) /\ UNCHANGED <<accountOutboxVars, others>>)

\* "Outbox publishers retry committed rows after the broker returns"
\* (docs/operations.md): every committed row is published.
CommittedPublished ==
  \A e \in TodoEvent : todoRow[e].state = "pending" ~> todoRow[e].state = "published"
=============================================================================
