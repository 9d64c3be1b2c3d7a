---------------------------- MODULE Notification ----------------------------
(***************************************************************************)
(* The notification consumer: a delivery is claimed with a lease, sent under *)
(* the guard of its recipient, and marked; what fails is tried again by a    *)
(* message with the next attempt, or buried until an operator replays it.   *)
(* Every statement, publication and mail is an action.                      *)
(***************************************************************************)
EXTENDS Broker

CONSTANTS
  Mailer,       \* consumer processes
  Operator,     \* the replay command
  Nobody,
  MaxAttempts,  \* maxDeliveryAttempts
  Quota,        \* dailyAddressLimit
  MaxReplays    \* bound: replays

ASSUME NotificationAssumption ==
  /\ Operator \notin Mailer /\ Nobody \notin Mailer \cup {Operator}
  /\ MaxAttempts \in Nat \ {0} /\ Quota \in Nat /\ MaxReplays \in Nat

VARIABLES
  delivery,  \* notification_event_deliveries
  reserved,  \* notification_address_reservations of the last 24 hours
  guard,     \* who has the advisory lock of the recipient
  account,   \* the recipient's
  mailer,    \* what each consumer is doing
  replay,    \* what the operator is doing
  replays,
  mails,     \* how often the mail of an event went out
  adrift,    \* mails whose sending timed out and still goes on
  careless,  \* history: a consumer stopped, failed or was overtaken with a
             \* mail that may have gone out, or the delivery was cleaned up
  misdirected  \* history: a mail went out that was not timed out, and its
               \* account was being deleted

mailVars == <<delivery, reserved, guard, account, mailer, replay, replays, mails,
              adrift, careless, misdirected>>

\* Of an event that is "forgotten" there is no row any more.
Status == {"none", "forgotten", "processing", "retry_pending", "sent", "dead_letter_pending",
           "dead_letter", "replay_publishing", "replay_queued"}
Free == [at |-> "idle"]

NotificationTypeOK ==
  /\ delivery \in [TodoEvent -> [status : Status, attempts : 0..MaxAttempts,
                                 holder : Mailer \cup {Operator, Nobody},
                                 fresh : BOOLEAN]]
  /\ reserved \subseteq TodoEvent
  /\ guard \in Mailer \cup {Nobody}
  /\ account \in {"active", "deleting"}
  /\ mailer \in [Mailer -> {Free} \cup
       [at : {"guard", "smtp", "mark", "fail", "bury", "dead", "retry", "again"},
        msg : [event : TodoEvent, n : 1..MaxAttempts], final : BOOLEAN]]
  /\ replay \in {Free} \cup [at : {"publish", "mark"}, msg : [event : TodoEvent, n : Nat]]
  /\ replays \in 0..MaxReplays
  /\ mails \in [TodoEvent -> Nat] /\ adrift \subseteq TodoEvent
  /\ careless \subseteq TodoEvent /\ misdirected \in BOOLEAN

NotificationInit ==
  /\ delivery = [e \in TodoEvent |-> [status |-> "none", attempts |-> 0,
                                      holder |-> Nobody, fresh |-> FALSE]]
  /\ reserved = {} /\ guard = Nobody /\ account = "active"
  /\ mailer = [c \in Mailer |-> Free]
  /\ replay = Free /\ replays = 0
  /\ mails = [e \in TodoEvent |-> 0]
  /\ adrift = {} /\ careless = {} /\ misdirected = FALSE

At(c, position) == mailer[c].at = position
Goto(c, position) == mailer' = [mailer EXCEPT ![c].at = position]
EventOf(c) == mailer[c].msg.event
\* The token of the claim is still the one in the row.
Claims(c) == delivery[EventOf(c)].status = "processing" /\ delivery[EventOf(c)].holder = c

-----------------------------------------------------------------------------
(* A message *)

\* Mutant: a lease is no obstacle.
ClaimableUnleased(row, n) ==
  \/ row.status \in {"none", "forgotten"}
  \/ row.status = "retry_pending" /\ row.attempts + 1 = n
  \/ row.status = "processing" /\ row.attempts = n
  \/ row.status \in {"replay_queued", "replay_publishing"} /\ n = 1

\* A first attempt, the next one after a failure, one whose lease has lapsed, or
\* the first one after a replay.
Claimable(row, n) ==
  \/ row.status \in {"none", "forgotten"}
  \/ row.status = "retry_pending" /\ row.attempts + 1 = n
  \/ row.status = "processing" /\ row.attempts = n /\ ~row.fresh
  \/ row.status \in {"replay_queued", "replay_publishing"} /\ n = 1

\* Mutant: a delivery that is being handled needs no other message.
DeliverUnlessHeld(c, m) ==
  /\ At(c, "idle") /\ m \in BagToSet(queue["mail"])
  /\ queue' = Without(queue, "mail", m)
  /\ IF Claimable(delivery[m.event], m.n)
     THEN /\ delivery' = [delivery EXCEPT ![m.event] =
                            [status |-> "processing", attempts |-> m.n,
                             holder |-> c, fresh |-> TRUE]]
          /\ mailer' = [mailer EXCEPT ![c] = [at |-> "guard", msg |-> m, final |-> FALSE]]
     ELSE UNCHANGED <<delivery, mailer>>
  /\ UNCHANGED <<reserved, guard, account, replay, replays, mails, adrift,
                 careless, misdirected>>

\* claim, and what the handler does with its answer
Deliver(c, m) ==
  LET row == delivery[m.event]
      take(position) ==
        mailer' = [mailer EXCEPT ![c] = [at |-> position, msg |-> m, final |-> FALSE]]
  IN /\ At(c, "idle")
     /\ m \in BagToSet(queue["mail"])
     /\ queue' = Without(queue, "mail", m)
     /\ IF Claimable(row, m.n)
        THEN /\ delivery' = [delivery EXCEPT ![m.event] =
                               [status |-> "processing", attempts |-> m.n,
                                holder |-> c, fresh |-> TRUE]]
             /\ take("guard")
        ELSE /\ UNCHANGED delivery
             /\ IF row.status \in {"sent", "dead_letter"} \/ row.attempts # m.n
                THEN UNCHANGED mailer
                ELSE take(CASE row.status = "retry_pending" -> "retry"
                            [] row.status = "dead_letter_pending" -> "bury"
                            [] OTHER -> "again")
     /\ UNCHANGED <<reserved, guard, account, replay, replays, mails, adrift,
                    careless, misdirected>>

\* Mutant: the address is read, and the guard given up, before the mail goes out.
EnterGuardUnheld(c) ==
  /\ At(c, "guard") /\ guard = Nobody
  /\ IF account = "deleting" THEN Goto(c, "mark") /\ UNCHANGED reserved
     ELSE Goto(c, "smtp") /\ reserved' = reserved \cup {EventOf(c)}
  /\ UNCHANGED <<delivery, guard, account, replay, replays, mails, adrift, careless,
                 misdirected, queue>>

\* withRecipientGuard, findEmail and reserveAddress: no mail is due to an
\* account that is being deleted, and none beyond the quota, which a retry does
\* not use again.
EnterGuard(c) ==
  LET e == EventOf(c)
  IN /\ At(c, "guard") /\ guard = Nobody
     /\ CASE account = "deleting" -> Goto(c, "mark") /\ UNCHANGED <<reserved, guard>>
          [] account = "active" /\ e \notin reserved /\ Cardinality(reserved) >= Quota ->
               /\ mailer' = [mailer EXCEPT ![c].at = "fail", ![c].final = TRUE]
               /\ UNCHANGED <<reserved, guard>>
          [] OTHER -> /\ Goto(c, "smtp")
                      /\ reserved' = reserved \cup {e}
                      /\ guard' = c
     /\ UNCHANGED <<delivery, account, replay, replays, mails, adrift, careless,
                    misdirected, queue>>

\* The mail is accepted, and the guard given up.
SendMail(c) ==
  /\ At(c, "smtp")
  /\ mails' = [mails EXCEPT ![EventOf(c)] = @ + 1]
  /\ misdirected' = (misdirected \/ account = "deleting")
  /\ guard' = IF guard = c THEN Nobody ELSE guard
  /\ Goto(c, "mark")
  /\ UNCHANGED <<delivery, reserved, account, replay, replays, adrift, careless, queue>>

MarkSent(c) ==
  /\ At(c, "mark")
  /\ IF Claims(c)
     THEN /\ delivery' = [delivery EXCEPT ![EventOf(c)].status = "sent",
                                         ![EventOf(c)].holder = Nobody,
                                         ![EventOf(c)].fresh = FALSE]
          /\ mailer' = [mailer EXCEPT ![c] = Free]
     ELSE Goto(c, "fail") /\ UNCHANGED delivery
  /\ UNCHANGED <<reserved, guard, account, replay, replays, mails, adrift, careless,
                 misdirected, queue>>

\* nack with requeue
Requeued(c) == With(queue, {"mail"}, mailer[c].msg)

\* markFailed; of a delivery that is no longer the consumer's it throws.
MarkDeliveryFailed(c) ==
  LET e == EventOf(c)
      last == mailer[c].final \/ mailer[c].msg.n = MaxAttempts
  IN /\ At(c, "fail")
     /\ IF Claims(c)
        THEN /\ delivery' = [delivery EXCEPT
                   ![e].status = IF last THEN "dead_letter_pending" ELSE "retry_pending",
                   ![e].holder = Nobody, ![e].fresh = FALSE]
             /\ Goto(c, IF last THEN "bury" ELSE "retry")
             /\ UNCHANGED queue
        ELSE /\ queue' = Requeued(c)
             /\ mailer' = [mailer EXCEPT ![c] = Free]
             /\ UNCHANGED delivery
     /\ UNCHANGED <<reserved, guard, account, replay, replays, mails, adrift, careless,
                    misdirected>>

\* scheduleRetry: the next attempt, or the same one when another consumer is
\* at it.
ScheduleRetry(c) ==
  LET m == mailer[c].msg
  IN /\ mailer[c].at \in {"retry", "again"}
     /\ queue' = With(queue, {"mailRetry"},
                      Message(m.event, IF At(c, "again") THEN m.n ELSE m.n + 1))
     /\ mailer' = [mailer EXCEPT ![c] = Free]
     /\ UNCHANGED <<delivery, reserved, guard, account, replay, replays, mails, adrift,
                    careless, misdirected>>

\* finishDeadLetter: publish to the dead-letter queue, then mark.
Bury(c) ==
  /\ At(c, "bury")
  /\ queue' = With(queue, {"mailDead"}, Message(EventOf(c), MaxAttempts))
  /\ Goto(c, "dead")
  /\ UNCHANGED <<delivery, reserved, guard, account, replay, replays, mails, adrift,
                 careless, misdirected>>

MarkDeadLetter(c) ==
  /\ At(c, "dead")
  /\ IF delivery[EventOf(c)].status = "dead_letter_pending"
     THEN /\ delivery' = [delivery EXCEPT ![EventOf(c)].status = "dead_letter"]
          /\ UNCHANGED queue
     ELSE queue' = Requeued(c) /\ UNCHANGED delivery
  /\ mailer' = [mailer EXCEPT ![c] = Free]
  /\ UNCHANGED <<reserved, guard, account, replay, replays, mails, adrift, careless,
                 misdirected>>

-----------------------------------------------------------------------------
(* Around it *)

\* The 300 seconds are over.
LeaseLapses(e) ==
  /\ delivery[e].fresh
  /\ delivery' = [delivery EXCEPT ![e].fresh = FALSE]
  /\ careless' = IF delivery[e].holder \in Mailer THEN careless \cup {e} ELSE careless
  /\ UNCHANGED <<reserved, guard, account, mailer, replay, replays, mails, adrift,
                 misdirected, queue>>

\* The deletion request takes the same advisory lock.
RequestDeletion ==
  /\ account = "active" /\ guard = Nobody
  /\ account' = "deleting"
  /\ UNCHANGED <<delivery, reserved, guard, mailer, replay, replays, mails, adrift,
                 careless, misdirected, queue>>

\* The mail server refuses, or a call fails before or after it.
SendFails(c) ==
  /\ mailer[c].at \in {"guard", "smtp", "mark"}
  /\ careless' = IF At(c, "mark") THEN careless \cup {EventOf(c)} ELSE careless
  /\ guard' = IF guard = c THEN Nobody ELSE guard
  /\ Goto(c, "fail")
  /\ UNCHANGED <<delivery, reserved, account, replay, replays, mails, adrift,
                 misdirected, queue>>

\* withTimeout gives up; the operation goes on.
SendTimesOut(c) ==
  /\ At(c, "smtp")
  /\ adrift' = adrift \cup {EventOf(c)}
  /\ careless' = careless \cup {EventOf(c)}
  /\ guard' = Nobody
  /\ Goto(c, "fail")
  /\ UNCHANGED <<delivery, reserved, account, replay, replays, mails, misdirected, queue>>

LateMail(e) ==
  /\ e \in adrift
  /\ adrift' = adrift \ {e}
  /\ mails' = [mails EXCEPT ![e] = @ + 1]
  /\ UNCHANGED <<delivery, reserved, guard, account, mailer, replay, replays, careless,
                 misdirected, queue>>

\* The process stops: the broker has the message again, the database frees the
\* guard, and nobody has the token.
MailerStops(c) ==
  LET e == EventOf(c)
  IN /\ ~At(c, "idle")
     /\ queue' = Requeued(c)
     /\ mailer' = [mailer EXCEPT ![c] = Free]
     /\ guard' = IF guard = c THEN Nobody ELSE guard
     /\ delivery' = IF Claims(c) THEN [delivery EXCEPT ![e].holder = Nobody] ELSE delivery
     /\ careless' = IF mailer[c].at \in {"mark", "fail"} THEN careless \cup {e} ELSE careless
     /\ UNCHANGED <<reserved, account, replay, replays, mails, adrift, misdirected>>

\* The retention deletes what came to its end.
CleanUpDelivery(e) ==
  /\ delivery[e].status \in {"sent", "dead_letter"}
  /\ delivery' = [delivery EXCEPT ![e].status = "forgotten"]
  /\ careless' = careless \cup {e}
  /\ UNCHANGED <<reserved, guard, account, mailer, replay, replays, mails, adrift,
                 misdirected, queue>>

-----------------------------------------------------------------------------
(* operateDlq for the notifications: the message stays unacknowledged in the *)
(* dead-letter queue until the end.                                          *)

ReplayReset(m) ==
  LET row == delivery[m.event]
      known == row.status \in {"sent", "replay_queued"}
  IN /\ replay.at = "idle" /\ replays < MaxReplays
     /\ m \in BagToSet(queue["mailDead"])
     /\ replays' = replays + 1
     /\ \/ /\ \/ row.status = "dead_letter"
              \/ row.status = "replay_publishing" /\ ~row.fresh
           /\ delivery' = [delivery EXCEPT ![m.event] =
                             [status |-> "replay_publishing", attempts |-> 1,
                              holder |-> Operator, fresh |-> TRUE]]
           /\ replay' = [at |-> "publish", msg |-> m]
           /\ UNCHANGED queue
        \/ /\ known
           /\ queue' = Without(queue, "mailDead", m)
           /\ UNCHANGED <<delivery, replay>>
     /\ UNCHANGED <<reserved, guard, account, mailer, mails, adrift, careless,
                    misdirected>>

ReplayPublish ==
  /\ replay.at = "publish"
  /\ queue' = With(queue, {"mail"}, Message(replay.msg.event, 1))
  /\ replay' = [replay EXCEPT !.at = "mark"]
  /\ UNCHANGED <<delivery, reserved, guard, account, mailer, replays, mails, adrift,
                 careless, misdirected>>

\* markReplayQueued, or the consumer was faster; then the acknowledgement, but
\* for a delivery that was cleaned up meanwhile.
ReplayMark ==
  LET e == replay.msg.event
  IN /\ replay.at = "mark"
     /\ delivery' = IF delivery[e].status = "replay_publishing"
                    THEN [delivery EXCEPT ![e].status = "replay_queued", ![e].fresh = FALSE,
                                          ![e].holder = Nobody]
                    ELSE delivery
     /\ queue' = IF delivery[e].status = "forgotten" THEN queue
                 ELSE Without(queue, "mailDead", replay.msg)
     /\ replay' = Free
     /\ UNCHANGED <<reserved, guard, account, mailer, replays, mails, adrift, careless,
                    misdirected>>

ReplayStops ==
  /\ replay.at # "idle"
  /\ replay' = Free
  /\ delivery' = IF delivery[replay.msg.event].holder = Operator
                 THEN [delivery EXCEPT ![replay.msg.event].holder = Nobody] ELSE delivery
  /\ UNCHANGED <<reserved, guard, account, mailer, replays, mails, adrift, careless,
                 misdirected, queue>>

MailerStep(c) ==
  \/ EnterGuard(c) \/ SendMail(c) \/ MarkSent(c) \/ MarkDeliveryFailed(c)
  \/ ScheduleRetry(c) \/ Bury(c) \/ MarkDeadLetter(c)
  \/ \E m \in BagToSet(queue["mail"]) : Deliver(c, m)

ReplayStep ==
  \/ ReplayPublish \/ ReplayMark
  \/ \E m \in BagToSet(queue["mailDead"]) : ReplayReset(m)
=============================================================================
