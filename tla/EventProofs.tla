------------------------------ MODULE EventProofs ------------------------------
(***************************************************************************)
(* Proofs about EventDelivery, for any number of events, workers, consumers, *)
(* attempts, faults and replays.                                            *)
(***************************************************************************)
EXTENDS EventDelivery, TLAPS, FiniteSetTheorems, WellFoundedInduction

(***************************************************************************)
(* The queues.  Every statement about them follows from what With, Without  *)
(* and Routed do to the messages they hold.                                 *)
(***************************************************************************)
MailPlace == {"mail", "mailRetry", "mailDead"}
MailMessage == [event : TodoEvent, n : 1..MaxAttempts]

\* The queues that hold TODO events only.
HistoryQueue == {"history", "historySent", "historyRetrySent", "historyDead", "dropped"}

\* The messages that get to a queue.
Meant(p) ==
  CASE p \in MailPlace -> MailMessage
    [] p \in HistoryQueue -> [event : TodoEvent, n : Nat]
    [] p \in {"owner", "ownerRetry", "ownerDead"} -> [event : AccountEvent, n : Nat]
    [] OTHER -> [event : Event, n : Nat]

\* The queues are bags of the messages that are meant for them.
Fits(q) ==
  /\ DOMAIN q = Place
  /\ \A p \in Place : IsABag(q[p]) /\ BagToSet(q[p]) \subseteq Meant(p)

Holds(q, p) == BagToSet(q[p])
\* No message is gone.
Grows(q, r) == \A p \in Place : Holds(q, p) \subseteq Holds(r, p)

LEMMA MeantAreMessages ==
  ASSUME NEW p PROVE Meant(p) \subseteq [event : Event, n : Nat]
<1>1. 1..MaxAttempts \subseteq Nat
  BY NotificationAssumption
<1> QED BY <1>1 DEF Meant, MailMessage, Event, HistoryQueue

LEMMA OneMore ==
  ASSUME NEW B, NEW x, IsABag(B)
  PROVE  /\ IsABag(B (+) SetToBag({x}))
         /\ BagToSet(B (+) SetToBag({x})) = BagToSet(B) \cup {x}
  BY DEF IsABag, BagToSet, SetToBag, (+)

LEMMA OneLess ==
  ASSUME NEW B, NEW x, IsABag(B)
  PROVE  /\ IsABag(B (-) SetToBag({x}))
         /\ BagToSet(B (-) SetToBag({x})) \subseteq BagToSet(B)
         /\ BagToSet(B) \subseteq BagToSet(B (-) SetToBag({x})) \cup {x}
<1> DEFINE R == B (-) SetToBag({x})
<1>1. \A y \in DOMAIN B : B[y] \in Nat /\ B[y] > 0
  BY DEF IsABag
<1>2. /\ DOMAIN R = {y \in DOMAIN B : IF y = x THEN B[y] - 1 > 0 ELSE B[y] > 0}
      /\ \A y \in DOMAIN R : R[y] = IF y = x THEN B[y] - 1 ELSE B[y]
  BY DEF SetToBag, (-)
<1>3. R = [y \in DOMAIN R |-> R[y]]
  BY DEF (-)
<1> HIDE DEF R
<1>4. \A y \in DOMAIN R : R[y] \in {n \in Nat : n > 0}
  BY <1>1, <1>2
<1>5. IsABag(R)
  BY <1>3, <1>4 DEF IsABag
<1>6. DOMAIN R \subseteq DOMAIN B /\ DOMAIN B \subseteq DOMAIN R \cup {x}
  BY <1>1, <1>2
<1> QED BY <1>5, <1>6 DEF R, BagToSet

LEMMA WithHolds ==
  ASSUME NEW q, Fits(q), NEW P, NEW m, NEW p \in Place
  PROVE  Holds(With(q, P, m), p) = IF p \in P THEN Holds(q, p) \cup {m} ELSE Holds(q, p)
  BY OneMore DEF With, Holds, Fits

LEMMA WithFits ==
  ASSUME NEW q, Fits(q), NEW P, NEW m, \A p \in P \cap Place : m \in Meant(p)
  PROVE  Fits(With(q, P, m)) /\ Grows(q, With(q, P, m))
<1>1. \A p \in Place : Holds(With(q, P, m), p) =
                         IF p \in P THEN Holds(q, p) \cup {m} ELSE Holds(q, p)
  BY WithHolds
<1>2. \A p \in Place : IsABag(With(q, P, m)[p])
  BY OneMore DEF With, Fits
<1>3. DOMAIN With(q, P, m) = Place
  BY DEF With
<1>4. \A p \in Place : Holds(With(q, P, m), p) \subseteq Meant(p)
  BY <1>1 DEF Fits, Holds
<1>5. Grows(q, With(q, P, m))
  BY <1>1 DEF Grows
<1> QED BY <1>2, <1>3, <1>4, <1>5 DEF Fits, Holds

LEMMA WithoutHolds ==
  ASSUME NEW q, Fits(q), NEW p \in Place, NEW m, NEW r \in Place
  PROVE  /\ r # p => Holds(Without(q, p, m), r) = Holds(q, r)
         /\ Holds(Without(q, p, m), r) \subseteq Holds(q, r)
         /\ Holds(q, r) \subseteq Holds(Without(q, p, m), r) \cup {m}
<1>1. Without(q, p, m)[r] = IF r = p THEN q[p] (-) SetToBag({m}) ELSE q[r]
  BY DEF Without, Fits
<1> QED BY <1>1, OneLess DEF Holds, Fits

LEMMA WithoutFits ==
  ASSUME NEW q, Fits(q), NEW p \in Place, NEW m
  PROVE  Fits(Without(q, p, m))
<1>1. DOMAIN Without(q, p, m) = Place
  BY DEF Without, Fits
<1>2. \A r \in Place : IsABag(Without(q, p, m)[r])
  <2> TAKE r \in Place
  <2>1. Without(q, p, m)[r] = IF r = p THEN q[p] (-) SetToBag({m}) ELSE q[r]
    BY DEF Without, Fits
  <2>2. IsABag(q[p]) /\ IsABag(q[r])
    BY DEF Fits
  <2>3. IsABag(q[p] (-) SetToBag({m}))
    BY <2>2, OneLess
  <2> QED BY <2>1, <2>2, <2>3
<1>3. \A r \in Place : Holds(Without(q, p, m), r) \subseteq Holds(q, r)
  BY WithoutHolds
<1> QED BY <1>1, <1>2, <1>3 DEF Fits, Holds

LEMMA RoutedFits ==
  ASSUME NEW q, Fits(q), NEW e \in Event, NEW n \in Nat
  PROVE  /\ Fits(Routed(q, e, n)) /\ Grows(q, Routed(q, e, n))
         /\ e \in TodoEvent => /\ Message(e, n) \in Holds(Routed(q, e, n), "history")
                               /\ Message(e, 1) \in Holds(Routed(q, e, n), "mail")
         /\ e \notin TodoEvent => Message(e, n) \in Holds(Routed(q, e, n), "owner")
<1> DEFINE P == BoundTo(e) \ {"mail"}
           Q == BoundTo(e) \cap {"mail"}
           r == With(q, P, Message(e, n))
<1>1. \A p \in P \cap Place : Message(e, n) \in Meant(p)
  BY DEF BoundTo, Meant, MailPlace, HistoryQueue, Message, Event
<1>3. Fits(r) /\ Grows(q, r)
  <2> HIDE DEF P
  <2> QED BY <1>1, WithFits
<1>4. \A p \in Q \cap Place : Message(e, 1) \in Meant(p)
  BY NotificationAssumption DEF BoundTo, Meant, MailPlace, HistoryQueue, MailMessage,
                                Message
<1>5. Routed(q, e, n) = With(r, Q, Message(e, 1))
  BY DEF Routed
<1>6. "history" \in Place /\ "mail" \in Place /\ "owner" \in Place
  BY DEF Place
<1>7. /\ e \in TodoEvent => "history" \in P /\ "mail" \in Q /\ "history" \notin Q
      /\ e \notin TodoEvent => "owner" \in P
  BY DEF BoundTo
<1>8. Fits(With(r, Q, Message(e, 1))) /\ Grows(r, With(r, Q, Message(e, 1)))
  <2> HIDE DEF P, Q, r
  <2> QED BY <1>3, <1>4, WithFits
<1>9. /\ e \in TodoEvent => /\ Message(e, n) \in Holds(r, "history")
                            /\ Message(e, 1) \in Holds(With(r, Q, Message(e, 1)), "mail")
      /\ e \notin TodoEvent => Message(e, n) \in Holds(r, "owner")
  <2> HIDE DEF P, Q
  <2>1. /\ e \in TodoEvent => Message(e, n) \in Holds(r, "history")
        /\ e \notin TodoEvent => Message(e, n) \in Holds(r, "owner")
    BY <1>6, <1>7, WithHolds
  <2> HIDE DEF r
  <2>2. e \in TodoEvent => Message(e, 1) \in Holds(With(r, Q, Message(e, 1)), "mail")
    BY <1>3, <1>6, <1>7, WithHolds
  <2> QED BY <2>1, <2>2
<1> HIDE DEF P, Q, r
<1> QED BY <1>3, <1>5, <1>6, <1>8, <1>9 DEF Grows

(***************************************************************************)
(* Types.                                                                  *)
(***************************************************************************)
Sending == {"guard", "smtp", "mark", "fail"}

\* An attempt never counts beyond the last: what is to be tried again has an
\* attempt left, and the row of a claim has the number of its message.
AttemptInv ==
  /\ \A c \in Mailer : At(c, "retry") => mailer[c].msg.n < MaxAttempts
  /\ \A e \in TodoEvent :
       delivery[e].status = "retry_pending" => delivery[e].attempts < MaxAttempts
  /\ \A c \in Mailer :
       mailer[c].at \in Sending /\ Claims(c) =>
         delivery[EventOf(c)].attempts = mailer[c].msg.n

TypeInv == DeliveryTypeOK /\ Fits(queue) /\ AttemptInv

LEMMA FitsTypes == ASSUME Fits(queue) PROVE BrokerTypeOK
  BY MeantAreMessages DEF Fits, BrokerTypeOK

LEMMA InitTypes == ASSUME DeliveryInit PROVE TypeInv
<1>1. \A p \in Place : queue[p] = EmptyBag
  BY DEF DeliveryInit, BrokerInit
<1>2. DOMAIN queue = Place
  BY DEF DeliveryInit, BrokerInit
<1>3. IsABag(EmptyBag) /\ BagToSet(EmptyBag) = {}
  BY DEF IsABag, EmptyBag, SetToBag, BagToSet
<1>4. Fits(queue)
  BY <1>1, <1>2, <1>3 DEF Fits, MailPlace, Place, RetryPlace
<1>5. TodoOutboxTypeOK
  BY OutboxAssumption
     DEF DeliveryInit, TodoOutboxInit, TodoOutboxTypeOK, NoRow, Resting
<1>6. AccountOutboxTypeOK
  BY OutboxAssumption
     DEF DeliveryInit, AccountOutboxInit, AccountOutboxTypeOK, NoRow, Resting
<1>7. NotificationTypeOK
  <2>1. 0 \in 0..MaxAttempts /\ 0 \in 0..MaxReplays
    BY NotificationAssumption
  <2>2. "none" \in Status
    BY DEF Status
  <2>3. delivery \in [TodoEvent -> [status : Status, attempts : 0..MaxAttempts,
                                   holder : Mailer \cup {Operator, Nobody},
                                   fresh : BOOLEAN]]
    BY <2>1, <2>2 DEF DeliveryInit, NotificationInit
  <2> QED BY <2>1, <2>3 DEF DeliveryInit, NotificationInit, NotificationTypeOK
<1>8. AttemptInv
  BY DEF DeliveryInit, NotificationInit, AttemptInv, At, Free, Sending
<1> QED BY <1>4, <1>5, <1>6, <1>7, <1>8, FitsTypes
        DEF TypeInv, DeliveryTypeOK, DeliveryInit, HistoryInit, HistoryTypeOK

LEMMA FaultType == ASSUME faults \in 0..MaxFaults, Fault PROVE faults' \in 0..MaxFaults
  BY OutboxAssumption DEF Fault

LEMMA RoutedTodo ==
  ASSUME Fits(queue), NEW e \in TodoEvent, queue' = Routed(queue, e, 0)
  PROVE  Fits(queue')
  BY RoutedFits DEF Event

LEMMA TodoOutboxTypes ==
  ASSUME TodoOutboxTypeOK, Fits(queue), TodoOutboxNext
  PROVE  TodoOutboxTypeOK' /\ Fits(queue')
<1> DEFINE Row == [state : {"none", "pending", "published", "deleted"},
                   holder : TodoPublisher \cup {NoPublisher}, fresh : BOOLEAN]
           Worker == [at : {"idle", "next"}, batch : SUBSET TodoEvent]
                       \cup [at : {"mark", "fail"}, batch : SUBSET TodoEvent,
                             event : TodoEvent]
<1>0. /\ todoRow \in [TodoEvent -> Row] /\ todoPublisher \in [TodoPublisher -> Worker]
      /\ connected \in [TodoPublisher -> BOOLEAN] /\ faults \in 0..MaxFaults
  BY DEF TodoOutboxTypeOK
<1>00. ASSUME todoRow' \in [TodoEvent -> Row], todoPublisher' \in [TodoPublisher -> Worker],
              connected' \in [TodoPublisher -> BOOLEAN], faults' \in 0..MaxFaults
       PROVE  TodoOutboxTypeOK'
  BY <1>00 DEF TodoOutboxTypeOK
<1>01. \A p \in TodoPublisher : \A e \in TodoEvent : \A x \in {"mark", "fail"} :
         Hold(p, e, x) => todoPublisher' \in [TodoPublisher -> Worker]
  <2> TAKE p \in TodoPublisher
  <2> TAKE e \in TodoEvent
  <2> TAKE x \in {"mark", "fail"}
  <2>1. todoPublisher[p].batch \in SUBSET TodoEvent
    BY <1>0
  <2>2. [at |-> x, batch |-> todoPublisher[p].batch \ {e}, event |-> e] \in Worker
    BY <2>1
  <2> HIDE DEF Worker
  <2> QED BY <1>0, <2>2 DEF Hold
<1>02. \A p \in TodoPublisher : Advance(p) => todoPublisher' \in [TodoPublisher -> Worker]
  <2> TAKE p \in TodoPublisher
  <2>1. todoPublisher[p].batch \in SUBSET TodoEvent
    BY <1>0
  <2>2. Resting \in Worker /\ [at |-> "next", batch |-> todoPublisher[p].batch] \in Worker
    BY <2>1 DEF Resting
  <2> HIDE DEF Worker
  <2> QED BY <1>0, <2>2 DEF Advance
<1>03. \A p \in TodoPublisher : todoPublisher[p].at \in {"mark", "fail"} =>
         todoPublisher[p].event \in TodoEvent
  BY <1>0
<1>04. \A e \in TodoEvent : Unlocked(todoRow[e]) \in Row
  <2> TAKE e \in TodoEvent
  <2>1. todoRow[e] \in Row
    BY <1>0
  <2> QED BY <2>1 DEF Unlocked
<1>05. Resting \in Worker
  BY DEF Resting
<1>1. ASSUME NEW e \in TodoEvent, Append(e) \/ LockLapses(e) \/ CleanUpRow(e)
      PROVE  TodoOutboxTypeOK' /\ Fits(queue')
  <2>1. todoRow' \in [TodoEvent -> Row]
    <3>1. CASE Append(e)
      BY <1>0, <3>1 DEF Append
    <3>2. CASE LockLapses(e)
      <4>1. todoRow' = [todoRow EXCEPT ![e].fresh = FALSE]
        BY <3>2 DEF LockLapses
      <4> QED BY <1>0, <4>1
    <3>3. CASE CleanUpRow(e)
      BY <1>0, <3>3 DEF CleanUpRow
    <3> QED BY <1>1, <3>1, <3>2, <3>3
  <2>2. faults' \in 0..MaxFaults
    BY <1>0, <1>1, FaultType DEF Append, LockLapses, CleanUpRow
  <2>3. UNCHANGED <<todoPublisher, connected, queue>>
    BY <1>1 DEF Append, LockLapses, CleanUpRow
  <2> HIDE DEF Row, Worker
  <2> QED BY <1>0, <1>00, <2>1, <2>2, <2>3
<1>2. ASSUME NEW p \in TodoPublisher, ClaimPendingEvents(p)
      PROVE  TodoOutboxTypeOK' /\ Fits(queue')
  <2>1. todoRow' \in [TodoEvent -> Row]
    <3>1. \A e \in TodoEvent :
            [todoRow[e] EXCEPT !.holder = p, !.fresh = TRUE] \in Row
      <4> TAKE e \in TodoEvent
      <4>1. todoRow[e] \in Row
        BY <1>0
      <4> QED BY <4>1
    <3> HIDE DEF Row
    <3> QED BY <3>1, <1>0, <1>2 DEF ClaimPendingEvents
  <2>2. PICK free \in SUBSET TodoEvent :
          todoPublisher' = [todoPublisher EXCEPT ![p] = [at |-> "next", batch |-> free]]
    BY <1>2 DEF ClaimPendingEvents
  <2>3. [at |-> "next", batch |-> free] \in Worker
    OBVIOUS
  <2>4. UNCHANGED <<connected, faults, queue>>
    BY <1>2 DEF ClaimPendingEvents
  <2> HIDE DEF Row, Worker
  <2> QED BY <1>0, <1>00, <2>1, <2>2, <2>3, <2>4
<1>3. ASSUME NEW p \in TodoPublisher, MarkPublished(p)
      PROVE  TodoOutboxTypeOK' /\ Fits(queue')
  <2> DEFINE e == todoPublisher[p].event
  <2>1. e \in TodoEvent
    BY <1>3, <1>03 DEF MarkPublished
  <2>2. todoRow' \in [TodoEvent -> Row]
    <3>1. [Unlocked(todoRow[e]) EXCEPT !.state = "published"] \in Row
      BY <2>1, <1>04
    <3> HIDE DEF Row
    <3> QED BY <3>1, <2>1, <1>0, <1>3 DEF MarkPublished
  <2>3. todoPublisher' \in [TodoPublisher -> Worker]
    <3>1. todoPublisher[p].at = "mark" /\ todoPublisher[p] \in Worker
      BY <1>0, <1>3 DEF MarkPublished
    <3>2. [todoPublisher[p] EXCEPT !.at = "fail"] \in Worker
      BY <3>1
    <3>3. \/ Advance(p) \/ todoPublisher' = [todoPublisher EXCEPT ![p].at = "fail"]
      BY <1>3 DEF MarkPublished
    <3> HIDE DEF Worker
    <3> QED BY <3>2, <3>3, <1>0, <1>02
  <2>4. UNCHANGED <<connected, faults, queue>>
    BY <1>3 DEF MarkPublished
  <2> HIDE DEF Row, Worker
  <2> QED BY <1>0, <1>00, <2>2, <2>3, <2>4
<1>4. ASSUME NEW p \in TodoPublisher, MarkFailed(p)
      PROVE  TodoOutboxTypeOK' /\ Fits(queue')
  <2> HIDE DEF Row, Worker
  <2>1. todoRow' \in [TodoEvent -> Row]
    BY <1>0, <1>4, <1>03, <1>04 DEF MarkFailed
  <2>2. todoPublisher' \in [TodoPublisher -> Worker]
    BY <1>0, <1>4, <1>02, <1>05 DEF MarkFailed
  <2>3. UNCHANGED <<connected, faults, queue>>
    BY <1>4 DEF MarkFailed
  <2> QED BY <1>0, <1>00, <2>1, <2>2, <2>3
<1>5. ASSUME NEW p \in TodoPublisher, NEW e \in TodoEvent,
             Publish(p, e) \/ ConfirmLost(p, e)
      PROVE  TodoOutboxTypeOK' /\ Fits(queue')
  <2> HIDE DEF Row, Worker
  <2>1. Hold(p, e, "mark") \/ Hold(p, e, "fail")
    BY <1>5 DEF Publish, ConfirmLost
  <2>2. todoPublisher' \in [TodoPublisher -> Worker]
    BY <2>1, <1>01
  <2>3. queue' = queue \/ queue' = Routed(queue, e, 0)
    BY <1>5 DEF Publish, ConfirmLost
  <2>4. Fits(queue')
    BY <2>3, RoutedTodo
  <2>5. UNCHANGED <<todoRow, connected>> /\ faults' \in 0..MaxFaults
    BY <1>0, <1>5, FaultType DEF Publish, ConfirmLost
  <2> QED BY <1>0, <1>00, <2>2, <2>4, <2>5
<1>6. ASSUME NEW p \in TodoPublisher, ConnectionCloses(p) \/ PublisherStops(p)
      PROVE  TodoOutboxTypeOK' /\ Fits(queue')
  <2> HIDE DEF Row, Worker
  <2>1. /\ todoPublisher' \in [TodoPublisher -> Worker]
        /\ connected' \in [TodoPublisher -> BOOLEAN]
        /\ UNCHANGED <<todoRow, queue>>
    BY <1>0, <1>6, <1>05 DEF ConnectionCloses, PublisherStops
  <2>2. faults' \in 0..MaxFaults
    BY <1>0, <1>6, FaultType DEF ConnectionCloses, PublisherStops
  <2> QED BY <1>0, <1>00, <2>1, <2>2
<1> QED BY <1>1, <1>2, <1>3, <1>4, <1>5, <1>6 DEF TodoOutboxNext, TodoPublisherStep

LEMMA RoutedAccount ==
  ASSUME Fits(queue), NEW e \in AccountEvent, queue' = Routed(queue, e, 0)
  PROVE  Fits(queue')
  BY RoutedFits DEF Event

LEMMA AccountOutboxTypes ==
  ASSUME AccountOutboxTypeOK, faults \in 0..MaxFaults, Fits(queue), AccountOutboxNext
  PROVE  AccountOutboxTypeOK' /\ faults' \in 0..MaxFaults /\ Fits(queue')
<1> DEFINE Row == [state : {"none", "pending", "published"},
                   holder : AccountPublisher \cup {NoPublisher}, fresh : BOOLEAN]
           Worker == [at : {"idle", "next"}, batch : SUBSET AccountEvent]
                       \cup [at : {"mark", "fail"}, batch : SUBSET AccountEvent,
                             event : AccountEvent]
<1>0. /\ accountRow \in [AccountEvent -> Row]
      /\ accountPublisher \in [AccountPublisher -> Worker]
      /\ ready \in [AccountPublisher -> BOOLEAN] /\ faults \in 0..MaxFaults
  BY DEF AccountOutboxTypeOK
<1>00. ASSUME accountRow' \in [AccountEvent -> Row],
              accountPublisher' \in [AccountPublisher -> Worker],
              ready' \in [AccountPublisher -> BOOLEAN]
       PROVE  AccountOutboxTypeOK'
  BY <1>00 DEF AccountOutboxTypeOK
<1>01. \A p \in AccountPublisher : \A e \in AccountEvent : \A x \in {"mark", "fail"} :
         HoldAccount(p, e, x) => accountPublisher' \in [AccountPublisher -> Worker]
  <2> TAKE p \in AccountPublisher
  <2> TAKE e \in AccountEvent
  <2> TAKE x \in {"mark", "fail"}
  <2>1. accountPublisher[p].batch \in SUBSET AccountEvent
    BY <1>0
  <2>2. [at |-> x, batch |-> accountPublisher[p].batch \ {e}, event |-> e] \in Worker
    BY <2>1
  <2> HIDE DEF Worker
  <2> QED BY <1>0, <2>2 DEF HoldAccount
<1>02. \A p \in AccountPublisher :
         AdvanceAccount(p) => accountPublisher' \in [AccountPublisher -> Worker]
  <2> TAKE p \in AccountPublisher
  <2>1. accountPublisher[p].batch \in SUBSET AccountEvent
    BY <1>0
  <2>2. Resting \in Worker
        /\ [at |-> "next", batch |-> accountPublisher[p].batch] \in Worker
    BY <2>1 DEF Resting
  <2> HIDE DEF Worker
  <2> QED BY <1>0, <2>2 DEF AdvanceAccount
<1>03. \A p \in AccountPublisher : accountPublisher[p].at \in {"mark", "fail"} =>
         accountPublisher[p].event \in AccountEvent
  BY <1>0
<1>04. \A e \in AccountEvent : Unlocked(accountRow[e]) \in Row
  <2> TAKE e \in AccountEvent
  <2>1. accountRow[e] \in Row
    BY <1>0
  <2> QED BY <2>1 DEF Unlocked
<1>05. Resting \in Worker
  BY DEF Resting
<1>1. ASSUME NEW e \in AccountEvent, Register(e)
      PROVE  AccountOutboxTypeOK' /\ faults' \in 0..MaxFaults /\ Fits(queue')
  <2>1. accountRow' \in [AccountEvent -> Row]
    BY <1>0, <1>1 DEF Register
  <2>2. UNCHANGED <<accountPublisher, ready, faults, queue>>
    BY <1>1 DEF Register
  <2> HIDE DEF Row, Worker
  <2> QED BY <1>0, <1>00, <2>1, <2>2
<1>2. ASSUME NEW e \in AccountEvent, AccountLockLapses(e)
      PROVE  AccountOutboxTypeOK' /\ faults' \in 0..MaxFaults /\ Fits(queue')
  <2>1. accountRow' = [accountRow EXCEPT ![e].fresh = FALSE]
    BY <1>2 DEF AccountLockLapses
  <2>2. accountRow' \in [AccountEvent -> Row]
    BY <1>0, <2>1
  <2>3. UNCHANGED <<accountPublisher, ready, queue>> /\ faults' \in 0..MaxFaults
    BY <1>0, <1>2, FaultType DEF AccountLockLapses
  <2> HIDE DEF Row, Worker
  <2> QED BY <1>0, <1>00, <2>2, <2>3
<1>3. ASSUME NEW p \in AccountPublisher, ClaimAccountEvents(p)
      PROVE  AccountOutboxTypeOK' /\ faults' \in 0..MaxFaults /\ Fits(queue')
  <2>1. accountRow' \in [AccountEvent -> Row]
    <3>1. \A e \in AccountEvent :
            [accountRow[e] EXCEPT !.holder = p, !.fresh = TRUE] \in Row
      <4> TAKE e \in AccountEvent
      <4>1. accountRow[e] \in Row
        BY <1>0
      <4> QED BY <4>1
    <3> HIDE DEF Row
    <3> QED BY <3>1, <1>0, <1>3 DEF ClaimAccountEvents
  <2>2. PICK free \in SUBSET AccountEvent :
          accountPublisher' = [accountPublisher EXCEPT
                                 ![p] = [at |-> "next", batch |-> free]]
    BY <1>3 DEF ClaimAccountEvents
  <2>3. [at |-> "next", batch |-> free] \in Worker
    OBVIOUS
  <2>4. UNCHANGED <<ready, faults, queue>>
    BY <1>3 DEF ClaimAccountEvents
  <2> HIDE DEF Row, Worker
  <2> QED BY <1>0, <1>00, <2>1, <2>2, <2>3, <2>4
<1>4. ASSUME NEW p \in AccountPublisher, MarkAccountPublished(p)
      PROVE  AccountOutboxTypeOK' /\ faults' \in 0..MaxFaults /\ Fits(queue')
  <2> DEFINE e == accountPublisher[p].event
  <2>1. e \in AccountEvent
    BY <1>4, <1>03 DEF MarkAccountPublished
  <2>2. accountRow' \in [AccountEvent -> Row]
    <3>1. [Unlocked(accountRow[e]) EXCEPT !.state = "published"] \in Row
      BY <2>1, <1>04
    <3> HIDE DEF Row
    <3> QED BY <3>1, <2>1, <1>0, <1>4 DEF MarkAccountPublished
  <2>3. accountPublisher' \in [AccountPublisher -> Worker]
    <3>1. accountPublisher[p].at = "mark" /\ accountPublisher[p] \in Worker
      BY <1>0, <1>4 DEF MarkAccountPublished
    <3>2. [accountPublisher[p] EXCEPT !.at = "fail"] \in Worker
      BY <3>1
    <3>3. \/ AdvanceAccount(p)
          \/ accountPublisher' = [accountPublisher EXCEPT ![p].at = "fail"]
      BY <1>4 DEF MarkAccountPublished
    <3> HIDE DEF Worker
    <3> QED BY <3>2, <3>3, <1>0, <1>02
  <2>4. UNCHANGED <<ready, faults, queue>>
    BY <1>4 DEF MarkAccountPublished
  <2> HIDE DEF Row, Worker
  <2> QED BY <1>0, <1>00, <2>2, <2>3, <2>4
<1>5. ASSUME NEW p \in AccountPublisher, MarkAccountFailed(p)
      PROVE  AccountOutboxTypeOK' /\ faults' \in 0..MaxFaults /\ Fits(queue')
  <2> HIDE DEF Row, Worker
  <2>1. accountRow' \in [AccountEvent -> Row]
    BY <1>0, <1>5, <1>03, <1>04 DEF MarkAccountFailed
  <2>2. accountPublisher' \in [AccountPublisher -> Worker]
    BY <1>0, <1>5, <1>02, <1>05 DEF MarkAccountFailed
  <2>3. UNCHANGED <<ready, faults, queue>>
    BY <1>5 DEF MarkAccountFailed
  <2> QED BY <1>0, <1>00, <2>1, <2>2, <2>3
<1>6. ASSUME NEW p \in AccountPublisher, NEW e \in AccountEvent,
             PublishAccountEvent(p, e) \/ AccountConfirmLost(p, e)
      PROVE  AccountOutboxTypeOK' /\ faults' \in 0..MaxFaults /\ Fits(queue')
  <2> HIDE DEF Row, Worker
  <2>1. HoldAccount(p, e, "mark") \/ HoldAccount(p, e, "fail")
    BY <1>6 DEF PublishAccountEvent, AccountConfirmLost
  <2>2. accountPublisher' \in [AccountPublisher -> Worker]
    BY <2>1, <1>01
  <2>3. queue' = queue \/ queue' = Routed(queue, e, 0)
    BY <1>6 DEF PublishAccountEvent, AccountConfirmLost
  <2>4. Fits(queue')
    BY <2>3, RoutedAccount
  <2>5. UNCHANGED <<accountRow, ready>> /\ faults' \in 0..MaxFaults
    BY <1>0, <1>6, FaultType DEF PublishAccountEvent, AccountConfirmLost
  <2> QED BY <1>0, <1>00, <2>2, <2>4, <2>5
<1>7. ASSUME NEW p \in AccountPublisher,
             Connect(p) \/ PublisherCloses(p) \/ AccountPublisherDies(p)
      PROVE  AccountOutboxTypeOK' /\ faults' \in 0..MaxFaults /\ Fits(queue')
  <2> HIDE DEF Row, Worker
  <2>1. /\ accountPublisher' \in [AccountPublisher -> Worker]
        /\ ready' \in [AccountPublisher -> BOOLEAN]
        /\ UNCHANGED <<accountRow, queue>>
    BY <1>0, <1>7, <1>05 DEF Connect, PublisherCloses, AccountPublisherDies
  <2>2. faults' \in 0..MaxFaults
    BY <1>0, <1>7, FaultType DEF Connect, PublisherCloses, AccountPublisherDies
  <2> QED BY <1>0, <1>00, <2>1, <2>2
<1>8. ASSUME NEW p \in AccountPublisher, ReleaseWorkerLocks(p)
      PROVE  AccountOutboxTypeOK' /\ faults' \in 0..MaxFaults /\ Fits(queue')
  <2> HIDE DEF Row, Worker
  <2>1. accountRow' \in [AccountEvent -> Row]
    BY <1>0, <1>8, <1>04 DEF ReleaseWorkerLocks
  <2>2. /\ ready' \in [AccountPublisher -> BOOLEAN]
        /\ UNCHANGED <<accountPublisher, faults, queue>>
    BY <1>0, <1>8 DEF ReleaseWorkerLocks
  <2> QED BY <1>0, <1>00, <2>1, <2>2
<1> QED BY <1>1, <1>2, <1>3, <1>4, <1>5, <1>6, <1>7, <1>8
        DEF AccountOutboxNext, AccountPublisherStep

(***************************************************************************)
(* The consumers.                                                          *)
(***************************************************************************)
\* An event is in one of these queues.
Somewhere(q, e, places) == \E p \in places : \E m \in Holds(q, p) : m.event = e
HistoryPlace == HistoryWaits \cup {"dropped"}
OwnerPlace == {"owner", "ownerRetry", "ownerDead"}
MailWaits == {"mail", "mailRetry"}

LEMMA PlacesKnown ==
  /\ HistoryPlace \subseteq Place /\ OwnerPlace \subseteq Place /\ MailWaits \subseteq Place
  /\ MailPlace \subseteq Place /\ RetryPlace \subseteq Place
  BY DEF HistoryPlace, HistoryWaits, OwnerPlace, MailWaits, MailPlace, Place,
         RetryPlace

LEMMA HeldMessage ==
  ASSUME Fits(queue), NEW p \in Place, NEW m \in HeldBy(p)
  PROVE  m \in Meant(p) /\ m \in [event : Event, n : Nat]
  BY MeantAreMessages DEF Fits, HeldBy

LEMMA GrowsKeeps ==
  ASSUME NEW q, NEW r, Grows(q, r), NEW e, NEW places \in SUBSET Place,
         Somewhere(q, e, places)
  PROVE  Somewhere(r, e, places)
  BY DEF Grows, Somewhere

\* What is taken from one queue is missed nowhere else.
LEMMA WithoutKeeps ==
  ASSUME NEW q, Fits(q), NEW p \in Place, NEW m, NEW e, NEW places \in SUBSET Place,
         Somewhere(q, e, places), p \notin places \/ m.event # e
  PROVE  Somewhere(Without(q, p, m), e, places)
<1>0. PICK r \in places : \E x \in Holds(q, r) : x.event = e
  BY DEF Somewhere
<1>1. PICK x \in Holds(q, r) : x.event = e
  BY <1>0
<1>2. r \in Place
  OBVIOUS
<1>3. x \in Holds(Without(q, p, m), r)
  BY <1>1, <1>2, WithoutHolds
<1> QED BY <1>1, <1>3 DEF Somewhere

LEMMA TakenKeeps ==
  ASSUME Fits(queue), NEW p \in Place, NEW m, Grows(Without(queue, p, m), queue'),
         NEW e, NEW places \in SUBSET Place, Somewhere(queue, e, places),
         p \notin places \/ m.event # e
  PROVE  Somewhere(queue', e, places)
<1>1. Somewhere(Without(queue, p, m), e, places)
  BY WithoutKeeps
<1> QED BY <1>1, GrowsKeeps

LEMMA RetriedFits ==
  ASSUME NEW q, Fits(q), NEW dead \in {"historyDead", "ownerDead"}, NEW m \in Meant(dead),
         NEW p, p = "historySent" => dead = "historyDead"
  PROVE  /\ Fits(Retried(q, p, m, dead)) /\ Grows(q, Retried(q, p, m, dead))
         /\ dead = "historyDead" => Somewhere(Retried(q, p, m, dead), m.event, HistoryPlace)
         /\ dead = "ownerDead" => Somewhere(Retried(q, p, m, dead), m.event, OwnerPlace)
<1> DEFINE again == Message(m.event, m.n + 1)
<1>0. /\ m \in [event : Event, n : Nat]
      /\ dead = "historyDead" => m.event \in TodoEvent
      /\ dead = "ownerDead" => m.event \in AccountEvent /\ m.event \notin TodoEvent
  BY MeantAreMessages, EventAssumption DEF Meant, MailPlace, HistoryQueue
<1>1. /\ again.event = m.event
      /\ \A r \in RetriedTo(p, m) \cap Place : again \in Meant(r)
  <2>1. again \in [event : Event, n : Nat] /\ again.event = m.event
    BY <1>0 DEF Message
  <2>2. dead = "ownerDead" => again \in [event : AccountEvent, n : Nat]
    BY <1>0 DEF Message
  <2>5. dead = "historyDead" => again \in [event : TodoEvent, n : Nat]
    BY <1>0 DEF Message
  <2>3. /\ Meant("historyRetry") = [event : Event, n : Nat]
        /\ Meant("historyRetrySent") = [event : TodoEvent, n : Nat]
        /\ Meant("ownerRetry") = [event : AccountEvent, n : Nat]
    BY DEF Meant, MailPlace, HistoryQueue
  <2>4. /\ RetriedTo(p, m) \subseteq {"historyRetry", "historyRetrySent", "ownerRetry"}
        /\ dead = "historyDead" => "ownerRetry" \notin RetriedTo(p, m)
        /\ dead = "ownerDead" => "historyRetrySent" \notin RetriedTo(p, m)
    BY <1>0 DEF RetriedTo, RetryBoundTo
  <2> HIDE DEF again
  <2> QED BY <2>1, <2>2, <2>3, <2>4, <2>5
<1>2. /\ dead \in Place /\ "historyRetry" \in Place /\ "ownerRetry" \in Place
      /\ "historyRetrySent" \in Place
      /\ \/ "historyRetry" \in RetriedTo(p, m)
         \/ dead = "historyDead" /\ "historyRetrySent" \in RetriedTo(p, m)
      /\ dead = "ownerDead" => "ownerRetry" \in RetriedTo(p, m)
  BY <1>0 DEF Place, RetryPlace, RetriedTo, RetryBoundTo
<1>3. CASE m.n >= MaxRetries
  <2>1. Retried(q, p, m, dead) = With(q, {dead}, m)
    BY <1>3 DEF Retried
  <2>2. m \in Holds(With(q, {dead}, m), dead)
    BY <1>2, WithHolds
  <2> QED BY <1>2, <2>1, <2>2, WithFits DEF Somewhere, HistoryPlace, HistoryWaits, OwnerPlace
<1>4. CASE ~(m.n >= MaxRetries)
  <2>1. Retried(q, p, m, dead) = With(q, RetriedTo(p, m), again)
    BY <1>4 DEF Retried
  <2> HIDE DEF again
  <2>2. /\ \/ again \in Holds(With(q, RetriedTo(p, m), again), "historyRetry")
           \/ again \in Holds(With(q, RetriedTo(p, m), again), "historyRetrySent")
        /\ dead = "ownerDead" =>
             again \in Holds(With(q, RetriedTo(p, m), again), "ownerRetry")
    BY <1>2, WithHolds
  <2>3. /\ Fits(With(q, RetriedTo(p, m), again))
        /\ Grows(q, With(q, RetriedTo(p, m), again))
    BY <1>1, <1>2, WithFits
  <2> QED BY <1>1, <2>1, <2>2, <2>3 DEF Somewhere, HistoryPlace, HistoryWaits, OwnerPlace
<1> QED BY <1>3, <1>4

\* No event is gone from the places that lead to where it belongs.
Kept(e) ==
  /\ e \in TodoEvent =>
       /\ Somewhere(queue, e, HistoryPlace) =>
            e \in history' \/ Somewhere(queue', e, HistoryPlace)
       /\ Somewhere(queue, e, MailWaits) =>
            delivery'[e].status # "none" \/ Somewhere(queue', e, MailWaits)
  /\ e \in AccountEvent /\ Somewhere(queue, e, OwnerPlace) =>
       e \in applied' \/ Somewhere(queue', e, OwnerPlace)

LEMMA GrowthKeeps ==
  ASSUME Grows(queue, queue'), NEW e PROVE Kept(e)
  BY GrowsKeeps, PlacesKnown DEF Kept

LEMMA RetryDueStep ==
  ASSUME Fits(queue), RetryDue
  PROVE  Fits(queue') /\ \A e \in Event : Kept(e)
<1>0. PICK p \in RetryPlace : \E m \in HeldBy(p) :
        queue' = CASE p = "mailRetry" -> With(Without(queue, p, m), {"mail"}, m)
                   [] p = "historyRetrySent" ->
                        With(Without(queue, p, m), {"dropped"}, m)
                   [] OTHER -> Routed(Without(queue, p, m), m.event, m.n)
  BY DEF RetryDue, HeldBy
<1>1. PICK m \in HeldBy(p) :
        queue' = CASE p = "mailRetry" -> With(Without(queue, p, m), {"mail"}, m)
                   [] p = "historyRetrySent" ->
                        With(Without(queue, p, m), {"dropped"}, m)
                   [] OTHER -> Routed(Without(queue, p, m), m.event, m.n)
  BY <1>0
<1> DEFINE rest == Without(queue, p, m)
<1>2. p \in Place /\ m \in [event : Event, n : Nat] /\ Fits(rest)
  BY HeldMessage, PlacesKnown, WithoutFits
<1>3. CASE p = "mailRetry"
  <2>1. m \in Meant("mail")
    BY <1>2, <1>3, HeldMessage DEF Meant, MailPlace, HistoryQueue
  <2>2. queue' = With(rest, {"mail"}, m)
    BY <1>1, <1>3
  <2>3. /\ Fits(queue') /\ Grows(rest, queue')
        /\ m \in Holds(queue', "mail")
    <3>1. "mail" \in Place
      BY DEF Place
    <3> HIDE DEF rest
    <3> QED BY <1>2, <2>1, <2>2, <3>1, WithFits, WithHolds
  <2>4. Somewhere(queue', m.event, MailWaits)
    BY <2>3 DEF Somewhere, MailWaits
  <2>5. ASSUME NEW e \in Event PROVE Kept(e)
    <3>1. \A places \in SUBSET Place :
            Somewhere(queue, e, places) /\ (p \notin places \/ m.event # e) =>
              Somewhere(queue', e, places)
      BY <1>2, <2>3, TakenKeeps
    <3>2. p \notin HistoryPlace /\ p \notin OwnerPlace
      BY <1>3 DEF HistoryPlace, HistoryWaits, OwnerPlace
    <3> QED BY <3>1, <3>2, <2>4, PlacesKnown DEF Kept
  <2> QED BY <2>3, <2>5
<1>4. CASE p \notin {"mailRetry", "historyRetrySent"}
  <2>1. queue' = Routed(rest, m.event, m.n)
    BY <1>1, <1>4
  <2>2. m.event \in Event /\ m.n \in Nat
    BY <1>2
  <2>3. /\ Fits(queue') /\ Grows(rest, queue')
        /\ m.event \in TodoEvent => Somewhere(queue', m.event, HistoryPlace)
        /\ m.event \notin TodoEvent => Somewhere(queue', m.event, OwnerPlace)
    <3> HIDE DEF rest
    <3>1. /\ Fits(queue') /\ Grows(rest, queue')
          /\ m.event \in TodoEvent => Message(m.event, m.n) \in Holds(queue', "history")
          /\ m.event \notin TodoEvent => Message(m.event, m.n) \in Holds(queue', "owner")
      BY <1>2, <2>1, <2>2, RoutedFits
    <3>2. Message(m.event, m.n).event = m.event
      BY DEF Message
    <3> QED BY <3>1, <3>2 DEF Somewhere, HistoryPlace, HistoryWaits, OwnerPlace
  <2>4. ASSUME NEW e \in Event PROVE Kept(e)
    <3>1. \A places \in SUBSET Place :
            Somewhere(queue, e, places) /\ (p \notin places \/ m.event # e) =>
              Somewhere(queue', e, places)
      BY <1>2, <2>3, TakenKeeps
    <3>2. p \notin MailWaits
      BY <1>4 DEF MailWaits, RetryPlace
    <3>3. e \in AccountEvent => e \notin TodoEvent
      BY EventAssumption
    <3> QED BY <3>1, <3>2, <3>3, <2>3, PlacesKnown DEF Kept
  <2> QED BY <2>3, <2>4
<1>5. CASE p = "historyRetrySent"
  <2>1. m \in Meant("dropped")
    BY <1>2, <1>5, HeldMessage DEF Meant, MailPlace, HistoryQueue
  <2>2. queue' = With(rest, {"dropped"}, m)
    BY <1>1, <1>5
  <2>3. /\ Fits(queue') /\ Grows(rest, queue')
        /\ m \in Holds(queue', "dropped")
    <3>1. "dropped" \in Place
      BY DEF Place
    <3> HIDE DEF rest
    <3> QED BY <1>2, <2>1, <2>2, <3>1, WithFits, WithHolds
  <2>4. Somewhere(queue', m.event, HistoryPlace)
    BY <2>3 DEF Somewhere, HistoryPlace
  <2>5. ASSUME NEW e \in Event PROVE Kept(e)
    <3>1. \A places \in SUBSET Place :
            Somewhere(queue, e, places) /\ (p \notin places \/ m.event # e) =>
              Somewhere(queue', e, places)
      BY <1>2, <2>3, TakenKeeps
    <3>2. p \notin MailWaits /\ p \notin OwnerPlace
      BY <1>5 DEF MailWaits, OwnerPlace
    <3> QED BY <3>1, <3>2, <2>4, PlacesKnown DEF Kept
  <2> QED BY <2>3, <2>5
<1> QED BY <1>3, <1>4, <1>5

LEMMA ConsumerStep ==
  ASSUME Fits(queue), HistoryTypeOK, faults \in 0..MaxFaults, ConsumerNext
  PROVE  /\ Fits(queue') /\ HistoryTypeOK' /\ faults' \in 0..MaxFaults
         /\ history \subseteq history' /\ applied \subseteq applied'
         /\ \A e \in Event : Kept(e)
<1> DEFINE Good == /\ Fits(queue') /\ HistoryTypeOK'
                   /\ history \subseteq history' /\ applied \subseteq applied'
                   /\ \A e \in Event : Kept(e)
<1>0. Arrival \cup {"owner", "historyDead", "ownerDead"} \subseteq Place
  BY DEF Place, Arrival
<1>01. \A p \in Arrival : \A m \in HeldBy(p) :
         m \in Meant(p) /\ m \in Meant("historyDead") /\ m.event \in TodoEvent
  BY <1>0, HeldMessage DEF Meant, MailPlace, HistoryQueue, Arrival
<1>02. \A m \in HeldBy("owner") : m \in Meant("owner") /\ m \in Meant("ownerDead")
                                   /\ m.event \in AccountEvent
  BY <1>0, HeldMessage DEF Meant, MailPlace
<1>1. ASSUME NEW p \in Arrival, NEW m \in HeldBy(p), AppendHistory(p, m) PROVE Good
  <2>1. Fits(queue')
    BY <1>0, <1>1, WithoutFits DEF AppendHistory
  <2>2. Grows(Without(queue, p, m), queue')
    BY <1>1 DEF AppendHistory, Grows
  <2>3. HistoryTypeOK' /\ history' = history \cup {m.event} /\ applied' = applied
    BY <1>1, <1>01 DEF AppendHistory, HistoryTypeOK
  <2>4. ASSUME NEW e \in Event PROVE Kept(e)
    <3>1. p \notin MailWaits /\ p \notin OwnerPlace
      BY DEF Arrival, MailWaits, OwnerPlace
    <3> QED BY <1>0, <2>2, <2>3, <3>1, TakenKeeps, PlacesKnown DEF Kept
  <2> QED BY <2>1, <2>3, <2>4
<1>2. ASSUME NEW m \in HeldBy("owner"), ApplyOwnerEvent(m) PROVE Good
  <2>1. Fits(queue')
    BY <1>0, <1>2, WithoutFits DEF ApplyOwnerEvent
  <2>2. Grows(Without(queue, "owner", m), queue')
    BY <1>2 DEF ApplyOwnerEvent, Grows
  <2>3. HistoryTypeOK' /\ applied' = applied \cup {m.event} /\ history' = history
    BY <1>2, <1>02 DEF ApplyOwnerEvent, HistoryTypeOK
  <2>4. ASSUME NEW e \in Event PROVE Kept(e)
    <3>1. "owner" \notin MailWaits /\ "owner" \notin HistoryPlace
      BY DEF MailWaits, HistoryPlace, HistoryWaits
    <3> QED BY <1>0, <2>2, <2>3, <3>1, TakenKeeps, PlacesKnown DEF Kept
  <2> QED BY <2>1, <2>3, <2>4
<1>3. ASSUME NEW p \in Arrival, NEW m \in HeldBy(p), AppendFails(p, m) PROVE Good
  <2> DEFINE rest == Without(queue, p, m)
  <2>1. Fits(rest)
    BY <1>0, WithoutFits
  <2>2. queue' = Retried(rest, p, m, "historyDead") /\ UNCHANGED historyVars
    BY <1>3 DEF AppendFails
  <2>3. Fits(queue') /\ Grows(rest, queue') /\ Somewhere(queue', m.event, HistoryPlace)
    <3> HIDE DEF rest
    <3> QED BY <1>01, <2>1, <2>2, RetriedFits
  <2>4. ASSUME NEW e \in Event PROVE Kept(e)
    <3>1. p \notin MailWaits /\ p \notin OwnerPlace
      BY DEF Arrival, MailWaits, OwnerPlace
    <3> QED BY <1>0, <2>3, <3>1, TakenKeeps, PlacesKnown DEF Kept
  <2> QED BY <2>2, <2>3, <2>4 DEF historyVars, HistoryTypeOK
<1>4. ASSUME NEW m \in HeldBy("owner"), OwnerEventFails(m) PROVE Good
  <2> DEFINE rest == Without(queue, "owner", m)
  <2>1. Fits(rest)
    BY <1>0, WithoutFits
  <2>2. queue' = Retried(rest, "owner", m, "ownerDead") /\ UNCHANGED historyVars
    BY <1>4 DEF OwnerEventFails, OwnerRetried
  <2>3. Fits(queue') /\ Grows(rest, queue') /\ Somewhere(queue', m.event, OwnerPlace)
    <3> HIDE DEF rest
    <3> QED BY <1>02, <2>1, <2>2, RetriedFits
  <2>4. ASSUME NEW e \in Event PROVE Kept(e)
    <3>1. "owner" \notin MailWaits /\ "owner" \notin HistoryPlace
      BY DEF MailWaits, HistoryPlace, HistoryWaits
    <3> QED BY <1>0, <2>3, <3>1, TakenKeeps, PlacesKnown DEF Kept
  <2> QED BY <2>2, <2>3, <2>4 DEF historyVars, HistoryTypeOK
<1>5. ASSUME NEW p \in Arrival, NEW m \in HeldBy(p), AppendUnacked(p, m) PROVE Good
  <2>1. queue' = queue /\ applied' = applied /\ history' = history \cup {m.event}
    BY <1>5 DEF AppendUnacked
  <2>2. Grows(queue, queue')
    BY <2>1 DEF Grows
  <2> QED BY <1>01, <2>1, <2>2, GrowthKeeps DEF HistoryTypeOK
<1>6. ASSUME NEW p \in Arrival, NEW m \in HeldBy(p), RetryUnacked(p, m) PROVE Good
  <2>1. Fits(queue') /\ Grows(queue, queue') /\ UNCHANGED historyVars
    BY <1>01, <1>6, RetriedFits DEF RetryUnacked
  <2> QED BY <2>1, GrowthKeeps DEF historyVars, HistoryTypeOK
<1>7. ASSUME NEW m \in HeldBy("owner"), OwnerRetryUnacked(m) PROVE Good
  <2>1. Fits(queue') /\ Grows(queue, queue') /\ UNCHANGED historyVars
    BY <1>02, <1>7, RetriedFits DEF OwnerRetryUnacked, OwnerRetried
  <2> QED BY <2>1, GrowthKeeps DEF historyVars, HistoryTypeOK
<1>8. faults' \in 0..MaxFaults
  BY FaultType DEF ConsumerNext
<1>9. Good
  <2> HIDE DEF Good
  <2> QED BY <1>1, <1>2, <1>3, <1>4, <1>5, <1>6, <1>7 DEF ConsumerNext
<1> QED BY <1>8, <1>9

LEMMA ReplayedStep ==
  ASSUME Fits(queue), HistoryTypeOK,
         \/ \E dead \in Place : ReplayDead(dead)
         \/ \E e \in TodoEvent : ReplayEvent(e)
         \/ \E e \in AccountEvent : ReplayOwnerEvent(e)
  PROVE  /\ Fits(queue') /\ UNCHANGED historyVars /\ HistoryTypeOK'
         /\ \A e \in Event : Kept(e)
<1>0. {"historySent", "owner", "historyDead", "ownerDead"} \subseteq Place
  BY DEF Place
<1>1. ASSUME NEW dead \in Place, ReplayDead(dead)
      PROVE  /\ Fits(queue') /\ UNCHANGED historyVars
             /\ \A e \in Event : Kept(e)
  <2> DEFINE to == IF dead = "historyDead" THEN "historySent" ELSE "owner"
  <2>1. dead \in {"historyDead", "ownerDead"} /\ UNCHANGED historyVars
    BY <1>1 DEF ReplayDead
  <2>2. PICK m \in HeldBy(dead) :
          \/ queue' = With(Without(queue, dead, m), {to}, Message(m.event, 0))
          \/ queue' = With(queue, {to}, Message(m.event, 0))
    BY <1>1 DEF ReplayDead
  <2>3. Message(m.event, 0) \in Meant(to) /\ to \in Place
        /\ Message(m.event, 0).event = m.event
    BY <1>0, <2>1, HeldMessage DEF Meant, MailPlace, HistoryQueue, Message
  <2>4. /\ dead \notin MailWaits
        /\ \/ to \in HistoryPlace /\ dead \notin OwnerPlace
           \/ to \in OwnerPlace /\ dead \notin HistoryPlace
    BY <2>1 DEF MailWaits, HistoryPlace, HistoryWaits, OwnerPlace
  <2>5. CASE queue' = With(queue, {to}, Message(m.event, 0))
    <3>1. Fits(queue') /\ Grows(queue, queue')
      <4> HIDE DEF to
      <4> QED BY <2>3, <2>5, WithFits
    <3> QED BY <2>1, <3>1, GrowthKeeps
  <2>6. CASE queue' = With(Without(queue, dead, m), {to}, Message(m.event, 0))
    <3> HIDE DEF to
    <3> DEFINE rest == Without(queue, dead, m)
    <3>1. Fits(rest)
      BY WithoutFits
    <3>2. /\ Fits(queue') /\ Grows(rest, queue')
          /\ Message(m.event, 0) \in Holds(queue', to)
      <4> HIDE DEF rest
      <4> QED BY <2>3, <2>6, <3>1, WithFits, WithHolds DEF rest
    <3>3. ASSUME NEW e \in Event PROVE Kept(e)
      <4>1. \A places \in SUBSET Place :
              Somewhere(queue, e, places) /\ (dead \notin places \/ m.event # e) =>
                Somewhere(queue', e, places)
        BY <3>2, TakenKeeps
      <4>2. \A places \in SUBSET Place :
              m.event = e /\ to \in places => Somewhere(queue', e, places)
        BY <2>3, <3>2 DEF Somewhere
      <4> QED BY <2>4, <4>1, <4>2, PlacesKnown DEF Kept
    <3> QED BY <2>1, <3>2, <3>3
  <2> QED BY <2>2, <2>5, <2>6
<1>2. ASSUME NEW e \in TodoEvent, ReplayEvent(e)
      PROVE  Fits(queue') /\ Grows(queue, queue') /\ UNCHANGED historyVars
  <2>1. Message(e, 0) \in Meant("historySent")
    BY DEF Meant, MailPlace, HistoryQueue, Message
  <2> QED BY <1>2, <2>1, WithFits DEF ReplayEvent
<1>3. ASSUME NEW e \in AccountEvent, ReplayOwnerEvent(e)
      PROVE  Fits(queue') /\ Grows(queue, queue') /\ UNCHANGED historyVars
  <2>1. Message(e, 0) \in Meant("owner")
    BY DEF Meant, MailPlace, HistoryQueue, Message
  <2> QED BY <1>3, <2>1, WithFits DEF ReplayOwnerEvent
<1>4. /\ Fits(queue') /\ UNCHANGED historyVars
      /\ \A e \in Event : Kept(e)
  BY <1>1, <1>2, <1>3, GrowthKeeps
<1> QED BY <1>4 DEF HistoryTypeOK, historyVars

(***************************************************************************)
(* The notification consumer: types, attempts and what its steps do to the  *)
(* queues.                                                                  *)
(***************************************************************************)
DeliveryRow == [status : Status, attempts : 0..MaxAttempts,
                holder : Mailer \cup {Operator, Nobody}, fresh : BOOLEAN]
Busy == [at : {"guard", "smtp", "mark", "fail", "bury", "dead", "retry", "again"},
         msg : MailMessage, final : BOOLEAN]

\* The part of the types that the steps below have to show.
MailTypes ==
  /\ delivery \in [TodoEvent -> DeliveryRow]
  /\ mailer \in [Mailer -> {Free} \cup Busy]
  /\ replay \in {Free} \cup [at : {"publish", "mark"}, msg : [event : TodoEvent, n : Nat]]
OtherMailTypes ==
  /\ reserved \subseteq TodoEvent /\ guard \in Mailer \cup {Nobody}
  /\ account \in {"active", "deleting"} /\ replays \in 0..MaxReplays
  /\ mails \in [TodoEvent -> Nat] /\ adrift \subseteq TodoEvent
  /\ careless \subseteq TodoEvent /\ misdirected \in BOOLEAN

LEMMA NotificationParts == NotificationTypeOK <=> MailTypes /\ OtherMailTypes
  BY DEF NotificationTypeOK, MailTypes, OtherMailTypes, DeliveryRow, Busy, MailMessage

LEMMA NotificationPartsPrimed == NotificationTypeOK' <=> MailTypes' /\ OtherMailTypes'
  BY NotificationParts, PTL

LEMMA BusyFacts ==
  ASSUME MailTypes, NEW c \in Mailer, mailer[c].at # "idle"
  PROVE  /\ mailer[c] \in Busy /\ mailer[c].msg \in MailMessage
         /\ EventOf(c) \in TodoEvent /\ mailer[c].msg.n \in 1..MaxAttempts
         /\ delivery[EventOf(c)] \in DeliveryRow
<1>1. mailer[c] \in Busy
  BY DEF MailTypes, Free
<1>2. mailer[c].msg \in MailMessage
  BY <1>1 DEF Busy
<1> QED BY <1>1, <1>2 DEF MailMessage, EventOf, MailTypes

\* What a step of the notifications has to keep.
MailKept ==
  /\ MailTypes' /\ AttemptInv' /\ Fits(queue')
  /\ \A e \in TodoEvent : delivery[e].status # "none" => delivery'[e].status # "none"
  /\ \A e \in Event :
       history' = history /\ applied' = applied => Kept(e)

LEMMA QueueSame == ASSUME queue' = queue PROVE \A e \in Event : Kept(e)
<1>1. Grows(queue, queue')
  BY DEF Grows
<1> QED BY <1>1, GrowthKeeps

\* On the way from the guard to the mark the row and the message stay.
LEMMA SendingStep ==
  ASSUME MailTypes, AttemptInv, Fits(queue), NEW c \in Mailer,
         EnterGuard(c) \/ SendMail(c) \/ SendFails(c) \/ SendTimesOut(c)
  PROVE  MailKept
<1>1. /\ UNCHANGED <<delivery, replay, queue>>
      /\ mailer[c].at \in Sending
  BY DEF EnterGuard, SendMail, SendFails, SendTimesOut, At, Sending
<1>2. \E x \in Sending : \E f \in BOOLEAN :
        \/ mailer' = [mailer EXCEPT ![c].at = x]
        \/ mailer' = [mailer EXCEPT ![c].at = x, ![c].final = f]
  BY DEF EnterGuard, SendMail, SendFails, SendTimesOut, Goto, Sending
<1>3. mailer[c] \in Busy /\ mailer \in [Mailer -> {Free} \cup Busy]
  BY <1>1, BusyFacts DEF Sending, MailTypes
<1>4. PICK b \in Busy : /\ mailer' = [mailer EXCEPT ![c] = b]
                        /\ b.at \in Sending /\ b.msg = mailer[c].msg
  <2>1. PICK x \in Sending : \E f \in BOOLEAN :
          \/ mailer' = [mailer EXCEPT ![c].at = x]
          \/ mailer' = [mailer EXCEPT ![c].at = x, ![c].final = f]
    BY <1>2
  <2>2. PICK f \in BOOLEAN :
          \/ mailer' = [mailer EXCEPT ![c].at = x]
          \/ mailer' = [mailer EXCEPT ![c].at = x, ![c].final = f]
    BY <2>1
  <2>3. /\ [mailer[c] EXCEPT !.at = x] \in Busy
        /\ [mailer[c] EXCEPT !.at = x, !.final = f] \in Busy
        /\ [mailer[c] EXCEPT !.at = x].at = x
        /\ [mailer[c] EXCEPT !.at = x].msg = mailer[c].msg
        /\ [mailer[c] EXCEPT !.at = x, !.final = f].at = x
        /\ [mailer[c] EXCEPT !.at = x, !.final = f].msg = mailer[c].msg
    BY <1>3 DEF Busy, Sending
  <2>4. \/ mailer' = [mailer EXCEPT ![c] = [mailer[c] EXCEPT !.at = x]]
        \/ mailer' = [mailer EXCEPT ![c] = [mailer[c] EXCEPT !.at = x, !.final = f]]
    BY <2>2, <1>3
  <2> QED BY <2>3, <2>4
<1>5. MailTypes'
  BY <1>1, <1>3, <1>4 DEF MailTypes
<1>6. /\ mailer'[c].at \in Sending /\ mailer'[c].msg = mailer[c].msg
      /\ \A d \in Mailer \ {c} : mailer'[d] = mailer[d]
  BY <1>3, <1>4
<1>7. AttemptInv'
  BY <1>1, <1>6 DEF AttemptInv, At, Sending, Claims, EventOf
<1> QED BY <1>1, <1>5, <1>7, QueueSame DEF MailKept

\* Of a row alone: its lease, its end, or none at all.
LEMMA RowStep ==
  ASSUME MailTypes, AttemptInv, Fits(queue),
         \/ RequestDeletion
         \/ \E e \in TodoEvent : LateMail(e) \/ LeaseLapses(e) \/ CleanUpDelivery(e)
  PROVE  MailKept
<1>1. UNCHANGED <<mailer, replay, queue>>
  BY DEF RequestDeletion, LateMail, LeaseLapses, CleanUpDelivery
<1>2. CASE delivery' = delivery
  <2>1. MailTypes' /\ AttemptInv'
    BY <1>1, <1>2 DEF MailTypes, AttemptInv, At, Sending, Claims, EventOf
  <2> QED BY <1>1, <1>2, <2>1, QueueSame DEF MailKept
<1>3. ASSUME NEW e \in TodoEvent, LeaseLapses(e) PROVE MailKept
  <2>1. delivery' = [delivery EXCEPT ![e].fresh = FALSE]
    BY <1>3 DEF LeaseLapses
  <2>2. delivery' \in [TodoEvent -> DeliveryRow]
    BY <2>1 DEF MailTypes, DeliveryRow
  <2>3. \A d \in TodoEvent : /\ delivery'[d].status = delivery[d].status
                             /\ delivery'[d].attempts = delivery[d].attempts
                             /\ delivery'[d].holder = delivery[d].holder
    BY <2>1 DEF MailTypes, DeliveryRow
  <2>4. \A c \in Mailer : mailer[c].at \in Sending => EventOf(c) \in TodoEvent
    BY BusyFacts DEF Sending
  <2>5. AttemptInv'
    BY <1>1, <2>3, <2>4 DEF AttemptInv, At, Claims, EventOf
  <2> QED BY <1>1, <2>2, <2>3, <2>5, QueueSame DEF MailKept, MailTypes
<1>4. ASSUME NEW e \in TodoEvent, CleanUpDelivery(e) PROVE MailKept
  <2>1. delivery' = [delivery EXCEPT ![e].status = "forgotten"]
    BY <1>4 DEF CleanUpDelivery
  <2>2. delivery' \in [TodoEvent -> DeliveryRow]
    BY <2>1 DEF MailTypes, DeliveryRow, Status
  <2>3. \A d \in TodoEvent :
          /\ delivery'[d].status = IF d = e THEN "forgotten" ELSE delivery[d].status
          /\ delivery'[d].attempts = delivery[d].attempts
          /\ delivery'[d].holder = delivery[d].holder
    BY <2>1 DEF MailTypes, DeliveryRow
  <2>4. \A c \in Mailer : mailer[c].at \in Sending => EventOf(c) \in TodoEvent
    BY BusyFacts DEF Sending
  <2>5. AttemptInv'
    BY <1>1, <2>3, <2>4 DEF AttemptInv, At, Claims, EventOf
  <2> QED BY <1>1, <2>2, <2>3, <2>5, QueueSame DEF MailKept, MailTypes
<1> QED BY <1>2, <1>3, <1>4 DEF RequestDeletion, LateMail

LEMMA MeantMail == Meant("mail") = MailMessage /\ Meant("mailRetry") = MailMessage
                   /\ Meant("mailDead") = MailMessage
  BY DEF Meant, MailPlace, HistoryQueue

\* A message is put into a mail queue.
LEMMA MailGrows ==
  ASSUME Fits(queue), NEW p \in MailPlace, NEW m \in MailMessage, queue' = With(queue, {p}, m)
  PROVE  Fits(queue') /\ Grows(queue, queue') /\ \A e \in Event : Kept(e)
<1>1. \A r \in {p} \cap Place : m \in Meant(r)
  BY MeantMail DEF MailPlace
<1>2. Fits(queue') /\ Grows(queue, queue')
  BY <1>1, WithFits
<1> QED BY <1>2, GrowthKeeps

LEMMA RequeueGrows ==
  ASSUME MailTypes, Fits(queue), NEW c \in Mailer, mailer[c].at # "idle",
         queue' = Requeued(c)
  PROVE  Fits(queue') /\ \A e \in Event : Kept(e)
<1>1. mailer[c].msg \in MailMessage
  BY BusyFacts
<1> QED BY <1>1, MailGrows DEF Requeued, MailPlace

\* A consumer lets its message go, or goes on with it past the mark.
LEMMA RestOfMailers ==
  ASSUME MailTypes, NEW c \in Mailer, NEW b \in {Free} \cup Busy,
         mailer' = [mailer EXCEPT ![c] = b]
  PROVE  /\ mailer' \in [Mailer -> {Free} \cup Busy] /\ mailer'[c] = b
         /\ \A d \in Mailer \ {c} : mailer'[d] = mailer[d]
  BY DEF MailTypes

LEMMA BusyMoves ==
  ASSUME MailTypes, NEW c \in Mailer, mailer[c].at # "idle",
         NEW x \in {"guard", "smtp", "mark", "fail", "bury", "dead", "retry", "again"},
         Goto(c, x)
  PROVE  \E b \in Busy : /\ mailer' = [mailer EXCEPT ![c] = b]
                         /\ b.at = x /\ b.msg = mailer[c].msg /\ b.final = mailer[c].final
<1>1. mailer[c] \in Busy /\ mailer \in [Mailer -> {Free} \cup Busy]
  BY BusyFacts DEF MailTypes
<1> DEFINE b == [mailer[c] EXCEPT !.at = x]
<1>2. b \in Busy /\ b.at = x /\ b.msg = mailer[c].msg /\ b.final = mailer[c].final
  BY <1>1 DEF Busy
<1>3. mailer' = [mailer EXCEPT ![c] = b]
  BY <1>1 DEF Goto
<1> HIDE DEF b
<1> QED BY <1>2, <1>3

LEMMA DeliverStep ==
  ASSUME MailTypes, AttemptInv, Fits(queue), NEW c \in Mailer,
         NEW m \in BagToSet(queue["mail"]), Deliver(c, m)
  PROVE  MailKept
<1> DEFINE row == delivery[m.event]
<1>0. "mail" \in Place /\ m \in HeldBy("mail") /\ m \in MailMessage
  <2>1. "mail" \in Place /\ m \in HeldBy("mail")
    BY DEF Place, HeldBy
  <2> QED BY <2>1, HeldMessage, MeantMail
<1>1. /\ m.event \in TodoEvent /\ m.n \in 1..MaxAttempts
      /\ delivery \in [TodoEvent -> DeliveryRow] /\ row \in DeliveryRow
      /\ mailer \in [Mailer -> {Free} \cup Busy] /\ mailer[c].at = "idle"
      /\ UNCHANGED replay /\ queue' = Without(queue, "mail", m)
  BY <1>0 DEF MailMessage, MailTypes, Deliver, At
<1>2. \A d \in Mailer : mailer[d].at \in Sending => EventOf(d) \in TodoEvent
  BY BusyFacts DEF Sending
<1>3. CASE Claimable(row, m.n)
  <2> DEFINE mine == [status |-> "processing", attempts |-> m.n, holder |-> c, fresh |-> TRUE]
             b == [at |-> "guard", msg |-> m, final |-> FALSE]
  <2>1. /\ delivery' = [delivery EXCEPT ![m.event] = mine]
        /\ mailer' = [mailer EXCEPT ![c] = b]
    BY <1>3 DEF Deliver
  <2>2. mine \in DeliveryRow /\ b \in Busy
    BY <1>0, <1>1 DEF DeliveryRow, Status, Busy
  <2>3. /\ delivery' \in [TodoEvent -> DeliveryRow] /\ delivery'[m.event] = mine
        /\ \A e \in TodoEvent \ {m.event} : delivery'[e] = delivery[e]
    <3> HIDE DEF mine
    <3> QED BY <1>1, <2>1, <2>2
  <2>4. /\ mailer' \in [Mailer -> {Free} \cup Busy] /\ mailer'[c] = b
        /\ \A d \in Mailer \ {c} : mailer'[d] = mailer[d]
    <3> HIDE DEF b
    <3> QED BY <2>1, <2>2, RestOfMailers
  <2>5. AttemptInv'
    <3>1. \A d \in Mailer : mailer'[d].at = "retry" => mailer'[d].msg.n < MaxAttempts
      BY <2>4 DEF AttemptInv, At
    <3>2. \A e \in TodoEvent : delivery'[e].status = "retry_pending" =>
            delivery'[e].attempts < MaxAttempts
      BY <2>3 DEF AttemptInv
    <3>3. ASSUME NEW d \in Mailer, mailer'[d].at \in Sending, Claims(d)'
          PROVE  delivery'[EventOf(d)'].attempts = mailer'[d].msg.n
      <4>1. CASE d = c
        BY <4>1, <2>3, <2>4 DEF EventOf
      <4>2. CASE d # c /\ EventOf(d) = m.event
        BY <4>2, <3>3, <2>3, <2>4 DEF Claims, EventOf
      <4>3. CASE d # c /\ EventOf(d) # m.event
        BY <4>3, <3>3, <1>2, <2>3, <2>4 DEF Claims, EventOf, AttemptInv
      <4> QED BY <4>1, <4>2, <4>3
    <3> QED BY <3>1, <3>2, <3>3 DEF AttemptInv, At
  <2>6. \A e \in TodoEvent : delivery[e].status # "none" => delivery'[e].status # "none"
    BY <2>3
  <2>7. delivery'[m.event].status # "none"
    BY <2>3
  <2>8. MailTypes'
    BY <1>1, <2>3, <2>4 DEF MailTypes
  <2>9. Fits(queue') /\ \A e \in Event : history' = history /\ applied' = applied => Kept(e)
    <3>1. Grows(Without(queue, "mail", m), queue') /\ Fits(queue')
      BY <1>0, <1>1, WithoutFits DEF Grows
    <3>2. "mail" \notin HistoryPlace /\ "mail" \notin OwnerPlace
      BY DEF HistoryPlace, HistoryWaits, OwnerPlace
    <3> QED BY <1>0, <2>7, <3>1, <3>2, TakenKeeps, PlacesKnown DEF Kept
  <2> QED BY <2>5, <2>6, <2>8, <2>9 DEF MailKept
<1>4. CASE ~Claimable(row, m.n)
  <2>1. /\ delivery' = delivery /\ row.status # "none"
        /\ \/ mailer' = mailer
           \/ /\ row.attempts = m.n
              /\ \E x \in {"retry", "bury", "again"} :
                   /\ mailer' = [mailer EXCEPT ![c] = [at |-> x, msg |-> m, final |-> FALSE]]
                   /\ x = "retry" => row.status = "retry_pending"
    BY <1>4 DEF Deliver, Claimable
  <2>2. MailTypes' /\ AttemptInv'
    <3>1. CASE mailer' = mailer
      BY <1>1, <2>1, <3>1 DEF MailTypes, AttemptInv, At, Sending, Claims, EventOf
    <3>2. ASSUME NEW x \in {"retry", "bury", "again"},
                 mailer' = [mailer EXCEPT ![c] = [at |-> x, msg |-> m, final |-> FALSE]],
                 x = "retry" => row.status = "retry_pending", row.attempts = m.n
          PROVE  MailTypes' /\ AttemptInv'
      <4> DEFINE b == [at |-> x, msg |-> m, final |-> FALSE]
      <4>1. b \in Busy
        BY <1>0 DEF Busy
      <4>2. /\ mailer' \in [Mailer -> {Free} \cup Busy] /\ mailer'[c] = b
            /\ \A d \in Mailer \ {c} : mailer'[d] = mailer[d]
        <5> HIDE DEF b
        <5>1. mailer' = [mailer EXCEPT ![c] = b]
          BY <3>2 DEF b
        <5> QED BY <4>1, <5>1, RestOfMailers
      <4>3. b.at \notin Sending /\ b.at = x /\ b.msg = m
        BY DEF Sending
      <4>4. x = "retry" => m.n < MaxAttempts
        BY <1>1, <3>2 DEF AttemptInv
      <4> HIDE DEF b
      <4>5. AttemptInv'
        BY <2>1, <4>2, <4>3, <4>4 DEF AttemptInv, At, Claims, EventOf
      <4> QED BY <1>1, <2>1, <4>2, <4>5 DEF MailTypes
    <3> QED BY <2>1, <3>1, <3>2
  <2>3. Fits(queue') /\ \A e \in Event : history' = history /\ applied' = applied => Kept(e)
    <3>1. Grows(Without(queue, "mail", m), queue') /\ Fits(queue')
      BY <1>0, <1>1, WithoutFits DEF Grows
    <3>2. "mail" \notin HistoryPlace /\ "mail" \notin OwnerPlace
      BY DEF HistoryPlace, HistoryWaits, OwnerPlace
    <3> QED BY <1>0, <2>1, <3>1, <3>2, TakenKeeps, PlacesKnown DEF Kept
  <2> QED BY <2>1, <2>2, <2>3 DEF MailKept
<1> QED BY <1>3, <1>4

\* A consumer leaves the claim: the row of its event has another status, or the
\* claim is lost, and the consumer is not at the guard, the mail or the mark.
LEMMA LeavingStep ==
  ASSUME MailTypes, AttemptInv, NEW c \in Mailer, mailer[c].at # "idle",
         NEW b \in {Free} \cup Busy, mailer' = [mailer EXCEPT ![c] = b],
         b.at \notin Sending \/ (b.at = "fail" /\ mailer[c].at \in Sending
                                 /\ b.msg = mailer[c].msg),
         b.at = "retry" => b.msg.n < MaxAttempts,
         delivery' \in [TodoEvent -> DeliveryRow],
         \A e \in TodoEvent \ {EventOf(c)} : delivery'[e] = delivery[e],
         \/ delivery'[EventOf(c)] = delivery[EventOf(c)]
         \/ /\ delivery'[EventOf(c)].status \notin {"none", "processing"}
            /\ delivery'[EventOf(c)].status = "retry_pending" =>
                 delivery'[EventOf(c)].attempts < MaxAttempts
         \/ /\ delivery'[EventOf(c)].status = delivery[EventOf(c)].status
            /\ delivery'[EventOf(c)].attempts = delivery[EventOf(c)].attempts
            /\ delivery'[EventOf(c)].holder = Nobody,
         UNCHANGED replay
  PROVE  /\ MailTypes' /\ AttemptInv'
         /\ \A e \in TodoEvent : delivery[e].status # "none" => delivery'[e].status # "none"
<1>1. /\ mailer' \in [Mailer -> {Free} \cup Busy] /\ mailer'[c] = b
      /\ \A d \in Mailer \ {c} : mailer'[d] = mailer[d]
  BY RestOfMailers
<1>2. EventOf(c) \in TodoEvent
  BY BusyFacts
<1>3. \A d \in Mailer : mailer[d].at \in Sending => EventOf(d) \in TodoEvent
  BY BusyFacts DEF Sending
<1>4. \A d \in Mailer : mailer'[d].at = "retry" => mailer'[d].msg.n < MaxAttempts
  BY <1>1 DEF AttemptInv, At
<1>5. \A e \in TodoEvent : delivery'[e].status = "retry_pending" =>
        delivery'[e].attempts < MaxAttempts
  BY <1>2 DEF AttemptInv
<1>6. ASSUME NEW d \in Mailer, mailer'[d].at \in Sending, Claims(d)'
      PROVE  delivery'[EventOf(d)'].attempts = mailer'[d].msg.n
  <2>1. mailer'[d].msg = mailer[d].msg /\ mailer[d].at \in Sending
    BY <1>1, <1>6
  <2>2. EventOf(d)' = EventOf(d) /\ EventOf(d) \in TodoEvent
    BY <1>3, <2>1 DEF EventOf
  <2>3. delivery'[EventOf(d)].status = "processing" /\ delivery'[EventOf(d)].holder = d
    BY <1>6, <2>2 DEF Claims
  <2>4. d # Nobody
    BY NotificationAssumption
  <2>5. delivery'[EventOf(d)] = delivery[EventOf(d)]
    BY <2>2, <2>3, <2>4
  <2>6. Claims(d)
    BY <2>3, <2>5 DEF Claims
  <2> QED BY <2>1, <2>2, <2>5, <2>6 DEF AttemptInv
<1>7. \A e \in TodoEvent : delivery[e].status # "none" => delivery'[e].status # "none"
  BY <1>2
<1> QED BY <1>1, <1>4, <1>5, <1>6, <1>7 DEF MailTypes, AttemptInv, At

LEMMA MarkSentStep ==
  ASSUME MailTypes, AttemptInv, Fits(queue), NEW c \in Mailer, MarkSent(c)
  PROVE  MailKept
<1>1. mailer[c].at = "mark" /\ UNCHANGED <<replay, queue>>
  BY DEF MarkSent, At
<1>2. /\ mailer[c] \in Busy /\ EventOf(c) \in TodoEvent
      /\ delivery \in [TodoEvent -> DeliveryRow] /\ delivery[EventOf(c)] \in DeliveryRow
  BY <1>1, BusyFacts DEF MailTypes
<1>3. /\ MailTypes' /\ AttemptInv'
      /\ \A e \in TodoEvent : delivery[e].status # "none" => delivery'[e].status # "none"
  <2>1. CASE Claims(c)
    <3> DEFINE row == [delivery[EventOf(c)] EXCEPT !.status = "sent", !.holder = Nobody,
                                                   !.fresh = FALSE]
    <3>1. row \in DeliveryRow /\ row.status = "sent"
      BY <1>2 DEF DeliveryRow, Status
    <3>2. delivery' = [delivery EXCEPT ![EventOf(c)] = row]
          /\ mailer' = [mailer EXCEPT ![c] = Free]
      BY <1>2, <2>1 DEF MarkSent
    <3> HIDE DEF row
    <3>3. /\ delivery' \in [TodoEvent -> DeliveryRow] /\ delivery'[EventOf(c)] = row
          /\ \A e \in TodoEvent \ {EventOf(c)} : delivery'[e] = delivery[e]
      BY <1>2, <3>1, <3>2
    <3>4. Free.at = "idle"
      BY DEF Free
    <3> QED BY <1>1, <3>1, <3>2, <3>3, <3>4, LeavingStep DEF Sending
  <2>2. CASE ~Claims(c)
    <3>1. Goto(c, "fail") /\ delivery' = delivery
      BY <2>2 DEF MarkSent
    <3>2. PICK b \in Busy : /\ mailer' = [mailer EXCEPT ![c] = b]
                            /\ b.at = "fail" /\ b.msg = mailer[c].msg
      BY <1>1, <3>1, BusyMoves
    <3> QED BY <1>1, <1>2, <3>1, <3>2, LeavingStep DEF Sending
  <2> QED BY <2>1, <2>2
<1> QED BY <1>1, <1>3, QueueSame DEF MailKept

LEMMA MarkDeliveryFailedStep ==
  ASSUME MailTypes, AttemptInv, Fits(queue), NEW c \in Mailer, MarkDeliveryFailed(c)
  PROVE  MailKept
<1>1. mailer[c].at = "fail" /\ UNCHANGED replay
  BY DEF MarkDeliveryFailed, At
<1>2. /\ mailer[c] \in Busy /\ EventOf(c) \in TodoEvent
      /\ delivery \in [TodoEvent -> DeliveryRow] /\ delivery[EventOf(c)] \in DeliveryRow
      /\ mailer[c].msg.n \in 1..MaxAttempts
  BY <1>1, BusyFacts DEF MailTypes
<1>3. CASE Claims(c)
  <2> DEFINE last == mailer[c].final \/ mailer[c].msg.n = MaxAttempts
             s == IF last THEN "dead_letter_pending" ELSE "retry_pending"
             x == IF last THEN "bury" ELSE "retry"
             row == [delivery[EventOf(c)] EXCEPT !.status = s, !.holder = Nobody,
                                                 !.fresh = FALSE]
  <2>1. /\ row \in DeliveryRow /\ row.status = s
        /\ row.attempts = delivery[EventOf(c)].attempts
    BY <1>2 DEF DeliveryRow, Status
  <2>2. delivery' = [delivery EXCEPT ![EventOf(c)] = row] /\ Goto(c, x) /\ queue' = queue
    BY <1>2, <1>3 DEF MarkDeliveryFailed
  <2>3. row.attempts = mailer[c].msg.n
    BY <1>1, <1>3, <2>1 DEF AttemptInv, Sending
  <2>4. ~last => mailer[c].msg.n < MaxAttempts
    BY <1>2, NotificationAssumption
  <2> HIDE DEF row, last
  <2>5. /\ delivery' \in [TodoEvent -> DeliveryRow] /\ delivery'[EventOf(c)] = row
        /\ \A e \in TodoEvent \ {EventOf(c)} : delivery'[e] = delivery[e]
    BY <1>2, <2>1, <2>2
  <2>6. PICK b \in Busy : /\ mailer' = [mailer EXCEPT ![c] = b]
                          /\ b.at = x /\ b.msg = mailer[c].msg
    BY <1>1, <2>2, BusyMoves
  <2>7. /\ b.at \notin Sending
        /\ b.at = "retry" => b.msg.n < MaxAttempts
        /\ delivery'[EventOf(c)].status \notin {"none", "processing"}
        /\ delivery'[EventOf(c)].status = "retry_pending" =>
             delivery'[EventOf(c)].attempts < MaxAttempts
    BY <2>1, <2>3, <2>4, <2>5, <2>6 DEF Sending
  <2> HIDE DEF x, s
  <2>9. /\ MailTypes' /\ AttemptInv'
        /\ \A e \in TodoEvent : delivery[e].status # "none" => delivery'[e].status # "none"
    BY <1>1, <2>5, <2>6, <2>7, LeavingStep
  <2> QED BY <2>2, <2>9, QueueSame DEF MailKept
<1>4. CASE ~Claims(c)
  <2>1. /\ queue' = Requeued(c) /\ mailer' = [mailer EXCEPT ![c] = Free]
        /\ delivery' = delivery
    BY <1>4 DEF MarkDeliveryFailed
  <2>2. /\ MailTypes' /\ AttemptInv'
        /\ \A e \in TodoEvent : delivery[e].status # "none" => delivery'[e].status # "none"
    <3>1. Free.at = "idle"
      BY DEF Free
    <3> QED BY <1>1, <1>2, <2>1, <3>1, LeavingStep DEF Sending
  <2>3. Fits(queue') /\ \A e \in Event : Kept(e)
    BY <1>1, <2>1, RequeueGrows
  <2> QED BY <2>2, <2>3 DEF MailKept
<1> QED BY <1>3, <1>4

LEMMA ScheduleRetryStep ==
  ASSUME MailTypes, AttemptInv, Fits(queue), NEW c \in Mailer, ScheduleRetry(c)
  PROVE  MailKept
<1>1. /\ mailer[c].at \in {"retry", "again"} /\ UNCHANGED <<delivery, replay>>
      /\ mailer' = [mailer EXCEPT ![c] = Free]
  BY DEF ScheduleRetry
<1> DEFINE m == mailer[c].msg
           again == Message(m.event, IF At(c, "again") THEN m.n ELSE m.n + 1)
<1>2. m.event \in TodoEvent /\ m.n \in 1..MaxAttempts
  BY <1>1, BusyFacts DEF EventOf
<1>3. mailer[c].at = "retry" => m.n < MaxAttempts
  BY DEF AttemptInv, At
<1>4. again \in MailMessage
  BY <1>1, <1>2, <1>3, NotificationAssumption DEF MailMessage, Message, At
<1>5. queue' = With(queue, {"mailRetry"}, again)
  BY DEF ScheduleRetry
<1>6. Fits(queue') /\ \A e \in Event : Kept(e)
  <2> HIDE DEF again
  <2> QED BY <1>4, <1>5, MailGrows DEF MailPlace
<1>7. /\ MailTypes' /\ AttemptInv'
      /\ \A e \in TodoEvent : delivery[e].status # "none" => delivery'[e].status # "none"
  <2>1. Free.at = "idle" /\ delivery \in [TodoEvent -> DeliveryRow]
    BY DEF Free, MailTypes
  <2> QED BY <1>1, <2>1, LeavingStep DEF Sending
<1> QED BY <1>6, <1>7 DEF MailKept

LEMMA BuryStep ==
  ASSUME MailTypes, AttemptInv, Fits(queue), NEW c \in Mailer, Bury(c)
  PROVE  MailKept
<1>1. /\ mailer[c].at = "bury" /\ UNCHANGED <<delivery, replay>> /\ Goto(c, "dead")
      /\ queue' = With(queue, {"mailDead"}, Message(EventOf(c), MaxAttempts))
  BY DEF Bury, At
<1>2. Message(EventOf(c), MaxAttempts) \in MailMessage
  BY <1>1, BusyFacts, NotificationAssumption DEF MailMessage, Message
<1>3. Fits(queue') /\ \A e \in Event : Kept(e)
  BY <1>1, <1>2, MailGrows DEF MailPlace
<1>4. PICK b \in Busy : /\ mailer' = [mailer EXCEPT ![c] = b]
                        /\ b.at = "dead" /\ b.msg = mailer[c].msg
  BY <1>1, BusyMoves
<1>5. /\ MailTypes' /\ AttemptInv'
      /\ \A e \in TodoEvent : delivery[e].status # "none" => delivery'[e].status # "none"
  <2>1. delivery \in [TodoEvent -> DeliveryRow]
    BY DEF MailTypes
  <2> QED BY <1>1, <1>4, <2>1, LeavingStep DEF Sending
<1> QED BY <1>3, <1>5 DEF MailKept

LEMMA MarkDeadLetterStep ==
  ASSUME MailTypes, AttemptInv, Fits(queue), NEW c \in Mailer, MarkDeadLetter(c)
  PROVE  MailKept
<1>1. /\ mailer[c].at = "dead" /\ UNCHANGED replay
      /\ mailer' = [mailer EXCEPT ![c] = Free] /\ Free.at = "idle"
  BY DEF MarkDeadLetter, At, Free
<1>2. /\ EventOf(c) \in TodoEvent /\ delivery \in [TodoEvent -> DeliveryRow]
      /\ delivery[EventOf(c)] \in DeliveryRow
  BY <1>1, BusyFacts DEF MailTypes
<1>3. CASE delivery[EventOf(c)].status = "dead_letter_pending"
  <2> DEFINE row == [delivery[EventOf(c)] EXCEPT !.status = "dead_letter"]
  <2>1. row \in DeliveryRow /\ row.status = "dead_letter"
    BY <1>2 DEF DeliveryRow, Status
  <2>2. delivery' = [delivery EXCEPT ![EventOf(c)] = row] /\ queue' = queue
    BY <1>2, <1>3 DEF MarkDeadLetter
  <2> HIDE DEF row
  <2>3. /\ delivery' \in [TodoEvent -> DeliveryRow] /\ delivery'[EventOf(c)] = row
        /\ \A e \in TodoEvent \ {EventOf(c)} : delivery'[e] = delivery[e]
    BY <1>2, <2>1, <2>2
  <2>4. /\ MailTypes' /\ AttemptInv'
        /\ \A e \in TodoEvent : delivery[e].status # "none" => delivery'[e].status # "none"
    BY <1>1, <2>1, <2>3, LeavingStep DEF Sending
  <2> QED BY <2>2, <2>4, QueueSame DEF MailKept
<1>4. CASE delivery[EventOf(c)].status # "dead_letter_pending"
  <2>1. queue' = Requeued(c) /\ delivery' = delivery
    BY <1>4 DEF MarkDeadLetter
  <2>2. /\ MailTypes' /\ AttemptInv'
        /\ \A e \in TodoEvent : delivery[e].status # "none" => delivery'[e].status # "none"
    BY <1>1, <1>2, <2>1, LeavingStep DEF Sending
  <2>3. Fits(queue') /\ \A e \in Event : Kept(e)
    BY <1>1, <2>1, RequeueGrows
  <2> QED BY <2>2, <2>3 DEF MailKept
<1> QED BY <1>3, <1>4

LEMMA MailerStopsStep ==
  ASSUME MailTypes, AttemptInv, Fits(queue), NEW c \in Mailer, MailerStops(c)
  PROVE  MailKept
<1>1. /\ mailer[c].at # "idle" /\ UNCHANGED replay /\ queue' = Requeued(c)
      /\ mailer' = [mailer EXCEPT ![c] = Free] /\ Free.at = "idle"
      /\ delivery' = IF Claims(c) THEN [delivery EXCEPT ![EventOf(c)].holder = Nobody]
                     ELSE delivery
  BY DEF MailerStops, At, Free
<1>2. /\ EventOf(c) \in TodoEvent /\ delivery \in [TodoEvent -> DeliveryRow]
      /\ delivery[EventOf(c)] \in DeliveryRow
  BY <1>1, BusyFacts DEF MailTypes
<1>3. Fits(queue') /\ \A e \in Event : Kept(e)
  BY <1>1, RequeueGrows
<1> DEFINE row == [delivery[EventOf(c)] EXCEPT !.holder = Nobody]
<1>4. /\ row \in DeliveryRow /\ row.status = delivery[EventOf(c)].status
      /\ row.attempts = delivery[EventOf(c)].attempts /\ row.holder = Nobody
  BY <1>2 DEF DeliveryRow
<1>5. delivery' = delivery \/ delivery' = [delivery EXCEPT ![EventOf(c)] = row]
  BY <1>1, <1>2
<1> HIDE DEF row
<1>6. /\ delivery' \in [TodoEvent -> DeliveryRow]
      /\ delivery'[EventOf(c)] \in {row, delivery[EventOf(c)]}
      /\ \A e \in TodoEvent \ {EventOf(c)} : delivery'[e] = delivery[e]
  BY <1>2, <1>4, <1>5
<1>7. /\ MailTypes' /\ AttemptInv'
      /\ \A e \in TodoEvent : delivery[e].status # "none" => delivery'[e].status # "none"
  BY <1>1, <1>4, <1>6, LeavingStep DEF Sending
<1> QED BY <1>3, <1>7 DEF MailKept

\* The replay command: it changes the row it replays, and no claim.
LEMMA ReplayRowStep ==
  ASSUME MailTypes, AttemptInv, NEW e \in TodoEvent, NEW row \in DeliveryRow,
         delivery' = [delivery EXCEPT ![e] = row], row.status # "none",
         \/ row.status \notin {"processing", "retry_pending"}
         \/ /\ row.status = delivery[e].status /\ row.attempts = delivery[e].attempts
            /\ row.holder \notin Mailer,
         UNCHANGED mailer
  PROVE  /\ AttemptInv'
         /\ \A d \in TodoEvent : delivery[d].status # "none" => delivery'[d].status # "none"
<1>1. /\ delivery'[e] = row
      /\ \A d \in TodoEvent \ {e} : delivery'[d] = delivery[d]
  BY DEF MailTypes
<1>2. \A c \in Mailer : mailer[c].at \in Sending => EventOf(c) \in TodoEvent
  BY BusyFacts DEF Sending
<1>3. \A c \in Mailer : mailer[c].at \in Sending /\ Claims(c)' =>
        Claims(c) /\ delivery'[EventOf(c)] = delivery[EventOf(c)]
  BY <1>1, <1>2 DEF Claims, EventOf
<1>4. \A d \in TodoEvent : delivery'[d].status = "retry_pending" =>
        delivery'[d].attempts < MaxAttempts
  BY <1>1 DEF AttemptInv
<1>5. AttemptInv'
  BY <1>3, <1>4 DEF AttemptInv, At, EventOf
<1>6. \A d \in TodoEvent : delivery[d].status # "none" => delivery'[d].status # "none"
  BY <1>1
<1> QED BY <1>5, <1>6

LEMMA ReplayResetStep ==
  ASSUME MailTypes, AttemptInv, Fits(queue), NEW m \in BagToSet(queue["mailDead"]),
         ReplayReset(m)
  PROVE  MailKept
<1>0. "mailDead" \in Place /\ m \in MailMessage
  <2>1. "mailDead" \in Place /\ m \in HeldBy("mailDead")
    BY DEF Place, HeldBy
  <2> QED BY <2>1, HeldMessage, MeantMail
<1>1. /\ m.event \in TodoEvent /\ m \in [event : TodoEvent, n : Nat]
      /\ delivery \in [TodoEvent -> DeliveryRow] /\ UNCHANGED mailer
  BY <1>0, NotificationAssumption DEF MailMessage, MailTypes, ReplayReset
<1> DEFINE row == [status |-> "replay_publishing", attempts |-> 1,
                   holder |-> Operator, fresh |-> TRUE]
<1>2. CASE /\ delivery' = [delivery EXCEPT ![m.event] = row]
           /\ replay' = [at |-> "publish", msg |-> m] /\ queue' = queue
  <2>1. /\ row \in DeliveryRow
        /\ row.status \notin {"none", "processing", "retry_pending"}
    BY NotificationAssumption DEF DeliveryRow, Status
  <2>2. replay' \in [at : {"publish", "mark"}, msg : [event : TodoEvent, n : Nat]]
    BY <1>1, <1>2
  <2>3. /\ AttemptInv'
        /\ \A d \in TodoEvent : delivery[d].status # "none" => delivery'[d].status # "none"
    <3> HIDE DEF row
    <3> QED BY <1>1, <1>2, <2>1, ReplayRowStep
  <2>4. delivery' \in [TodoEvent -> DeliveryRow]
    <3> HIDE DEF row
    <3> QED BY <1>1, <1>2, <2>1
  <2>5. MailTypes'
    BY <1>1, <2>2, <2>4 DEF MailTypes
  <2> QED BY <1>2, <2>3, <2>5, QueueSame DEF MailKept
<1>3. CASE queue' = Without(queue, "mailDead", m) /\ UNCHANGED <<delivery, replay>>
  <2>1. MailTypes' /\ AttemptInv'
    BY <1>1, <1>3 DEF MailTypes, AttemptInv, At, Claims, EventOf
  <2>2. Fits(queue') /\ Grows(Without(queue, "mailDead", m), queue')
    BY <1>0, <1>3, WithoutFits DEF Grows
  <2>3. \A e \in Event : Kept(e)
    <3>1. /\ "mailDead" \notin HistoryPlace /\ "mailDead" \notin OwnerPlace
          /\ "mailDead" \notin MailWaits
      BY DEF HistoryPlace, HistoryWaits, OwnerPlace, MailWaits
    <3> QED BY <1>0, <2>2, <3>1, TakenKeeps, PlacesKnown DEF Kept
  <2> QED BY <1>3, <2>1, <2>2, <2>3 DEF MailKept
<1> QED BY <1>2, <1>3 DEF ReplayReset

LEMMA ReplayFacts ==
  ASSUME MailTypes, replay.at # "idle"
  PROVE  /\ replay.msg \in [event : TodoEvent, n : Nat] /\ replay.msg.event \in TodoEvent
         /\ replay \in [at : {"publish", "mark"}, msg : [event : TodoEvent, n : Nat]]
  BY DEF MailTypes, Free

LEMMA ReplayPublishStep ==
  ASSUME MailTypes, AttemptInv, Fits(queue), ReplayPublish
  PROVE  MailKept
<1>1. /\ replay.at = "publish" /\ replay' = [replay EXCEPT !.at = "mark"]
      /\ queue' = With(queue, {"mail"}, Message(replay.msg.event, 1))
      /\ UNCHANGED <<delivery, mailer>>
  BY DEF ReplayPublish
<1>2. Message(replay.msg.event, 1) \in MailMessage
  BY <1>1, ReplayFacts, NotificationAssumption DEF MailMessage, Message
<1>3. Fits(queue') /\ \A e \in Event : Kept(e)
  BY <1>1, <1>2, MailGrows DEF MailPlace
<1>4. replay' \in [at : {"publish", "mark"}, msg : [event : TodoEvent, n : Nat]]
  BY <1>1, ReplayFacts
<1>5. MailTypes' /\ AttemptInv'
  BY <1>1, <1>4 DEF MailTypes, AttemptInv, At, Claims, EventOf
<1> QED BY <1>1, <1>3, <1>5 DEF MailKept

LEMMA ReplayMarkStep ==
  ASSUME MailTypes, AttemptInv, Fits(queue), ReplayMark
  PROVE  MailKept
<1> DEFINE e == replay.msg.event
<1>1. /\ replay.at = "mark" /\ replay' = Free /\ UNCHANGED mailer
      /\ \/ queue' = queue
         \/ queue' = Without(queue, "mailDead", replay.msg)
  BY DEF ReplayMark
<1>2. /\ e \in TodoEvent /\ delivery \in [TodoEvent -> DeliveryRow]
      /\ delivery[e] \in DeliveryRow
  BY <1>1, ReplayFacts DEF MailTypes
<1>3. /\ AttemptInv' /\ delivery' \in [TodoEvent -> DeliveryRow]
      /\ \A d \in TodoEvent : delivery[d].status # "none" => delivery'[d].status # "none"
  <2>1. CASE delivery' = delivery
    BY <1>1, <1>2, <2>1 DEF AttemptInv, At, Claims, EventOf
  <2>2. CASE delivery' = [delivery EXCEPT ![e].status = "replay_queued",
                                          ![e].fresh = FALSE, ![e].holder = Nobody]
    <3> DEFINE row == [delivery[e] EXCEPT !.status = "replay_queued", !.fresh = FALSE,
                                          !.holder = Nobody]
    <3>1. row \in DeliveryRow /\ row.status = "replay_queued"
      BY <1>2 DEF DeliveryRow, Status
    <3>2. delivery' = [delivery EXCEPT ![e] = row]
      BY <1>2, <2>2
    <3> HIDE DEF row, e
    <3> QED BY <1>1, <1>2, <3>1, <3>2, ReplayRowStep
  <2> QED BY <2>1, <2>2 DEF ReplayMark
<1>4. MailTypes'
  BY <1>1, <1>3 DEF MailTypes
<1>5. Fits(queue') /\ \A d \in Event : Kept(d)
  <2>1. CASE queue' = queue
    BY <2>1, QueueSame
  <2>2. CASE queue' = Without(queue, "mailDead", replay.msg)
    <3>1. /\ "mailDead" \notin HistoryPlace /\ "mailDead" \notin OwnerPlace
          /\ "mailDead" \notin MailWaits /\ "mailDead" \in Place
      BY DEF HistoryPlace, HistoryWaits, OwnerPlace, MailWaits, Place
    <3>2. Fits(queue') /\ Grows(Without(queue, "mailDead", replay.msg), queue')
      BY <2>2, <3>1, WithoutFits DEF Grows
    <3> QED BY <3>1, <3>2, TakenKeeps, PlacesKnown DEF Kept
  <2> QED BY <1>1, <2>1, <2>2
<1> QED BY <1>3, <1>4, <1>5 DEF MailKept

LEMMA ReplayStopsStep ==
  ASSUME MailTypes, AttemptInv, Fits(queue), ReplayStops
  PROVE  MailKept
<1> DEFINE e == replay.msg.event
<1>1. /\ replay.at # "idle" /\ replay' = Free /\ UNCHANGED <<mailer, queue>>
  BY DEF ReplayStops
<1>2. /\ e \in TodoEvent /\ delivery \in [TodoEvent -> DeliveryRow]
      /\ delivery[e] \in DeliveryRow
  BY <1>1, ReplayFacts DEF MailTypes
<1>3. /\ AttemptInv' /\ delivery' \in [TodoEvent -> DeliveryRow]
      /\ \A d \in TodoEvent : delivery[d].status # "none" => delivery'[d].status # "none"
  <2>1. CASE delivery' = delivery
    BY <1>1, <1>2, <2>1 DEF AttemptInv, At, Claims, EventOf
  <2>2. CASE delivery' = [delivery EXCEPT ![e].holder = Nobody]
    <3> DEFINE row == [delivery[e] EXCEPT !.holder = Nobody]
    <3>1. /\ row \in DeliveryRow /\ row.status = delivery[e].status
          /\ row.attempts = delivery[e].attempts /\ row.holder \notin Mailer
      BY <1>2, NotificationAssumption DEF DeliveryRow
    <3>2. delivery' = [delivery EXCEPT ![e] = row]
      BY <1>2, <2>2
    <3>3. delivery' \in [TodoEvent -> DeliveryRow] /\ delivery'[e] = row
          /\ \A d \in TodoEvent \ {e} : delivery'[d] = delivery[d]
      <4> HIDE DEF row, e
      <4> QED BY <1>2, <3>1, <3>2
    <3> HIDE DEF row, e
    <3>4. \A c \in Mailer : mailer[c].at \in Sending => EventOf(c) \in TodoEvent
      BY BusyFacts DEF Sending
    <3>5. AttemptInv'
      BY <1>1, <3>1, <3>3, <3>4 DEF AttemptInv, At, Claims, EventOf
    <3> QED BY <1>2, <3>1, <3>3, <3>5
  <2> QED BY <2>1, <2>2 DEF ReplayStops
<1>4. MailTypes'
  BY <1>1, <1>3 DEF MailTypes
<1> QED BY <1>1, <1>3, <1>4, QueueSame DEF MailKept

LEMMA OtherMailStep ==
  ASSUME MailTypes, OtherMailTypes, MailNext, faults \in 0..MaxFaults
  PROVE  OtherMailTypes' /\ faults' \in 0..MaxFaults
<1>1. \A c \in Mailer : mailer[c].at # "idle" => EventOf(c) \in TodoEvent
  BY BusyFacts
<1>2. faults' \in 0..MaxFaults
  BY FaultType DEF MailNext
<1>3. ASSUME NEW c \in Mailer, MailerStep(c) PROVE OtherMailTypes'
  <2>1. CASE EnterGuard(c)
    BY <1>1, <2>1 DEF OtherMailTypes, EnterGuard, At
  <2>2. CASE SendMail(c)
    <3>1. EventOf(c) \in TodoEvent /\ mails' = [mails EXCEPT ![EventOf(c)] = @ + 1]
      BY <1>1, <2>2 DEF SendMail, At
    <3>2. mails' \in [TodoEvent -> Nat]
      BY <3>1 DEF OtherMailTypes
    <3> QED BY <2>2, <3>2 DEF OtherMailTypes, SendMail
  <2>3. CASE UNCHANGED <<reserved, guard, account, replays, mails, adrift, careless,
                         misdirected>>
    BY <2>3 DEF OtherMailTypes
  <2> QED BY <1>3, <2>1, <2>2, <2>3
          DEF MailerStep, MarkSent, MarkDeliveryFailed, ScheduleRetry, Bury,
              MarkDeadLetter, Deliver
<1>4. ASSUME ReplayStep PROVE OtherMailTypes'
  <2>1. UNCHANGED <<reserved, guard, account, mails, adrift, careless, misdirected>>
    BY <1>4 DEF ReplayStep, ReplayPublish, ReplayMark, ReplayReset
  <2>2. replays' = replays \/ (replays < MaxReplays /\ replays' = replays + 1)
    BY <1>4 DEF ReplayStep, ReplayPublish, ReplayMark, ReplayReset
  <2>3. replays' \in 0..MaxReplays
    BY <2>2, NotificationAssumption DEF OtherMailTypes
  <2> QED BY <2>1, <2>3 DEF OtherMailTypes
<1>5. ASSUME RequestDeletion \/ ReplayStops PROVE OtherMailTypes'
  BY <1>5 DEF OtherMailTypes, RequestDeletion, ReplayStops
<1>6. ASSUME NEW e \in TodoEvent, LateMail(e) \/ LeaseLapses(e) \/ CleanUpDelivery(e)
      PROVE  OtherMailTypes'
  BY <1>6 DEF OtherMailTypes, LateMail, LeaseLapses, CleanUpDelivery
<1>7. ASSUME NEW c \in Mailer, SendFails(c) \/ SendTimesOut(c) \/ MailerStops(c)
      PROVE  OtherMailTypes'
  BY <1>1, <1>7 DEF OtherMailTypes, SendFails, SendTimesOut, MailerStops, At
<1>8. OtherMailTypes'
  BY <1>3, <1>4, <1>5, <1>6, <1>7 DEF MailNext
<1> QED BY <1>2, <1>8

LEMMA MailStep ==
  ASSUME MailTypes, AttemptInv, Fits(queue), MailNext
  PROVE  MailKept
<1>1. ASSUME NEW c \in Mailer, MailerStep(c) PROVE MailKept
  BY <1>1, SendingStep, MarkSentStep, MarkDeliveryFailedStep, ScheduleRetryStep, BuryStep,
     MarkDeadLetterStep, DeliverStep DEF MailerStep
<1>2. CASE ReplayStep
  BY <1>2, ReplayPublishStep, ReplayMarkStep, ReplayResetStep DEF ReplayStep
<1>3. ASSUME NEW c \in Mailer, SendFails(c) \/ SendTimesOut(c) \/ MailerStops(c)
      PROVE  MailKept
  BY <1>3, SendingStep, MailerStopsStep
<1> QED BY <1>1, <1>2, <1>3, RowStep, ReplayStopsStep DEF MailNext

(***************************************************************************)
(* The invariant of types.                                                 *)
(***************************************************************************)
\* What a step leaves alone, it leaves typed.
LEMMA TypeStep ==
  ASSUME TypeInv, [DeliveryNext]_vars
  PROVE  TypeInv'
<1>0. /\ Fits(queue) /\ TodoOutboxTypeOK /\ AccountOutboxTypeOK /\ HistoryTypeOK
      /\ MailTypes /\ OtherMailTypes /\ AttemptInv /\ faults \in 0..MaxFaults
  BY NotificationParts DEF TypeInv, DeliveryTypeOK, TodoOutboxTypeOK
<1>1. ASSUME Fits(queue'), TodoOutboxTypeOK', AccountOutboxTypeOK', HistoryTypeOK',
             MailTypes', OtherMailTypes', AttemptInv'
      PROVE  TypeInv'
  <2>1. BrokerTypeOK'
    BY <1>1, MeantAreMessages DEF Fits, BrokerTypeOK
  <2> QED BY <1>1, <2>1, NotificationPartsPrimed DEF TypeInv, DeliveryTypeOK
<1>2. ASSUME UNCHANGED todoOutboxVars, faults' \in 0..MaxFaults PROVE TodoOutboxTypeOK'
  BY <1>0, <1>2 DEF todoOutboxVars, TodoOutboxTypeOK
<1>3. ASSUME UNCHANGED accountOutboxVars PROVE AccountOutboxTypeOK'
  BY <1>0, <1>3 DEF accountOutboxVars, AccountOutboxTypeOK
<1>4. ASSUME UNCHANGED historyVars PROVE HistoryTypeOK'
  BY <1>0, <1>4 DEF historyVars, HistoryTypeOK
<1>5. ASSUME UNCHANGED mailVars PROVE MailTypes' /\ OtherMailTypes' /\ AttemptInv'
  BY <1>0, <1>5 DEF mailVars, MailTypes, OtherMailTypes, AttemptInv, At, Claims, EventOf
<1>6. CASE UNCHANGED vars
  BY <1>0, <1>1, <1>2, <1>3, <1>4, <1>5, <1>6 DEF vars
<1>7. CASE TodoOutboxNext /\ UNCHANGED <<accountOutboxVars, others>>
  BY <1>0, <1>1, <1>3, <1>4, <1>5, <1>7, TodoOutboxTypes DEF others
<1>8. CASE AccountOutboxNext /\ UNCHANGED <<todoOutboxVars, others>>
  BY <1>0, <1>1, <1>2, <1>4, <1>5, <1>8, AccountOutboxTypes DEF others
<1>9. CASE RetryDue /\ UNCHANGED <<faults, todoOutboxVars, accountOutboxVars, others>>
  BY <1>0, <1>1, <1>2, <1>3, <1>4, <1>5, <1>9, RetryDueStep DEF others
<1>10. CASE ConsumerNext /\ UNCHANGED <<todoOutboxVars, accountOutboxVars, mailVars>>
  BY <1>0, <1>1, <1>2, <1>3, <1>5, <1>10, ConsumerStep
<1>11. CASE MailNext /\ UNCHANGED <<todoOutboxVars, accountOutboxVars, historyVars>>
  BY <1>0, <1>1, <1>2, <1>3, <1>4, <1>11, MailStep, OtherMailStep DEF MailKept
<1>12. CASE Replayed /\ \/ \E dead \in Place : ReplayDead(dead)
                        \/ \E e \in TodoEvent : ReplayEvent(e)
                        \/ \E e \in AccountEvent : ReplayOwnerEvent(e)
  <2>1. Fits(queue') /\ HistoryTypeOK'
    BY <1>0, <1>12, ReplayedStep
  <2>2. /\ UNCHANGED <<delivery, reserved, guard, account, mailer, replay, mails, adrift,
                       careless, misdirected>>
        /\ UNCHANGED <<faults, todoOutboxVars, accountOutboxVars>>
        /\ replays < MaxReplays /\ replays' = replays + 1
    BY <1>12 DEF Replayed
  <2>3. replays' \in 0..MaxReplays
    BY <1>0, <2>2, NotificationAssumption DEF OtherMailTypes
  <2>4. MailTypes' /\ OtherMailTypes' /\ AttemptInv'
    BY <1>0, <2>2, <2>3 DEF MailTypes, OtherMailTypes, AttemptInv, At, Claims, EventOf
  <2> QED BY <1>0, <1>1, <1>2, <1>3, <2>1, <2>2, <2>4
<1> QED BY <1>6, <1>7, <1>8, <1>9, <1>10, <1>11, <1>12 DEF DeliveryNext

THEOREM TypeInvariant == DeliverySpec => []TypeInv
<1>1. DeliveryInit => TypeInv
  BY InitTypes
<1>2. TypeInv /\ [DeliveryNext]_vars => TypeInv'
  BY TypeStep
<1> QED BY <1>1, <1>2, PTL DEF DeliverySpec

\* The types of the outboxes, queues, consumers and notifications; no attempt
\* counts beyond the last (maxDeliveryAttempts).
THEOREM DeliveryTypes == DeliverySpec => []DeliveryTypeOK
<1>1. TypeInv => DeliveryTypeOK
  BY DEF TypeInv
<1> QED BY <1>1, TypeInvariant, PTL

(***************************************************************************)
(* What the outboxes and the notifications do to the queues.                *)
(***************************************************************************)
LEMMA TodoPublishes ==
  ASSUME TodoOutboxNext
  PROVE  queue' = queue \/ \E e \in TodoEvent : queue' = Routed(queue, e, 0)
<1>1. ASSUME NEW e \in TodoEvent, Append(e) \/ LockLapses(e) \/ CleanUpRow(e)
      PROVE  queue' = queue
  BY <1>1 DEF Append, LockLapses, CleanUpRow
<1>2. ASSUME NEW p \in TodoPublisher,
             \/ ClaimPendingEvents(p) \/ MarkPublished(p) \/ MarkFailed(p)
             \/ ConnectionCloses(p) \/ PublisherStops(p)
      PROVE  queue' = queue
  BY <1>2 DEF ClaimPendingEvents, MarkPublished, MarkFailed, ConnectionCloses,
              PublisherStops
<1>3. ASSUME NEW p \in TodoPublisher, NEW e \in TodoEvent,
             Publish(p, e) \/ ConfirmLost(p, e)
      PROVE  queue' = queue \/ queue' = Routed(queue, e, 0)
  BY <1>3 DEF Publish, ConfirmLost
<1> QED BY <1>1, <1>2, <1>3 DEF TodoOutboxNext, TodoPublisherStep

LEMMA AccountPublishes ==
  ASSUME AccountOutboxNext
  PROVE  queue' = queue \/ \E e \in AccountEvent : queue' = Routed(queue, e, 0)
<1>1. ASSUME NEW e \in AccountEvent, Register(e) \/ AccountLockLapses(e)
      PROVE  queue' = queue
  BY <1>1 DEF Register, AccountLockLapses
<1>2. ASSUME NEW p \in AccountPublisher,
             \/ Connect(p) \/ ClaimAccountEvents(p) \/ MarkAccountPublished(p)
             \/ MarkAccountFailed(p) \/ PublisherCloses(p) \/ ReleaseWorkerLocks(p)
             \/ AccountPublisherDies(p)
      PROVE  queue' = queue
  BY <1>2 DEF Connect, ClaimAccountEvents, MarkAccountPublished, MarkAccountFailed,
              PublisherCloses, ReleaseWorkerLocks, AccountPublisherDies
<1>3. ASSUME NEW p \in AccountPublisher, NEW e \in AccountEvent,
             PublishAccountEvent(p, e) \/ AccountConfirmLost(p, e)
      PROVE  queue' = queue \/ queue' = Routed(queue, e, 0)
  BY <1>3 DEF PublishAccountEvent, AccountConfirmLost
<1> QED BY <1>1, <1>2, <1>3 DEF AccountOutboxNext, AccountPublisherStep

LEMMA MailTouches ==
  ASSUME MailNext
  PROVE  /\ \/ queue' = queue
            \/ \E to \in MailPlace : \E m :
                 queue' = With(queue, {to}, m) \/ queue' = Without(queue, to, m)
         /\ replays' \in {replays, replays + 1}
<1> DEFINE Touched == \/ queue' = queue
                      \/ \E to \in MailPlace : \E m :
                           queue' = With(queue, {to}, m) \/ queue' = Without(queue, to, m)
<1>1. ASSUME NEW c \in Mailer, NEW m, MailerStep(c) \/ Deliver(c, m)
      PROVE  Touched
  <2>1. ASSUME EnterGuard(c) \/ SendMail(c) \/ MarkSent(c) PROVE Touched
    BY <2>1 DEF EnterGuard, SendMail, MarkSent
  <2>2. ASSUME MarkDeliveryFailed(c) \/ MarkDeadLetter(c) PROVE Touched
    BY <2>2 DEF MailPlace, MarkDeliveryFailed, MarkDeadLetter, Requeued
  <2>3. ASSUME ScheduleRetry(c) \/ Bury(c) PROVE Touched
    BY <2>3 DEF MailPlace, ScheduleRetry, Bury
  <2>4. ASSUME NEW n, Deliver(c, n) PROVE Touched
    BY <2>4 DEF MailPlace, Deliver
  <2> QED
    <3> HIDE DEF Touched
    <3> QED BY <1>1, <2>1, <2>2, <2>3, <2>4 DEF MailerStep
<1>2. ASSUME NEW c \in Mailer, SendFails(c) \/ SendTimesOut(c) \/ MailerStops(c)
      PROVE  Touched
  BY <1>2 DEF MailPlace, SendFails, SendTimesOut, MailerStops, Requeued
<1>3. ASSUME NEW e \in TodoEvent, LateMail(e) \/ LeaseLapses(e) \/ CleanUpDelivery(e)
      PROVE  Touched
  BY <1>3 DEF LateMail, LeaseLapses, CleanUpDelivery
<1>4. ASSUME ReplayStep \/ ReplayStops \/ RequestDeletion PROVE Touched
  BY <1>4 DEF MailPlace, ReplayStep, Requeued, ReplayPublish, ReplayMark, ReplayReset,
     ReplayStops, RequestDeletion
<1>5. Touched
  <2> HIDE DEF Touched
  <2> QED BY <1>1, <1>2, <1>3, <1>4 DEF MailNext
<1>6. ASSUME NEW c \in Mailer, NEW m, MailerStep(c) \/ Deliver(c, m)
      PROVE  replays' = replays
  BY <1>6 DEF MailerStep, EnterGuard, SendMail, MarkSent,
     MarkDeliveryFailed, ScheduleRetry, Bury, MarkDeadLetter, Deliver
<1>7. ASSUME NEW c \in Mailer, SendFails(c) \/ SendTimesOut(c) \/ MailerStops(c)
      PROVE  replays' = replays
  BY <1>7 DEF SendFails, SendTimesOut, MailerStops
<1>8. ASSUME NEW e \in TodoEvent, LateMail(e) \/ LeaseLapses(e) \/ CleanUpDelivery(e)
      PROVE  replays' = replays
  BY <1>8 DEF LateMail, LeaseLapses, CleanUpDelivery
<1>9. ASSUME ReplayStep \/ ReplayStops \/ RequestDeletion
      PROVE  replays' \in {replays, replays + 1}
  BY <1>9 DEF ReplayStep, Requeued, ReplayPublish, ReplayMark, ReplayReset,
     ReplayStops, RequestDeletion
<1> QED BY <1>5, <1>6, <1>7, <1>8, <1>9 DEF MailNext

(***************************************************************************)
(* Nothing is lost.                                                        *)
(***************************************************************************)
\* The places where an event that was published is found.
TodoSafe(e) ==
  /\ e \in history \/ Somewhere(queue, e, HistoryPlace)
  /\ delivery[e].status # "none" \/ Somewhere(queue, e, MailWaits)
AccountSafe(e) == e \in applied \/ Somewhere(queue, e, OwnerPlace)

\* A worker that is at its mark has published.
SafeInv ==
  /\ \A e \in TodoEvent : todoRow[e].state \in {"published", "deleted"} => TodoSafe(e)
  /\ \A e \in AccountEvent : accountRow[e].state = "published" => AccountSafe(e)
  /\ \A p \in TodoPublisher :
       todoPublisher[p].at = "mark" => TodoSafe(todoPublisher[p].event)
  /\ \A p \in AccountPublisher :
       accountPublisher[p].at = "mark" => AccountSafe(accountPublisher[p].event)

LEMMA SafetyIsKept ==
  ASSUME TypeInv, [DeliveryNext]_vars
  PROVE  /\ \A e \in TodoEvent : TodoSafe(e) => TodoSafe(e)'
         /\ \A e \in AccountEvent : AccountSafe(e) => AccountSafe(e)'
<1>0. Fits(queue) /\ HistoryTypeOK /\ MailTypes /\ AttemptInv /\ faults \in 0..MaxFaults
  BY NotificationParts DEF TypeInv, DeliveryTypeOK, TodoOutboxTypeOK
<1>1. ASSUME \A e \in Event : Kept(e), history \subseteq history', applied \subseteq applied',
             \A e \in TodoEvent : delivery[e].status # "none" => delivery'[e].status # "none"
      PROVE  /\ \A e \in TodoEvent : TodoSafe(e) => TodoSafe(e)'
             /\ \A e \in AccountEvent : AccountSafe(e) => AccountSafe(e)'
  BY <1>1 DEF Kept, TodoSafe, AccountSafe, Event
<1>2. ASSUME Grows(queue, queue'), UNCHANGED others
      PROVE  /\ \A e \in TodoEvent : TodoSafe(e) => TodoSafe(e)'
             /\ \A e \in AccountEvent : AccountSafe(e) => AccountSafe(e)'
  BY <1>1, <1>2, GrowthKeeps DEF others, historyVars, mailVars
<1>3. CASE UNCHANGED vars
  BY <1>2, <1>3 DEF vars, others, Grows
<1>4. CASE TodoOutboxNext /\ UNCHANGED <<accountOutboxVars, others>>
  <2>1. queue' = queue \/ \E e \in TodoEvent : queue' = Routed(queue, e, 0)
    BY <1>4, TodoPublishes
  <2>2. Grows(queue, queue')
    BY <1>0, <2>1, RoutedFits DEF Grows, Event
  <2> QED BY <1>2, <1>4, <2>2
<1>5. CASE AccountOutboxNext /\ UNCHANGED <<todoOutboxVars, others>>
  <2>1. queue' = queue \/ \E e \in AccountEvent : queue' = Routed(queue, e, 0)
    BY <1>5, AccountPublishes
  <2>2. Grows(queue, queue')
    BY <1>0, <2>1, RoutedFits DEF Grows, Event
  <2> QED BY <1>2, <1>5, <2>2
<1>6. CASE RetryDue /\ UNCHANGED <<faults, todoOutboxVars, accountOutboxVars, others>>
  BY <1>0, <1>1, <1>6, RetryDueStep DEF others, historyVars, mailVars
<1>7. CASE ConsumerNext /\ UNCHANGED <<todoOutboxVars, accountOutboxVars, mailVars>>
  BY <1>0, <1>1, <1>7, ConsumerStep DEF mailVars
<1>8. CASE MailNext /\ UNCHANGED <<todoOutboxVars, accountOutboxVars, historyVars>>
  BY <1>0, <1>1, <1>8, MailStep DEF MailKept, historyVars
<1>9. CASE Replayed /\ \/ \E dead \in Place : ReplayDead(dead)
                       \/ \E e \in TodoEvent : ReplayEvent(e)
                       \/ \E e \in AccountEvent : ReplayOwnerEvent(e)
  BY <1>0, <1>1, <1>9, ReplayedStep DEF Replayed, historyVars
<1> QED BY <1>3, <1>4, <1>5, <1>6, <1>7, <1>8, <1>9 DEF DeliveryNext

LEMMA PublishedIsSafe ==
  ASSUME TypeInv, NEW e \in Event, queue' = Routed(queue, e, 0)
  PROVE  /\ e \in TodoEvent => TodoSafe(e)'
         /\ e \in AccountEvent => AccountSafe(e)'
<1>1. /\ e \in TodoEvent => /\ Message(e, 0) \in Holds(queue', "history")
                            /\ Message(e, 1) \in Holds(queue', "mail")
      /\ e \notin TodoEvent => Message(e, 0) \in Holds(queue', "owner")
  BY RoutedFits DEF TypeInv
<1>2. Message(e, 0).event = e /\ Message(e, 1).event = e
  BY DEF Message
<1>3. e \in AccountEvent => e \notin TodoEvent
  BY EventAssumption
<1> QED BY <1>1, <1>2, <1>3
        DEF TodoSafe, AccountSafe, Somewhere, HistoryPlace, HistoryWaits, MailWaits,
            OwnerPlace

\* A row becomes published only by a worker at its mark, and a worker comes to
\* its mark only by publishing.
LEMMA TodoMarks ==
  ASSUME TypeInv, TodoOutboxNext
  PROVE  /\ \A e \in TodoEvent : todoRow'[e].state \in {"published", "deleted"} =>
              \/ todoRow[e].state \in {"published", "deleted"}
              \/ \E p \in TodoPublisher :
                   todoPublisher[p].at = "mark" /\ todoPublisher[p].event = e
         /\ \A p \in TodoPublisher : todoPublisher'[p].at = "mark" =>
              \/ todoPublisher[p].at = "mark" /\ todoPublisher'[p] = todoPublisher[p]
              \/ /\ todoPublisher'[p].event \in TodoEvent
                 /\ queue' = Routed(queue, todoPublisher'[p].event, 0)
<1> DEFINE Rows == \A e \in TodoEvent : todoRow'[e].state = todoRow[e].state
           Workers == \A p \in TodoPublisher : todoPublisher'[p].at = "mark" =>
                        todoPublisher'[p] = todoPublisher[p]
           Good == /\ \A e \in TodoEvent : todoRow'[e].state \in {"published", "deleted"} =>
                        \/ todoRow[e].state \in {"published", "deleted"}
                        \/ \E p \in TodoPublisher :
                             todoPublisher[p].at = "mark" /\ todoPublisher[p].event = e
                   /\ \A p \in TodoPublisher : todoPublisher'[p].at = "mark" =>
                        \/ todoPublisher[p].at = "mark" /\ todoPublisher'[p] = todoPublisher[p]
                        \/ /\ todoPublisher'[p].event \in TodoEvent
                           /\ queue' = Routed(queue, todoPublisher'[p].event, 0)
<1>0. /\ todoRow \in [TodoEvent -> [state : {"none", "pending", "published", "deleted"},
                                    holder : TodoPublisher \cup {NoPublisher},
                                    fresh : BOOLEAN]]
      /\ todoPublisher \in
           [TodoPublisher ->
              [at : {"idle", "next"}, batch : SUBSET TodoEvent]
                \cup [at : {"mark", "fail"}, batch : SUBSET TodoEvent, event : TodoEvent]]
  BY DEF TypeInv, DeliveryTypeOK, TodoOutboxTypeOK
<1>1. ASSUME NEW e \in TodoEvent, Append(e) \/ LockLapses(e) \/ CleanUpRow(e)
      PROVE  Good
  <2>1. todoPublisher' = todoPublisher
    BY <1>1 DEF Append, LockLapses, CleanUpRow
  <2>2. \A d \in TodoEvent : todoRow'[d].state \in {"published", "deleted"} =>
          todoRow[d].state \in {"published", "deleted"}
    <3>1. CASE Append(e)
      BY <1>0, <3>1 DEF Append
    <3>2. CASE todoRow' = [todoRow EXCEPT ![e].fresh = FALSE]
      BY <1>0, <3>2
    <3>3. CASE CleanUpRow(e)
      BY <1>0, <3>3 DEF CleanUpRow
    <3> QED BY <1>1, <3>1, <3>2, <3>3 DEF LockLapses
  <2> QED BY <2>1, <2>2
<1>2. ASSUME NEW p \in TodoPublisher, ClaimPendingEvents(p) PROVE Good
  <2>1. Rows
    BY <1>0, <1>2 DEF ClaimPendingEvents
  <2>2. Workers
    BY <1>0, <1>2 DEF ClaimPendingEvents
  <2> QED BY <2>1, <2>2
<1>3. ASSUME NEW p \in TodoPublisher, MarkPublished(p) PROVE Good
  <2>1. Workers
    BY <1>0, <1>3 DEF MarkPublished, Advance, Resting
  <2>2. \A e \in TodoEvent : e # todoPublisher[p].event => todoRow'[e] = todoRow[e]
    BY <1>0, <1>3 DEF MarkPublished
  <2>3. todoPublisher[p].at = "mark"
    BY <1>3 DEF MarkPublished
  <2> QED BY <2>1, <2>2, <2>3
<1>4. ASSUME NEW p \in TodoPublisher, MarkFailed(p) PROVE Good
  <2>1. Rows
    <3>1. \A e \in TodoEvent : Unlocked(todoRow[e]).state = todoRow[e].state
      BY <1>0 DEF Unlocked
    <3>2. \/ todoRow' = todoRow
          \/ \E e \in TodoEvent : todoRow' = [todoRow EXCEPT ![e] = Unlocked(todoRow[e])]
      BY <1>0, <1>4 DEF MarkFailed
    <3> QED BY <1>0, <3>1, <3>2
  <2>2. Workers
    BY <1>0, <1>4 DEF MarkFailed, Advance, Resting
  <2> QED BY <2>1, <2>2
<1>5. ASSUME NEW p \in TodoPublisher, NEW e \in TodoEvent, Publish(p, e) \/ ConfirmLost(p, e)
      PROVE  Good
  <2>1. todoRow' = todoRow
    BY <1>5 DEF Publish, ConfirmLost
  <2>2. \A d \in TodoPublisher \ {p} : todoPublisher'[d] = todoPublisher[d]
    BY <1>0, <1>5 DEF Publish, ConfirmLost, Hold
  <2>3. todoPublisher'[p].at = "mark" =>
          todoPublisher'[p].event = e /\ queue' = Routed(queue, e, 0)
    BY <1>0, <1>5 DEF Publish, ConfirmLost, Hold
  <2> QED BY <2>1, <2>2, <2>3
<1>6. ASSUME NEW p \in TodoPublisher, ConnectionCloses(p) \/ PublisherStops(p)
      PROVE  Good
  <2>1. todoRow' = todoRow /\ Workers
    BY <1>0, <1>6 DEF ConnectionCloses, PublisherStops, Resting
  <2> QED BY <2>1
<1> QED BY <1>1, <1>2, <1>3, <1>4, <1>5, <1>6 DEF TodoOutboxNext, TodoPublisherStep

LEMMA AccountMarks ==
  ASSUME TypeInv, AccountOutboxNext
  PROVE  /\ \A e \in AccountEvent : accountRow'[e].state = "published" =>
              \/ accountRow[e].state = "published"
              \/ \E p \in AccountPublisher :
                   accountPublisher[p].at = "mark" /\ accountPublisher[p].event = e
         /\ \A p \in AccountPublisher : accountPublisher'[p].at = "mark" =>
              \/ /\ accountPublisher[p].at = "mark"
                 /\ accountPublisher'[p] = accountPublisher[p]
              \/ /\ accountPublisher'[p].event \in AccountEvent
                 /\ queue' = Routed(queue, accountPublisher'[p].event, 0)
<1> DEFINE Rows == \A e \in AccountEvent : accountRow'[e].state = "published" =>
                                             accountRow[e].state = "published"
           Workers == \A p \in AccountPublisher : accountPublisher'[p].at = "mark" =>
                        accountPublisher'[p] = accountPublisher[p]
           Good == /\ \A e \in AccountEvent : accountRow'[e].state = "published" =>
                        \/ accountRow[e].state = "published"
                        \/ \E p \in AccountPublisher :
                             accountPublisher[p].at = "mark" /\ accountPublisher[p].event = e
                   /\ \A p \in AccountPublisher : accountPublisher'[p].at = "mark" =>
                        \/ /\ accountPublisher[p].at = "mark"
                           /\ accountPublisher'[p] = accountPublisher[p]
                        \/ /\ accountPublisher'[p].event \in AccountEvent
                           /\ queue' = Routed(queue, accountPublisher'[p].event, 0)
<1>0. /\ accountRow \in [AccountEvent -> [state : {"none", "pending", "published"},
                                          holder : AccountPublisher \cup {NoPublisher},
                                          fresh : BOOLEAN]]
      /\ accountPublisher \in
           [AccountPublisher ->
              [at : {"idle", "next"}, batch : SUBSET AccountEvent]
                \cup [at : {"mark", "fail"}, batch : SUBSET AccountEvent,
                      event : AccountEvent]]
  BY DEF TypeInv, DeliveryTypeOK, AccountOutboxTypeOK
<1>1. ASSUME NEW e \in AccountEvent, Register(e) \/ AccountLockLapses(e)
      PROVE  Good
  <2>1. accountPublisher' = accountPublisher
    BY <1>1 DEF Register, AccountLockLapses
  <2>2. Rows
    <3>1. CASE Register(e)
      BY <1>0, <3>1 DEF Register
    <3>2. CASE accountRow' = [accountRow EXCEPT ![e].fresh = FALSE]
      BY <1>0, <3>2
    <3> QED BY <1>1, <3>1, <3>2 DEF AccountLockLapses
  <2> QED BY <2>1, <2>2
<1>2. ASSUME NEW p \in AccountPublisher, ClaimAccountEvents(p) PROVE Good
  <2>1. Rows
    BY <1>0, <1>2 DEF ClaimAccountEvents
  <2>2. Workers
    BY <1>0, <1>2 DEF ClaimAccountEvents
  <2> QED BY <2>1, <2>2
<1>3. ASSUME NEW p \in AccountPublisher, MarkAccountPublished(p) PROVE Good
  <2>1. Workers
    BY <1>0, <1>3 DEF MarkAccountPublished, AdvanceAccount, Resting
  <2>2. \A e \in AccountEvent : e # accountPublisher[p].event => accountRow'[e] = accountRow[e]
    BY <1>0, <1>3 DEF MarkAccountPublished
  <2>3. accountPublisher[p].at = "mark"
    BY <1>3 DEF MarkAccountPublished
  <2> QED BY <2>1, <2>2, <2>3
<1>4. ASSUME NEW p \in AccountPublisher, MarkAccountFailed(p) PROVE Good
  <2>1. Rows
    <3>1. \A e \in AccountEvent : Unlocked(accountRow[e]).state = accountRow[e].state
      BY <1>0 DEF Unlocked
    <3>2. \/ accountRow' = accountRow
          \/ \E e \in AccountEvent :
               accountRow' = [accountRow EXCEPT ![e] = Unlocked(accountRow[e])]
      BY <1>0, <1>4 DEF MarkAccountFailed
    <3> QED BY <1>0, <3>1, <3>2
  <2>2. Workers
    BY <1>0, <1>4 DEF MarkAccountFailed, AdvanceAccount, Resting
  <2> QED BY <2>1, <2>2
<1>5. ASSUME NEW p \in AccountPublisher, NEW e \in AccountEvent,
             PublishAccountEvent(p, e) \/ AccountConfirmLost(p, e)
      PROVE  Good
  <2>1. accountRow' = accountRow
    BY <1>5 DEF PublishAccountEvent, AccountConfirmLost
  <2>2. \A d \in AccountPublisher \ {p} : accountPublisher'[d] = accountPublisher[d]
    BY <1>0, <1>5 DEF PublishAccountEvent, AccountConfirmLost, HoldAccount
  <2>3. accountPublisher'[p].at = "mark" =>
          accountPublisher'[p].event = e /\ queue' = Routed(queue, e, 0)
    BY <1>0, <1>5 DEF PublishAccountEvent, AccountConfirmLost, HoldAccount
  <2> QED BY <2>1, <2>2, <2>3
<1>6. ASSUME NEW p \in AccountPublisher,
             \/ Connect(p) \/ PublisherCloses(p) \/ AccountPublisherDies(p)
             \/ ReleaseWorkerLocks(p)
      PROVE  Good
  <2>1. Rows
    <3>1. \A e \in AccountEvent : Unlocked(accountRow[e]).state = accountRow[e].state
      BY <1>0 DEF Unlocked
    <3>2. \/ accountRow' = accountRow
          \/ accountRow' = [e \in AccountEvent |->
                             IF OwnsAccount(p, e) THEN Unlocked(accountRow[e])
                             ELSE accountRow[e]]
      BY <1>6 DEF Connect, PublisherCloses, AccountPublisherDies, ReleaseWorkerLocks
    <3> QED BY <1>0, <3>1, <3>2
  <2>2. Workers
    BY <1>0, <1>6 DEF Connect, PublisherCloses, AccountPublisherDies, ReleaseWorkerLocks,
       Resting
  <2> QED BY <2>1, <2>2
<1> QED BY <1>1, <1>2, <1>3, <1>4, <1>5, <1>6 DEF AccountOutboxNext, AccountPublisherStep

LEMMA SafeStep ==
  ASSUME TypeInv, SafeInv, [DeliveryNext]_vars
  PROVE  SafeInv'
<1>1. /\ \A e \in TodoEvent : TodoSafe(e) => TodoSafe(e)'
      /\ \A e \in AccountEvent : AccountSafe(e) => AccountSafe(e)'
  BY SafetyIsKept
<1>2. /\ \A p \in TodoPublisher : todoPublisher[p].at = "mark" =>
           todoPublisher[p].event \in TodoEvent
      /\ \A p \in AccountPublisher : accountPublisher[p].at = "mark" =>
           accountPublisher[p].event \in AccountEvent
  BY DEF TypeInv, DeliveryTypeOK, TodoOutboxTypeOK, AccountOutboxTypeOK
<1>3. ASSUME todoOutboxVars' = todoOutboxVars
      PROVE  /\ \A e \in TodoEvent : todoRow'[e].state \in {"published", "deleted"} =>
                  TodoSafe(e)'
             /\ \A p \in TodoPublisher :
                  todoPublisher'[p].at = "mark" => TodoSafe(todoPublisher[p].event)'
  BY <1>1, <1>2, <1>3 DEF SafeInv, todoOutboxVars
<1>4. ASSUME accountOutboxVars' = accountOutboxVars
      PROVE  /\ \A e \in AccountEvent : accountRow'[e].state = "published" => AccountSafe(e)'
             /\ \A p \in AccountPublisher :
                  accountPublisher'[p].at = "mark" => AccountSafe(accountPublisher[p].event)'
  BY <1>1, <1>2, <1>4 DEF SafeInv, accountOutboxVars
<1>5. CASE TodoOutboxNext /\ UNCHANGED <<accountOutboxVars, others>>
  <2>1. \A e \in TodoEvent : todoRow'[e].state \in {"published", "deleted"} => TodoSafe(e)'
    BY <1>1, <1>5, TodoMarks DEF SafeInv
  <2>2. ASSUME NEW p \in TodoPublisher, todoPublisher'[p].at = "mark"
        PROVE  TodoSafe(todoPublisher[p].event)'
    <3>1. CASE todoPublisher[p].at = "mark" /\ todoPublisher'[p] = todoPublisher[p]
      BY <1>1, <1>2, <3>1 DEF SafeInv
    <3>2. CASE /\ todoPublisher'[p].event \in TodoEvent
               /\ queue' = Routed(queue, todoPublisher'[p].event, 0)
      BY <3>2, PublishedIsSafe DEF Event
    <3> QED BY <1>5, <2>2, <3>1, <3>2, TodoMarks
  <2> QED BY <1>4, <1>5, <2>1, <2>2 DEF SafeInv
<1>6. CASE AccountOutboxNext /\ UNCHANGED <<todoOutboxVars, others>>
  <2>1. \A e \in AccountEvent : accountRow'[e].state = "published" => AccountSafe(e)'
    BY <1>1, <1>6, AccountMarks DEF SafeInv
  <2>2. ASSUME NEW p \in AccountPublisher, accountPublisher'[p].at = "mark"
        PROVE  AccountSafe(accountPublisher[p].event)'
    <3>1. CASE accountPublisher[p].at = "mark" /\ accountPublisher'[p] = accountPublisher[p]
      BY <1>1, <1>2, <3>1 DEF SafeInv
    <3>2. CASE /\ accountPublisher'[p].event \in AccountEvent
               /\ queue' = Routed(queue, accountPublisher'[p].event, 0)
      BY <3>2, PublishedIsSafe DEF Event
    <3> QED BY <1>6, <2>2, <3>1, <3>2, AccountMarks
  <2> QED BY <1>3, <1>6, <2>1, <2>2 DEF SafeInv
<1>7. CASE UNCHANGED <<todoOutboxVars, accountOutboxVars>>
  BY <1>3, <1>4, <1>7 DEF SafeInv
<1> QED BY <1>5, <1>6, <1>7 DEF DeliveryNext, Replayed, vars

\* Only an operator sends to the history's queue itself: without a replay
\* nothing is dropped.
SentPlace == {"historySent", "historyRetrySent", "dropped"}
DroppedInv == replays = 0 => \A p \in SentPlace : Holds(queue, p) = {}
Lacks(q, r) == \A p \in SentPlace : Holds(q, p) = {} => Holds(r, p) = {}

LEMMA WithLacks ==
  ASSUME NEW q, Fits(q), NEW P, P \cap SentPlace = {}, NEW m
  PROVE  Lacks(q, With(q, P, m))
<1>1. SentPlace \subseteq Place
  BY DEF SentPlace, Place, RetryPlace
<1> QED BY <1>1, WithHolds DEF Lacks

LEMMA WithoutLacks ==
  ASSUME NEW q, Fits(q), NEW p \in Place, NEW m
  PROVE  Lacks(q, Without(q, p, m))
<1>1. SentPlace \subseteq Place
  BY DEF SentPlace, Place, RetryPlace
<1> QED BY <1>1, WithoutHolds DEF Lacks

LEMMA LacksMore ==
  ASSUME NEW q, NEW r, NEW s, Lacks(q, r), Lacks(r, s) PROVE Lacks(q, s)
  BY DEF Lacks

LEMMA RoutedLacks ==
  ASSUME NEW q, Fits(q), NEW e \in Event, NEW n \in Nat
  PROVE  Lacks(q, Routed(q, e, n))
<1> DEFINE P == BoundTo(e) \ {"mail"}
           Q == BoundTo(e) \cap {"mail"}
           r == With(q, P, Message(e, n))
<1>1. P \cap SentPlace = {} /\ Q \cap SentPlace = {}
  BY DEF BoundTo, SentPlace
<1>2. \A p \in P \cap Place : Message(e, n) \in Meant(p)
  BY DEF BoundTo, Meant, MailPlace, HistoryQueue, Message, Event
<1>3. Routed(q, e, n) = With(r, Q, Message(e, 1))
  BY DEF Routed
<1>4. Fits(r) /\ Lacks(q, r)
  <2> HIDE DEF P
  <2> QED BY <1>1, <1>2, WithFits, WithLacks
<1>5. Lacks(r, With(r, Q, Message(e, 1)))
  <2> HIDE DEF P, Q, r
  <2> QED BY <1>1, <1>4, WithLacks
<1> HIDE DEF P, Q, r
<1> QED BY <1>3, <1>4, <1>5, LacksMore

LEMMA DroppedStep ==
  ASSUME TypeInv, DroppedInv, [DeliveryNext]_vars
  PROVE  DroppedInv'
<1>0. Fits(queue) /\ replays \in Nat
  BY NotificationAssumption DEF TypeInv, DeliveryTypeOK, NotificationTypeOK
<1>1. ASSUME Lacks(queue, queue'), replays' = 0 => replays = 0 PROVE DroppedInv'
  BY <1>1 DEF Lacks, DroppedInv, Holds
<1>2. Lacks(queue, queue)
  BY DEF Lacks
<1>3. CASE UNCHANGED vars
  BY <1>3 DEF vars, mailVars, DroppedInv, Holds
<1>4. CASE TodoOutboxNext /\ UNCHANGED <<accountOutboxVars, others>>
  <2>1. queue' = queue \/ \E e \in TodoEvent : queue' = Routed(queue, e, 0)
    BY <1>4, TodoPublishes
  <2>2. Lacks(queue, queue')
    BY <1>0, <1>2, <2>1, RoutedLacks DEF Event
  <2> QED BY <1>1, <1>4, <2>2 DEF others, mailVars
<1>5. CASE AccountOutboxNext /\ UNCHANGED <<todoOutboxVars, others>>
  <2>1. queue' = queue \/ \E e \in AccountEvent : queue' = Routed(queue, e, 0)
    BY <1>5, AccountPublishes
  <2>2. Lacks(queue, queue')
    BY <1>0, <1>2, <2>1, RoutedLacks DEF Event
  <2> QED BY <1>1, <1>5, <2>2 DEF others, mailVars
<1>6. CASE RetryDue /\ UNCHANGED <<faults, todoOutboxVars, accountOutboxVars, others>>
  <2> SUFFICES ASSUME replays = 0 PROVE \A p \in SentPlace : Holds(queue', p) = {}
    BY <1>6 DEF others, mailVars, DroppedInv, Holds
  <2>1. PICK p \in RetryPlace : \E m \in HeldBy(p) :
          queue' = CASE p = "mailRetry" -> With(Without(queue, p, m), {"mail"}, m)
                     [] p = "historyRetrySent" ->
                          With(Without(queue, p, m), {"dropped"}, m)
                     [] OTHER -> Routed(Without(queue, p, m), m.event, m.n)
    BY <1>6 DEF RetryDue, HeldBy
  <2>2. p # "historyRetrySent"
    BY <2>1 DEF DroppedInv, SentPlace, Holds, HeldBy
  <2>3. PICK m \in HeldBy(p) :
          \/ queue' = With(Without(queue, p, m), {"mail"}, m)
          \/ queue' = Routed(Without(queue, p, m), m.event, m.n)
    BY <2>1, <2>2
  <2>4. p \in Place /\ m \in [event : Event, n : Nat]
    BY <1>0, HeldMessage, PlacesKnown
  <2>5. Fits(Without(queue, p, m)) /\ Lacks(queue, Without(queue, p, m))
    BY <1>0, <2>4, WithoutFits, WithoutLacks
  <2>6. {"mail"} \cap SentPlace = {}
    BY DEF SentPlace
  <2>7. Lacks(queue, queue')
    BY <2>3, <2>4, <2>5, <2>6, WithLacks, RoutedLacks, LacksMore
  <2> QED BY <2>7 DEF Lacks, DroppedInv
<1>7. CASE ConsumerNext /\ UNCHANGED <<todoOutboxVars, accountOutboxVars, mailVars>>
  <2> SUFFICES ASSUME replays = 0 PROVE \A p \in SentPlace : Holds(queue', p) = {}
    BY <1>7 DEF mailVars, DroppedInv, Holds
  <2>1. HeldBy("historySent") = {}
    BY DEF DroppedInv, SentPlace, Holds, HeldBy
  <2>2. \/ queue' = queue
        \/ \E p \in {"history", "owner"} : \E m \in HeldBy(p) :
             \E dead \in {"historyDead", "ownerDead"} :
               \/ queue' = Without(queue, p, m)
               \/ queue' = Retried(Without(queue, p, m), p, m, dead)
               \/ queue' = Retried(queue, p, m, dead)
    BY <1>7, <2>1 DEF ConsumerNext, AppendHistory, AppendUnacked, AppendFails, RetryUnacked,
       ApplyOwnerEvent, OwnerEventFails, OwnerRetryUnacked, OwnerRetried, Arrival
  <2>3. ASSUME NEW p \in {"history", "owner"}, NEW m, NEW q, Fits(q),
               NEW dead \in {"historyDead", "ownerDead"}
        PROVE  Lacks(q, Retried(q, p, m, dead))
    <3>1. {dead} \cap SentPlace = {} /\ RetriedTo(p, m) \cap SentPlace = {}
      BY DEF SentPlace, RetriedTo, RetryBoundTo
    <3> QED BY <2>3, <3>1, WithLacks DEF Retried
  <2>4. \A p \in {"history", "owner"} : \A m :
          Fits(Without(queue, p, m)) /\ Lacks(queue, Without(queue, p, m))
    BY <1>0, WithoutFits, WithoutLacks DEF Place
  <2>5. Lacks(queue, queue')
    BY <1>0, <1>2, <2>2, <2>3, <2>4, LacksMore
  <2> QED BY <2>5 DEF Lacks, DroppedInv
<1>8. CASE MailNext /\ UNCHANGED <<todoOutboxVars, accountOutboxVars, historyVars>>
  <2>1. \/ queue' = queue
        \/ \E to \in MailPlace : \E m :
             queue' = With(queue, {to}, m) \/ queue' = Without(queue, to, m)
    BY <1>8, MailTouches
  <2>2. replays' \in {replays, replays + 1}
    BY <1>8, MailTouches
  <2>3. \A to \in MailPlace : to \in Place /\ {to} \cap SentPlace = {}
    BY DEF MailPlace, Place, RetryPlace, SentPlace
  <2>4. Lacks(queue, queue')
    BY <1>0, <1>2, <2>1, <2>3, WithLacks, WithoutLacks
  <2> QED BY <1>0, <1>1, <2>2, <2>4
<1>9. CASE Replayed /\ \/ \E dead \in Place : ReplayDead(dead)
                       \/ \E e \in TodoEvent : ReplayEvent(e)
                       \/ \E e \in AccountEvent : ReplayOwnerEvent(e)
  <2>1. replays' = replays + 1
    BY <1>9 DEF Replayed
  <2> QED BY <1>0, <2>1 DEF DroppedInv
<1> QED BY <1>3, <1>4, <1>5, <1>6, <1>7, <1>8, <1>9 DEF DeliveryNext

LEMMA DroppedInit == ASSUME DeliveryInit PROVE DroppedInv
<1>1. \A p \in SentPlace : queue[p] = EmptyBag
  BY DEF DeliveryInit, BrokerInit, SentPlace, Place, RetryPlace
<1>2. BagToSet(EmptyBag) = {}
  BY DEF EmptyBag, SetToBag, BagToSet
<1> QED BY <1>1, <1>2 DEF DroppedInv, Holds

\* An event of an outbox is in its row until it is published, and from then on in
\* the history, with the notifications or in the projection, or in a queue that
\* leads there: no stop, lost confirmation, expired lock or failure loses it.
\* The broker drops a message only if an operator had replayed one: the retry of
\* what was sent to the history's queue itself (retryOrDeadLetter).
THEOREM NothingIsLost == DeliverySpec => []NothingLost
<1>1. DeliveryInit => SafeInv /\ DroppedInv
  BY DroppedInit
     DEF DeliveryInit, TodoOutboxInit, AccountOutboxInit, SafeInv, NoRow, Resting
<1>2. TypeInv /\ SafeInv /\ [DeliveryNext]_vars => SafeInv'
  BY SafeStep
<1>3. TypeInv /\ DroppedInv /\ [DeliveryNext]_vars => DroppedInv'
  BY DroppedStep
<1>4. TypeInv /\ SafeInv /\ DroppedInv => NothingLost
  <2> SUFFICES ASSUME TypeInv, SafeInv, DroppedInv PROVE NothingLost
    OBVIOUS
  <2>1. replays \in Nat
    BY NotificationAssumption DEF TypeInv, DeliveryTypeOK, NotificationTypeOK
  <2>2. \A e : Waits(e, {"dropped"}) => replays > 0
    BY <2>1 DEF Waits, DroppedInv, SentPlace, Holds, HeldBy
  <2>3. \A e : Somewhere(queue, e, HistoryPlace) =>
                  Waits(e, HistoryWaits) \/ Waits(e, {"dropped"})
    BY DEF Somewhere, Waits, Holds, HeldBy, HistoryPlace
  <2>4. \A e : /\ Somewhere(queue, e, MailWaits) => Waits(e, {"mail", "mailRetry"})
               /\ Somewhere(queue, e, OwnerPlace) =>
                    Waits(e, {"owner", "ownerRetry", "ownerDead"})
    BY DEF Somewhere, Waits, Holds, HeldBy, MailWaits, OwnerPlace
  <2> QED BY <2>2, <2>3, <2>4 DEF SafeInv, NothingLost, TodoSafe, AccountSafe
<1> QED BY <1>1, <1>2, <1>3, <1>4, TypeInvariant, PTL DEF DeliverySpec

(***************************************************************************)
(* Mails.  Who is at the mail server has the guard of the recipient, which   *)
(* the deletion of the account waits for.                                   *)
(***************************************************************************)
GuardInv ==
  /\ \A c \in Mailer : At(c, "smtp") => guard = c /\ account = "active"
  /\ ~misdirected

LEMMA GuardStep ==
  ASSUME TypeInv, GuardInv, [DeliveryNext]_vars
  PROVE  GuardInv'
<1>0. /\ mailer \in [Mailer -> {Free} \cup Busy] /\ MailTypes
      /\ account \in {"active", "deleting"} /\ Nobody \notin Mailer
  BY NotificationParts, NotificationAssumption
     DEF TypeInv, DeliveryTypeOK, MailTypes, OtherMailTypes
<1>1. CASE UNCHANGED <<mailer, guard, account, misdirected>>
  BY <1>1 DEF GuardInv, At
<1>2. ASSUME NEW c \in Mailer, mailer'[c].at # "smtp",
             \A d \in Mailer \ {c} : mailer'[d] = mailer[d],
             guard' = guard \/ (guard = c /\ guard' = Nobody),
             UNCHANGED account, ~misdirected'
      PROVE  GuardInv'
  BY <1>0, <1>2 DEF GuardInv, At
<1>3. ASSUME NEW c \in Mailer, EnterGuard(c) PROVE GuardInv'
  <2>1. \A d \in Mailer \ {c} : mailer'[d] = mailer[d]
    BY <1>0, <1>3 DEF EnterGuard, Goto
  <2>2. guard = Nobody /\ UNCHANGED account /\ ~misdirected'
    BY <1>3 DEF EnterGuard, GuardInv
  <2>3. guard' = c \/ (guard' = guard /\ mailer'[c].at # "smtp")
    BY <1>0, <1>3 DEF EnterGuard, Goto, Free, Busy
  <2>4. guard' = c => account = "active"
    BY <1>0, <1>3, <2>2 DEF EnterGuard
  <2> QED BY <1>0, <1>2, <2>1, <2>2, <2>3, <2>4 DEF GuardInv, At
<1>4. ASSUME NEW c \in Mailer, SendMail(c) PROVE GuardInv'
  <2>1. guard = c /\ account = "active"
    BY <1>4 DEF SendMail, GuardInv
  <2>2. /\ mailer'[c].at # "smtp"
        /\ \A d \in Mailer \ {c} : mailer'[d] = mailer[d]
    BY <1>0, <1>4 DEF SendMail, Goto, Free, Busy
  <2>3. guard' = Nobody /\ UNCHANGED account /\ ~misdirected'
    BY <1>4, <2>1 DEF SendMail, GuardInv
  <2> QED BY <1>2, <2>1, <2>2, <2>3
<1>5. ASSUME NEW c \in Mailer, SendFails(c) \/ SendTimesOut(c) \/ MailerStops(c)
      PROVE  GuardInv'
  <2>1. /\ mailer'[c].at # "smtp"
        /\ \A d \in Mailer \ {c} : mailer'[d] = mailer[d]
    BY <1>0, <1>5 DEF SendFails, SendTimesOut, MailerStops, Goto, Free, Busy
  <2>2. guard' = guard \/ (guard = c /\ guard' = Nobody)
    BY <1>5 DEF SendFails, SendTimesOut, MailerStops, GuardInv
  <2>3. UNCHANGED account /\ ~misdirected'
    BY <1>5 DEF SendFails, SendTimesOut, MailerStops, GuardInv
  <2> QED BY <1>2, <2>1, <2>2, <2>3
<1>6. ASSUME NEW c \in Mailer,
             \/ MarkSent(c) \/ MarkDeliveryFailed(c) \/ ScheduleRetry(c) \/ Bury(c)
             \/ MarkDeadLetter(c) \/ \E m \in BagToSet(queue["mail"]) : Deliver(c, m)
      PROVE  GuardInv'
  <2>1. UNCHANGED <<guard, account>> /\ ~misdirected'
    <3>1. UNCHANGED <<guard, account, misdirected>>
      BY <1>6 DEF MarkSent, MarkDeliveryFailed, ScheduleRetry, Bury, MarkDeadLetter, Deliver
    <3> QED BY <3>1 DEF GuardInv
  <2>2. /\ \A d \in Mailer \ {c} : mailer'[d] = mailer[d]
        /\ mailer'[c].at # "smtp"
    <3>1. \/ mailer' = mailer /\ mailer[c].at = "idle"
          \/ mailer' = [mailer EXCEPT ![c] = Free]
          \/ \E b : mailer' = [mailer EXCEPT ![c] = b] /\ b.at # "smtp"
          \/ \E x \in {"fail", "bury", "retry", "dead"} : Goto(c, x)
      <4>1. CASE MarkSent(c)
        BY <4>1 DEF MarkSent
      <4>2. CASE MarkDeliveryFailed(c)
        BY <4>2 DEF MarkDeliveryFailed
      <4>3. CASE ScheduleRetry(c) \/ MarkDeadLetter(c)
        BY <4>3 DEF ScheduleRetry, MarkDeadLetter
      <4>4. CASE Bury(c)
        BY <4>4 DEF Bury
      <4>5. ASSUME NEW m \in BagToSet(queue["mail"]), Deliver(c, m)
            PROVE  \/ mailer' = mailer /\ mailer[c].at = "idle"
                   \/ \E b : mailer' = [mailer EXCEPT ![c] = b] /\ b.at # "smtp"
        <5>1. \/ mailer' = mailer
              \/ \E x \in {"guard", "retry", "bury", "again"} :
                   mailer' = [mailer EXCEPT ![c] = [at |-> x, msg |-> m, final |-> FALSE]]
          BY <4>5 DEF Deliver
        <5>2. mailer[c].at = "idle"
          BY <4>5 DEF Deliver, At
        <5> QED BY <5>1, <5>2
      <4> QED BY <1>6, <4>1, <4>2, <4>3, <4>4, <4>5
    <3> QED BY <1>0, <3>1 DEF Goto, Free, Busy
  <2> QED BY <1>2, <2>1, <2>2
<1>7. CASE RequestDeletion
  BY <1>0, <1>7 DEF RequestDeletion, GuardInv, At
<1>8. CASE MailNext
  <2>1. ASSUME ReplayStep \/ ReplayStops \/ \E e \in TodoEvent :
                 LateMail(e) \/ LeaseLapses(e) \/ CleanUpDelivery(e)
        PROVE  UNCHANGED <<mailer, guard, account, misdirected>>
    BY <2>1 DEF ReplayStep, ReplayPublish, ReplayMark, ReplayReset, ReplayStops, LateMail,
       LeaseLapses, CleanUpDelivery
  <2> QED BY <1>1, <1>3, <1>4, <1>5, <1>6, <1>7, <1>8, <2>1 DEF MailNext, MailerStep
<1> QED BY <1>1, <1>8 DEF DeliveryNext, Replayed, vars, others, mailVars

\* No mail goes to an account that is being deleted, but one that was given up
\* (withRecipientGuard and the deletion request take the same lock).
THEOREM DeletedGetNoMail == DeliverySpec => []NoMailToDeleted
<1>1. DeliveryInit => GuardInv
  BY DEF DeliveryInit, NotificationInit, GuardInv, At, Free
<1>2. TypeInv /\ GuardInv /\ [DeliveryNext]_vars => GuardInv'
  BY GuardStep
<1>3. GuardInv => NoMailToDeleted
  BY DEF GuardInv, NoMailToDeleted
<1> QED BY <1>1, <1>2, <1>3, TypeInvariant, PTL DEF DeliverySpec

(***************************************************************************)
(* One mail.  As long as nothing careless happened to its delivery, an event *)
(* has at most one consumer between the claim and the mark.                 *)
(***************************************************************************)
Handles(c, e) == mailer[c].at \in Sending /\ EventOf(c) = e

OnceFor(e) ==
  e \notin careless =>
    /\ e \notin adrift
    /\ \A c \in Mailer : Handles(c, e) => Claims(c)
    /\ delivery[e].status = "processing" /\ delivery[e].holder \in Mailer => delivery[e].fresh
    /\ delivery[e].status # "forgotten"
    /\ mails[e] \in {0, 1}
    /\ mails[e] = 1 => \/ delivery[e].status = "sent"
                       \/ \E c \in Mailer : At(c, "mark") /\ EventOf(c) = e
    /\ \A c \in Mailer : Handles(c, e) /\ ~At(c, "mark") => mails[e] = 0

OnceInv == \A e \in TodoEvent : OnceFor(e)

\* A row that no consumer claims has no consumer, and its mail did not go out
\* unless it says so.
LEMMA Unclaimed ==
  ASSUME MailTypes, OtherMailTypes, NEW e \in TodoEvent, OnceFor(e), e \notin careless,
         \/ delivery[e].status # "processing"
         \/ delivery[e].holder \notin Mailer
         \/ ~delivery[e].fresh
  PROVE  /\ \A c \in Mailer : ~Handles(c, e)
         /\ delivery[e].status # "sent" => mails[e] = 0
<1>1. \A c \in Mailer : ~Handles(c, e)
  BY DEF OnceFor, Claims, Handles
<1> QED BY <1>1 DEF OnceFor, Handles, At, Sending

\* A consumer that claims has the event to itself.
LEMMA Alone ==
  ASSUME NEW e \in TodoEvent, OnceFor(e), e \notin careless, NEW c \in Mailer, Handles(c, e)
  PROVE  Claims(c) /\ \A d \in Mailer : Handles(d, e) => d = c
  BY DEF OnceFor, Claims, Handles

\* A step that has to do with neither the row nor a consumer of the event.
LEMMA OnceUntouched ==
  ASSUME NEW e \in TodoEvent, OnceFor(e),
         e \in careless => e \in careless', e \in adrift' => e \in adrift,
         delivery'[e] = delivery[e], mails'[e] = mails[e],
         \A c \in Mailer : \/ mailer'[c] = mailer[c]
                           \/ ~Handles(c, e) /\ ~Handles(c, e)'
  PROVE  OnceFor(e)'
<1> SUFFICES ASSUME e \notin careless' PROVE OnceFor(e)'
  BY DEF OnceFor
<1>1. \A c \in Mailer : Handles(c, e)' => mailer'[c] = mailer[c] /\ Handles(c, e)
  BY DEF Handles, EventOf
<1>2. \A c \in Mailer : Handles(c, e)' => Claims(c)'
  BY <1>1 DEF OnceFor, Claims, EventOf, Handles
<1>3. \A c \in Mailer : At(c, "mark") /\ EventOf(c) = e => At(c, "mark")' /\ EventOf(c)' = e
  BY DEF Handles, At, Sending, EventOf
<1>4. \A c \in Mailer : Handles(c, e)' /\ ~At(c, "mark")' => mails'[e] = 0
  BY <1>1 DEF OnceFor, At
<1> QED BY <1>2, <1>3, <1>4 DEF OnceFor

\* An event that no consumer handles any more.
LEMMA OnceIdle ==
  ASSUME NEW e \in TodoEvent,
         e \notin careless' =>
           /\ e \notin adrift'
           /\ \A c \in Mailer : ~Handles(c, e)'
           /\ delivery'[e].status = "processing" => delivery'[e].holder \notin Mailer
           /\ delivery'[e].status # "forgotten"
           /\ mails'[e] \in {0, 1}
           /\ mails'[e] = 1 => delivery'[e].status = "sent"
  PROVE  OnceFor(e)'
  BY DEF OnceFor

LEMMA OnceDeliver ==
  ASSUME MailTypes, OtherMailTypes, OnceInv, Fits(queue), NEW c \in Mailer,
         NEW m \in BagToSet(queue["mail"]), Deliver(c, m)
  PROVE  OnceInv'
<1>0. m.event \in TodoEvent
  <2>1. "mail" \in Place /\ m \in HeldBy("mail")
    BY DEF Place, HeldBy
  <2> QED BY <2>1, HeldMessage, MeantMail DEF MailMessage
<1>1. /\ mailer[c].at = "idle" /\ UNCHANGED <<mails, adrift, careless>>
      /\ delivery \in [TodoEvent -> DeliveryRow] /\ mailer \in [Mailer -> {Free} \cup Busy]
  BY DEF Deliver, At, MailTypes
<1>2. \A d \in TodoEvent : ~Handles(c, d)
  BY <1>1 DEF Handles, Sending
<1>3. CASE Claimable(delivery[m.event], m.n)
  <2>1. /\ delivery' = [delivery EXCEPT ![m.event] =
                          [status |-> "processing", attempts |-> m.n,
                           holder |-> c, fresh |-> TRUE]]
        /\ mailer' = [mailer EXCEPT ![c] = [at |-> "guard", msg |-> m, final |-> FALSE]]
    BY <1>3 DEF Deliver
  <2>2. /\ \A d \in TodoEvent \ {m.event} : delivery'[d] = delivery[d]
        /\ delivery'[m.event] = [status |-> "processing", attempts |-> m.n,
                                 holder |-> c, fresh |-> TRUE]
        /\ mailer'[c] = [at |-> "guard", msg |-> m, final |-> FALSE]
        /\ \A d \in Mailer \ {c} : mailer'[d] = mailer[d]
    BY <1>0, <1>1, <2>1
  <2>3. ASSUME NEW e \in TodoEvent, e # m.event PROVE OnceFor(e)'
    <3>1. ~Handles(c, e)'
      BY <2>2, <2>3 DEF Handles, EventOf
    <3> QED BY <1>1, <1>2, <2>2, <2>3, <3>1, OnceUntouched DEF OnceInv
  <2>4. OnceFor(m.event)'
    <3> DEFINE e == m.event
    <3> SUFFICES ASSUME e \notin careless PROVE OnceFor(e)'
      BY <1>1 DEF OnceFor
    <3>1. delivery[e].status \notin {"forgotten", "sent"}
          /\ (delivery[e].status # "processing" \/ ~delivery[e].fresh)
      BY <1>0, <1>3 DEF Claimable, OnceInv, OnceFor
    <3>2. (\A d \in Mailer : ~Handles(d, e)) /\ mails[e] = 0
      BY <1>0, <3>1, Unclaimed DEF OnceInv
    <3>3. \A d \in Mailer : Handles(d, e)' => d = c
      BY <2>2, <3>2 DEF Handles, EventOf
    <3>4. Claims(c)'
      BY <2>2 DEF Claims, EventOf
    <3>5. e \notin adrift
      BY <1>0 DEF OnceInv, OnceFor
    <3> HIDE DEF e
    <3> QED BY <1>0, <1>1, <2>2, <3>2, <3>3, <3>4, <3>5 DEF OnceFor, e
  <2> QED BY <2>3, <2>4 DEF OnceInv
<1>4. CASE ~Claimable(delivery[m.event], m.n)
  <2>1. /\ delivery' = delivery
        /\ \/ mailer' = mailer
           \/ \E x \in {"retry", "bury", "again"} :
                mailer' = [mailer EXCEPT ![c] = [at |-> x, msg |-> m, final |-> FALSE]]
    BY <1>4 DEF Deliver
  <2>2. ASSUME NEW e \in TodoEvent PROVE OnceFor(e)'
    <3>1. /\ mailer'[c].at \notin Sending
          /\ \A d \in Mailer \ {c} : mailer'[d] = mailer[d]
      BY <1>1, <2>1 DEF Sending
    <3> QED BY <1>1, <1>2, <2>1, <3>1, OnceUntouched DEF OnceInv, Handles
  <2> QED BY <2>2 DEF OnceInv
<1> QED BY <1>3, <1>4

\* A step of one consumer concerns only its event.
LEMMA OnceOthers ==
  ASSUME MailTypes, OnceInv, NEW c \in Mailer, NEW e \in TodoEvent, EventOf(c) # e,
         mailer[c].at # "idle",
         careless \subseteq careless', adrift' \subseteq adrift \cup {EventOf(c)},
         delivery'[e] = delivery[e], mails'[e] = mails[e],
         \A d \in Mailer \ {c} : mailer'[d] = mailer[d],
         mailer'[c].at \in Sending => mailer'[c].msg = mailer[c].msg
  PROVE  OnceFor(e)'
<1>1. ~Handles(c, e) /\ ~Handles(c, e)'
  BY DEF Handles, EventOf
<1> QED BY <1>1, OnceUntouched DEF OnceInv

LEMMA OnceGuard ==
  ASSUME MailTypes, OtherMailTypes, OnceInv, NEW c \in Mailer, EnterGuard(c)
  PROVE  OnceInv'
<1>0. PICK e : e = EventOf(c)
  OBVIOUS
<1> USE <1>0
<1>1. /\ mailer[c].at = "guard" /\ UNCHANGED <<delivery, mails, adrift, careless>>
      /\ mailer \in [Mailer -> {Free} \cup Busy] /\ mailer[c] \in Busy /\ e \in TodoEvent
  BY BusyFacts DEF EnterGuard, At, MailTypes
<1>2. /\ mailer'[c].at \in {"mark", "fail", "smtp"} /\ mailer'[c].msg = mailer[c].msg
      /\ \A d \in Mailer \ {c} : mailer'[d] = mailer[d]
  BY <1>1 DEF EnterGuard, Goto, Busy
<1>3. ASSUME NEW d \in TodoEvent, d # e PROVE OnceFor(d)'
  BY <1>1, <1>2, <1>3, OnceOthers
<1>4. OnceFor(e)'
  <2> SUFFICES ASSUME e \notin careless PROVE OnceFor(e)'
    BY <1>1 DEF OnceFor
  <2>1. OnceFor(e) /\ Handles(c, e) /\ ~At(c, "mark")
    BY <1>1 DEF OnceInv, Handles, Sending, At
  <2>2. Claims(c) /\ (\A d \in Mailer : Handles(d, e) => d = c) /\ mails[e] = 0
    BY <1>1, <2>1, Alone DEF OnceFor
  <2>3. \A d \in Mailer : Handles(d, e)' => d = c
    BY <1>2, <2>2 DEF Handles, EventOf
  <2>4. EventOf(c)' = e /\ Claims(c)'
    BY <1>1, <1>2, <2>2 DEF EventOf, Claims
  <2> QED BY <1>1, <2>1, <2>2, <2>3, <2>4 DEF OnceFor
<1> QED BY <1>3, <1>4 DEF OnceInv

LEMMA OnceSend ==
  ASSUME MailTypes, OtherMailTypes, OnceInv, NEW c \in Mailer, SendMail(c)
  PROVE  OnceInv'
<1>0. PICK e : e = EventOf(c)
  OBVIOUS
<1> USE <1>0
<1>1. /\ mailer[c].at = "smtp" /\ UNCHANGED <<delivery, adrift, careless>>
      /\ mailer \in [Mailer -> {Free} \cup Busy] /\ mailer[c] \in Busy /\ e \in TodoEvent
      /\ mails' = [mails EXCEPT ![e] = @ + 1] /\ mails \in [TodoEvent -> Nat]
  BY BusyFacts DEF SendMail, At, MailTypes, OtherMailTypes
<1>2. /\ mailer'[c].at = "mark" /\ mailer'[c].msg = mailer[c].msg
      /\ \A d \in Mailer \ {c} : mailer'[d] = mailer[d]
  BY <1>1 DEF SendMail, Goto, Busy
<1>3. ASSUME NEW d \in TodoEvent, d # e PROVE OnceFor(d)'
  BY <1>1, <1>2, <1>3, OnceOthers
<1>4. OnceFor(e)'
  <2> SUFFICES ASSUME e \notin careless PROVE OnceFor(e)'
    BY <1>1 DEF OnceFor
  <2>1. OnceFor(e) /\ Handles(c, e) /\ ~At(c, "mark")
    BY <1>1 DEF OnceInv, Handles, Sending, At
  <2>2. Claims(c) /\ (\A d \in Mailer : Handles(d, e) => d = c) /\ mails[e] = 0
    BY <1>1, <2>1, Alone DEF OnceFor
  <2>3. \A d \in Mailer : Handles(d, e)' => d = c
    BY <1>2, <2>2 DEF Handles, EventOf
  <2>4. EventOf(c)' = e /\ Claims(c)' /\ At(c, "mark")'
    BY <1>1, <1>2, <2>2 DEF EventOf, Claims, At
  <2>5. mails'[e] = 1
    BY <1>1, <2>2
  <2> QED BY <1>1, <2>1, <2>3, <2>4, <2>5 DEF OnceFor
<1> QED BY <1>3, <1>4 DEF OnceInv

LEMMA OnceFails ==
  ASSUME MailTypes, OtherMailTypes, OnceInv, NEW c \in Mailer,
         SendFails(c) \/ SendTimesOut(c)
  PROVE  OnceInv'
<1>0. PICK e : e = EventOf(c)
  OBVIOUS
<1> USE <1>0
<1>1. /\ mailer[c].at \in {"guard", "smtp", "mark"} /\ UNCHANGED <<delivery, mails>>
      /\ Goto(c, "fail") /\ careless \subseteq careless'
      /\ adrift' \subseteq adrift \cup {e}
      /\ e \notin careless' => adrift' = adrift /\ mailer[c].at # "mark"
  BY DEF SendFails, SendTimesOut, At
<1>2. /\ mailer \in [Mailer -> {Free} \cup Busy] /\ mailer[c] \in Busy /\ e \in TodoEvent
  BY <1>1, BusyFacts DEF MailTypes
<1>3. /\ mailer'[c].at = "fail" /\ mailer'[c].msg = mailer[c].msg
      /\ \A d \in Mailer \ {c} : mailer'[d] = mailer[d]
  BY <1>1, <1>2 DEF Goto, Busy
<1>4. ASSUME NEW d \in TodoEvent, d # e PROVE OnceFor(d)'
  BY <1>1, <1>3, <1>4, OnceOthers
<1>5. OnceFor(e)'
  <2> SUFFICES ASSUME e \notin careless' PROVE OnceFor(e)'
    BY DEF OnceFor
  <2>1. OnceFor(e) /\ Handles(c, e) /\ ~At(c, "mark") /\ e \notin careless
    BY <1>1, <1>2 DEF OnceInv, Handles, Sending, At
  <2>2. Claims(c) /\ (\A d \in Mailer : Handles(d, e) => d = c) /\ mails[e] = 0
    BY <1>2, <2>1, Alone DEF OnceFor
  <2>3. \A d \in Mailer : Handles(d, e)' => d = c
    BY <1>3, <2>2 DEF Handles, EventOf
  <2>4. EventOf(c)' = e /\ Claims(c)'
    BY <1>1, <1>3, <2>2 DEF EventOf, Claims
  <2> QED BY <1>1, <2>1, <2>2, <2>3, <2>4 DEF OnceFor
<1> QED BY <1>4, <1>5 DEF OnceInv

\* The mark, and what comes after it.
LEMMA OnceMarks ==
  ASSUME MailTypes, OtherMailTypes, OnceInv, NEW c \in Mailer,
         MarkSent(c) \/ MarkDeliveryFailed(c)
  PROVE  OnceInv'
<1>0. PICK e : e = EventOf(c)
  OBVIOUS
<1> USE <1>0
<1>1. /\ mailer[c].at \in {"mark", "fail"} /\ UNCHANGED <<mails, adrift, careless>>
  BY DEF MarkSent, MarkDeliveryFailed, At
<1>2. /\ mailer \in [Mailer -> {Free} \cup Busy] /\ mailer[c] \in Busy /\ e \in TodoEvent
      /\ delivery \in [TodoEvent -> DeliveryRow]
  BY <1>1, BusyFacts DEF MailTypes
<1>3. /\ \A d \in Mailer \ {c} : mailer'[d] = mailer[d]
      /\ \A d \in TodoEvent \ {e} : delivery'[d] = delivery[d]
  BY <1>2 DEF MarkSent, MarkDeliveryFailed, Goto
<1>4. mailer'[c].at \in Sending => mailer'[c].msg = mailer[c].msg
  BY <1>2 DEF MarkSent, MarkDeliveryFailed, Goto, Free, Busy, Sending
<1>5. ASSUME NEW d \in TodoEvent, d # e PROVE OnceFor(d)'
  BY <1>1, <1>3, <1>4, <1>5, OnceOthers
<1>6. OnceFor(e)'
  <2> SUFFICES ASSUME e \notin careless PROVE OnceFor(e)'
    BY <1>1 DEF OnceFor
  <2>1. OnceFor(e) /\ Handles(c, e)
    BY <1>1, <1>2 DEF OnceInv, Handles, Sending
  <2>2. Claims(c) /\ (\A d \in Mailer : Handles(d, e) => d = c)
    BY <1>2, <2>1, Alone
  <2>3. mailer'[c].at \notin Sending
    <3>1. CASE MarkSent(c)
      BY <1>2, <2>2, <3>1 DEF MarkSent, Free, Sending
    <3>2. CASE MarkDeliveryFailed(c)
      <4>1. \E x \in {"bury", "retry"} : Goto(c, x)
        BY <2>2, <3>2 DEF MarkDeliveryFailed
      <4> QED BY <1>2, <4>1 DEF Goto, Sending, Busy
    <3> QED BY <3>1, <3>2
  <2>4. \A d \in Mailer : ~Handles(d, e)'
    BY <1>3, <2>2, <2>3 DEF Handles, EventOf
  <2>5. /\ delivery'[e].status \in {"sent", "dead_letter_pending", "retry_pending"}
        /\ mails[e] = 1 => delivery'[e].status = "sent"
    <3>1. CASE MarkSent(c)
      BY <1>2, <2>2, <3>1 DEF MarkSent, DeliveryRow
    <3>2. CASE MarkDeliveryFailed(c)
      <4>1. mails[e] = 0
        BY <2>1, <3>2 DEF OnceFor, MarkDeliveryFailed, At
      <4>2. delivery'[e].status \in {"dead_letter_pending", "retry_pending"}
        BY <1>2, <2>2, <3>2 DEF MarkDeliveryFailed, DeliveryRow
      <4> QED BY <4>1, <4>2
    <3> QED BY <3>1, <3>2
  <2>6. mails[e] \in {0, 1} /\ e \notin adrift
    BY <2>1 DEF OnceFor
  <2> QED BY <1>1, <1>2, <2>4, <2>5, <2>6, OnceIdle
<1> QED BY <1>5, <1>6 DEF OnceInv

LEMMA OnceLeaves ==
  ASSUME MailTypes, OtherMailTypes, OnceInv, NEW c \in Mailer,
         ScheduleRetry(c) \/ Bury(c) \/ MarkDeadLetter(c)
  PROVE  OnceInv'
<1>0. PICK e : e = EventOf(c)
  OBVIOUS
<1> USE <1>0
<1>1. /\ mailer[c].at \in {"retry", "again", "bury", "dead"}
      /\ UNCHANGED <<mails, adrift, careless>>
  BY DEF ScheduleRetry, Bury, MarkDeadLetter, At
<1>2. /\ mailer \in [Mailer -> {Free} \cup Busy] /\ mailer[c] \in Busy /\ e \in TodoEvent
      /\ delivery \in [TodoEvent -> DeliveryRow]
  BY <1>1, BusyFacts DEF MailTypes
<1>3. \A d \in Mailer \ {c} : mailer'[d] = mailer[d]
  BY <1>2 DEF ScheduleRetry, Bury, MarkDeadLetter, Goto
<1>4. mailer'[c].at \notin Sending
  BY <1>2 DEF ScheduleRetry, Bury, MarkDeadLetter, Goto, Free, Busy, Sending
<1>5. \A d \in TodoEvent : ~Handles(c, d) /\ ~Handles(c, d)'
  BY <1>1, <1>4 DEF Handles, Sending
<1>6. \/ delivery' = delivery
      \/ /\ delivery[e].status = "dead_letter_pending"
         /\ delivery' = [delivery EXCEPT ![e].status = "dead_letter"]
  BY DEF ScheduleRetry, Bury, MarkDeadLetter
<1>7. ASSUME NEW d \in TodoEvent, delivery'[d] = delivery[d] PROVE OnceFor(d)'
  BY <1>1, <1>3, <1>5, <1>7, OnceUntouched DEF OnceInv
<1>8. ASSUME delivery[e].status = "dead_letter_pending",
             delivery' = [delivery EXCEPT ![e].status = "dead_letter"]
      PROVE  OnceFor(e)'
  <2> SUFFICES ASSUME e \notin careless PROVE OnceFor(e)'
    BY <1>1 DEF OnceFor
  <2>1. (\A d \in Mailer : ~Handles(d, e)) /\ mails[e] = 0
    BY <1>2, <1>8, Unclaimed DEF OnceInv
  <2>2. \A d \in Mailer : ~Handles(d, e)'
    BY <1>3, <1>5, <1>2, <2>1 DEF Handles, EventOf
  <2>3. delivery'[e].status = "dead_letter" /\ e \notin adrift
    BY <1>2, <1>8 DEF DeliveryRow, OnceInv, OnceFor
  <2> QED BY <1>1, <1>2, <2>1, <2>2, <2>3, OnceIdle
<1>9. \A d \in TodoEvent \ {e} : delivery'[d] = delivery[d]
  BY <1>2, <1>6
<1> QED BY <1>6, <1>7, <1>8, <1>9 DEF OnceInv

LEMMA OnceStops ==
  ASSUME MailTypes, OtherMailTypes, OnceInv, NEW c \in Mailer, MailerStops(c)
  PROVE  OnceInv'
<1>0. PICK e : e = EventOf(c)
  OBVIOUS
<1> USE <1>0
<1>1. /\ mailer[c].at # "idle" /\ UNCHANGED <<mails, adrift>>
      /\ mailer' = [mailer EXCEPT ![c] = Free] /\ careless \subseteq careless'
      /\ e \notin careless' => mailer[c].at \notin {"mark", "fail"}
      /\ delivery' = IF Claims(c) THEN [delivery EXCEPT ![e].holder = Nobody] ELSE delivery
  BY DEF MailerStops, At
<1>2. /\ mailer \in [Mailer -> {Free} \cup Busy] /\ mailer[c] \in Busy /\ e \in TodoEvent
      /\ delivery \in [TodoEvent -> DeliveryRow]
  BY <1>1, BusyFacts DEF MailTypes
<1>3. /\ mailer'[c].at \notin Sending
      /\ \A d \in Mailer \ {c} : mailer'[d] = mailer[d]
      /\ \A d \in TodoEvent \ {e} : delivery'[d] = delivery[d]
  BY <1>1, <1>2 DEF Free, Sending
<1>4. ASSUME NEW d \in TodoEvent, d # e PROVE OnceFor(d)'
  BY <1>1, <1>3, <1>4, OnceOthers
<1>5. OnceFor(e)'
  <2> SUFFICES ASSUME e \notin careless' PROVE OnceFor(e)'
    BY DEF OnceFor
  <2>1. OnceFor(e) /\ e \notin careless
    BY <1>1, <1>2 DEF OnceInv
  <2>2. CASE Claims(c)
    <3>1. \A d \in Mailer : Handles(d, e) => d = c
      BY <2>1, <2>2 DEF OnceFor, Handles, Claims
    <3>2. \A d \in Mailer : ~Handles(d, e)'
      BY <1>3, <3>1 DEF Handles, EventOf
    <3>3. /\ delivery'[e].status = "processing" /\ delivery'[e].holder = Nobody
      BY <1>1, <1>2, <2>2 DEF Claims, DeliveryRow
    <3>4. \A d \in Mailer : At(d, "mark") /\ EventOf(d) = e => FALSE
      BY <1>1, <3>1, <1>2, <2>1 DEF Handles, At, Sending
    <3>5. mails[e] = 0 /\ e \notin adrift
      BY <2>1, <2>2, <3>4 DEF OnceFor, Claims
    <3>6. Nobody \notin Mailer
      BY NotificationAssumption
    <3> QED BY <1>1, <1>2, <3>2, <3>3, <3>5, <3>6, OnceIdle
  <2>3. CASE ~Claims(c)
    <3>1. ~Handles(c, e)
      BY <2>1, <2>3 DEF OnceFor
    <3>2. ~Handles(c, e)'
      BY <1>3 DEF Handles
    <3> QED BY <1>1, <1>2, <1>3, <2>1, <2>3, <3>1, <3>2, OnceUntouched
  <2> QED BY <2>2, <2>3
<1> QED BY <1>4, <1>5 DEF OnceInv

\* The row of an event changes, and no consumer moves.
LEMMA OnceRow ==
  ASSUME MailTypes, OtherMailTypes, OnceInv, NEW e \in TodoEvent, UNCHANGED mailer,
         careless \subseteq careless', adrift' \subseteq adrift,
         \A d \in TodoEvent \ {e} : delivery'[d] = delivery[d] /\ mails'[d] = mails[d],
         e \notin careless' =>
           /\ mails'[e] = mails[e]
           /\ \/ delivery[e].status \notin {"processing", "sent"}
              \/ delivery[e].status = "processing" /\ delivery[e].holder \notin Mailer
              \/ delivery[e] = delivery'[e]
           /\ \/ delivery'[e].status \notin {"processing", "forgotten"}
              \/ delivery'[e].status = "processing" /\ delivery'[e].holder \notin Mailer
              \/ delivery[e] = delivery'[e]
  PROVE  OnceInv'
<1>1. ASSUME NEW d \in TodoEvent, d # e PROVE OnceFor(d)'
  BY <1>1, OnceUntouched DEF OnceInv
<1>2. OnceFor(e)'
  <2> SUFFICES ASSUME e \notin careless' PROVE OnceFor(e)'
    BY DEF OnceFor
  <2>1. CASE delivery'[e] = delivery[e]
    BY <2>1, OnceUntouched DEF OnceInv
  <2>2. CASE delivery'[e] # delivery[e]
    <3>1. e \notin careless /\ OnceFor(e)
      BY DEF OnceInv
    <3>2. (\A c \in Mailer : ~Handles(c, e)) /\ mails[e] = 0
      BY <2>2, <3>1, Unclaimed
    <3>3. \A c \in Mailer : ~Handles(c, e)'
      BY <3>2 DEF Handles, EventOf
    <3>4. e \notin adrift'
      BY <3>1 DEF OnceFor
    <3> QED BY <2>2, <3>2, <3>3, <3>4, OnceIdle
  <2> QED BY <2>1, <2>2
<1> QED BY <1>1, <1>2 DEF OnceInv

LEMMA OnceAround ==
  ASSUME MailTypes, OtherMailTypes, OnceInv, NEW e \in TodoEvent,
         LateMail(e) \/ LeaseLapses(e) \/ CleanUpDelivery(e)
  PROVE  OnceInv'
<1>0. /\ delivery \in [TodoEvent -> DeliveryRow] /\ mails \in [TodoEvent -> Nat]
      /\ UNCHANGED mailer
  BY DEF MailTypes, OtherMailTypes, LateMail, LeaseLapses, CleanUpDelivery
<1>1. CASE LateMail(e)
  <2>1. e \in careless /\ careless' = careless /\ delivery' = delivery /\ adrift' \subseteq adrift
    BY <1>1 DEF LateMail, OnceInv, OnceFor
  <2>2. \A d \in TodoEvent \ {e} : mails'[d] = mails[d]
    BY <1>0, <1>1 DEF LateMail
  <2> QED BY <1>0, <2>1, <2>2, OnceRow
<1>2. CASE LeaseLapses(e)
  <2>1. /\ delivery[e].fresh /\ delivery' = [delivery EXCEPT ![e].fresh = FALSE]
        /\ UNCHANGED <<mails, adrift>> /\ careless \subseteq careless'
        /\ e \notin careless' => delivery[e].holder \notin Mailer
    BY <1>2 DEF LeaseLapses
  <2>2. \A d \in TodoEvent \ {e} : delivery'[d] = delivery[d]
    BY <1>0, <2>1
  <2>3. /\ delivery'[e].status = delivery[e].status
        /\ delivery'[e].holder = delivery[e].holder
    BY <1>0, <2>1 DEF DeliveryRow
  <2>4. ASSUME NEW d \in TodoEvent, d # e PROVE OnceFor(d)'
    BY <1>0, <2>1, <2>2, <2>4, OnceUntouched DEF OnceInv
  <2>5. OnceFor(e)'
    <3> SUFFICES ASSUME e \notin careless' PROVE OnceFor(e)'
      BY DEF OnceFor
    <3>1. OnceFor(e) /\ e \notin careless /\ delivery[e].holder \notin Mailer
      BY <2>1 DEF OnceInv
    <3>2. \A c \in Mailer : ~Handles(c, e)
      BY <3>1, Unclaimed
    <3>3. \A c \in Mailer : ~Handles(c, e)'
      BY <1>0, <3>2 DEF Handles, EventOf
    <3>4. /\ e \notin adrift /\ delivery[e].status # "forgotten" /\ mails[e] \in {0, 1}
          /\ mails[e] = 1 => delivery[e].status = "sent"
      BY <3>1, <3>2 DEF OnceFor, Handles, At, Sending
    <3> QED BY <2>1, <2>3, <3>1, <3>3, <3>4, OnceIdle
  <2> QED BY <2>4, <2>5 DEF OnceInv
<1>3. CASE CleanUpDelivery(e)
  <2>1. /\ delivery' = [delivery EXCEPT ![e].status = "forgotten"]
        /\ UNCHANGED <<mails, adrift>> /\ careless' = careless \cup {e}
    BY <1>3 DEF CleanUpDelivery
  <2> QED BY <1>0, <2>1, OnceRow
<1> QED BY <1>1, <1>2, <1>3

LEMMA OnceReplay ==
  ASSUME MailTypes, OtherMailTypes, OnceInv, Fits(queue), ReplayStep \/ ReplayStops
  PROVE  OnceInv'
<1>0. /\ delivery \in [TodoEvent -> DeliveryRow]
      /\ UNCHANGED <<mailer, mails, adrift, careless>>
  BY DEF MailTypes, ReplayStep, ReplayPublish, ReplayMark, ReplayReset, ReplayStops
<1>1. ASSUME delivery' = delivery PROVE OnceInv'
  BY <1>0, <1>1, OnceUntouched DEF OnceInv
<1>2. ASSUME NEW m \in BagToSet(queue["mailDead"]), ReplayReset(m) PROVE OnceInv'
  <2>1. m.event \in TodoEvent
    <3>1. "mailDead" \in Place /\ m \in HeldBy("mailDead")
      BY DEF Place, HeldBy
    <3> QED BY <3>1, HeldMessage, MeantMail DEF MailMessage
  <2>2. \/ delivery' = delivery
        \/ /\ delivery[m.event].status \in {"dead_letter", "replay_publishing"}
           /\ delivery' = [delivery EXCEPT ![m.event] =
                             [status |-> "replay_publishing", attempts |-> 1,
                              holder |-> Operator, fresh |-> TRUE]]
    BY <1>2 DEF ReplayReset
  <2>3. ASSUME delivery[m.event].status \in {"dead_letter", "replay_publishing"},
               delivery' = [delivery EXCEPT ![m.event] =
                              [status |-> "replay_publishing", attempts |-> 1,
                               holder |-> Operator, fresh |-> TRUE]]
        PROVE  OnceInv'
    BY <1>0, <2>1, <2>3, OnceRow
  <2> QED BY <1>1, <2>2, <2>3
<1>3. CASE ReplayPublish
  BY <1>1, <1>3 DEF ReplayPublish
<1>4. CASE ReplayMark
  <2>0. PICK e : e = replay.msg.event
    OBVIOUS
  <2>1. e \in TodoEvent
    BY <1>4, <2>0, ReplayFacts DEF ReplayMark
  <2>2. ASSUME delivery[e].status = "replay_publishing",
               delivery' = [delivery EXCEPT ![e].status = "replay_queued",
                                            ![e].fresh = FALSE, ![e].holder = Nobody]
        PROVE  OnceInv'
    <3>1. /\ delivery'[e].status = "replay_queued"
          /\ \A d \in TodoEvent \ {e} : delivery'[d] = delivery[d]
      BY <1>0, <2>1, <2>2 DEF DeliveryRow
    <3> QED BY <1>0, <2>1, <2>2, <3>1, OnceRow
  <2> QED BY <1>1, <1>4, <2>0, <2>2 DEF ReplayMark
<1>5. CASE ReplayStops
  <2>0. PICK e : e = replay.msg.event
    OBVIOUS
  <2>1. e \in TodoEvent
    BY <1>5, <2>0, ReplayFacts DEF ReplayStops
  <2>2. ASSUME delivery[e].holder = Operator,
               delivery' = [delivery EXCEPT ![e].holder = Nobody]
        PROVE  OnceInv'
    <3>1. /\ delivery'[e].status = delivery[e].status /\ delivery'[e].holder = Nobody
          /\ \A d \in TodoEvent \ {e} : delivery'[d] = delivery[d]
      BY <1>0, <2>1, <2>2 DEF DeliveryRow
    <3>2. Operator \notin Mailer /\ Nobody \notin Mailer
      BY NotificationAssumption
    <3>3. ASSUME NEW d \in TodoEvent, d # e PROVE OnceFor(d)'
      BY <1>0, <3>1, <3>3, OnceUntouched DEF OnceInv
    <3>4. OnceFor(e)'
      <4> SUFFICES ASSUME e \notin careless PROVE OnceFor(e)'
        BY <1>0 DEF OnceFor
      <4>1. OnceFor(e) /\ \A c \in Mailer : ~Handles(c, e)
        BY <2>1, <2>2, <3>2, Unclaimed DEF OnceInv
      <4>2. \A c \in Mailer : ~Handles(c, e)'
        BY <1>0, <4>1 DEF Handles, EventOf
      <4>3. /\ e \notin adrift /\ delivery[e].status # "forgotten" /\ mails[e] \in {0, 1}
            /\ mails[e] = 1 => delivery[e].status = "sent"
        BY <4>1 DEF OnceFor, Handles, At, Sending
      <4> QED BY <1>0, <2>1, <3>1, <3>2, <4>2, <4>3, OnceIdle
    <3> QED BY <3>3, <3>4 DEF OnceInv
  <2> QED BY <1>1, <1>5, <2>0, <2>2 DEF ReplayStops
<1> QED BY <1>2, <1>3, <1>4, <1>5 DEF ReplayStep

LEMMA OnceStep ==
  ASSUME TypeInv, OnceInv, [DeliveryNext]_vars
  PROVE  OnceInv'
<1>0. MailTypes /\ OtherMailTypes /\ Fits(queue)
  BY NotificationParts DEF TypeInv, DeliveryTypeOK
<1>1. CASE UNCHANGED <<delivery, mailer, mails, adrift, careless>>
  BY <1>1, OnceUntouched DEF OnceInv
<1>2. CASE MailNext
  <2>1. ASSUME NEW c \in Mailer, MailerStep(c) PROVE OnceInv'
    BY <1>0, <2>1, OnceGuard, OnceSend, OnceMarks, OnceLeaves, OnceDeliver DEF MailerStep
  <2>2. ASSUME NEW c \in Mailer, SendFails(c) \/ SendTimesOut(c) \/ MailerStops(c)
        PROVE  OnceInv'
    BY <1>0, <2>2, OnceFails, OnceStops
  <2>3. CASE RequestDeletion
    BY <1>1, <2>3 DEF RequestDeletion
  <2> QED BY <1>0, <1>2, <2>1, <2>2, <2>3, OnceAround, OnceReplay DEF MailNext
<1> QED BY <1>1, <1>2 DEF DeliveryNext, Replayed, vars, others, mailVars

\* A mail goes out more than once only if a consumer stopped, failed or was
\* overtaken while it may have gone out, or its row was cleaned up (claim,
\* markSent and markFailed with the token of the lease).
THEOREM MailedOnce == DeliverySpec => []OneMail
<1>1. DeliveryInit => OnceInv
  BY DEF DeliveryInit, NotificationInit, OnceInv, OnceFor, Handles, At, Free, Sending
<1>2. TypeInv /\ OnceInv /\ [DeliveryNext]_vars => OnceInv'
  BY OnceStep
<1>3. OnceInv => OneMail
  BY DEF OnceInv, OnceFor, OneMail
<1> QED BY <1>1, <1>2, <1>3, TypeInvariant, PTL DEF DeliverySpec

(***************************************************************************)
(* Driven.  A delivery that has not come to its end has its message in a     *)
(* queue or with a consumer that will bring it back there.                   *)
(***************************************************************************)
InQueue(q, e, n) == \E p \in MailWaits : Message(e, n) \in Holds(q, p)
Carried(e, n, places) ==
  \/ InQueue(queue, e, n)
  \/ \E c \in Mailer : mailer[c].at \in places /\ mailer[c].msg = Message(e, n)

\* Where a consumer is that handles an attempt, that gives it up, or that is
\* about to schedule the next.
TakenOn == {"guard", "smtp", "mark", "fail", "again"}
GivingUp == TakenOn \cup {"bury", "dead"}
Handling == GivingUp \cup {"retry"}

DrivenFor(e) ==
  /\ delivery[e].status = "processing" => Carried(e, delivery[e].attempts, TakenOn)
  /\ delivery[e].status = "dead_letter_pending" =>
       Carried(e, delivery[e].attempts, GivingUp)
  /\ delivery[e].status = "retry_pending" =>
       \/ Carried(e, delivery[e].attempts, Handling)
       \/ InQueue(queue, e, delivery[e].attempts + 1)
  /\ delivery[e].status = "replay_queued" => InQueue(queue, e, 1)
  /\ delivery[e].status = "replay_publishing" /\ replay.at = "mark" =>
       (replay.msg.event = e => InQueue(queue, e, 1))

LEMMA MessageOf ==
  ASSUME NEW m \in MailMessage
  PROVE  m = Message(m.event, m.n)
  BY DEF MailMessage, Message

LEMMA MessageParts ==
  ASSUME NEW e, NEW n PROVE Message(e, n).event = e /\ Message(e, n).n = n
  BY DEF Message

\* What the mail queues lose and get.
LEMMA PutInQueue ==
  ASSUME NEW q, Fits(q), NEW p \in MailPlace, NEW m
  PROVE  /\ \A e, n : InQueue(q, e, n) => InQueue(With(q, {p}, m), e, n)
         /\ p \in MailWaits => \A e, n : m = Message(e, n) => InQueue(With(q, {p}, m), e, n)
<1>1. MailWaits \subseteq Place /\ p \in Place
  BY PlacesKnown
<1>2. \A r \in Place : Holds(With(q, {p}, m), r) =
                         IF r \in {p} THEN Holds(q, r) \cup {m} ELSE Holds(q, r)
  BY WithHolds
<1> QED BY <1>1, <1>2 DEF InQueue

LEMMA TakenFromQueue ==
  ASSUME NEW q, Fits(q), NEW p \in MailPlace, NEW m, NEW e, NEW n, InQueue(q, e, n),
         p \notin MailWaits \/ m # Message(e, n)
  PROVE  InQueue(Without(q, p, m), e, n)
<1>1. MailWaits \subseteq Place /\ p \in Place
  BY PlacesKnown
<1>2. PICK r \in MailWaits : Message(e, n) \in Holds(q, r)
  BY DEF InQueue
<1>3. Message(e, n) \in Holds(Without(q, p, m), r)
  BY <1>1, <1>2, WithoutHolds
<1> QED BY <1>3 DEF InQueue

\* A consumer moves on or lets its message go to a queue: the row it is not
\* about to change is driven on.
MovesOn(c, e) ==
  mailer[c].at \in Handling /\ EventOf(c) = e =>
    \/ /\ mailer'[c].msg = mailer[c].msg
       /\ \/ mailer'[c].at \in TakenOn
          \/ mailer'[c].at \in GivingUp /\ mailer[c].at \notin TakenOn
    \/ InQueue(queue', e, mailer[c].msg.n)
    \/ mailer[c].at = "retry" /\ InQueue(queue', e, mailer[c].msg.n + 1)

SameRow(e) ==
  /\ delivery'[e].status = delivery[e].status
  /\ delivery'[e].attempts = delivery[e].attempts

LEMMA CarriedOn ==
  ASSUME NEW c \in Mailer, \A d \in Mailer \ {c} : mailer'[d] = mailer[d],
         NEW e, NEW n, InQueue(queue, e, n) => InQueue(queue', e, n), MovesOn(c, e)
  PROVE  /\ Carried(e, n, TakenOn) => Carried(e, n, TakenOn)'
         /\ Carried(e, n, GivingUp) => Carried(e, n, GivingUp)'
         /\ Carried(e, n, Handling) =>
              Carried(e, n, Handling)' \/ InQueue(queue', e, n + 1)
<1>1. Message(e, n).event = e /\ Message(e, n).n = n
  BY MessageParts
<1>2. TakenOn \subseteq GivingUp /\ GivingUp \subseteq Handling
      /\ "retry" \notin GivingUp /\ "retry" \in Handling
  BY DEF TakenOn, GivingUp, Handling
<1>3. ASSUME NEW places \in {TakenOn, GivingUp, Handling}, Carried(e, n, places)
      PROVE  \/ Carried(e, n, places)'
             \/ places = Handling /\ InQueue(queue', e, n + 1)
  <2>1. CASE InQueue(queue, e, n)
    BY <2>1 DEF Carried
  <2>2. ASSUME NEW d \in Mailer, mailer[d].at \in places, mailer[d].msg = Message(e, n)
        PROVE  \/ Carried(e, n, places)'
               \/ places = Handling /\ InQueue(queue', e, n + 1)
    <3>1. CASE d # c
      BY <2>2, <3>1 DEF Carried
    <3>2. CASE d = c
      <4>1. EventOf(c) = e /\ mailer[c].msg.n = n /\ mailer[c].at \in Handling
        BY <1>1, <1>2, <2>2, <3>2 DEF EventOf
      <4>2. CASE InQueue(queue', e, n)
        BY <4>2 DEF Carried
      <4>3. CASE mailer[c].at = "retry" /\ InQueue(queue', e, n + 1)
        BY <1>2, <2>2, <3>2, <4>3
      <4>4. CASE /\ mailer'[c].msg = mailer[c].msg
                 /\ \/ mailer'[c].at \in TakenOn
                    \/ mailer'[c].at \in GivingUp /\ mailer[c].at \notin TakenOn
        <5>1. mailer'[c].at \in places
          BY <1>2, <2>2, <3>2, <4>4
        <5> QED BY <2>2, <3>2, <4>4, <5>1 DEF Carried
      <4> QED BY <4>1, <4>2, <4>3, <4>4 DEF MovesOn
    <3> QED BY <3>1, <3>2
  <2> QED BY <1>3, <2>1, <2>2 DEF Carried
<1> QED BY <1>2, <1>3

LEMMA DrivenOn ==
  ASSUME MailTypes, NEW e \in TodoEvent, DrivenFor(e), SameRow(e), NEW c \in Mailer,
         \A d \in Mailer \ {c} : mailer'[d] = mailer[d],
         \A n \in Nat : InQueue(queue, e, n) => InQueue(queue', e, n),
         MovesOn(c, e), replay'.at = "mark" => replay' = replay
  PROVE  DrivenFor(e)'
<1>1. delivery[e].attempts \in Nat
  BY NotificationAssumption DEF MailTypes, DeliveryRow
<1> DEFINE n == delivery[e].attempts
<1>2. /\ Carried(e, n, TakenOn) => Carried(e, delivery[e].attempts, TakenOn)'
      /\ Carried(e, n, GivingUp) => Carried(e, delivery[e].attempts, GivingUp)'
      /\ Carried(e, n, Handling) => \/ Carried(e, delivery[e].attempts, Handling)'
                                    \/ InQueue(queue', e, delivery'[e].attempts + 1)
  <2>1. delivery'[e].attempts = n
    BY DEF SameRow
  <2>2. \A k \in Nat :
          /\ Carried(e, k, TakenOn) => Carried(e, k, TakenOn)'
          /\ Carried(e, k, GivingUp) => Carried(e, k, GivingUp)'
          /\ Carried(e, k, Handling) =>
               Carried(e, k, Handling)' \/ InQueue(queue', e, k + 1)
    BY CarriedOn
  <2> QED BY <1>1, <2>1, <2>2 DEF Carried
<1>3. InQueue(queue, e, n + 1) => InQueue(queue', e, delivery'[e].attempts + 1)
  BY <1>1 DEF SameRow
<1>4. InQueue(queue, e, 1) => InQueue(queue', e, 1)
  OBVIOUS
<1> QED BY <1>2, <1>3, <1>4 DEF DrivenFor, SameRow
DrivenInv == \A e \in TodoEvent : DrivenFor(e)

\* A consumer is at one thing.
LEMMA PlacesOfConsumers ==
  /\ "idle" \notin Handling
  /\ {"guard", "smtp", "mark", "fail", "again"} \subseteq TakenOn
  /\ {"guard", "smtp", "mark", "fail", "again", "bury", "dead"} \subseteq GivingUp
  /\ {"bury", "dead", "retry"} \cap TakenOn = {} /\ "retry" \notin GivingUp
  /\ GivingUp \subseteq Handling /\ "retry" \in Handling
  BY DEF TakenOn, GivingUp, Handling

\* On the way to the mark, and in the rows alone.
LEMMA DrivenSending ==
  ASSUME MailTypes, DrivenInv, NEW c \in Mailer,
         \/ EnterGuard(c) \/ SendMail(c) \/ SendFails(c) \/ SendTimesOut(c)
  PROVE  DrivenInv'
<1>1. /\ UNCHANGED <<delivery, replay, queue>>
      /\ mailer[c].at \in Sending
  BY DEF EnterGuard, SendMail, SendFails, SendTimesOut, At, Sending
<1>2. \E x \in Sending : \E f \in BOOLEAN :
        \/ mailer' = [mailer EXCEPT ![c].at = x]
        \/ mailer' = [mailer EXCEPT ![c].at = x, ![c].final = f]
  BY DEF EnterGuard, SendMail, SendFails, SendTimesOut, Goto, Sending
<1>3. mailer[c] \in Busy /\ mailer \in [Mailer -> {Free} \cup Busy]
  BY <1>1, BusyFacts DEF Sending, MailTypes
<1>4. /\ \A d \in Mailer \ {c} : mailer'[d] = mailer[d]
      /\ mailer'[c].at \in Sending /\ mailer'[c].msg = mailer[c].msg
  BY <1>2, <1>3 DEF Busy
<1>5. Sending \subseteq TakenOn
  BY DEF Sending, TakenOn
<1>6. ASSUME NEW e \in TodoEvent PROVE DrivenFor(e)'
  <2>1. MovesOn(c, e)
    BY <1>4, <1>5 DEF MovesOn
  <2> QED BY <1>1, <1>4, <2>1, DrivenOn DEF DrivenInv, SameRow
<1> QED BY <1>6 DEF DrivenInv

LEMMA DrivenRow ==
  ASSUME MailTypes, DrivenInv,
         \/ RequestDeletion
         \/ \E e \in TodoEvent : LateMail(e) \/ LeaseLapses(e) \/ CleanUpDelivery(e)
  PROVE  DrivenInv'
<1>1. UNCHANGED <<mailer, replay, queue>>
  BY DEF RequestDeletion, LateMail, LeaseLapses, CleanUpDelivery
<1>2. ASSUME NEW e \in TodoEvent, SameRow(e) PROVE DrivenFor(e)'
  BY <1>1, <1>2 DEF DrivenInv, DrivenFor, SameRow, Carried
<1>3. CASE delivery' = delivery
  BY <1>2, <1>3 DEF SameRow, DrivenInv
<1>4. ASSUME NEW e \in TodoEvent, LeaseLapses(e) PROVE DrivenInv'
  <2>1. delivery' = [delivery EXCEPT ![e].fresh = FALSE]
    BY <1>4 DEF LeaseLapses
  <2>2. \A d \in TodoEvent : SameRow(d)
    BY <2>1 DEF MailTypes, DeliveryRow, SameRow
  <2> QED BY <1>2, <2>2 DEF DrivenInv
<1>5. ASSUME NEW e \in TodoEvent, CleanUpDelivery(e) PROVE DrivenInv'
  <2>1. delivery' = [delivery EXCEPT ![e].status = "forgotten"]
    BY <1>5 DEF CleanUpDelivery
  <2>2. delivery'[e].status = "forgotten" /\ \A d \in TodoEvent \ {e} : SameRow(d)
    BY <2>1 DEF MailTypes, DeliveryRow, SameRow
  <2>3. DrivenFor(e)'
    BY <2>2 DEF DrivenFor
  <2> QED BY <1>2, <2>2, <2>3 DEF DrivenInv
<1> QED BY <1>3, <1>4, <1>5 DEF RequestDeletion, LateMail

\* A consumer whose message goes to a queue, or that stays on its way, and that
\* changes no row's status.
LEMMA DrivenByConsumer ==
  ASSUME MailTypes, DrivenInv, NEW c \in Mailer,
         \A d \in Mailer \ {c} : mailer'[d] = mailer[d],
         \A e \in TodoEvent : SameRow(e), UNCHANGED replay,
         \A e \in TodoEvent : \A n \in Nat : InQueue(queue, e, n) => InQueue(queue', e, n),
         MovesOn(c, EventOf(c))
  PROVE  DrivenInv'
<1>1. ASSUME NEW e \in TodoEvent PROVE DrivenFor(e)'
  <2>1. MovesOn(c, e)
    BY DEF MovesOn
  <2> QED BY <2>1, DrivenOn DEF DrivenInv
<1> QED BY <1>1 DEF DrivenInv

LEMMA DrivenRequeue ==
  ASSUME MailTypes, Fits(queue), DrivenInv, NEW c \in Mailer, mailer[c].at # "idle",
         queue' = Requeued(c), mailer' = [mailer EXCEPT ![c] = Free],
         \A e \in TodoEvent : SameRow(e), UNCHANGED replay
  PROVE  DrivenInv'
<1>1. /\ mailer[c].msg \in MailMessage
      /\ mailer[c].msg = Message(EventOf(c), mailer[c].msg.n)
  BY BusyFacts, MessageOf DEF EventOf
<1>2. "mail" \in MailPlace /\ "mail" \in MailWaits
  BY DEF MailPlace, MailWaits
<1>3. /\ \A e, n : InQueue(queue, e, n) => InQueue(queue', e, n)
      /\ InQueue(queue', EventOf(c), mailer[c].msg.n)
  BY <1>1, <1>2, PutInQueue DEF Requeued
<1>4. \A d \in Mailer \ {c} : mailer'[d] = mailer[d]
  BY DEF MailTypes
<1>5. MovesOn(c, EventOf(c))
  BY <1>3 DEF MovesOn
<1> QED BY <1>3, <1>4, <1>5, DrivenByConsumer

\* A row gets another status by a consumer of its event, or by the replay.
LEMMA DrivenElsewhere ==
  ASSUME MailTypes, DrivenInv, NEW e \in TodoEvent, DrivenFor(e)',
         NEW c \in Mailer, \A d \in Mailer \ {c} : mailer'[d] = mailer[d],
         mailer[c].at = "idle" \/ EventOf(c) = e,
         \A d \in TodoEvent \ {e} : SameRow(d), UNCHANGED replay,
         \A d \in TodoEvent \ {e} :
           \A n \in Nat : InQueue(queue, d, n) => InQueue(queue', d, n)
  PROVE  DrivenInv'
<1>1. ASSUME NEW d \in TodoEvent \ {e} PROVE DrivenFor(d)'
  <2>1. MovesOn(c, d)
    BY PlacesOfConsumers DEF MovesOn
  <2>2. /\ SameRow(d) /\ DrivenFor(d)
        /\ \A n \in Nat : InQueue(queue, d, n) => InQueue(queue', d, n)
    BY DEF DrivenInv
  <2> QED BY <2>1, <2>2, DrivenOn
<1> QED BY <1>1 DEF DrivenInv

LEMMA DrivenMarks ==
  ASSUME MailTypes, AttemptInv, Fits(queue), DrivenInv, NEW c \in Mailer,
         MarkSent(c) \/ MarkDeliveryFailed(c)
  PROVE  DrivenInv'
<1>1. mailer[c].at \in {"mark", "fail"} /\ UNCHANGED replay
  BY DEF MarkSent, MarkDeliveryFailed, At
<1>0. PICK e \in TodoEvent : e = EventOf(c)
  BY <1>1, BusyFacts
<1>2. /\ e = EventOf(c) /\ mailer[c] \in Busy /\ e \in TodoEvent /\ mailer[c].msg \in MailMessage
      /\ delivery \in [TodoEvent -> DeliveryRow] /\ delivery[e] \in DeliveryRow
      /\ mailer \in [Mailer -> {Free} \cup Busy]
  BY <1>0, <1>1, BusyFacts DEF MailTypes
<1>3. mailer[c].msg = Message(e, mailer[c].msg.n)
  BY <1>2, MessageOf DEF EventOf
<1>4. CASE MarkSent(c) /\ Claims(c)
  <2>1. /\ delivery'[e].status = "sent" /\ queue' = queue
        /\ \A d \in TodoEvent \ {e} : SameRow(d)
        /\ \A d \in Mailer \ {c} : mailer'[d] = mailer[d]
    BY <1>2, <1>4 DEF MarkSent, SameRow, DeliveryRow
  <2>2. DrivenFor(e)'
    BY <2>1 DEF DrivenFor
  <2> QED BY <1>1, <1>2, <2>1, <2>2, DrivenElsewhere
<1>5. CASE MarkSent(c) /\ ~Claims(c)
  <2>1. Goto(c, "fail") /\ delivery' = delivery /\ queue' = queue
    BY <1>5 DEF MarkSent
  <2>2. /\ mailer'[c].at = "fail" /\ mailer'[c].msg = mailer[c].msg
        /\ \A d \in Mailer \ {c} : mailer'[d] = mailer[d]
    BY <1>2, <2>1 DEF Goto, Busy
  <2>3. MovesOn(c, EventOf(c))
    BY <2>2 DEF MovesOn, TakenOn
  <2> QED BY <1>1, <2>1, <2>2, <2>3, DrivenByConsumer DEF SameRow
<1>6. CASE MarkDeliveryFailed(c) /\ Claims(c)
  <2> DEFINE last == mailer[c].final \/ mailer[c].msg.n = MaxAttempts
  <2>1. /\ delivery'[e].status = IF last THEN "dead_letter_pending" ELSE "retry_pending"
        /\ delivery'[e].attempts = delivery[e].attempts /\ queue' = queue
        /\ \A d \in TodoEvent \ {e} : SameRow(d)
    BY <1>2, <1>6 DEF MarkDeliveryFailed, SameRow, DeliveryRow
  <2>2. Goto(c, IF last THEN "bury" ELSE "retry")
    BY <1>6 DEF MarkDeliveryFailed
  <2>3. delivery[e].attempts = mailer[c].msg.n
    BY <1>1, <1>2, <1>6 DEF AttemptInv, Sending, MarkDeliveryFailed, At
  <2> HIDE DEF last
  <2>4. /\ mailer'[c].at = IF last THEN "bury" ELSE "retry"
        /\ mailer'[c].msg = mailer[c].msg
        /\ \A d \in Mailer \ {c} : mailer'[d] = mailer[d]
    BY <1>2, <2>2 DEF Goto, Busy
  <2>5. mailer'[c].msg = Message(e, delivery'[e].attempts)
    BY <1>3, <2>1, <2>3, <2>4
  <2>6. DrivenFor(e)'
    <3>1. last => Carried(e, delivery[e].attempts, GivingUp)'
      BY <2>4, <2>5, PlacesOfConsumers DEF Carried
    <3>2. ~last => Carried(e, delivery[e].attempts, Handling)'
      BY <2>4, <2>5, PlacesOfConsumers DEF Carried
    <3> QED BY <2>1, <3>1, <3>2 DEF DrivenFor
  <2>7. \A d \in TodoEvent \ {e} : SameRow(d)
    BY <2>1
  <2> QED BY <1>1, <1>2, <2>1, <2>4, <2>6, <2>7, DrivenElsewhere
<1>7. CASE MarkDeliveryFailed(c) /\ ~Claims(c)
  <2>1. /\ queue' = Requeued(c) /\ mailer' = [mailer EXCEPT ![c] = Free]
        /\ delivery' = delivery
    BY <1>7 DEF MarkDeliveryFailed
  <2> QED BY <1>1, <2>1, DrivenRequeue DEF SameRow
<1> QED BY <1>4, <1>5, <1>6, <1>7

LEMMA DrivenLeaves ==
  ASSUME MailTypes, AttemptInv, Fits(queue), DrivenInv, NEW c \in Mailer,
         ScheduleRetry(c) \/ Bury(c) \/ MarkDeadLetter(c) \/ MailerStops(c)
  PROVE  DrivenInv'
<1>1. mailer[c].at # "idle" /\ UNCHANGED replay
  BY DEF ScheduleRetry, Bury, MarkDeadLetter, MailerStops, At
<1>0. PICK e \in TodoEvent : e = EventOf(c)
  BY <1>1, BusyFacts
<1>2. /\ e = EventOf(c) /\ mailer[c] \in Busy /\ e \in TodoEvent /\ mailer[c].msg \in MailMessage
      /\ delivery \in [TodoEvent -> DeliveryRow] /\ delivery[e] \in DeliveryRow
      /\ mailer \in [Mailer -> {Free} \cup Busy]
  BY <1>0, <1>1, BusyFacts DEF MailTypes
<1>3. mailer[c].msg = Message(e, mailer[c].msg.n)
  BY <1>2, MessageOf DEF EventOf
<1>4. CASE ScheduleRetry(c)
  <2> DEFINE n == IF At(c, "again") THEN mailer[c].msg.n ELSE mailer[c].msg.n + 1
  <2>1. /\ queue' = With(queue, {"mailRetry"}, Message(e, n)) /\ delivery' = delivery
        /\ mailer' = [mailer EXCEPT ![c] = Free]
        /\ mailer[c].at \in {"retry", "again"}
    BY <1>2, <1>4 DEF ScheduleRetry, EventOf
  <2>2. "mailRetry" \in MailPlace /\ "mailRetry" \in MailWaits
    BY DEF MailPlace, MailWaits
  <2>3. /\ \A d, k : InQueue(queue, d, k) => InQueue(queue', d, k)
        /\ InQueue(queue', e, n)
    <3> HIDE DEF n
    <3> QED BY <2>1, <2>2, PutInQueue
  <2>4. MovesOn(c, EventOf(c))
    BY <1>2, <2>1, <2>3 DEF MovesOn, At
  <2>5. \A d \in Mailer \ {c} : mailer'[d] = mailer[d]
    BY <1>2, <2>1
  <2> QED BY <1>1, <2>1, <2>3, <2>4, <2>5, DrivenByConsumer DEF SameRow
<1>5. CASE Bury(c)
  <2>1. /\ Goto(c, "dead") /\ delivery' = delivery /\ mailer[c].at = "bury"
        /\ queue' = With(queue, {"mailDead"}, Message(e, MaxAttempts))
    BY <1>2, <1>5 DEF Bury, At
  <2>2. /\ mailer'[c].at = "dead" /\ mailer'[c].msg = mailer[c].msg
        /\ \A d \in Mailer \ {c} : mailer'[d] = mailer[d]
    BY <1>2, <2>1 DEF Goto, Busy
  <2>3. MovesOn(c, EventOf(c))
    BY <2>1, <2>2, PlacesOfConsumers DEF MovesOn
  <2>4. \A d, k : InQueue(queue, d, k) => InQueue(queue', d, k)
    BY <2>1, PutInQueue DEF MailPlace
  <2> QED BY <1>1, <2>1, <2>2, <2>3, <2>4, DrivenByConsumer DEF SameRow
<1>6. CASE MarkDeadLetter(c) /\ delivery[e].status = "dead_letter_pending"
  <2>1. /\ delivery'[e].status = "dead_letter" /\ queue' = queue
        /\ \A d \in TodoEvent \ {e} : SameRow(d)
        /\ \A d \in Mailer \ {c} : mailer'[d] = mailer[d]
    BY <1>2, <1>6 DEF MarkDeadLetter, SameRow, DeliveryRow
  <2>2. DrivenFor(e)'
    BY <2>1 DEF DrivenFor
  <2> QED BY <1>1, <1>2, <2>1, <2>2, DrivenElsewhere
<1>7. CASE MarkDeadLetter(c) /\ delivery[e].status # "dead_letter_pending"
  <2>1. /\ queue' = Requeued(c) /\ mailer' = [mailer EXCEPT ![c] = Free]
        /\ delivery' = delivery
    BY <1>2, <1>7 DEF MarkDeadLetter
  <2> QED BY <1>1, <2>1, DrivenRequeue DEF SameRow
<1>8. CASE MailerStops(c)
  <2>1. /\ queue' = Requeued(c) /\ mailer' = [mailer EXCEPT ![c] = Free]
    BY <1>8 DEF MailerStops
  <2>2. \A d \in TodoEvent : SameRow(d)
    <3>1. \/ delivery' = delivery
          \/ delivery' = [delivery EXCEPT ![e].holder = Nobody]
      BY <1>2, <1>8 DEF MailerStops
    <3> QED BY <1>2, <3>1 DEF SameRow, DeliveryRow
  <2> QED BY <1>1, <2>1, <2>2, DrivenRequeue
<1> QED BY <1>4, <1>5, <1>6, <1>7, <1>8

LEMMA DrivenDeliver ==
  ASSUME MailTypes, Fits(queue), DrivenInv, NEW c \in Mailer,
         NEW m \in BagToSet(queue["mail"]), Deliver(c, m)
  PROVE  DrivenInv'
<1>0. "mail" \in Place /\ m \in HeldBy("mail")
  BY DEF Place, HeldBy
<1>1. m \in MailMessage
  BY <1>0, HeldMessage, MeantMail
<1>2. PICK e \in TodoEvent : e = m.event
  BY <1>1 DEF MailMessage
<1>3. /\ m.n \in Nat /\ m.n # 0 /\ m = Message(e, m.n)
      /\ delivery \in [TodoEvent -> DeliveryRow] /\ delivery[e] \in DeliveryRow
      /\ mailer \in [Mailer -> {Free} \cup Busy] /\ mailer[c].at = "idle"
      /\ UNCHANGED replay /\ queue' = Without(queue, "mail", m)
  BY <1>1, <1>2, MessageOf, NotificationAssumption DEF MailMessage, MailTypes, Deliver, At
<1>4. \A d \in Mailer \ {c} : mailer'[d] = mailer[d]
  <2>1. \/ mailer' = mailer
        \/ \E x : mailer' = [mailer EXCEPT ![c] = [at |-> x, msg |-> m, final |-> FALSE]]
    BY DEF Deliver
  <2> QED BY <1>3, <2>1
<1>5. \A d \in TodoEvent : \A n \in Nat :
        InQueue(queue, d, n) /\ (d # e \/ n # m.n) => InQueue(queue', d, n)
  <2> TAKE d \in TodoEvent
  <2> TAKE n \in Nat
  <2>1. "mail" \in MailPlace
    BY DEF MailPlace
  <2>2. d # e \/ n # m.n => m # Message(d, n)
    BY <1>3, MessageParts
  <2> QED BY <1>3, <2>1, <2>2, TakenFromQueue
<1>6. \A d \in TodoEvent \ {e} : SameRow(d)
  BY <1>2, <1>3 DEF Deliver, SameRow
<1>7. DrivenFor(e)'
  <2> DEFINE row == delivery[e]
  <2>1. CASE Claimable(row, m.n)
    <3> DEFINE b == [at |-> "guard", msg |-> m, final |-> FALSE]
    <3>1. /\ delivery'[e].status = "processing" /\ delivery'[e].attempts = m.n
          /\ mailer' = [mailer EXCEPT ![c] = b]
      BY <1>2, <1>3, <2>1 DEF Deliver
    <3>2. b.at = "guard" /\ b.msg = m
      OBVIOUS
    <3>3. mailer'[c] = b
      BY <1>3, <3>1
    <3>4. Carried(e, m.n, TakenOn)'
      BY <1>3, <3>2, <3>3, PlacesOfConsumers DEF Carried
    <3> QED BY <3>1, <3>4 DEF DrivenFor
  <2>2. CASE ~Claimable(row, m.n) /\ row.status \in {"sent", "dead_letter"}
    <3>1. delivery' = delivery
      BY <1>2, <2>2 DEF Deliver
    <3> QED BY <2>2, <3>1 DEF DrivenFor
  <2>3. CASE ~Claimable(row, m.n) /\ row.attempts # m.n
    <3>1. delivery' = delivery /\ mailer' = mailer
      BY <1>2, <2>3 DEF Deliver
    <3>2. /\ row.status = "retry_pending" => row.attempts + 1 # m.n
          /\ row.status \in {"replay_queued", "replay_publishing"} => m.n # 1
      BY <2>3 DEF Claimable
    <3>3. row.attempts \in Nat
      BY <1>3, NotificationAssumption DEF DeliveryRow
    <3>4. /\ InQueue(queue, e, row.attempts) => InQueue(queue', e, row.attempts)
          /\ row.status = "retry_pending" =>
               (InQueue(queue, e, row.attempts + 1) => InQueue(queue', e, row.attempts + 1))
          /\ row.status \in {"replay_queued", "replay_publishing"} =>
               (InQueue(queue, e, 1) => InQueue(queue', e, 1))
      BY <1>5, <2>3, <3>2, <3>3
    <3>5. DrivenFor(e)
      BY DEF DrivenInv
    <3> QED BY <1>3, <3>1, <3>4, <3>5 DEF DrivenFor, Carried
  <2>4. CASE /\ ~Claimable(row, m.n) /\ row.status \notin {"sent", "dead_letter"}
             /\ row.attempts = m.n
    <3> DEFINE x == CASE row.status = "retry_pending" -> "retry"
                      [] row.status = "dead_letter_pending" -> "bury"
                      [] OTHER -> "again"
               b == [at |-> x, msg |-> m, final |-> FALSE]
    <3>1. delivery' = delivery /\ mailer' = [mailer EXCEPT ![c] = b]
      BY <1>2, <2>4 DEF Deliver
    <3>2. b.at = x /\ b.msg = m
      OBVIOUS
    <3>3. mailer'[c].at = x /\ mailer'[c].msg = Message(e, row.attempts)
      <4> HIDE DEF b, x
      <4> QED BY <1>3, <2>4, <3>1, <3>2
    <3>4. /\ row.status = "retry_pending" => x \in Handling
          /\ row.status = "dead_letter_pending" => x \in GivingUp
          /\ row.status = "processing" => x \in TakenOn
      BY PlacesOfConsumers
    <3>5. /\ row.status = "retry_pending" => Carried(e, delivery[e].attempts, Handling)'
          /\ row.status = "dead_letter_pending" =>
               Carried(e, delivery[e].attempts, GivingUp)'
          /\ row.status = "processing" => Carried(e, delivery[e].attempts, TakenOn)'
      <4> HIDE DEF x, b
      <4> QED BY <3>1, <3>3, <3>4 DEF Carried
    <3>6. /\ row.status \in {"replay_queued", "replay_publishing"} => m.n # 1
      BY <2>4 DEF Claimable
    <3>7. row.status \in {"replay_queued", "replay_publishing"} =>
            (InQueue(queue, e, 1) => InQueue(queue', e, 1))
      BY <1>5, <3>6
    <3>8. DrivenFor(e)
      BY DEF DrivenInv
    <3> HIDE DEF b, x
    <3> QED BY <1>3, <3>1, <3>5, <3>7, <3>8 DEF DrivenFor
  <2> QED BY <2>1, <2>2, <2>3, <2>4
<1> QED BY <1>3, <1>4, <1>5, <1>6, <1>7, DrivenElsewhere

LEMMA DrivenReplay ==
  ASSUME MailTypes, Fits(queue), DrivenInv, ReplayStep \/ ReplayStops
  PROVE  DrivenInv'
<1>0. delivery \in [TodoEvent -> DeliveryRow] /\ UNCHANGED mailer
  BY DEF MailTypes, ReplayStep, ReplayStops, ReplayPublish, ReplayMark, ReplayReset
<1>1. ASSUME NEW e \in TodoEvent, SameRow(e),
             \A n \in Nat : InQueue(queue, e, n) => InQueue(queue', e, n),
             delivery'[e].status = "replay_publishing" /\ replay'.at = "mark" =>
               (replay'.msg.event = e => InQueue(queue', e, 1))
      PROVE  DrivenFor(e)'
  <2>1. delivery[e].attempts \in Nat
    BY <1>0, NotificationAssumption DEF DeliveryRow
  <2>2. DrivenFor(e)
    BY DEF DrivenInv
  <2> QED BY <1>0, <1>1, <2>1, <2>2 DEF DrivenFor, SameRow, Carried
<1>2. "mailDead" \in MailPlace /\ "mailDead" \notin MailWaits /\ "mail" \in MailPlace
      /\ "mail" \in MailWaits
  BY DEF MailPlace, MailWaits
<1>3. CASE ReplayPublish
  <2>1. /\ delivery' = delivery
        /\ queue' = With(queue, {"mail"}, Message(replay.msg.event, 1))
        /\ replay' = [replay EXCEPT !.at = "mark"] /\ replay.at = "publish"
    BY <1>3 DEF ReplayPublish
  <2>2. replay'.msg = replay.msg
    BY <2>1, ReplayFacts
  <2>3. /\ \A d, n : InQueue(queue, d, n) => InQueue(queue', d, n)
        /\ InQueue(queue', replay.msg.event, 1)
    BY <1>2, <2>1, PutInQueue
  <2> QED BY <1>1, <2>1, <2>2, <2>3 DEF DrivenInv, SameRow
<1>4. ASSUME \A d, n : InQueue(queue, d, n) => InQueue(queue', d, n), replay'.at # "mark",
             NEW e \in TodoEvent, \A d \in TodoEvent \ {e} : SameRow(d), DrivenFor(e)'
      PROVE  DrivenInv'
  BY <1>1, <1>4 DEF DrivenInv
<1>5. CASE ReplayMark
  <2>1. replay.at = "mark" /\ replay' = Free
    BY <1>5 DEF ReplayMark
  <2>2. PICK e \in TodoEvent : e = replay.msg.event
    BY <2>1, ReplayFacts
  <2>3. queue' = queue \/ queue' = Without(queue, "mailDead", replay.msg)
    BY <1>5 DEF ReplayMark
  <2>4. \A d, n : InQueue(queue, d, n) => InQueue(queue', d, n)
    BY <1>2, <2>3, TakenFromQueue
  <2>5. \A d \in TodoEvent \ {e} : SameRow(d)
    BY <1>0, <1>5, <2>2 DEF ReplayMark, SameRow
  <2>6. DrivenFor(e)'
    <3>1. CASE delivery[e].status = "replay_publishing"
      <4>1. delivery'[e].status = "replay_queued"
        BY <1>0, <1>5, <2>2, <3>1 DEF ReplayMark, DeliveryRow
      <4>2. InQueue(queue', e, 1)
        BY <2>1, <2>2, <2>4, <3>1 DEF DrivenInv, DrivenFor
      <4> QED BY <4>1, <4>2 DEF DrivenFor
    <3>2. CASE delivery[e].status # "replay_publishing"
      <4>1. delivery' = delivery
        BY <1>5, <2>2, <3>2 DEF ReplayMark
      <4> QED BY <1>1, <2>1, <2>4, <4>1 DEF SameRow, Free
    <3> QED BY <3>1, <3>2
  <2> QED BY <1>4, <2>1, <2>4, <2>5, <2>6 DEF Free
<1>6. CASE ReplayStops
  <2>1. /\ replay' = Free /\ queue' = queue
        /\ \/ delivery' = delivery
           \/ delivery' = [delivery EXCEPT ![replay.msg.event].holder = Nobody]
    BY <1>6 DEF ReplayStops
  <2>2. \A d \in TodoEvent : SameRow(d)
    BY <1>0, <2>1 DEF SameRow, DeliveryRow
  <2> QED BY <1>1, <2>1, <2>2 DEF DrivenInv, Free
<1>7. ASSUME NEW m \in BagToSet(queue["mailDead"]), ReplayReset(m)
      PROVE  DrivenInv'
  <2>0. "mailDead" \in Place /\ m \in HeldBy("mailDead")
    BY DEF Place, HeldBy
  <2>1. m \in MailMessage
    BY <2>0, HeldMessage, MeantMail
  <2>2. PICK e \in TodoEvent : e = m.event
    BY <2>1 DEF MailMessage
  <2>3. replay.at = "idle"
    BY <1>7 DEF ReplayReset
  <2>4. CASE queue' = Without(queue, "mailDead", m) /\ UNCHANGED <<delivery, replay>>
    <3>1. \A d, n : InQueue(queue, d, n) => InQueue(queue', d, n)
      BY <1>2, <2>4, TakenFromQueue
    <3> QED BY <1>1, <2>3, <2>4, <3>1 DEF DrivenInv, SameRow
  <2>5. CASE /\ delivery' = [delivery EXCEPT ![m.event] =
                               [status |-> "replay_publishing", attempts |-> 1,
                                holder |-> Operator, fresh |-> TRUE]]
             /\ replay' = [at |-> "publish", msg |-> m] /\ queue' = queue
    <3>1. /\ delivery'[e].status = "replay_publishing" /\ replay'.at = "publish"
          /\ \A d \in TodoEvent \ {e} : SameRow(d)
      BY <1>0, <2>2, <2>5 DEF SameRow
    <3>2. DrivenFor(e)'
      BY <3>1 DEF DrivenFor
    <3> QED BY <1>4, <2>5, <3>1, <3>2
  <2> QED BY <1>7, <2>4, <2>5 DEF ReplayReset
<1> QED BY <1>3, <1>5, <1>6, <1>7 DEF ReplayStep

(***************************************************************************)
(* What is not a step of the notifications takes no message from their      *)
(* queues.                                                                  *)
(***************************************************************************)
Spares(q, r) ==
  /\ r["mailDead"] = q["mailDead"]
  /\ \A e, n : InQueue(q, e, n) => InQueue(r, e, n)

LEMMA WithSpares ==
  ASSUME NEW q, Fits(q), NEW P, "mailDead" \notin P, NEW m
  PROVE  Spares(q, With(q, P, m))
<1>1. \A p \in MailWaits : Holds(q, p) \subseteq Holds(With(q, P, m), p)
  BY WithHolds, PlacesKnown
<1>2. With(q, P, m)["mailDead"] = q["mailDead"]
  BY DEF With, Place
<1> QED BY <1>1, <1>2 DEF Spares, InQueue

LEMMA WithoutSpares ==
  ASSUME NEW q, Fits(q), NEW p \in Place \ MailPlace, NEW m
  PROVE  Spares(q, Without(q, p, m)) /\ Fits(Without(q, p, m))
<1>1. p \notin MailWaits /\ p # "mailDead" /\ MailWaits \subseteq Place /\ "mailDead" \in Place
  BY PlacesKnown DEF MailWaits, MailPlace
<1>2. \A r \in MailWaits : Holds(Without(q, p, m), r) = Holds(q, r)
  BY <1>1, WithoutHolds
<1>3. Without(q, p, m)["mailDead"] = q["mailDead"]
  BY <1>1 DEF Without, Fits
<1> QED BY <1>2, <1>3, WithoutFits DEF Spares, InQueue

LEMMA SparesMore ==
  ASSUME NEW q, NEW r, NEW s, Spares(q, r), Spares(r, s)
  PROVE  Spares(q, s)
  BY DEF Spares

LEMMA RoutedSpares ==
  ASSUME NEW q, Fits(q), NEW e \in Event, NEW n \in Nat
  PROVE  Spares(q, Routed(q, e, n))
<1> DEFINE P == BoundTo(e) \ {"mail"}
           Q == BoundTo(e) \cap {"mail"}
           r == With(q, P, Message(e, n))
<1>1. \A p \in P \cap Place : Message(e, n) \in Meant(p)
  BY DEF BoundTo, Meant, MailPlace, HistoryQueue, Message, Event
<1>2. "mailDead" \notin P /\ "mailDead" \notin Q
  BY DEF BoundTo
<1>3. Routed(q, e, n) = With(r, Q, Message(e, 1))
  BY DEF Routed
<1>4. Fits(r) /\ Spares(q, r)
  <2> HIDE DEF P
  <2> QED BY <1>1, <1>2, WithFits, WithSpares
<1>5. Spares(r, With(r, Q, Message(e, 1)))
  <2> HIDE DEF P, Q, r
  <2> QED BY <1>2, <1>4, WithSpares
<1> HIDE DEF P, Q, r
<1> QED BY <1>3, <1>4, <1>5, SparesMore

LEMMA RetriedSpares ==
  ASSUME NEW q, Fits(q), NEW p, NEW dead \in {"historyDead", "ownerDead"}, NEW m
  PROVE  Spares(q, Retried(q, p, m, dead))
<1>1. "mailDead" \notin {dead} /\ "mailDead" \notin RetriedTo(p, m)
  BY DEF RetriedTo, RetryBoundTo
<1> QED BY <1>1, WithSpares DEF Retried

LEMMA RetryDueSpares ==
  ASSUME Fits(queue), RetryDue
  PROVE  Spares(queue, queue')
<1>0. PICK p \in RetryPlace : \E m \in HeldBy(p) :
        queue' = CASE p = "mailRetry" -> With(Without(queue, p, m), {"mail"}, m)
                   [] p = "historyRetrySent" ->
                        With(Without(queue, p, m), {"dropped"}, m)
                   [] OTHER -> Routed(Without(queue, p, m), m.event, m.n)
  BY DEF RetryDue, HeldBy
<1>1. PICK m \in HeldBy(p) :
        queue' = CASE p = "mailRetry" -> With(Without(queue, p, m), {"mail"}, m)
                   [] p = "historyRetrySent" ->
                        With(Without(queue, p, m), {"dropped"}, m)
                   [] OTHER -> Routed(Without(queue, p, m), m.event, m.n)
  BY <1>0
<1> DEFINE rest == Without(queue, p, m)
<1>2. p \in Place /\ m \in [event : Event, n : Nat] /\ Fits(rest)
  BY HeldMessage, PlacesKnown, WithoutFits
<1>3. CASE p = "mailRetry"
  <2>1. "mail" \in MailPlace /\ "mail" \in MailWaits /\ "mailRetry" \in MailPlace
        /\ "mailDead" \in Place /\ "mailDead" # "mailRetry" /\ "mailDead" \notin {"mail"}
    BY DEF MailPlace, MailWaits, Place
  <2>2. queue' = With(rest, {"mail"}, m)
    BY <1>1, <1>3
  <2>3. rest["mailDead"] = queue["mailDead"]
    BY <1>3, <2>1 DEF Without, Fits
  <2>4. \A e, n : InQueue(queue, e, n) /\ m # Message(e, n) => InQueue(rest, e, n)
    BY <1>3, <2>1, TakenFromQueue
  <2> HIDE DEF rest
  <2>5. Spares(rest, queue')
    BY <1>2, <2>1, <2>2, WithSpares
  <2>6. \A e, n : m = Message(e, n) => InQueue(queue', e, n)
    BY <1>2, <2>1, <2>2, PutInQueue
  <2> QED BY <2>3, <2>4, <2>5, <2>6 DEF Spares
<1>4. CASE p \notin {"mailRetry", "historyRetrySent"}
  <2>1. p \in Place \ MailPlace
    BY <1>2, <1>4 DEF RetryPlace, MailPlace
  <2>2. Spares(queue, rest)
    BY <2>1, WithoutSpares
  <2>3. queue' = Routed(rest, m.event, m.n) /\ m.event \in Event /\ m.n \in Nat
    BY <1>1, <1>2, <1>4
  <2> HIDE DEF rest
  <2>4. Spares(rest, queue')
    BY <1>2, <2>3, RoutedSpares
  <2> QED BY <2>2, <2>4, SparesMore
<1>5. CASE p = "historyRetrySent"
  <2>1. p \in Place \ MailPlace /\ "mailDead" \notin {"dropped"}
    BY <1>2, <1>5 DEF MailPlace
  <2>2. Spares(queue, rest)
    BY <2>1, WithoutSpares
  <2>3. queue' = With(rest, {"dropped"}, m)
    BY <1>1, <1>5
  <2> HIDE DEF rest
  <2>4. Spares(rest, queue')
    BY <1>2, <2>1, <2>3, WithSpares
  <2> QED BY <2>2, <2>4, SparesMore
<1> QED BY <1>3, <1>4, <1>5

LEMMA ConsumersSpare ==
  ASSUME Fits(queue), ConsumerNext
  PROVE  Spares(queue, queue')
<1>0. {"history", "historySent", "owner"} \subseteq Place \ MailPlace
  BY DEF Place, MailPlace
<1>1. Spares(queue, queue)
  BY DEF Spares
<1>2. ASSUME NEW p \in {"history", "historySent", "owner"}, NEW m,
             NEW dead \in {"historyDead", "ownerDead"},
             queue' = Without(queue, p, m) \/ queue' = Retried(queue, p, m, dead)
             \/ queue' = Retried(Without(queue, p, m), p, m, dead)
      PROVE  Spares(queue, queue')
  <2>1. Fits(Without(queue, p, m)) /\ Spares(queue, Without(queue, p, m))
    BY <1>0, WithoutSpares
  <2> QED BY <1>2, <2>1, RetriedSpares, SparesMore
<1>3. \/ queue' = queue
      \/ \E p \in {"history", "historySent", "owner"} : \E m :
         \E dead \in {"historyDead", "ownerDead"} :
           queue' = Without(queue, p, m) \/ queue' = Retried(queue, p, m, dead)
           \/ queue' = Retried(Without(queue, p, m), p, m, dead)
  BY DEF ConsumerNext, AppendHistory, AppendUnacked, AppendFails, RetryUnacked,
     ApplyOwnerEvent, OwnerEventFails, OwnerRetryUnacked, OwnerRetried, Arrival
<1> QED BY <1>1, <1>2, <1>3

LEMMA ReplayedSpares ==
  ASSUME Fits(queue),
         \/ \E dead \in Place : ReplayDead(dead)
         \/ \E e \in TodoEvent : ReplayEvent(e)
         \/ \E e \in AccountEvent : ReplayOwnerEvent(e)
  PROVE  Spares(queue, queue')
<1>0. {"historyDead", "ownerDead"} \subseteq Place \ MailPlace
  BY DEF Place, MailPlace
<1>1. ASSUME NEW dead \in Place, ReplayDead(dead) PROVE Spares(queue, queue')
  <2> DEFINE to == IF dead = "historyDead" THEN "historySent" ELSE "owner"
  <2>1. dead \in {"historyDead", "ownerDead"}
    BY <1>1 DEF ReplayDead
  <2>2. PICK m \in HeldBy(dead) :
          \/ queue' = With(Without(queue, dead, m), {to}, Message(m.event, 0))
          \/ queue' = With(queue, {to}, Message(m.event, 0))
    BY <1>1 DEF ReplayDead
  <2>3. Fits(Without(queue, dead, m)) /\ Spares(queue, Without(queue, dead, m))
    BY <1>0, <2>1, WithoutSpares
  <2>4. "mailDead" \notin {to}
    OBVIOUS
  <2> HIDE DEF to
  <2> QED BY <2>2, <2>3, <2>4, WithSpares, SparesMore
<1>2. ASSUME NEW e, NEW p \in {"history", "historySent", "owner"},
             queue' = With(queue, {p}, Message(e, 0))
      PROVE  Spares(queue, queue')
  <2>1. "mailDead" \notin {p}
    OBVIOUS
  <2> QED BY <1>2, <2>1, WithSpares
<1> QED BY <1>1, <1>2 DEF ReplayEvent, ReplayOwnerEvent

LEMMA OtherSteps ==
  ASSUME TypeInv, [DeliveryNext]_vars, ~MailNext
  PROVE  /\ Spares(queue, queue')
         /\ UNCHANGED <<delivery, mailer, replay, mails, account>>
         /\ replays' = replays \/ replays' = replays + 1
<1>0. Fits(queue)
  BY DEF TypeInv
<1>1. Spares(queue, queue)
  BY DEF Spares
<1>2. CASE UNCHANGED vars
  BY <1>1, <1>2 DEF vars, mailVars
<1>3. CASE TodoOutboxNext /\ UNCHANGED <<accountOutboxVars, others>>
  <2>1. queue' = queue \/ \E e \in TodoEvent : queue' = Routed(queue, e, 0)
    BY <1>3, TodoPublishes
  <2>2. Spares(queue, queue')
    BY <1>0, <1>1, <2>1, RoutedSpares DEF Event
  <2> QED BY <1>3, <2>2 DEF others, mailVars
<1>4. CASE AccountOutboxNext /\ UNCHANGED <<todoOutboxVars, others>>
  <2>1. queue' = queue \/ \E e \in AccountEvent : queue' = Routed(queue, e, 0)
    BY <1>4, AccountPublishes
  <2>2. Spares(queue, queue')
    BY <1>0, <1>1, <2>1, RoutedSpares DEF Event
  <2> QED BY <1>4, <2>2 DEF others, mailVars
<1>5. CASE RetryDue /\ UNCHANGED <<faults, todoOutboxVars, accountOutboxVars, others>>
  BY <1>0, <1>5, RetryDueSpares DEF others, mailVars
<1>6. CASE ConsumerNext /\ UNCHANGED <<todoOutboxVars, accountOutboxVars, mailVars>>
  BY <1>0, <1>6, ConsumersSpare DEF mailVars
<1>7. CASE Replayed /\ \/ \E dead \in Place : ReplayDead(dead)
                       \/ \E e \in TodoEvent : ReplayEvent(e)
                       \/ \E e \in AccountEvent : ReplayOwnerEvent(e)
  BY <1>0, <1>7, ReplayedSpares DEF Replayed
<1> QED BY <1>2, <1>3, <1>4, <1>5, <1>6, <1>7 DEF DeliveryNext

LEMMA DrivenStep ==
  ASSUME TypeInv, DrivenInv, [DeliveryNext]_vars
  PROVE  DrivenInv'
<1>0. MailTypes /\ AttemptInv /\ Fits(queue)
  BY NotificationParts DEF TypeInv, DeliveryTypeOK
<1>1. CASE MailNext
  <2>1. ASSUME NEW c \in Mailer, MailerStep(c) PROVE DrivenInv'
    BY <1>0, <2>1, DrivenSending, DrivenMarks, DrivenLeaves, DrivenDeliver DEF MailerStep
  <2>2. ASSUME NEW c \in Mailer, SendFails(c) \/ SendTimesOut(c) \/ MailerStops(c)
        PROVE  DrivenInv'
    BY <1>0, <2>2, DrivenSending, DrivenLeaves
  <2> QED BY <1>0, <1>1, <2>1, <2>2, DrivenRow, DrivenReplay DEF MailNext
<1>2. CASE ~MailNext
  <2>1. Spares(queue, queue') /\ UNCHANGED <<delivery, mailer, replay>>
    BY <1>2, OtherSteps
  <2> QED BY <2>1 DEF DrivenInv, DrivenFor, Carried, Spares
<1> QED BY <1>1, <1>2

(***************************************************************************)
(* Sent.  Who is at the mark has sent the mail, or found the account being   *)
(* deleted.                                                                 *)
(***************************************************************************)
Sent(e) == mails[e] > 0 \/ account = "deleting"
SentInv ==
  /\ \A c \in Mailer : mailer[c].at = "mark" => Sent(EventOf(c))
  /\ \A e \in TodoEvent : delivery[e].status = "sent" => Sent(e)

LEMMA SentStep ==
  ASSUME TypeInv, SentInv, [DeliveryNext]_vars
  PROVE  SentInv'
<1>0. /\ MailTypes /\ OtherMailTypes /\ mailer \in [Mailer -> {Free} \cup Busy]
      /\ delivery \in [TodoEvent -> DeliveryRow] /\ mails \in [TodoEvent -> Nat]
  BY NotificationParts DEF TypeInv, DeliveryTypeOK, MailTypes, OtherMailTypes
<1>1. \A c \in Mailer : mailer[c].at # "idle" => EventOf(c) \in TodoEvent
  BY <1>0, BusyFacts
<1>2. \A e \in TodoEvent : Sent(e) => Sent(e)'
  <2>1. \/ UNCHANGED mails
        \/ \E e \in TodoEvent : mails' = [mails EXCEPT ![e] = @ + 1]
    <3>1. CASE MailNext
      <4>1. ASSUME NEW c \in Mailer, SendMail(c)
            PROVE  \E e \in TodoEvent : mails' = [mails EXCEPT ![e] = @ + 1]
        BY <1>1, <4>1 DEF SendMail, At
      <4> QED BY <3>1, <4>1
              DEF MailNext, MailerStep, ReplayStep, RequestDeletion, LateMail, LeaseLapses,
                  SendFails, SendTimesOut, MailerStops, ReplayStops, CleanUpDelivery,
                  EnterGuard, MarkSent, MarkDeliveryFailed, ScheduleRetry, Bury,
                  MarkDeadLetter, Deliver, ReplayPublish, ReplayMark, ReplayReset
    <3>2. CASE ~MailNext
      BY <3>2, OtherSteps
    <3> QED BY <3>1, <3>2
  <2>2. account = "deleting" => account' = "deleting"
    <3>1. CASE MailNext
      BY <3>1 DEF MailNext, MailerStep, ReplayStep, RequestDeletion, LateMail, LeaseLapses,
             SendFails, SendTimesOut, MailerStops, ReplayStops, CleanUpDelivery, SendMail,
             EnterGuard, MarkSent, MarkDeliveryFailed, ScheduleRetry, Bury,
             MarkDeadLetter, Deliver, ReplayPublish, ReplayMark, ReplayReset
    <3>2. CASE ~MailNext
      BY <3>2, OtherSteps
    <3> QED BY <3>1, <3>2
  <2>3. \A e \in TodoEvent : mails[e] > 0 => mails'[e] > 0
    BY <1>0, <2>1
  <2> QED BY <2>2, <2>3 DEF Sent
<1>3. ASSUME NEW c \in Mailer, \A d \in Mailer \ {c} : mailer'[d] = mailer[d],
             mailer'[c].at = "mark" =>
               mails'[mailer'[c].msg.event] > 0 \/ account' = "deleting",
             \A e \in TodoEvent : delivery'[e].status = "sent" =>
               \/ delivery[e].status = "sent"
               \/ mailer[c].at = "mark" /\ EventOf(c) = e
      PROVE  SentInv'
  <2>1. \A d \in Mailer \ {c} : mailer'[d].at = "mark" => Sent(EventOf(d))'
    <3>1. ASSUME NEW d \in Mailer \ {c}, mailer'[d].at = "mark" PROVE Sent(EventOf(d))'
      <4>1. mailer'[d] = mailer[d] /\ Sent(EventOf(d)) /\ EventOf(d) \in TodoEvent
        BY <1>1, <1>3, <3>1 DEF SentInv
      <4>2. PICK e \in TodoEvent : e = EventOf(d)
        BY <4>1
      <4>3. Sent(e)'
        BY <1>2, <4>1, <4>2
      <4> QED BY <4>1, <4>2, <4>3 DEF Sent, EventOf
    <3> QED BY <3>1
  <2>2. \A e \in TodoEvent : delivery'[e].status = "sent" => Sent(e)'
    <3>1. ASSUME NEW e \in TodoEvent, delivery'[e].status = "sent" PROVE Sent(e)
      BY <1>3, <3>1 DEF SentInv
    <3> QED BY <1>2, <3>1
  <2>3. mailer'[c].at = "mark" => Sent(EventOf(c))'
    BY <1>3 DEF Sent, EventOf
  <2> QED BY <2>1, <2>2, <2>3 DEF SentInv
<1>4. ASSUME UNCHANGED mailer,
             \A e \in TodoEvent : delivery'[e].status = "sent" => delivery[e].status = "sent"
      PROVE  SentInv'
  <2>1. ASSUME NEW d \in Mailer, mailer'[d].at = "mark" PROVE Sent(EventOf(d))'
    <3>1. mailer'[d] = mailer[d] /\ Sent(EventOf(d)) /\ EventOf(d) \in TodoEvent
      BY <1>1, <1>4, <2>1 DEF SentInv
    <3>2. PICK e \in TodoEvent : e = EventOf(d)
      BY <3>1
    <3>3. Sent(e)'
      BY <1>2, <3>1, <3>2
    <3> QED BY <3>1, <3>2, <3>3 DEF Sent, EventOf
  <2> QED BY <1>2, <1>4, <2>1 DEF SentInv
<1>5. ASSUME NEW c \in Mailer,
             \/ EnterGuard(c) \/ SendMail(c) \/ MarkSent(c) \/ MarkDeliveryFailed(c)
             \/ ScheduleRetry(c) \/ Bury(c) \/ MarkDeadLetter(c)
             \/ SendFails(c) \/ SendTimesOut(c) \/ MailerStops(c)
      PROVE  SentInv'
  <2>0. mailer[c].at # "idle"
    BY <1>5 DEF EnterGuard, SendMail, MarkSent, MarkDeliveryFailed, ScheduleRetry, Bury,
       MarkDeadLetter, SendFails, SendTimesOut, MailerStops, At
  <2>1. mailer[c] \in Busy /\ mailer[c].msg.event \in TodoEvent
    BY <1>0, <2>0, BusyFacts DEF EventOf
  <2>2. \A d \in Mailer \ {c} : mailer'[d] = mailer[d]
    BY <1>0, <1>5 DEF EnterGuard, SendMail, MarkSent, MarkDeliveryFailed, ScheduleRetry,
       Bury, MarkDeadLetter, SendFails, SendTimesOut, MailerStops, Goto
  <2>3. \A e \in TodoEvent : delivery'[e].status = "sent" =>
          \/ delivery[e].status = "sent"
          \/ mailer[c].at = "mark" /\ EventOf(c) = e
    <3>1. CASE UNCHANGED delivery
      BY <3>1
    <3>2. CASE MarkSent(c)
      BY <1>0, <3>2 DEF MarkSent, At, DeliveryRow
    <3>3. CASE MarkDeliveryFailed(c)
      BY <1>0, <3>3 DEF MarkDeliveryFailed, DeliveryRow
    <3>4. CASE MarkDeadLetter(c)
      BY <1>0, <3>4 DEF MarkDeadLetter, DeliveryRow
    <3>5. CASE MailerStops(c)
      BY <1>0, <3>5 DEF MailerStops, DeliveryRow
    <3> QED BY <1>5, <3>1, <3>2, <3>3, <3>4, <3>5
            DEF EnterGuard, SendMail, ScheduleRetry, Bury, SendFails, SendTimesOut
  <2>4. mailer'[c].at = "mark" =>
          mails'[mailer'[c].msg.event] > 0 \/ account' = "deleting"
    <3>1. CASE EnterGuard(c)
      BY <1>0, <2>1, <3>1 DEF EnterGuard, Goto, Busy
    <3>2. CASE SendMail(c)
      <4>1. /\ mails' = [mails EXCEPT ![mailer[c].msg.event] = mails[mailer[c].msg.event] + 1]
            /\ mailer'[c].msg = mailer[c].msg
        BY <1>0, <2>1, <3>2 DEF SendMail, Goto, Busy, EventOf
      <4> QED BY <1>0, <2>1, <4>1
    <3>3. CASE /\ ~EnterGuard(c) /\ ~SendMail(c)
      <4>1. mailer'[c].at # "mark"
        BY <1>0, <1>5, <2>1, <3>3
           DEF MarkSent, MarkDeliveryFailed, ScheduleRetry,
               Bury, MarkDeadLetter, SendFails, SendTimesOut, MailerStops, Goto, Free, Busy
      <4> QED BY <4>1
    <3> QED BY <3>1, <3>2, <3>3
  <2> QED BY <1>3, <2>2, <2>3, <2>4
<1>6. ASSUME NEW c \in Mailer, NEW m \in BagToSet(queue["mail"]), Deliver(c, m)
      PROVE  SentInv'
  <2>1. \/ mailer' = mailer
        \/ \E x \in {"guard", "retry", "bury", "again"} :
             mailer' = [mailer EXCEPT ![c] = [at |-> x, msg |-> m, final |-> FALSE]]
    BY <1>6 DEF Deliver
  <2>2. \A e \in TodoEvent : delivery'[e].status = "sent" => delivery[e].status = "sent"
    BY <1>0, <1>6 DEF Deliver
  <2>3. CASE mailer' = mailer
    BY <1>4, <2>2, <2>3
  <2>4. ASSUME NEW x \in {"guard", "retry", "bury", "again"},
               mailer' = [mailer EXCEPT ![c] = [at |-> x, msg |-> m, final |-> FALSE]]
        PROVE  SentInv'
    <3>1. mailer'[c].at # "mark" /\ \A d \in Mailer \ {c} : mailer'[d] = mailer[d]
      BY <1>0, <2>4
    <3> QED BY <1>3, <2>2, <3>1
  <2> QED BY <2>1, <2>3, <2>4
<1>7. ASSUME NEW e \in TodoEvent, LeaseLapses(e) \/ LateMail(e) \/ CleanUpDelivery(e)
      PROVE  SentInv'
  <2>1. UNCHANGED mailer
    BY <1>7 DEF LeaseLapses, LateMail, CleanUpDelivery
  <2>2. \A d \in TodoEvent : delivery'[d].status = "sent" => delivery[d].status = "sent"
    BY <1>0, <1>7 DEF LeaseLapses, LateMail, CleanUpDelivery, DeliveryRow
  <2> QED BY <1>4, <2>1, <2>2
<1>8. ASSUME ReplayStep \/ ReplayStops \/ RequestDeletion
      PROVE  SentInv'
  <2>1. UNCHANGED mailer
    BY <1>8 DEF ReplayStep, ReplayPublish, ReplayMark, ReplayReset, ReplayStops,
       RequestDeletion
  <2>2. \A d \in TodoEvent : delivery'[d].status = "sent" => delivery[d].status = "sent"
    <3> SUFFICES ASSUME NEW d \in TodoEvent, delivery'[d].status = "sent"
                 PROVE  delivery[d].status = "sent"
      OBVIOUS
    <3>1. CASE \E m \in BagToSet(queue["mailDead"]) : ReplayReset(m)
      <4>1. PICK m : ReplayReset(m)
        BY <3>1
      <4>2. \/ delivery' = delivery
            \/ delivery' = [delivery EXCEPT ![m.event] =
                             [status |-> "replay_publishing", attempts |-> 1,
                              holder |-> Operator, fresh |-> TRUE]]
        BY <4>1 DEF ReplayReset
      <4> QED BY <1>0, <4>2
    <3>2. CASE ReplayMark
      BY <1>0, <3>2 DEF ReplayMark, DeliveryRow
    <3>3. CASE ReplayStops
      BY <1>0, <3>3 DEF ReplayStops, DeliveryRow
    <3>4. CASE ReplayPublish \/ RequestDeletion
      BY <3>4 DEF ReplayPublish, RequestDeletion
    <3> QED BY <1>8, <3>1, <3>2, <3>3, <3>4 DEF ReplayStep
  <2> QED BY <1>4, <2>1, <2>2
<1>9. CASE ~MailNext
  BY <1>4, <1>9, OtherSteps
<1> QED BY <1>5, <1>6, <1>7, <1>8, <1>9 DEF MailNext, MailerStep

(***************************************************************************)
(* Dead letters.  They are counted: the letter that a replay has taken up is *)
(* its own, and so is the one of a consumer that has yet to mark.           *)
(***************************************************************************)
Letter(e) == Message(e, MaxAttempts)
Letters(q, e) ==
  IF Letter(e) \in DOMAIN q["mailDead"] THEN q["mailDead"][Letter(e)] ELSE 0

DeadAt(c, e) == mailer[c].at = "dead" /\ EventOf(c) = e
BuryingAt(c, e) == mailer[c].at = "bury" /\ EventOf(c) = e
Replaying(e) == replay.at # "idle" /\ replay.msg.event = e

LettersFor(e) ==
  /\ delivery[e].status \in {"dead_letter", "replay_publishing"} => Letters(queue, e) >= 1
  /\ \A c \in Mailer : DeadAt(c, e) => Letters(queue, e) >= 1
  /\ replays = 0 =>
       /\ \A c, d \in Mailer : c # d /\ DeadAt(c, e) /\ DeadAt(d, e) => Letters(queue, e) >= 2
       /\ delivery[e].status # "dead_letter_pending" =>
            \A c \in Mailer : /\ DeadAt(c, e) => Letters(queue, e) >= 2
                              /\ BuryingAt(c, e) => Letters(queue, e) >= 1
  /\ Replaying(e) =>
       /\ Letters(queue, e) >= 1
       /\ \A c \in Mailer : DeadAt(c, e) => Letters(queue, e) >= 2
       /\ delivery[e].status = "dead_letter" => Letters(queue, e) >= 2

LettersInv ==
  /\ \A m \in Holds(queue, "mailDead") : m = Letter(m.event)
  /\ replay.at # "idle" => replay.msg = Letter(replay.msg.event)
  /\ replays = 0 =>
       /\ replay.at = "idle"
       /\ \A e \in TodoEvent :
            delivery[e].status \notin {"replay_publishing", "replay_queued"}
  /\ replays <= 1 => \A e \in TodoEvent : LettersFor(e)

LEMMA LettersCount ==
  ASSUME NEW q, Fits(q), NEW e
  PROVE  /\ Letters(q, e) \in Nat
         /\ Letters(q, e) >= 1 <=> Letter(e) \in Holds(q, "mailDead")
<1>1. IsABag(q["mailDead"])
  BY DEF Fits, Place
<1>2. \A m \in DOMAIN q["mailDead"] : q["mailDead"][m] \in {n \in Nat : n > 0}
  BY <1>1 DEF IsABag
<1> QED BY <1>2 DEF Letters, Holds, BagToSet

LEMMA OneLetterMore ==
  ASSUME NEW q, Fits(q), NEW e
  PROVE  /\ Letters(With(q, {"mailDead"}, Letter(e)), e) = Letters(q, e) + 1
         /\ \A d : d # e => Letters(With(q, {"mailDead"}, Letter(e)), d) = Letters(q, d)
         /\ Holds(With(q, {"mailDead"}, Letter(e)), "mailDead")
              = Holds(q, "mailDead") \cup {Letter(e)}
<1> DEFINE B == q["mailDead"]
           x == Letter(e)
<1>1. "mailDead" \in Place /\ "mailDead" \in {"mailDead"}
  BY DEF Place
<1>2. With(q, {"mailDead"}, x)["mailDead"] = B (+) SetToBag({x})
  BY <1>1 DEF With
<1>3. \A m \in DOMAIN B : B[m] \in Nat
  <2>1. IsABag(B)
    BY <1>1 DEF Fits
  <2> QED BY <2>1 DEF IsABag
<1>4. /\ DOMAIN (B (+) SetToBag({x})) = DOMAIN B \cup {x}
      /\ (B (+) SetToBag({x}))[x] = IF x \in DOMAIN B THEN B[x] + 1 ELSE 1
      /\ \A m \in DOMAIN B : m # x => (B (+) SetToBag({x}))[m] = B[m]
  <2> HIDE DEF B, x
  <2> QED BY <1>3 DEF SetToBag, (+)
<1>5. \A d : d # e => Letter(d) # x
  BY DEF Letter, Message
<1>6. Holds(With(q, {"mailDead"}, x), "mailDead") = Holds(q, "mailDead") \cup {x}
  BY <1>1, WithHolds
<1> QED BY <1>2, <1>4, <1>5, <1>6 DEF Letters

LEMMA OneLetterLess ==
  ASSUME NEW q, Fits(q), NEW e
  PROVE  /\ Letters(Without(q, "mailDead", Letter(e)), e)
              = IF Letters(q, e) >= 1 THEN Letters(q, e) - 1 ELSE 0
         /\ \A d : d # e => Letters(Without(q, "mailDead", Letter(e)), d) = Letters(q, d)
         /\ Holds(Without(q, "mailDead", Letter(e)), "mailDead") \subseteq Holds(q, "mailDead")
<1> DEFINE B == q["mailDead"]
           x == Letter(e)
           R == B (-) SetToBag({x})
<1>1. "mailDead" \in Place
  BY DEF Place
<1>2. Without(q, "mailDead", x)["mailDead"] = R
  BY <1>1 DEF Without, Fits
<1>3. \A m \in DOMAIN B : B[m] \in {n \in Nat : n > 0}
  <2>1. IsABag(B)
    BY <1>1 DEF Fits
  <2> QED BY <2>1 DEF IsABag
<1>4. /\ DOMAIN R = {m \in DOMAIN B : IF m = x THEN B[m] - 1 > 0 ELSE B[m] > 0}
      /\ \A m \in DOMAIN R : R[m] = IF m = x THEN B[m] - 1 ELSE B[m]
  <2> HIDE DEF B, x
  <2> QED BY DEF SetToBag, (-)
<1>5. \A d : d # e => Letter(d) # x
  BY DEF Letter, Message
<1>6. Holds(Without(q, "mailDead", x), "mailDead") \subseteq Holds(q, "mailDead")
  BY <1>1, WithoutHolds
<1> HIDE DEF R
<1>7. Letters(Without(q, "mailDead", x), e) = IF Letters(q, e) >= 1 THEN Letters(q, e) - 1 ELSE 0
  BY <1>2, <1>3, <1>4 DEF Letters
<1>8. ASSUME NEW d, d # e
      PROVE  Letters(Without(q, "mailDead", Letter(e)), d) = Letters(q, d)
  BY <1>2, <1>3, <1>4, <1>5, <1>8 DEF Letters
<1> QED BY <1>6, <1>7, <1>8

LEMMA SameLetters ==
  ASSUME NEW q, NEW r, r["mailDead"] = q["mailDead"]
  PROVE  /\ \A e : Letters(r, e) = Letters(q, e)
         /\ Holds(r, "mailDead") = Holds(q, "mailDead")
  BY DEF Letters, Holds

\* No status comes to ask for a letter, and no consumer to owe one.
LEMMA LettersOn ==
  ASSUME NEW e \in TodoEvent, LettersFor(e), Letters(queue', e) = Letters(queue, e),
         Letters(queue, e) \in Nat, replays' = replays \/ replays = 0,
         replay'.at # "idle" => replay.at # "idle" /\ replay'.msg = replay.msg,
         replays = 0 => replay.at = "idle",
         \/ delivery'[e].status \in {delivery[e].status, "dead_letter_pending"}
         \/ /\ delivery[e].status # "dead_letter_pending"
            /\ delivery'[e].status \notin {"dead_letter", "replay_publishing"},
         \A c \in Mailer : /\ DeadAt(c, e)' => DeadAt(c, e)
                           /\ BuryingAt(c, e)' => \/ BuryingAt(c, e)
                                                  \/ delivery'[e].status = "dead_letter_pending"
  PROVE  LettersFor(e)'
<1>1. delivery'[e].status \in {"dead_letter", "replay_publishing"} =>
        Letters(queue', e) >= 1
  BY DEF LettersFor
<1>2. \A c \in Mailer : DeadAt(c, e)' => Letters(queue', e) >= 1
  BY DEF LettersFor
<1>3. replays' = 0 =>
        /\ \A c, d \in Mailer : c # d /\ DeadAt(c, e)' /\ DeadAt(d, e)' =>
             Letters(queue', e) >= 2
        /\ delivery'[e].status # "dead_letter_pending" =>
             \A c \in Mailer : /\ DeadAt(c, e)' => Letters(queue', e) >= 2
                               /\ BuryingAt(c, e)' => Letters(queue', e) >= 1
  <2>1. ASSUME replays = 0
        PROVE  /\ \A c, d \in Mailer : c # d /\ DeadAt(c, e)' /\ DeadAt(d, e)' =>
                    Letters(queue', e) >= 2
               /\ delivery'[e].status # "dead_letter_pending" =>
                    \A c \in Mailer : /\ DeadAt(c, e)' => Letters(queue', e) >= 2
                                      /\ BuryingAt(c, e)' => Letters(queue', e) >= 1
    <3>1. \A c, d \in Mailer : c # d /\ DeadAt(c, e) /\ DeadAt(d, e) => Letters(queue, e) >= 2
      BY <2>1 DEF LettersFor
    <3>2. delivery'[e].status # "dead_letter_pending" =>
            delivery[e].status # "dead_letter_pending"
      OBVIOUS
    <3>3. delivery[e].status # "dead_letter_pending" =>
            \A c \in Mailer : /\ DeadAt(c, e) => Letters(queue, e) >= 2
                              /\ BuryingAt(c, e) => Letters(queue, e) >= 1
      BY <2>1 DEF LettersFor
    <3> QED BY <3>1, <3>2, <3>3
  <2> QED BY <2>1
<1>4. Replaying(e)' =>
        /\ Letters(queue', e) >= 1
        /\ \A c \in Mailer : DeadAt(c, e)' => Letters(queue', e) >= 2
        /\ delivery'[e].status = "dead_letter" => Letters(queue', e) >= 2
  <2>1. Replaying(e)' => Replaying(e)
    BY DEF Replaying
  <2>2. delivery'[e].status = "dead_letter" => delivery[e].status = "dead_letter"
    OBVIOUS
  <2> QED BY <2>1, <2>2 DEF LettersFor
<1> QED BY <1>1, <1>2, <1>3, <1>4 DEF LettersFor

StatusEases(e) ==
  \/ delivery'[e].status \in {delivery[e].status, "dead_letter_pending"}
  \/ /\ delivery[e].status # "dead_letter_pending"
     /\ delivery'[e].status \notin {"dead_letter", "replay_publishing", "replay_queued"}
OwesNoMore(c, e) ==
  /\ DeadAt(c, e)' => DeadAt(c, e)
  /\ BuryingAt(c, e)' => BuryingAt(c, e) \/ delivery'[e].status = "dead_letter_pending"

LEMMA LettersKept ==
  ASSUME Fits(queue), LettersInv, replays \in Nat, queue'["mailDead"] = queue["mailDead"],
         replays' = replays \/ replays' = replays + 1,
         replay'.at # "idle" => replay.at # "idle" /\ replay'.msg = replay.msg,
         \A e \in TodoEvent : StatusEases(e),
         \A e \in TodoEvent : \A c \in Mailer : OwesNoMore(c, e)
  PROVE  LettersInv'
<1>1. /\ \A e : Letters(queue', e) = Letters(queue, e)
      /\ Holds(queue', "mailDead") = Holds(queue, "mailDead")
  BY SameLetters
<1>2. \A e : Letters(queue, e) \in Nat
  BY LettersCount
<1>3. ASSUME replays' <= 1, NEW e \in TodoEvent PROVE LettersFor(e)'
  <2>1. LettersFor(e) /\ (replays' = replays \/ replays = 0)
    BY <1>3 DEF LettersInv
  <2>2. replays = 0 => replay.at = "idle"
    BY DEF LettersInv
  <2>3. \/ delivery'[e].status \in {delivery[e].status, "dead_letter_pending"}
        \/ /\ delivery[e].status # "dead_letter_pending"
           /\ delivery'[e].status \notin {"dead_letter", "replay_publishing"}
    BY DEF StatusEases
  <2>4. \A c \in Mailer : /\ DeadAt(c, e)' => DeadAt(c, e)
                          /\ BuryingAt(c, e)' => \/ BuryingAt(c, e)
                                                 \/ delivery'[e].status = "dead_letter_pending"
    BY DEF OwesNoMore
  <2> QED BY <1>1, <1>2, <2>1, <2>2, <2>3, <2>4, LettersOn
<1>4. replays' = 0 =>
        /\ replay'.at = "idle"
        /\ \A e \in TodoEvent :
             delivery'[e].status \notin {"replay_publishing", "replay_queued"}
  <2>1. replays' = 0 => replays = 0
    OBVIOUS
  <2> QED BY <2>1 DEF LettersInv, StatusEases
<1>5. replay'.at # "idle" => replay'.msg = Letter(replay'.msg.event)
  BY DEF LettersInv, Letter
<1>6. \A m \in Holds(queue', "mailDead") : m = Letter(m.event)
  BY <1>1 DEF LettersInv
<1> QED BY <1>3, <1>4, <1>5, <1>6 DEF LettersInv, Letter

\* A message for the mail queue, or for the one of the retries, is no letter.
LEMMA NoLetter ==
  ASSUME Fits(queue), NEW p \in {"mail", "mailRetry"}, NEW m
  PROVE  /\ queue' = With(queue, {p}, m) => queue'["mailDead"] = queue["mailDead"]
         /\ queue' = Without(queue, p, m) => queue'["mailDead"] = queue["mailDead"]
<1>1. "mailDead" \in Place /\ "mailDead" \notin {p} /\ p # "mailDead"
  BY DEF Place
<1> QED BY <1>1 DEF With, Without, Fits

LEMMA LettersByConsumer ==
  ASSUME MailTypes, Fits(queue), LettersInv, replays \in Nat, NEW c \in Mailer,
         \/ EnterGuard(c) \/ SendMail(c) \/ MarkSent(c) \/ MarkDeliveryFailed(c)
         \/ ScheduleRetry(c) \/ SendFails(c) \/ SendTimesOut(c) \/ MailerStops(c)
         \/ MarkDeadLetter(c) /\ delivery[EventOf(c)].status # "dead_letter_pending"
  PROVE  LettersInv'
<1>0. /\ mailer \in [Mailer -> {Free} \cup Busy] /\ delivery \in [TodoEvent -> DeliveryRow]
      /\ UNCHANGED <<replay, replays>>
  BY DEF MailTypes, EnterGuard, SendMail, MarkSent, MarkDeliveryFailed, ScheduleRetry,
     SendFails, SendTimesOut, MailerStops, MarkDeadLetter
<1>1. mailer[c].at # "idle"
  BY DEF EnterGuard, SendMail, MarkSent, MarkDeliveryFailed, ScheduleRetry,
     SendFails, SendTimesOut, MailerStops, MarkDeadLetter, At
<1>2. mailer[c] \in Busy /\ EventOf(c) \in TodoEvent
  BY <1>1, BusyFacts
<1>3. queue'["mailDead"] = queue["mailDead"]
  <2>1. \/ queue' = queue
        \/ queue' = With(queue, {"mail"}, mailer[c].msg)
        \/ \E m : queue' = With(queue, {"mailRetry"}, m)
    BY DEF EnterGuard, SendMail, MarkSent, MarkDeliveryFailed, ScheduleRetry,
       SendFails, SendTimesOut, MailerStops, MarkDeadLetter, Requeued
  <2> QED BY <2>1, NoLetter
<1>4. \A e \in TodoEvent : StatusEases(e)
  <2>1. CASE UNCHANGED delivery
    BY <2>1 DEF StatusEases
  <2>2. CASE MarkSent(c)
    BY <1>0, <1>2, <2>2 DEF MarkSent, Claims, StatusEases, DeliveryRow
  <2>3. CASE MarkDeliveryFailed(c)
    BY <1>0, <1>2, <2>3 DEF MarkDeliveryFailed, Claims, StatusEases, DeliveryRow
  <2>4. CASE MailerStops(c)
    BY <1>0, <1>2, <2>4 DEF MailerStops, StatusEases, DeliveryRow
  <2> QED BY <2>1, <2>2, <2>3, <2>4
          DEF EnterGuard, SendMail, ScheduleRetry, SendFails, SendTimesOut, MarkDeadLetter
<1>5. \A d \in Mailer \ {c} : mailer'[d] = mailer[d]
  BY <1>0 DEF EnterGuard, SendMail, MarkSent, MarkDeliveryFailed, ScheduleRetry,
     SendFails, SendTimesOut, MailerStops, MarkDeadLetter, Goto
<1>6. ASSUME NEW e \in TodoEvent PROVE OwesNoMore(c, e)
  <2>1. mailer'[c].at # "dead"
    BY <1>0, <1>2 DEF EnterGuard, SendMail, MarkSent, MarkDeliveryFailed, ScheduleRetry,
       SendFails, SendTimesOut, MailerStops, MarkDeadLetter, Goto, Free, Busy
  <2>2. CASE MarkDeliveryFailed(c) /\ Claims(c) /\ mailer'[c].at = "bury"
    <3>1. delivery'[EventOf(c)].status = "dead_letter_pending"
          /\ mailer'[c].msg = mailer[c].msg
      BY <1>0, <1>2, <2>2 DEF MarkDeliveryFailed, Goto, Busy, DeliveryRow
    <3> QED BY <2>1, <3>1 DEF OwesNoMore, DeadAt, BuryingAt, EventOf
  <2>3. CASE ~(MarkDeliveryFailed(c) /\ Claims(c))
    <3>1. mailer'[c].at # "bury"
      BY <1>0, <1>2, <2>3 DEF EnterGuard, SendMail, MarkSent, MarkDeliveryFailed,
         ScheduleRetry, SendFails, SendTimesOut, MailerStops, MarkDeadLetter, Goto, Free,
         Busy
    <3> QED BY <2>1, <3>1 DEF OwesNoMore, DeadAt, BuryingAt
  <2>4. CASE mailer'[c].at # "bury"
    BY <2>1, <2>4 DEF OwesNoMore, DeadAt, BuryingAt
  <2> QED BY <2>2, <2>3, <2>4
<1>7. \A e \in TodoEvent : \A d \in Mailer : OwesNoMore(d, e)
  BY <1>5, <1>6 DEF OwesNoMore, DeadAt, BuryingAt, EventOf
<1> QED BY <1>0, <1>3, <1>4, <1>7, LettersKept

LEMMA LettersDeliver ==
  ASSUME MailTypes, Fits(queue), LettersInv, replays \in Nat, NEW c \in Mailer,
         NEW m \in BagToSet(queue["mail"]), Deliver(c, m)
  PROVE  LettersInv'
<1>0. /\ mailer \in [Mailer -> {Free} \cup Busy] /\ delivery \in [TodoEvent -> DeliveryRow]
      /\ UNCHANGED <<replay, replays>> /\ queue' = Without(queue, "mail", m)
  BY DEF MailTypes, Deliver
<1>1. queue'["mailDead"] = queue["mailDead"]
  BY <1>0, NoLetter
<1>2. \A e \in TodoEvent : StatusEases(e)
  BY <1>0 DEF Deliver, Claimable, StatusEases
<1>3. \/ mailer' = mailer
      \/ \E x : /\ mailer' = [mailer EXCEPT ![c] = [at |-> x, msg |-> m, final |-> FALSE]]
                /\ x # "dead"
                /\ x = "bury" => /\ delivery[m.event].status = "dead_letter_pending"
                                 /\ delivery' = delivery
  BY DEF Deliver
<1>4. \A e \in TodoEvent : \A d \in Mailer : OwesNoMore(d, e)
  <2>1. CASE mailer' = mailer
    BY <2>1 DEF OwesNoMore, DeadAt, BuryingAt, EventOf
  <2>2. ASSUME NEW x, mailer' = [mailer EXCEPT ![c] = [at |-> x, msg |-> m, final |-> FALSE]],
               x # "dead",
               x = "bury" => /\ delivery[m.event].status = "dead_letter_pending"
                             /\ delivery' = delivery
        PROVE  \A e \in TodoEvent : \A d \in Mailer : OwesNoMore(d, e)
    <3>1. /\ mailer'[c].at = x /\ mailer'[c].msg = m
          /\ \A d \in Mailer \ {c} : mailer'[d] = mailer[d]
      BY <1>0, <2>2
    <3> QED BY <2>2, <3>1 DEF OwesNoMore, DeadAt, BuryingAt, EventOf
  <2> QED BY <1>3, <2>1, <2>2
<1> QED BY <1>0, <1>1, <1>2, <1>4, LettersKept

LEMMA LettersAround ==
  ASSUME MailTypes, Fits(queue), LettersInv, replays \in Nat,
         \/ RequestDeletion \/ ReplayPublish \/ ReplayStops
         \/ \E e \in TodoEvent : LateMail(e) \/ LeaseLapses(e) \/ CleanUpDelivery(e)
  PROVE  LettersInv'
<1>0. /\ delivery \in [TodoEvent -> DeliveryRow] /\ UNCHANGED <<mailer, replays>>
  BY DEF MailTypes, RequestDeletion, ReplayPublish, ReplayStops, LateMail, LeaseLapses,
     CleanUpDelivery
<1>1. queue'["mailDead"] = queue["mailDead"]
  <2>1. queue' = queue \/ \E m : queue' = With(queue, {"mail"}, m)
    BY DEF RequestDeletion, ReplayPublish, ReplayStops, LateMail, LeaseLapses,
       CleanUpDelivery
  <2> QED BY <2>1, NoLetter
<1>2. \A e \in TodoEvent : StatusEases(e)
  BY <1>0 DEF RequestDeletion, ReplayPublish, ReplayStops, LateMail, LeaseLapses,
     CleanUpDelivery, StatusEases, DeliveryRow
<1>3. \A e \in TodoEvent : \A d \in Mailer : OwesNoMore(d, e)
  BY <1>0 DEF OwesNoMore, DeadAt, BuryingAt, EventOf
<1>4. replay'.at # "idle" => replay.at # "idle" /\ replay'.msg = replay.msg
  <2>1. \/ replay' = replay \/ replay' = Free
        \/ replay.at = "publish" /\ replay' = [replay EXCEPT !.at = "mark"]
    BY DEF RequestDeletion, ReplayPublish, ReplayStops, LateMail, LeaseLapses,
       CleanUpDelivery
  <2>2. CASE replay.at = "publish" /\ replay' = [replay EXCEPT !.at = "mark"]
    BY <2>2, ReplayFacts
  <2>3. CASE replay' = replay \/ replay' = Free
    BY <2>3 DEF Free
  <2> QED BY <2>1, <2>2, <2>3
<1> QED BY <1>0, <1>1, <1>2, <1>3, <1>4, LettersKept

LEMMA LettersBury ==
  ASSUME MailTypes, Fits(queue), LettersInv, NEW c \in Mailer, Bury(c)
  PROVE  LettersInv'
<1>0. /\ mailer[c].at = "bury" /\ mailer \in [Mailer -> {Free} \cup Busy]
      /\ UNCHANGED <<delivery, replay, replays>>
  BY DEF Bury, At, MailTypes
<1>1. PICK e \in TodoEvent : e = EventOf(c)
  BY <1>0, BusyFacts
<1>2. queue' = With(queue, {"mailDead"}, Letter(e)) /\ Goto(c, "dead") /\ mailer[c] \in Busy
  BY <1>0, <1>1, BusyFacts DEF Bury, Letter
<1>3. /\ mailer'[c].at = "dead" /\ mailer'[c].msg.event = e
      /\ \A d \in Mailer \ {c} : mailer'[d] = mailer[d]
  BY <1>0, <1>1, <1>2 DEF Goto, Busy, EventOf
<1>4. /\ Letters(queue', e) = Letters(queue, e) + 1
      /\ \A d : d # e => Letters(queue', d) = Letters(queue, d)
      /\ Holds(queue', "mailDead") = Holds(queue, "mailDead") \cup {Letter(e)}
  BY <1>2, OneLetterMore
<1>5. \A d : Letters(queue, d) \in Nat
  BY LettersCount
<1>6. ASSUME NEW d \in TodoEvent, d # e, LettersFor(d) PROVE LettersFor(d)'
  <2>1. \A b \in Mailer : /\ DeadAt(b, d)' <=> DeadAt(b, d)
                          /\ BuryingAt(b, d)' <=> BuryingAt(b, d)
    BY <1>0, <1>1, <1>3, <1>6 DEF DeadAt, BuryingAt, EventOf
  <2>2. Letters(queue', d) = Letters(queue, d)
    BY <1>4, <1>6
  <2>3. Replaying(d)' <=> Replaying(d)
    BY <1>0 DEF Replaying
  <2> QED BY <1>0, <1>6, <2>1, <2>2, <2>3 DEF LettersFor
<1>7. ASSUME LettersFor(e) PROVE LettersFor(e)'
  <2>1. \A b \in Mailer \ {c} : /\ DeadAt(b, e)' <=> DeadAt(b, e)
                                /\ BuryingAt(b, e)' <=> BuryingAt(b, e)
    BY <1>3 DEF DeadAt, BuryingAt, EventOf
  <2>2. BuryingAt(c, e) /\ ~BuryingAt(c, e)'
    BY <1>0, <1>1, <1>3 DEF BuryingAt
  <2>3. Letters(queue', e) >= 1
    BY <1>4, <1>5
  <2>4. replays = 0 /\ delivery[e].status # "dead_letter_pending" => Letters(queue', e) >= 2
    BY <1>4, <1>5, <1>7, <2>2 DEF LettersFor
  <2>5. \A b \in Mailer \ {c} : DeadAt(b, e)' => Letters(queue', e) >= 2
    BY <1>4, <1>5, <1>7, <2>1 DEF LettersFor
  <2>6. Replaying(e)' => Letters(queue', e) >= 2
    BY <1>0, <1>4, <1>5, <1>7 DEF LettersFor, Replaying
  <2> QED BY <1>0, <2>2, <2>3, <2>4, <2>5, <2>6 DEF LettersFor
<1>8. Letter(e).event = e
  BY DEF Letter, Message
<1>9. \A m \in Holds(queue', "mailDead") : m = Letter(m.event)
  BY <1>4, <1>8 DEF LettersInv
<1> QED BY <1>0, <1>6, <1>7, <1>9 DEF LettersInv, Letter

LEMMA LettersMarked ==
  ASSUME MailTypes, Fits(queue), LettersInv, NEW c \in Mailer, MarkDeadLetter(c),
         delivery[EventOf(c)].status = "dead_letter_pending"
  PROVE  LettersInv'
<1>0. /\ mailer[c].at = "dead" /\ mailer \in [Mailer -> {Free} \cup Busy]
      /\ delivery \in [TodoEvent -> DeliveryRow]
      /\ UNCHANGED <<queue, replay, replays>> /\ mailer' = [mailer EXCEPT ![c] = Free]
  BY DEF MarkDeadLetter, At, MailTypes
<1>1. PICK e \in TodoEvent : e = EventOf(c)
  BY <1>0, BusyFacts
<1>2. /\ mailer'[c].at = "idle" /\ \A d \in Mailer \ {c} : mailer'[d] = mailer[d]
  BY <1>0 DEF Free
<1>3. /\ delivery[e].status = "dead_letter_pending" /\ delivery'[e].status = "dead_letter"
      /\ \A d \in TodoEvent \ {e} : delivery'[d] = delivery[d]
  BY <1>0, <1>1 DEF MarkDeadLetter, DeliveryRow
<1>4. DeadAt(c, e)
  BY <1>0, <1>1 DEF DeadAt
<1>5. \A d \in TodoEvent : \A b \in Mailer : /\ DeadAt(b, d)' => b # c /\ DeadAt(b, d)
                                             /\ BuryingAt(b, d)' => BuryingAt(b, d)
  BY <1>2 DEF DeadAt, BuryingAt, EventOf
<1>6. \A d : (Replaying(d)' <=> Replaying(d)) /\ Letters(queue', d) = Letters(queue, d)
  BY <1>0 DEF Replaying
<1>7. ASSUME NEW d \in TodoEvent, d # e, LettersFor(d) PROVE LettersFor(d)'
  BY <1>0, <1>3, <1>5, <1>6, <1>7 DEF LettersFor
<1>8. ASSUME LettersFor(e) PROVE LettersFor(e)'
  <2>1. Letters(queue, e) >= 1
    BY <1>4, <1>8 DEF LettersFor
  <2>2. Replaying(e) => Letters(queue, e) >= 2
    BY <1>4, <1>8 DEF LettersFor
  <2>3. replays = 0 => \A b \in Mailer : DeadAt(b, e)' => Letters(queue, e) >= 2
    BY <1>4, <1>5, <1>8 DEF LettersFor
  <2> QED BY <1>0, <1>3, <1>5, <1>6, <2>1, <2>2, <2>3 DEF LettersFor
<1>9. replays' = 0 => \A d \in TodoEvent :
        delivery'[d].status \notin {"replay_publishing", "replay_queued"}
  BY <1>0, <1>3 DEF LettersInv
<1> QED BY <1>0, <1>7, <1>8, <1>9 DEF LettersInv, Letter

\* The replay is over, and its letter acknowledged.
LEMMA LettersReplayed ==
  ASSUME MailTypes, Fits(queue), LettersInv, ReplayMark
  PROVE  LettersInv'
<1>0. /\ replay.at = "mark" /\ replay' = Free /\ UNCHANGED <<mailer, replays>>
      /\ delivery \in [TodoEvent -> DeliveryRow]
  BY DEF ReplayMark, MailTypes
<1>1. PICK e \in TodoEvent : e = replay.msg.event
  BY <1>0, ReplayFacts
<1>2. replay.msg = Letter(e) /\ replays # 0 /\ Replaying(e)
  BY <1>0, <1>1 DEF LettersInv, Replaying
<1>3. \/ queue' = queue /\ delivery[e].status = "forgotten"
      \/ queue' = Without(queue, "mailDead", Letter(e))
  BY <1>1, <1>2 DEF ReplayMark
<1>4. /\ \A d : d # e => Letters(queue', d) = Letters(queue, d)
      /\ Letters(queue, e) >= 1 => \/ Letters(queue', e) = Letters(queue, e) - 1
                                   \/ Letters(queue', e) = Letters(queue, e)
      /\ Holds(queue', "mailDead") \subseteq Holds(queue, "mailDead")
  BY <1>3, OneLetterLess
<1>5. \A d : Letters(queue, d) \in Nat
  BY LettersCount
<1>6. /\ \A d \in TodoEvent \ {e} : delivery'[d] = delivery[d]
      /\ delivery'[e].status = IF delivery[e].status = "replay_publishing"
                               THEN "replay_queued" ELSE delivery[e].status
  BY <1>0, <1>1 DEF ReplayMark, DeliveryRow
<1>7. /\ \A d : ~Replaying(d)'
      /\ \A d \in TodoEvent : \A c \in Mailer : DeadAt(c, d)' <=> DeadAt(c, d)
  BY <1>0 DEF Replaying, Free, DeadAt, EventOf
<1>8. ASSUME NEW d \in TodoEvent, d # e, LettersFor(d) PROVE LettersFor(d)'
  BY <1>0, <1>2, <1>4, <1>6, <1>7, <1>8 DEF LettersFor
<1>9. ASSUME LettersFor(e) PROVE LettersFor(e)'
  <2>1. /\ Letters(queue, e) >= 1
        /\ \A c \in Mailer : DeadAt(c, e) => Letters(queue, e) >= 2
        /\ delivery[e].status = "dead_letter" => Letters(queue, e) >= 2
    BY <1>2, <1>9 DEF LettersFor
  <2>2. /\ \A c \in Mailer : DeadAt(c, e) => Letters(queue', e) >= 1
        /\ delivery[e].status = "dead_letter" => Letters(queue', e) >= 1
    BY <1>4, <1>5, <2>1
  <2>3. delivery'[e].status \in {"dead_letter", "replay_publishing"} =>
          delivery[e].status = "dead_letter"
    BY <1>6
  <2> QED BY <1>0, <1>2, <1>7, <2>2, <2>3 DEF LettersFor
<1> QED BY <1>0, <1>2, <1>4, <1>8, <1>9 DEF LettersInv, Letter, Free

\* A replay takes up a letter, or acknowledges one that is known.
LEMMA LettersReset ==
  ASSUME MailTypes, Fits(queue), LettersInv, replays \in Nat,
         NEW m \in BagToSet(queue["mailDead"]), ReplayReset(m)
  PROVE  LettersInv'
<1>0. "mailDead" \in Place /\ m \in Holds(queue, "mailDead") /\ m \in HeldBy("mailDead")
  BY DEF Place, Holds, HeldBy
<1>1. m \in MailMessage /\ m = Letter(m.event)
  BY <1>0, HeldMessage, MeantMail DEF LettersInv
<1>2. PICK e \in TodoEvent : e = m.event
  BY <1>1 DEF MailMessage
<1>3. /\ replay.at = "idle" /\ replays' = replays + 1 /\ UNCHANGED mailer
      /\ delivery \in [TodoEvent -> DeliveryRow]
  BY DEF ReplayReset, MailTypes
<1>4. Letters(queue, e) >= 1 /\ \A d : Letters(queue, d) \in Nat
  BY <1>0, <1>1, <1>2, LettersCount
<1>5. \A d \in TodoEvent : \A c \in Mailer : DeadAt(c, d)' <=> DeadAt(c, d)
  BY <1>3 DEF DeadAt, EventOf
<1>6. ASSUME replays' <= 1
      PROVE  /\ replays = 0 /\ \A d \in TodoEvent : LettersFor(d)
             /\ \A d \in TodoEvent :
                  delivery[d].status \notin {"replay_publishing", "replay_queued"}
  BY <1>3, <1>6 DEF LettersInv
<1>7. CASE /\ queue' = Without(queue, "mailDead", m) /\ UNCHANGED <<delivery, replay>>
           /\ delivery[e].status \in {"sent", "replay_queued"}
  <2>1. /\ \A d : d # e => Letters(queue', d) = Letters(queue, d)
        /\ Letters(queue', e) = Letters(queue, e) - 1
        /\ Holds(queue', "mailDead") \subseteq Holds(queue, "mailDead")
    BY <1>1, <1>2, <1>4, <1>7, OneLetterLess
  <2>2. \A d : ~Replaying(d)'
    BY <1>3, <1>7 DEF Replaying
  <2>3. ASSUME NEW d \in TodoEvent, replays' <= 1 PROVE LettersFor(d)'
    <3>1. CASE d = e
      <4>1. \A c \in Mailer : DeadAt(c, e) => Letters(queue, e) >= 2
        BY <1>6, <1>7, <2>3 DEF LettersFor
      <4>2. \A c \in Mailer : DeadAt(c, e) => Letters(queue', e) >= 1
        BY <1>4, <2>1, <4>1
      <4> QED BY <1>3, <1>5, <1>7, <2>2, <2>3, <3>1, <4>2 DEF LettersFor
    <3>2. CASE d # e
      <4>1. Letters(queue', d) = Letters(queue, d) /\ LettersFor(d) /\ replays' # 0
        BY <1>3, <1>6, <2>1, <2>3, <3>2
      <4> QED BY <1>5, <1>7, <2>2, <4>1 DEF LettersFor
    <3> QED BY <3>1, <3>2
  <2> QED BY <1>3, <1>7, <2>1, <2>3 DEF LettersInv, Letter
<1>8. CASE /\ delivery[e].status \in {"dead_letter", "replay_publishing"}
           /\ delivery' = [delivery EXCEPT ![m.event] =
                             [status |-> "replay_publishing", attempts |-> 1,
                              holder |-> Operator, fresh |-> TRUE]]
           /\ replay' = [at |-> "publish", msg |-> m] /\ queue' = queue
  <2>1. /\ delivery'[e].status = "replay_publishing"
        /\ \A d \in TodoEvent \ {e} : delivery'[d] = delivery[d]
    BY <1>2, <1>3, <1>8
  <2>2. /\ replay'.at = "publish" /\ replay'.msg = m
        /\ \A d : Replaying(d)' => d = e
    BY <1>2, <1>8 DEF Replaying
  <2>3. ASSUME NEW d \in TodoEvent, replays' <= 1 PROVE LettersFor(d)'
    <3>0. replays' # 0
      BY <1>3
    <3>1. CASE d = e
      <4>1. \A c \in Mailer : DeadAt(c, e) => Letters(queue, e) >= 2
        BY <1>6, <1>8, <2>3 DEF LettersFor
      <4> QED BY <1>4, <1>5, <1>8, <2>1, <3>0, <3>1, <4>1 DEF LettersFor
    <3>2. CASE d # e
      <4>1. LettersFor(d) /\ ~Replaying(d)' /\ delivery'[d] = delivery[d]
        BY <1>6, <2>1, <2>2, <2>3, <3>2
      <4> QED BY <1>5, <1>8, <3>0, <4>1 DEF LettersFor
    <3> QED BY <3>1, <3>2
  <2> QED BY <1>1, <1>3, <1>8, <2>2, <2>3 DEF LettersInv, Letter
<1> QED BY <1>2, <1>7, <1>8 DEF ReplayReset

LEMMA LettersStep ==
  ASSUME TypeInv, LettersInv, [DeliveryNext]_vars
  PROVE  LettersInv'
<1>0. MailTypes /\ Fits(queue) /\ replays \in Nat
  BY NotificationParts, NotificationAssumption
     DEF TypeInv, DeliveryTypeOK, OtherMailTypes
<1>1. CASE MailNext
  <2>1. ASSUME NEW c \in Mailer, MailerStep(c) PROVE LettersInv'
    BY <1>0, <2>1, LettersByConsumer, LettersBury, LettersMarked, LettersDeliver
       DEF MailerStep
  <2>2. ASSUME NEW c \in Mailer, SendFails(c) \/ SendTimesOut(c) \/ MailerStops(c)
        PROVE  LettersInv'
    BY <1>0, <2>2, LettersByConsumer
  <2>3. CASE ReplayStep
    BY <1>0, <2>3, LettersAround, LettersReplayed, LettersReset DEF ReplayStep
  <2> QED BY <1>0, <1>1, <2>1, <2>2, <2>3, LettersAround DEF MailNext
<1>2. CASE ~MailNext
  <2>1. /\ queue'["mailDead"] = queue["mailDead"]
        /\ UNCHANGED <<delivery, mailer, replay>>
        /\ replays' = replays \/ replays' = replays + 1
    BY <1>2, OtherSteps DEF Spares
  <2>2. \A e \in TodoEvent : StatusEases(e)
    BY <2>1 DEF StatusEases
  <2>3. \A e \in TodoEvent : \A d \in Mailer : OwesNoMore(d, e)
    BY <2>1 DEF OwesNoMore, DeadAt, BuryingAt, EventOf
  <2> QED BY <1>0, <2>1, <2>2, <2>3, LettersKept
<1> QED BY <1>1, <1>2

\* Together they say what MailDriven does.
LEMMA DrivenIsDriven ==
  ASSUME TypeInv, DrivenInv, SentInv, LettersInv
  PROVE  MailDriven
<1>0. Fits(queue)
  BY DEF TypeInv
<1>1. \A p \in MailWaits : HeldBy(p) = Holds(queue, p)
  BY DEF HeldBy, Holds
<1>2. ASSUME NEW e \in TodoEvent, NEW n, NEW places \in {TakenOn, GivingUp, Handling},
             Carried(e, n, places)
      PROVE  Driven(e, n)
  <2>1. CASE InQueue(queue, e, n)
    BY <1>1, <2>1 DEF InQueue, Driven, MailWaits
  <2>2. ASSUME NEW c \in Mailer, mailer[c].at \in places, mailer[c].msg = Message(e, n)
        PROVE  Driven(e, n)
    BY <2>2, PlacesOfConsumers DEF Driven, At, TakenOn
  <2> QED BY <1>2, <2>1, <2>2 DEF Carried
<1>3. \A e, n : InQueue(queue, e, n) => Driven(e, n)
  BY <1>1 DEF InQueue, Driven, MailWaits
<1>4. ASSUME NEW e \in TodoEvent, replays <= 1,
             delivery[e].status \in {"dead_letter", "replay_publishing"}
      PROVE  Waits(e, {"mailDead"})
  <2>1. Letter(e) \in Holds(queue, "mailDead")
    BY <1>0, <1>4, LettersCount DEF LettersInv, LettersFor
  <2>2. Letter(e).event = e
    BY DEF Letter, Message
  <2> QED BY <2>1, <2>2 DEF Waits, Holds, HeldBy
<1>5. ASSUME NEW e \in TodoEvent
      PROVE  /\ delivery[e].status \in {"processing", "dead_letter_pending"} =>
                  Driven(e, delivery[e].attempts)
             /\ delivery[e].status = "retry_pending" =>
                  Driven(e, delivery[e].attempts) \/ Driven(e, delivery[e].attempts + 1)
             /\ delivery[e].status = "replay_queued" => Driven(e, 1)
  BY <1>2, <1>3 DEF DrivenInv, DrivenFor
<1>6. \A e \in TodoEvent : delivery[e].status = "sent" => mails[e] > 0 \/ account = "deleting"
  BY DEF SentInv, Sent
<1> QED BY <1>4, <1>5, <1>6 DEF MailDriven

\* A delivery that has not come to its end has a message in a queue or with a
\* consumer; with one replay, one that was given up has its dead letter; and
\* none counts as sent that never was, but for the deletion of the account
\* (claim, markFailed, scheduleRetry, finishDeadLetter and operateDlq).
THEOREM MailIsDriven == DeliverySpec => []MailDriven
<1>1. DeliveryInit => DrivenInv /\ SentInv /\ LettersInv
  <2>1. ASSUME DeliveryInit
        PROVE  /\ \A e \in TodoEvent : delivery[e].status = "none"
               /\ \A c \in Mailer : mailer[c].at = "idle"
               /\ replay.at = "idle" /\ Holds(queue, "mailDead") = {}
    BY <2>1 DEF DeliveryInit, NotificationInit, BrokerInit, Free, Holds, BagToSet, EmptyBag,
       SetToBag, Place
  <2> QED BY <2>1 DEF DrivenInv, DrivenFor, SentInv, LettersInv, LettersFor, DeadAt,
          BuryingAt, Replaying
<1>2. TypeInv /\ DrivenInv /\ [DeliveryNext]_vars => DrivenInv'
  BY DrivenStep
<1>3. TypeInv /\ SentInv /\ [DeliveryNext]_vars => SentInv'
  BY SentStep
<1>4. TypeInv /\ LettersInv /\ [DeliveryNext]_vars => LettersInv'
  BY LettersStep
<1>5. TypeInv /\ DrivenInv /\ SentInv /\ LettersInv => MailDriven
  BY DrivenIsDriven
<1> QED BY <1>1, <1>2, <1>3, <1>4, <1>5, TypeInvariant, PTL DEF DeliverySpec

(***************************************************************************)
(* Retries.  A row that waits to be published, and a batch that still has    *)
(* the event, may each bring one message; every other message is paid for   *)
(* by a fault or a replay.                                                   *)
(***************************************************************************)
Counted == {"history", "historySent", "historyRetry", "historyRetrySent",
            "historyDead", "owner", "ownerRetry", "ownerDead"}
Within(q) == \A p \in Counted : \A m \in Holds(q, p) : m.n <= MaxRetries

\* The worker that has locked the row will publish it, or has done so.
InHand(row, publisher, workers, e) ==
  /\ row[e].fresh
  /\ \E p \in workers :
       /\ row[e].holder = p
       /\ \/ e \in publisher[p].batch
          \/ publisher[p].at = "mark" /\ publisher[p].event = e
Waiting(row, publisher, workers, e) ==
  \/ row[e].state = "none"
  \/ row[e].state = "pending" /\ ~InHand(row, publisher, workers, e)
Batches(publisher, workers, e) == {p \in workers : e \in publisher[p].batch}

\* How many messages the outbox may still publish without another fault.
Owed(batches, waiting) == Cardinality(batches) + IF waiting THEN 1 ELSE 0
Due(row, publisher, workers, e) ==
  Owed(Batches(publisher, workers, e), Waiting(row, publisher, workers, e))
DueOf(e) == IF e \in TodoEvent THEN Due(todoRow, todoPublisher, TodoPublisher, e)
            ELSE Due(accountRow, accountPublisher, AccountPublisher, e)

FewBatches ==
  /\ \A e \in TodoEvent : IsFiniteSet(Batches(todoPublisher, TodoPublisher, e))
  /\ \A e \in AccountEvent : IsFiniteSet(Batches(accountPublisher, AccountPublisher, e))
Paid(e) == Copies(queue, e) <= (1 + faults + replays - DueOf(e)) * Allowance(e)

\* A worker has no batch when it rests, and the event it has in hand is no
\* longer in the batch.
Tidy(publisher, workers) ==
  \A p \in workers :
    /\ publisher[p].at = "idle" => publisher[p].batch = {}
    /\ publisher[p].at \in {"mark", "fail"} => publisher[p].event \notin publisher[p].batch

RetryInv ==
  /\ Within(queue) /\ FewBatches /\ \A e \in Event : Paid(e)
  /\ Tidy(todoPublisher, TodoPublisher) /\ Tidy(accountPublisher, AccountPublisher)

(***************************************************************************)
(* What messages become.                                                    *)
(***************************************************************************)
LEMMA LeastOf ==
  ASSUME NEW T \in SUBSET Nat, T # {}
  PROVE  \E k \in T : \A j \in T : k <= j
<1>1. PICK k \in T : \A j \in T : ~(<<j, k>> \in OpToRel(<, Nat))
  BY WFMin, NatLessThanWellFounded
<1>2. \A j \in T : ~(j < k)
  BY <1>1 DEF OpToRel
<1> QED BY <1>2

Grown(f, g, c, k) ==
  \A n \in 0..k : f[n] = c[n] + IF n = 0 THEN 0 ELSE g * f[n - 1]

LEMMA GrownExists ==
  ASSUME NEW g \in {1, 2}, NEW c \in [0..MaxRetries -> Nat]
  PROVE  \E f \in [0..MaxRetries -> Nat] : Grown(f, g, c, MaxRetries)
<1> DEFINE Has(k) == \E f \in [0..MaxRetries -> Nat] : Grown(f, g, c, k)
           T == {k \in 0..MaxRetries : ~Has(k)}
<1>1. MaxRetries \in Nat
  BY HistoryAssumption
<1>2. Has(0)
  <2>1. Grown(c, g, c, 0)
    BY <1>1 DEF Grown
  <2> QED BY <2>1
<1>3. ASSUME NEW k \in 0..MaxRetries, k > 0, Has(k - 1)
      PROVE  Has(k)
  <2>1. PICK f \in [0..MaxRetries -> Nat] : Grown(f, g, c, k - 1)
    BY <1>3
  <2> DEFINE h == [f EXCEPT ![k] = c[k] + g * f[k - 1]]
  <2>2. f[k - 1] \in Nat /\ c[k] \in Nat
    BY <1>1, <1>3
  <2>3. g * f[k - 1] \in Nat
    BY <2>2
  <2>4. h \in [0..MaxRetries -> Nat]
    BY <2>2, <2>3
  <2>5. h[k] = c[k] + g * h[k - 1]
    BY <1>1, <1>3
  <2>6. \A n \in 0..(k - 1) : h[n] = f[n]
    BY <1>1, <1>3
  <2>7. \A n \in 0..(k - 1) : h[n] = c[n] + IF n = 0 THEN 0 ELSE g * h[n - 1]
    BY <1>1, <1>3, <2>1, <2>6 DEF Grown
  <2> HIDE DEF h
  <2>8. Grown(h, g, c, k)
    BY <1>1, <1>3, <2>5, <2>7 DEF Grown
  <2> QED BY <2>4, <2>8
<1>4. T = {}
  <2>1. SUFFICES ASSUME T # {} PROVE FALSE
    OBVIOUS
  <2>2. PICK k \in T : \A j \in T : k <= j
    <3>1. T \subseteq Nat
      OBVIOUS
    <3> HIDE DEF T
    <3> QED BY <2>1, <3>1, LeastOf
  <2> HIDE DEF Has
  <2>3. k \in Nat /\ k <= MaxRetries /\ ~Has(k)
    BY <1>1, <2>2
  <2>4. k > 0
    BY <1>2, <2>3
  <2>5. k - 1 \in 0..MaxRetries /\ k - 1 \notin T
    BY <1>1, <2>2, <2>3, <2>4
  <2>6. Has(k - 1)
    BY <2>5
  <2> QED BY <1>3, <2>2, <2>3, <2>4, <2>6
<1>5. MaxRetries \in 0..MaxRetries
  BY <1>1
<1> QED BY <1>4, <1>5

\* Becoming is the last of the numbers it is computed from.
LEMMA BecomingGrown ==
  ASSUME NEW g \in {1, 2}, NEW c \in [0..MaxRetries -> Nat]
  PROVE  \E f \in [0..MaxRetries -> Nat] :
           Grown(f, g, c, MaxRetries) /\ Becoming(g, c) = f[MaxRetries]
<1> DEFINE Rec(f) == f = [n \in 0..MaxRetries |-> c[n] + IF n = 0 THEN 0 ELSE g * f[n - 1]]
           after == CHOOSE f : Rec(f)
<1>1. MaxRetries \in Nat
  BY HistoryAssumption
<1>2. PICK f \in [0..MaxRetries -> Nat] : Grown(f, g, c, MaxRetries)
  BY GrownExists
<1>3. Rec(f)
  BY <1>2 DEF Grown
<1>4. Rec(after)
  BY <1>3
<1>5. Becoming(g, c) = after[MaxRetries]
  BY DEF Becoming
<1> HIDE DEF after
<1>6. \A n \in 0..MaxRetries : after[n] = c[n] + IF n = 0 THEN 0 ELSE g * after[n - 1]
  BY <1>4
<1>7. Grown(after, g, c, MaxRetries)
  BY <1>6 DEF Grown
<1>8. after = [n \in 0..MaxRetries |-> after[n]]
  BY <1>4
<1> DEFINE T == {k \in 0..MaxRetries : after[k] \notin Nat}
<1>9. T = {}
  <2>1. SUFFICES ASSUME T # {} PROVE FALSE
    OBVIOUS
  <2>2. PICK k \in T : \A j \in T : k <= j
    <3>1. T \subseteq Nat
      OBVIOUS
    <3> HIDE DEF T
    <3> QED BY <2>1, <3>1, LeastOf
  <2>3. k \in 0..MaxRetries /\ after[k] \notin Nat /\ c[k] \in Nat
    BY <2>2
  <2>4. after[k] = c[k] + IF k = 0 THEN 0 ELSE g * after[k - 1]
    BY <1>6, <2>3
  <2>5. k # 0 => k - 1 \in 0..MaxRetries /\ k - 1 \notin T
    BY <1>1, <2>2, <2>3
  <2>6. k # 0 => after[k - 1] \in Nat
    BY <2>5
  <2> QED BY <2>3, <2>4, <2>6
<1>10. after \in [0..MaxRetries -> Nat]
  BY <1>8, <1>9
<1> QED BY <1>5, <1>7, <1>10

LEMMA DoubledAhead ==
  ASSUME NEW c \in Nat, NEW d \in Nat, NEW s \in Int, NEW f \in Nat, NEW h \in Nat,
         NEW x \in Int, h <= f + x, d + 2 * x <= c + s
  PROVE  d + 2 * h <= c + 2 * f + s
  OBVIOUS

LEMMA SingleAhead ==
  ASSUME NEW c \in Nat, NEW d \in Nat, NEW s \in Int, NEW f \in Nat, NEW h \in Nat,
         NEW x \in Int, h <= f + x, d + x <= c + s
  PROVE  d + h <= c + f + s
  OBVIOUS

\* s bounds how far the second is ahead of the first.
LEMMA BecomingAhead ==
  ASSUME NEW g \in {1, 2}, NEW c \in [0..MaxRetries -> Nat], NEW d \in [0..MaxRetries -> Nat],
         NEW s \in [0..MaxRetries -> Int],
         \A n \in 0..MaxRetries :
           d[n] + (IF n = 0 THEN 0 ELSE g * s[n - 1]) <= c[n] + s[n]
  PROVE  Becoming(g, d) <= Becoming(g, c) + s[MaxRetries]
<1>1. MaxRetries \in Nat
  BY HistoryAssumption
<1>2. PICK f \in [0..MaxRetries -> Nat] :
        Grown(f, g, c, MaxRetries) /\ Becoming(g, c) = f[MaxRetries]
  BY BecomingGrown
<1>3. PICK h \in [0..MaxRetries -> Nat] :
        Grown(h, g, d, MaxRetries) /\ Becoming(g, d) = h[MaxRetries]
  BY BecomingGrown
<1> DEFINE T == {k \in 0..MaxRetries : ~(h[k] <= f[k] + s[k])}
<1>4. T = {}
  <2>1. SUFFICES ASSUME T # {} PROVE FALSE
    OBVIOUS
  <2>2. PICK k \in T : \A j \in T : k <= j
    <3>1. T \subseteq Nat
      OBVIOUS
    <3> HIDE DEF T
    <3> QED BY <2>1, <3>1, LeastOf
  <2>3. k \in 0..MaxRetries /\ ~(h[k] <= f[k] + s[k])
    BY <2>2
  <2>4. /\ f[k] = c[k] + IF k = 0 THEN 0 ELSE g * f[k - 1]
        /\ h[k] = d[k] + IF k = 0 THEN 0 ELSE g * h[k - 1]
    BY <1>2, <1>3, <2>3 DEF Grown
  <2>5. c[k] \in Nat /\ d[k] \in Nat /\ s[k] \in Int
    BY <2>3
  <2>6. CASE k = 0
    <3>1. d[k] <= c[k] + s[k]
      BY <2>3, <2>5, <2>6
    <3> QED BY <2>3, <2>4, <2>5, <2>6, <3>1
  <2>7. CASE k # 0
    <3>1. k - 1 \in 0..MaxRetries /\ k - 1 \notin T
      BY <1>1, <2>2, <2>3, <2>7
    <3>2. h[k - 1] <= f[k - 1] + s[k - 1]
      BY <3>1
    <3>3. h[k - 1] \in Nat /\ f[k - 1] \in Nat /\ s[k - 1] \in Int
      BY <3>1
    <3>4. d[k] + g * s[k - 1] <= c[k] + s[k]
      BY <2>3, <2>7
    <3>5. f[k] = c[k] + g * f[k - 1] /\ h[k] = d[k] + g * h[k - 1]
      BY <2>4, <2>7
    <3>6. CASE g = 1
      <4>1. /\ f[k] = c[k] + f[k - 1] /\ h[k] = d[k] + h[k - 1]
            /\ d[k] + s[k - 1] <= c[k] + s[k]
        BY <2>5, <3>3, <3>4, <3>5, <3>6
      <4>2. h[k] <= f[k] + s[k]
        BY <2>5, <3>2, <3>3, <4>1, SingleAhead
      <4> QED BY <2>3, <4>2
    <3>7. CASE g = 2
      <4>1. /\ f[k] = c[k] + 2 * f[k - 1] /\ h[k] = d[k] + 2 * h[k - 1]
            /\ d[k] + 2 * s[k - 1] <= c[k] + s[k]
        BY <3>4, <3>5, <3>7
      <4>2. h[k] <= f[k] + s[k]
        BY <2>5, <3>2, <3>3, <4>1, DoubledAhead
      <4> QED BY <2>3, <4>2
    <3> QED BY <3>6, <3>7
  <2> QED BY <2>6, <2>7
<1>5. MaxRetries \in 0..MaxRetries
  BY <1>1
<1> QED BY <1>2, <1>3, <1>4, <1>5

LEMMA BecomingType ==
  ASSUME NEW g \in {1, 2}, NEW c \in [0..MaxRetries -> Nat]
  PROVE  Becoming(g, c) \in Nat
<1>1. MaxRetries \in 0..MaxRetries
  BY HistoryAssumption
<1> QED BY <1>1, BecomingGrown

LEMMA BecomingFewer ==
  ASSUME NEW g \in {1, 2}, NEW c \in [0..MaxRetries -> Nat], NEW d \in [0..MaxRetries -> Nat],
         \A n \in 0..MaxRetries : d[n] <= c[n]
  PROVE  Becoming(g, d) <= Becoming(g, c)
<1> DEFINE s == [n \in 0..MaxRetries |-> 0]
<1>1. /\ s \in [0..MaxRetries -> Int] /\ s[MaxRetries] = 0
      /\ \A n \in 0..MaxRetries :
           d[n] + (IF n = 0 THEN 0 ELSE g * s[n - 1]) <= c[n] + s[n]
  <2>1. \A n \in 0..MaxRetries : n # 0 => n - 1 \in 0..MaxRetries
    BY HistoryAssumption
  <2>2. \A n \in 0..MaxRetries : (IF n = 0 THEN 0 ELSE g * s[n - 1]) = 0
    BY <2>1
  <2> QED BY <2>2, HistoryAssumption
<1> HIDE DEF s
<1>2. Becoming(g, d) <= Becoming(g, c) + 0
  BY <1>1, BecomingAhead
<1>3. Becoming(g, c) \in Nat /\ Becoming(g, d) \in Nat
  BY BecomingType
<1> QED BY <1>2, <1>3

One == [n \in 0..MaxRetries |-> IF n = 0 THEN 1 ELSE 0]

\* A message more, wherever its retries stand, is worth no more than a new one.
LEMMA BecomingOneMore ==
  ASSUME NEW g \in {1, 2}, NEW c \in [0..MaxRetries -> Nat], NEW d \in [0..MaxRetries -> Nat],
         NEW j \in 0..MaxRetries,
         \A n \in 0..MaxRetries : d[n] <= c[n] + IF n = j THEN 1 ELSE 0
  PROVE  Becoming(g, d) <= Becoming(g, c) + Becoming(g, One)
<1>1. MaxRetries \in Nat
  BY HistoryAssumption
<1>2. One \in [0..MaxRetries -> Nat]
  BY DEF One
<1>3. PICK u \in [0..MaxRetries -> Nat] :
        Grown(u, g, One, MaxRetries) /\ Becoming(g, One) = u[MaxRetries]
  BY <1>2, BecomingGrown
<1>4. /\ u[0] = 1
      /\ \A n \in 0..MaxRetries : n # 0 => u[n] = g * u[n - 1]
  <2>1. \A n \in 0..MaxRetries : u[n] = One[n] + IF n = 0 THEN 0 ELSE g * u[n - 1]
    BY <1>3 DEF Grown
  <2>2. 0 \in 0..MaxRetries /\ One[0] = 1 /\ \A n \in 0..MaxRetries : n # 0 => One[n] = 0
    BY <1>1 DEF One
  <2>3. \A n \in 0..MaxRetries : n # 0 => g * u[n - 1] \in Nat
    <3> TAKE n \in 0..MaxRetries
    <3> HAVE n # 0
    <3>1. u[n - 1] \in Nat
      BY <1>1
    <3> QED BY <3>1
  <2> QED BY <2>1, <2>2, <2>3
<1> DEFINE T == {k \in 0..MaxRetries : ~(u[k] >= 1)}
<1>5. T = {}
  <2>1. SUFFICES ASSUME T # {} PROVE FALSE
    OBVIOUS
  <2>2. PICK k \in T : \A i \in T : k <= i
    <3>1. T \subseteq Nat
      OBVIOUS
    <3> HIDE DEF T
    <3> QED BY <2>1, <3>1, LeastOf
  <2>3. k \in 0..MaxRetries /\ ~(u[k] >= 1) /\ k # 0
    BY <1>4, <2>2
  <2>4. k - 1 \in 0..MaxRetries /\ k - 1 \notin T
    BY <1>1, <2>2, <2>3
  <2>5. u[k - 1] >= 1 /\ u[k - 1] \in Nat /\ u[k] = g * u[k - 1]
    BY <1>4, <2>3, <2>4
  <2> QED BY <2>3, <2>5
<1> DEFINE s == [n \in 0..MaxRetries |-> IF n < j THEN 0 ELSE u[n]]
<1>6. s \in [0..MaxRetries -> Int] /\ s[MaxRetries] = u[MaxRetries]
  BY <1>1
<1>7. ASSUME NEW n \in 0..MaxRetries
      PROVE  d[n] + (IF n = 0 THEN 0 ELSE g * s[n - 1]) <= c[n] + s[n]
  <2>0. d[n] \in Nat /\ c[n] \in Nat /\ n \in Nat /\ j \in Nat
    BY <1>1
  <2>1. d[n] <= c[n] + IF n = j THEN 1 ELSE 0
    OBVIOUS
  <2>2. s[n] = IF n < j THEN 0 ELSE u[n]
    OBVIOUS
  <2>3. u[n] \in Nat /\ u[n] >= 1
    BY <1>5
  <2>4. n # 0 => s[n - 1] = IF n - 1 < j THEN 0 ELSE u[n - 1]
    BY <1>1
  <2>5. n # 0 => u[n] = g * u[n - 1]
    BY <1>4
  <2> HIDE DEF s
  <2>6. CASE n < j
    BY <2>0, <2>1, <2>2, <2>4, <2>6
  <2>7. CASE n = j
    BY <2>0, <2>1, <2>2, <2>3, <2>4, <2>7
  <2>8. CASE n > j
    <3>1. d[n] <= c[n] /\ s[n] = u[n]
      BY <2>0, <2>1, <2>2, <2>8
    <3>2. n # 0 /\ s[n - 1] = u[n - 1]
      BY <2>0, <2>4, <2>8
    <3>3. g * s[n - 1] = s[n]
      BY <2>5, <3>1, <3>2
    <3> QED BY <2>0, <2>3, <3>1, <3>2, <3>3
  <2> QED BY <2>0, <2>6, <2>7, <2>8
<1> HIDE DEF s
<1> QED BY <1>3, <1>6, <1>7, BecomingAhead

\* A retry takes a message one step on, in as many copies as the growth says.
LEMMA BecomingRetried ==
  ASSUME NEW g \in {1, 2}, NEW c \in [0..MaxRetries -> Nat], NEW d \in [0..MaxRetries -> Nat],
         NEW j \in 0..MaxRetries, j < MaxRetries,
         \A n \in 0..MaxRetries :
           d[n] <= (c[n] - IF n = j THEN 1 ELSE 0) + IF n = j + 1 THEN g ELSE 0
  PROVE  Becoming(g, d) <= Becoming(g, c)
<1> DEFINE s == [n \in 0..MaxRetries |-> IF n = j THEN 0 - 1 ELSE 0]
<1>1. MaxRetries \in Nat
  BY HistoryAssumption
<1>2. s \in [0..MaxRetries -> Int] /\ s[MaxRetries] = 0
  BY <1>1
<1>3. ASSUME NEW n \in 0..MaxRetries
      PROVE  d[n] + (IF n = 0 THEN 0 ELSE g * s[n - 1]) <= c[n] + s[n]
  <2>1. d[n] \in Nat /\ c[n] \in Nat /\ n \in Nat /\ j \in Nat
    BY <1>1
  <2>2. /\ s[n] = IF n = j THEN 0 - 1 ELSE 0
        /\ n # 0 => s[n - 1] = IF n = j + 1 THEN 0 - 1 ELSE 0
    BY <1>1, <2>1
  <2>3. d[n] <= (c[n] - IF n = j THEN 1 ELSE 0) + IF n = j + 1 THEN g ELSE 0
    OBVIOUS
  <2> HIDE DEF s
  <2>4. CASE n = j + 1
    <3>1. s[n - 1] = 0 - 1 /\ s[n] = 0 /\ n # 0 /\ d[n] <= c[n] + g
      BY <2>1, <2>2, <2>3, <2>4
    <3>2. g * s[n - 1] = 0 - g
      BY <3>1
    <3> QED BY <2>1, <3>1, <3>2
  <2>5. CASE n # j + 1
    <3>1. (IF n = 0 THEN 0 ELSE g * s[n - 1]) = 0
      BY <2>2, <2>5
    <3> QED BY <2>1, <2>2, <2>3, <2>5, <3>1
  <2> QED BY <2>4, <2>5
<1> HIDE DEF s
<1>4. Becoming(g, d) <= Becoming(g, c) + 0
  BY <1>2, <1>3, BecomingAhead
<1>5. Becoming(g, c) \in Nat /\ Becoming(g, d) \in Nat
  BY BecomingType
<1> QED BY <1>4, <1>5

\* After the last retry it is gone.
LEMMA BecomingGivenUp ==
  ASSUME NEW g \in {1, 2}, NEW c \in [0..MaxRetries -> Nat], NEW d \in [0..MaxRetries -> Nat],
         \A n \in 0..MaxRetries : d[n] <= c[n] - IF n = MaxRetries THEN 1 ELSE 0
  PROVE  Becoming(g, d) + 1 <= Becoming(g, c)
<1> DEFINE s == [n \in 0..MaxRetries |-> IF n = MaxRetries THEN 0 - 1 ELSE 0]
<1>1. MaxRetries \in Nat
  BY HistoryAssumption
<1>2. s \in [0..MaxRetries -> Int] /\ s[MaxRetries] = 0 - 1
  BY <1>1
<1>3. ASSUME NEW n \in 0..MaxRetries
      PROVE  d[n] + (IF n = 0 THEN 0 ELSE g * s[n - 1]) <= c[n] + s[n]
  <2>1. d[n] \in Nat /\ c[n] \in Nat /\ n \in Nat
    BY <1>1
  <2>2. /\ s[n] = IF n = MaxRetries THEN 0 - 1 ELSE 0
        /\ n # 0 => s[n - 1] = 0
    BY <1>1, <2>1
  <2>3. d[n] <= c[n] - IF n = MaxRetries THEN 1 ELSE 0
    OBVIOUS
  <2> HIDE DEF s
  <2>4. (IF n = 0 THEN 0 ELSE g * s[n - 1]) = 0
    BY <2>2
  <2> QED BY <2>1, <2>2, <2>3, <2>4
<1> HIDE DEF s
<1>4. Becoming(g, d) <= Becoming(g, c) + (0 - 1)
  BY <1>2, <1>3, BecomingAhead
<1>5. Becoming(g, c) \in Nat /\ Becoming(g, d) \in Nat
  BY BecomingType
<1> QED BY <1>4, <1>5

\* Without growth one message is one message.
LEMMA BecomingSingle ==
  /\ Becoming(1, One) = 1
  /\ \A g \in {1, 2} : Becoming(g, One) \in Nat /\ Becoming(g, One) >= 1
<1> DEFINE Zero == [n \in 0..MaxRetries |-> 0]
           last == [n \in 0..MaxRetries |-> IF n = MaxRetries THEN 1 ELSE 0]
<1>1. MaxRetries \in Nat
  BY HistoryAssumption
<1>2. One \in [0..MaxRetries -> Nat]
  BY DEF One
<1>3. PICK u \in [0..MaxRetries -> Nat] :
        Grown(u, 1, One, MaxRetries) /\ Becoming(1, One) = u[MaxRetries]
  BY <1>2, BecomingGrown
<1> DEFINE T == {k \in 0..MaxRetries : u[k] # 1}
<1>4. T = {}
  <2>1. SUFFICES ASSUME T # {} PROVE FALSE
    OBVIOUS
  <2>2. PICK k \in T : \A i \in T : k <= i
    <3>1. T \subseteq Nat
      OBVIOUS
    <3> HIDE DEF T
    <3> QED BY <2>1, <3>1, LeastOf
  <2>3. k \in 0..MaxRetries /\ u[k] # 1
    BY <2>2
  <2>4. u[k] = One[k] + IF k = 0 THEN 0 ELSE 1 * u[k - 1]
    BY <1>3, <2>3 DEF Grown
  <2>5. k # 0 => k - 1 \in 0..MaxRetries /\ k - 1 \notin T
    BY <1>1, <2>2, <2>3
  <2>6. k # 0 => u[k - 1] = 1
    BY <2>5
  <2>7. One[k] = IF k = 0 THEN 1 ELSE 0
    BY <2>3 DEF One
  <2> QED BY <2>3, <2>4, <2>6, <2>7
<1>5. Becoming(1, One) = 1
  BY <1>1, <1>3, <1>4
<1>6. ASSUME NEW g \in {1, 2} PROVE Becoming(g, One) \in Nat /\ Becoming(g, One) >= 1
  <2>1. Zero \in [0..MaxRetries -> Nat] /\ last \in [0..MaxRetries -> Nat]
    OBVIOUS
  <2>2. /\ \A n \in 0..MaxRetries : Zero[n] <= last[n] - IF n = MaxRetries THEN 1 ELSE 0
        /\ \A n \in 0..MaxRetries : last[n] <= Zero[n] + IF n = MaxRetries THEN 1 ELSE 0
    BY <1>1
  <2>3. MaxRetries \in 0..MaxRetries
    BY <1>1
  <2> HIDE DEF Zero, last
  <2>4. Becoming(g, Zero) + 1 <= Becoming(g, last)
    BY <2>1, <2>2, BecomingGivenUp
  <2>5. Becoming(g, last) <= Becoming(g, Zero) + Becoming(g, One)
    BY <2>1, <2>2, <2>3, BecomingOneMore
  <2>6. Becoming(g, Zero) \in Nat /\ Becoming(g, last) \in Nat /\ Becoming(g, One) \in Nat
    BY <1>2, <2>1, BecomingType
  <2> QED BY <2>4, <2>5, <2>6
<1> QED BY <1>5, <1>6

(***************************************************************************)
(* The copies in the queues.                                                *)
(***************************************************************************)
LEMMA CountedPlaces == Counted \subseteq Place /\ Counted \cap MailPlace = {}
  BY DEF Counted, Place, RetryPlace, MailPlace

LEMMA CountType ==
  ASSUME NEW q, Fits(q), NEW p \in Place, NEW x
  PROVE  Count(q, p, x) \in Nat /\ (x \in Holds(q, p) => Count(q, p, x) >= 1)
<1>1. IsABag(q[p])
  BY DEF Fits
<1>2. \A m \in DOMAIN q[p] : q[p][m] \in {n \in Nat : n > 0}
  BY <1>1 DEF IsABag
<1> QED BY <1>2 DEF Count, Holds, BagToSet

LEMMA CountWith ==
  ASSUME NEW q, Fits(q), NEW P, NEW m, NEW p \in Place, NEW x
  PROVE  Count(With(q, P, m), p, x) = Count(q, p, x) + IF p \in P /\ x = m THEN 1 ELSE 0
<1> DEFINE B == q[p]
<1>1. With(q, P, m)[p] = IF p \in P THEN B (+) SetToBag({m}) ELSE B
  BY DEF With
<1>2. \A y \in DOMAIN B : B[y] \in Nat
  <2>1. IsABag(B)
    BY DEF Fits
  <2> QED BY <2>1 DEF IsABag
<1> HIDE DEF B
<1>3. /\ DOMAIN (B (+) SetToBag({m})) = DOMAIN B \cup {m}
      /\ (B (+) SetToBag({m}))[m] = IF m \in DOMAIN B THEN B[m] + 1 ELSE 1
      /\ \A y \in DOMAIN B : y # m => (B (+) SetToBag({m}))[y] = B[y]
  BY <1>2 DEF SetToBag, (+)
<1>4. Count(q, p, x) = IF x \in DOMAIN B THEN B[x] ELSE 0
  BY DEF Count, B
<1>5. Count(With(q, P, m), p, x)
        = IF p \in P THEN IF x \in DOMAIN (B (+) SetToBag({m}))
                          THEN (B (+) SetToBag({m}))[x] ELSE 0
          ELSE Count(q, p, x)
  BY <1>1, <1>4 DEF Count
<1>6. Count(q, p, x) \in Nat
  BY CountType
<1> QED BY <1>3, <1>4, <1>5, <1>6

LEMMA CountWithout ==
  ASSUME NEW q, Fits(q), NEW r \in Place, NEW m \in Holds(q, r), NEW p \in Place, NEW x
  PROVE  Count(Without(q, r, m), p, x) = Count(q, p, x) - IF p = r /\ x = m THEN 1 ELSE 0
<1> DEFINE B == q[p]
           R == B (-) SetToBag({m})
<1>1. Without(q, r, m)[p] = IF p = r THEN R ELSE B
  BY DEF Without, Fits
<1>2. \A y \in DOMAIN B : B[y] \in {n \in Nat : n > 0}
  <2>1. IsABag(B)
    BY DEF Fits
  <2> QED BY <2>1 DEF IsABag
<1>3. p = r => m \in DOMAIN B
  BY DEF Holds, BagToSet
<1>4. Count(q, p, x) = IF x \in DOMAIN B THEN B[x] ELSE 0
  BY DEF Count
<1>5. Count(Without(q, r, m), p, x)
        = IF p = r THEN IF x \in DOMAIN R THEN R[x] ELSE 0 ELSE Count(q, p, x)
  <2> HIDE DEF R
  <2> QED BY <1>1, <1>4 DEF Count
<1>6. /\ DOMAIN R = {y \in DOMAIN B : IF y = m THEN B[y] - 1 > 0 ELSE B[y] > 0}
      /\ \A y \in DOMAIN R : R[y] = IF y = m THEN B[y] - 1 ELSE B[y]
  <2> HIDE DEF B
  <2> QED BY DEF SetToBag, (-)
<1>7. Count(q, p, x) \in Nat
  BY CountType
<1> HIDE DEF R, B
<1>8. CASE p = r /\ x = m
  BY <1>2, <1>3, <1>4, <1>5, <1>6, <1>8
<1>9. CASE p = r /\ x # m
  BY <1>2, <1>4, <1>5, <1>6, <1>9
<1>10. CASE p # r
  BY <1>5, <1>7, <1>10
<1> QED BY <1>8, <1>9, <1>10

\* To how many of the places that may be retried a message goes.
AliveIn(P) ==
  (IF "history" \in P THEN 1 ELSE 0) + (IF "historySent" \in P THEN 1 ELSE 0)
    + (IF "historyRetry" \in P THEN 1 ELSE 0) + (IF "historyRetrySent" \in P THEN 1 ELSE 0)
    + (IF "owner" \in P THEN 1 ELSE 0) + (IF "ownerRetry" \in P THEN 1 ELSE 0)
DeadIn(P) == (IF "historyDead" \in P THEN 1 ELSE 0) + (IF "ownerDead" \in P THEN 1 ELSE 0)

LEMMA CopiesType ==
  ASSUME NEW q, Fits(q), NEW e
  PROVE  /\ Alive(q, e) \in [0..MaxRetries -> Nat] /\ Dead(q, e) \in [0..MaxRetries -> Nat]
         /\ Growth(e) \in {1, 2}
         /\ Becoming(Growth(e), Alive(q, e)) \in Nat /\ Becoming(1, Dead(q, e)) \in Nat
         /\ Copies(q, e) \in Nat
<1>1. \A n : /\ Count(q, "history", Message(e, n)) \in Nat
             /\ Count(q, "historySent", Message(e, n)) \in Nat
             /\ Count(q, "historyRetry", Message(e, n)) \in Nat
             /\ Count(q, "historyRetrySent", Message(e, n)) \in Nat
             /\ Count(q, "owner", Message(e, n)) \in Nat
             /\ Count(q, "ownerRetry", Message(e, n)) \in Nat
             /\ Count(q, "historyDead", Message(e, n)) \in Nat
             /\ Count(q, "ownerDead", Message(e, n)) \in Nat
  BY CountType DEF Place, RetryPlace
<1>2. /\ Alive(q, e) \in [0..MaxRetries -> Nat] /\ Dead(q, e) \in [0..MaxRetries -> Nat]
      /\ Growth(e) \in {1, 2} /\ 1 \in {1, 2}
  BY <1>1 DEF Alive, Dead, Growth
<1>3. Becoming(Growth(e), Alive(q, e)) \in Nat /\ Becoming(1, Dead(q, e)) \in Nat
  BY <1>2, BecomingType
<1> QED BY <1>2, <1>3 DEF Copies

LEMMA AliveWith ==
  ASSUME NEW q, Fits(q), NEW P, NEW m, NEW e, NEW n \in 0..MaxRetries
  PROVE  /\ Alive(With(q, P, m), e)[n]
              = Alive(q, e)[n] + IF m = Message(e, n) THEN AliveIn(P) ELSE 0
         /\ Dead(With(q, P, m), e)[n]
              = Dead(q, e)[n] + IF m = Message(e, n) THEN DeadIn(P) ELSE 0
<1> DEFINE x == Message(e, n)
           in(p) == Count(q, p, x)
           out(p) == Count(With(q, P, m), p, x)
<1>1. \A p \in Counted : /\ out(p) = in(p) + IF p \in P /\ x = m THEN 1 ELSE 0
                         /\ in(p) \in Nat
  BY CountWith, CountType, CountedPlaces
<1>2. /\ Alive(q, e)[n] = in("history") + in("historySent") + in("historyRetry")
                          + in("historyRetrySent") + in("owner") + in("ownerRetry")
      /\ Dead(q, e)[n] = in("historyDead") + in("ownerDead")
      /\ Alive(With(q, P, m), e)[n]
           = out("history") + out("historySent") + out("historyRetry")
               + out("historyRetrySent") + out("owner") + out("ownerRetry")
      /\ Dead(With(q, P, m), e)[n] = out("historyDead") + out("ownerDead")
  BY DEF Alive, Dead
<1> HIDE DEF x, in, out
<1>3. CASE x = m
  BY <1>1, <1>2, <1>3 DEF x, AliveIn, DeadIn, Counted
<1>4. CASE x # m
  BY <1>1, <1>2, <1>4 DEF x, Counted
<1> QED BY <1>3, <1>4

LEMMA AliveWithout ==
  ASSUME NEW q, Fits(q), NEW r \in Place, NEW m \in Holds(q, r), NEW e,
         NEW n \in 0..MaxRetries
  PROVE  /\ Alive(Without(q, r, m), e)[n]
              = Alive(q, e)[n] - IF m = Message(e, n) THEN AliveIn({r}) ELSE 0
         /\ Dead(Without(q, r, m), e)[n]
              = Dead(q, e)[n] - IF m = Message(e, n) THEN DeadIn({r}) ELSE 0
<1> DEFINE x == Message(e, n)
           in(p) == Count(q, p, x)
           out(p) == Count(Without(q, r, m), p, x)
<1>1. \A p \in Counted : /\ out(p) = in(p) - IF p = r /\ x = m THEN 1 ELSE 0
                         /\ in(p) \in Nat
  BY CountWithout, CountType, CountedPlaces
<1>2. /\ Alive(q, e)[n] = in("history") + in("historySent") + in("historyRetry")
                          + in("historyRetrySent") + in("owner") + in("ownerRetry")
      /\ Dead(q, e)[n] = in("historyDead") + in("ownerDead")
      /\ Alive(Without(q, r, m), e)[n]
           = out("history") + out("historySent") + out("historyRetry")
               + out("historyRetrySent") + out("owner") + out("ownerRetry")
      /\ Dead(Without(q, r, m), e)[n] = out("historyDead") + out("ownerDead")
  BY DEF Alive, Dead
<1> HIDE DEF x, in, out
<1>3. CASE x = m
  <2> DEFINE less(p) == IF p = r THEN 1 ELSE 0
  <2>1. /\ AliveIn({r}) = less("history") + less("historySent") + less("historyRetry")
                             + less("historyRetrySent") + less("owner") + less("ownerRetry")
        /\ DeadIn({r}) = less("historyDead") + less("ownerDead")
    BY DEF AliveIn, DeadIn
  <2>2. \A p \in Counted : out(p) = in(p) - less(p) /\ in(p) \in Nat
    BY <1>1, <1>3
  <2>3. \A p : less(p) \in Nat
    OBVIOUS
  <2> HIDE DEF less
  <2>4. Alive(Without(q, r, m), e)[n] = Alive(q, e)[n] - AliveIn({r})
    BY <1>2, <2>1, <2>2, <2>3 DEF Counted
  <2>5. Dead(Without(q, r, m), e)[n] = Dead(q, e)[n] - DeadIn({r})
    BY <1>2, <2>1, <2>2, <2>3 DEF Counted
  <2> QED BY <1>3, <2>4, <2>5 DEF x
<1>4. CASE x # m
  BY <1>1, <1>2, <1>4 DEF x, Counted
<1> QED BY <1>3, <1>4

Cheaper(q, r, e) == Copies(r, e) <= Copies(q, e)
Dearer(q, r, e) == Copies(r, e) <= Copies(q, e) + Allowance(e)

LEMMA AllowanceType ==
  ASSUME NEW e
  PROVE  /\ Allowance(e) = Becoming(Growth(e), One)
         /\ Allowance(e) \in Nat /\ Allowance(e) >= 1
<1>1. Growth(e) \in {1, 2}
  BY DEF Growth
<1>2. Allowance(e) = Becoming(Growth(e), One)
  BY DEF Allowance, One
<1> QED BY <1>1, <1>2, BecomingSingle

LEMMA FewerCopies ==
  ASSUME NEW q, NEW r, Fits(q), Fits(r), NEW e,
         \A n \in 0..MaxRetries : /\ Alive(r, e)[n] <= Alive(q, e)[n]
                                  /\ Dead(r, e)[n] <= Dead(q, e)[n]
  PROVE  Cheaper(q, r, e) /\ Dearer(q, r, e)
<1> DEFINE g == Growth(e)
<1>1. /\ g \in {1, 2} /\ 1 \in {1, 2}
      /\ Alive(q, e) \in [0..MaxRetries -> Nat] /\ Alive(r, e) \in [0..MaxRetries -> Nat]
      /\ Dead(q, e) \in [0..MaxRetries -> Nat] /\ Dead(r, e) \in [0..MaxRetries -> Nat]
  BY CopiesType
<1> HIDE DEF g
<1>2. Becoming(g, Alive(r, e)) <= Becoming(g, Alive(q, e))
  BY <1>1, BecomingFewer
<1>3. Becoming(1, Dead(r, e)) <= Becoming(1, Dead(q, e))
  BY <1>1, BecomingFewer
<1>4. /\ Becoming(g, Alive(r, e)) \in Nat /\ Becoming(g, Alive(q, e)) \in Nat
      /\ Becoming(1, Dead(r, e)) \in Nat /\ Becoming(1, Dead(q, e)) \in Nat
  BY <1>1, BecomingType
<1>5. Copies(r, e) <= Copies(q, e) /\ Copies(r, e) \in Nat /\ Copies(q, e) \in Nat
  BY <1>2, <1>3, <1>4 DEF Copies, g
<1> QED BY <1>5, AllowanceType DEF Cheaper, Dearer

LEMMA AnotherCopy ==
  ASSUME NEW q, NEW r, Fits(q), Fits(r), NEW e, NEW j \in 0..MaxRetries,
         \A n \in 0..MaxRetries :
           /\ Alive(r, e)[n] <= Alive(q, e)[n] + IF n = j THEN 1 ELSE 0
           /\ Dead(r, e)[n] <= Dead(q, e)[n]
  PROVE  Dearer(q, r, e)
<1> DEFINE g == Growth(e)
<1>1. /\ g \in {1, 2} /\ 1 \in {1, 2}
      /\ Alive(q, e) \in [0..MaxRetries -> Nat] /\ Alive(r, e) \in [0..MaxRetries -> Nat]
      /\ Dead(q, e) \in [0..MaxRetries -> Nat] /\ Dead(r, e) \in [0..MaxRetries -> Nat]
  BY CopiesType
<1> HIDE DEF g
<1>2. Becoming(g, Alive(r, e)) <= Becoming(g, Alive(q, e)) + Becoming(g, One)
  BY <1>1, BecomingOneMore
<1>3. Becoming(1, Dead(r, e)) <= Becoming(1, Dead(q, e))
  BY <1>1, BecomingFewer
<1>4. /\ Becoming(g, Alive(r, e)) \in Nat /\ Becoming(g, Alive(q, e)) \in Nat
      /\ Becoming(1, Dead(r, e)) \in Nat /\ Becoming(1, Dead(q, e)) \in Nat
      /\ Allowance(e) \in Nat /\ Allowance(e) = Becoming(g, One)
  BY <1>1, BecomingType, AllowanceType DEF g
<1> QED BY <1>2, <1>3, <1>4 DEF Copies, g, Dearer

\* A message that has been taken from what is counted by c comes back as what
\* its retry makes of it.
LEMMA RetriedCopies ==
  ASSUME NEW q, Fits(q), NEW dead \in {"historyDead", "ownerDead"}, NEW m \in Meant(dead),
         NEW p, p = "historySent" => dead = "historyDead",
         m.n \in 0..MaxRetries, NEW c \in [0..MaxRetries -> Nat],
         \A n \in 0..MaxRetries :
           Alive(q, m.event)[n] = c[n] - IF n = m.n THEN 1 ELSE 0
  PROVE  Copies(Retried(q, p, m, dead), m.event)
           <= Becoming(Growth(m.event), c) + Becoming(1, Dead(q, m.event))
<1> DEFINE e == m.event
           g == Growth(e)
           r == Retried(q, p, m, dead)
           j == m.n
<1>1. /\ MaxRetries \in Nat /\ j \in Nat /\ e \in Event
      /\ dead = "historyDead" => e \in TodoEvent /\ g = 1
      /\ dead = "ownerDead" => e \in AccountEvent /\ e \notin TodoEvent /\ g = 2
  BY HistoryAssumption, EventAssumption DEF Meant, MailPlace, HistoryQueue, Growth, Event
<1>2. \A n : m = Message(e, n) <=> n = j
  <2>1. m \in [event : Event, n : Nat]
    BY MeantAreMessages
  <2> QED BY <2>1 DEF Message
<1>3. Fits(r)
  BY RetriedFits
<1>4. /\ Alive(q, e) \in [0..MaxRetries -> Nat] /\ Alive(r, e) \in [0..MaxRetries -> Nat]
      /\ Dead(q, e) \in [0..MaxRetries -> Nat] /\ Dead(r, e) \in [0..MaxRetries -> Nat]
      /\ g \in {1, 2} /\ 1 \in {1, 2}
  BY <1>3, CopiesType
<1>5. CASE j < MaxRetries
  <2>1. r = With(q, RetriedTo(p, m), Message(e, j + 1))
    BY <1>1, <1>5 DEF Retried
  <2>2. AliveIn(RetriedTo(p, m)) = g /\ DeadIn(RetriedTo(p, m)) = 0
    BY <1>1 DEF AliveIn, DeadIn, RetriedTo, RetryBoundTo
  <2>3. \A n : Message(e, j + 1) = Message(e, n) <=> n = j + 1
    BY DEF Message
  <2>4. ASSUME NEW n \in 0..MaxRetries
        PROVE  /\ Alive(r, e)[n] = Alive(q, e)[n] + IF n = j + 1 THEN g ELSE 0
               /\ Dead(r, e)[n] = Dead(q, e)[n]
    <3> HIDE DEF e, g, r, j
    <3>1. /\ Alive(r, e)[n] = Alive(q, e)[n] + (IF n = j + 1 THEN g ELSE 0)
          /\ Dead(r, e)[n] = Dead(q, e)[n] + (IF n = j + 1 THEN 0 ELSE 0)
      BY <2>1, <2>2, <2>3, AliveWith
    <3> QED BY <1>4, <3>1
  <2>5. \A n \in 0..MaxRetries :
          /\ Alive(q, e)[n] = c[n] - (IF n = j THEN 1 ELSE 0)
          /\ Alive(r, e)[n] <= (c[n] - IF n = j THEN 1 ELSE 0) + IF n = j + 1 THEN g ELSE 0
    <3>1. \A n \in 0..MaxRetries : Alive(q, e)[n] = c[n] - IF n = j THEN 1 ELSE 0
      OBVIOUS
    <3> HIDE DEF e, g, r, j
    <3> TAKE n \in 0..MaxRetries
    <3>2. /\ Alive(q, e)[n] = c[n] - (IF n = j THEN 1 ELSE 0)
          /\ Alive(r, e)[n] = Alive(q, e)[n] + IF n = j + 1 THEN g ELSE 0
      BY <2>4, <3>1
    <3>3. Alive(r, e)[n] \in Nat /\ Alive(q, e)[n] \in Nat /\ c[n] \in Nat
      BY <1>4
    <3> QED BY <1>4, <3>2, <3>3
  <2> HIDE DEF e, g, r, j
  <2>6. Becoming(g, Alive(r, e)) <= Becoming(g, c)
    BY <1>4, <1>5, <2>5, BecomingRetried DEF j
  <2>7. Becoming(1, Dead(r, e)) <= Becoming(1, Dead(q, e))
    <3>1. \A n \in 0..MaxRetries : Dead(r, e)[n] <= Dead(q, e)[n]
      BY <1>4, <2>4
    <3> QED BY <1>4, <3>1, BecomingFewer
  <2>8. /\ Becoming(g, Alive(r, e)) \in Nat /\ Becoming(g, c) \in Nat
        /\ Becoming(1, Dead(r, e)) \in Nat /\ Becoming(1, Dead(q, e)) \in Nat
    BY <1>4, BecomingType
  <2>9. Copies(r, e) = Becoming(g, Alive(r, e)) + Becoming(1, Dead(r, e))
    BY DEF Copies, g
  <2>10. Copies(r, e) <= Becoming(g, c) + Becoming(1, Dead(q, e))
    BY <2>6, <2>7, <2>8, <2>9
  <2> QED BY <2>10 DEF r, e, g
<1>6. CASE ~(j < MaxRetries)
  <2>1. j = MaxRetries /\ r = With(q, {dead}, m)
    BY <1>1, <1>6 DEF Retried
  <2>2. AliveIn({dead}) = 0 /\ DeadIn({dead}) = 1
    BY DEF AliveIn, DeadIn
  <2>4. ASSUME NEW n \in 0..MaxRetries
        PROVE  /\ Alive(r, e)[n] = Alive(q, e)[n]
               /\ Dead(r, e)[n] = Dead(q, e)[n] + IF n = j THEN 1 ELSE 0
    <3> HIDE DEF e, g, r, j
    <3>1. /\ Alive(r, e)[n] = Alive(q, e)[n] + (IF n = j THEN 0 ELSE 0)
          /\ Dead(r, e)[n] = Dead(q, e)[n] + (IF n = j THEN 1 ELSE 0)
      BY <1>2, <2>1, <2>2, AliveWith
    <3> QED BY <1>4, <3>1
  <2>5. \A n \in 0..MaxRetries :
          Alive(r, e)[n] <= c[n] - IF n = MaxRetries THEN 1 ELSE 0
    <3>1. \A n \in 0..MaxRetries :
            Alive(q, e)[n] = c[n] - IF n = MaxRetries THEN 1 ELSE 0
      BY <2>1
    <3> SUFFICES ASSUME NEW n \in 0..MaxRetries
                 PROVE  Alive(r, e)[n] <= c[n] - IF n = MaxRetries THEN 1 ELSE 0
      OBVIOUS
    <3>2. Alive(r, e)[n] = c[n] - IF n = MaxRetries THEN 1 ELSE 0
      BY <2>4, <3>1
    <3>3. Alive(r, e)[n] \in Nat
      BY <1>4
    <3> HIDE DEF e, g, r, j
    <3> QED BY <3>2, <3>3
  <2> HIDE DEF e, g, r, j
  <2>6. Becoming(g, Alive(r, e)) + 1 <= Becoming(g, c)
    BY <1>4, <2>5, BecomingGivenUp
  <2>7. j \in 0..MaxRetries
    BY DEF j
  <2>8. \A n \in 0..MaxRetries : Dead(r, e)[n] <= Dead(q, e)[n] + IF n = j THEN 1 ELSE 0
    BY <1>4, <2>4
  <2>9. Becoming(1, Dead(r, e)) <= Becoming(1, Dead(q, e)) + Becoming(1, One)
    BY <1>4, <2>7, <2>8, BecomingOneMore
  <2>10. /\ Becoming(g, Alive(r, e)) \in Nat /\ Becoming(g, c) \in Nat
         /\ Becoming(1, Dead(r, e)) \in Nat /\ Becoming(1, Dead(q, e)) \in Nat
    BY <1>4, BecomingType
  <2>11. Copies(r, e) = Becoming(g, Alive(r, e)) + Becoming(1, Dead(r, e))
    BY DEF Copies, g
  <2>12. Copies(r, e) <= Becoming(g, c) + Becoming(1, Dead(q, e))
    BY <2>6, <2>9, <2>10, <2>11, BecomingSingle
  <2> QED BY <2>12 DEF r, e, g
<1> QED BY <1>5, <1>6

LEMMA WithinWith ==
  ASSUME NEW q, Fits(q), Within(q), NEW P, NEW m, P \cap Counted = {} \/ m.n <= MaxRetries
  PROVE  Within(With(q, P, m))
  BY WithHolds, CountedPlaces DEF Within

LEMMA WithinWithout ==
  ASSUME NEW q, Fits(q), Within(q), NEW p \in Place, NEW m
  PROVE  Within(Without(q, p, m))
  BY WithoutHolds, CountedPlaces DEF Within

LEMMA RoutedCopies ==
  ASSUME NEW q, Fits(q), Within(q), NEW d \in Event, NEW k \in 0..MaxRetries
  PROVE  /\ Within(Routed(q, d, k)) /\ Fits(Routed(q, d, k))
         /\ \A e : \A n \in 0..MaxRetries :
              /\ Alive(Routed(q, d, k), e)[n]
                   = Alive(q, e)[n] + IF e = d /\ n = k THEN 1 ELSE 0
              /\ Dead(Routed(q, d, k), e)[n] = Dead(q, e)[n]
<1> DEFINE P == BoundTo(d) \ {"mail"}
           Q == BoundTo(d) \cap {"mail"}
           m == Message(d, k)
           r == With(q, P, m)
           s == With(r, Q, Message(d, 1))
<1>1. /\ \A p \in P \cap Place : m \in Meant(p)
      /\ AliveIn(P) = 1 /\ DeadIn(P) = 0 /\ AliveIn(Q) = 0 /\ DeadIn(Q) = 0
      /\ Q \cap Counted = {}
      /\ \A e, n : m = Message(e, n) <=> e = d /\ n = k
      /\ m.n = k /\ k <= MaxRetries /\ k \in Nat
  <2>0. k \in Nat
    BY HistoryAssumption
  <2>1. \A p \in P \cap Place : m \in Meant(p)
    BY <2>0 DEF BoundTo, Meant, MailPlace, HistoryQueue, Message, Event
  <2>2. \/ P = {"history"} /\ Q = {"mail"}
        \/ P = {"owner"} /\ Q = {}
    BY DEF BoundTo
  <2>3. /\ AliveIn(P) = 1 /\ DeadIn(P) = 0 /\ AliveIn(Q) = 0 /\ DeadIn(Q) = 0
        /\ Q \cap Counted = {}
    <3> HIDE DEF P, Q
    <3> QED BY <2>2 DEF AliveIn, DeadIn, Counted
  <2>4. /\ \A e, n : m = Message(e, n) <=> e = d /\ n = k
        /\ m.n = k /\ k <= MaxRetries /\ k \in Nat
    BY HistoryAssumption DEF Message
  <2> HIDE DEF P, Q, m
  <2> QED BY <2>1, <2>3, <2>4
<1>2. s = Routed(q, d, k)
  BY DEF Routed
<1>3. Fits(r) /\ Within(r)
  <2> HIDE DEF P, m
  <2> QED BY <1>1, WithFits, WithinWith
<1>4. Fits(s) /\ Within(s)
  <2>1. Within(s)
    <3> HIDE DEF Q, r
    <3> QED BY <1>1, <1>3, WithinWith
  <2> QED BY <1>1, <1>2, <2>1, RoutedFits
<1>5. ASSUME NEW e, NEW n \in 0..MaxRetries
      PROVE  /\ Alive(s, e)[n] = Alive(q, e)[n] + IF e = d /\ n = k THEN 1 ELSE 0
             /\ Dead(s, e)[n] = Dead(q, e)[n]
  <2> HIDE DEF P, Q, m
  <2>1. /\ Alive(r, e)[n] = Alive(q, e)[n] + (IF m = Message(e, n) THEN 1 ELSE 0)
        /\ Dead(r, e)[n] = Dead(q, e)[n] + (IF m = Message(e, n) THEN 0 ELSE 0)
    BY <1>1, AliveWith
  <2> HIDE DEF r
  <2>2. /\ Alive(s, e)[n] = Alive(r, e)[n] + (IF Message(d, 1) = Message(e, n) THEN 0 ELSE 0)
        /\ Dead(s, e)[n] = Dead(r, e)[n] + (IF Message(d, 1) = Message(e, n) THEN 0 ELSE 0)
    BY <1>1, <1>3, AliveWith
  <2>3. Alive(q, e)[n] \in Nat /\ Dead(q, e)[n] \in Nat
    BY CopiesType
  <2> HIDE DEF s
  <2> QED BY <1>1, <2>1, <2>2, <2>3
<1> HIDE DEF s
<1> QED BY <1>2, <1>4, <1>5

\* A publication is one message.
LEMMA PublishedCopies ==
  ASSUME NEW q, Fits(q), Within(q), NEW d \in Event
  PROVE  /\ Within(Routed(q, d, 0))
         /\ Dearer(q, Routed(q, d, 0), d)
         /\ \A e : e # d => Cheaper(q, Routed(q, d, 0), e)
<1> DEFINE r == Routed(q, d, 0)
<1>1. 0 \in 0..MaxRetries
  BY HistoryAssumption
<1>2. /\ Within(r) /\ Fits(r)
      /\ \A e : \A n \in 0..MaxRetries :
           /\ Alive(r, e)[n] = Alive(q, e)[n] + IF e = d /\ n = 0 THEN 1 ELSE 0
           /\ Dead(r, e)[n] = Dead(q, e)[n]
  BY <1>1, RoutedCopies
<1>3. \A e : \A n \in 0..MaxRetries : Alive(q, e)[n] \in Nat /\ Dead(q, e)[n] \in Nat
  BY CopiesType
<1> HIDE DEF r
<1>4. Dearer(q, r, d)
  <2>1. \A n \in 0..MaxRetries :
          /\ Alive(r, d)[n] <= Alive(q, d)[n] + IF n = 0 THEN 1 ELSE 0
          /\ Dead(r, d)[n] <= Dead(q, d)[n]
    BY <1>2, <1>3
  <2> QED BY <1>1, <1>2, <2>1, AnotherCopy
<1>5. ASSUME NEW e, e # d PROVE Cheaper(q, r, e)
  <2>1. \A n \in 0..MaxRetries : /\ Alive(r, e)[n] <= Alive(q, e)[n]
                                 /\ Dead(r, e)[n] <= Dead(q, e)[n]
    BY <1>2, <1>3, <1>5
  <2> QED BY <1>2, <2>1, FewerCopies
<1> QED BY <1>2, <1>4, <1>5 DEF r

\* What comes back from a retry queue was counted there.
LEMMA RetryDueCopies ==
  ASSUME Fits(queue), Within(queue), RetryDue
  PROVE  Within(queue') /\ \A e : Cheaper(queue, queue', e)
<1>0. PICK p \in RetryPlace : \E m \in HeldBy(p) :
        queue' = CASE p = "mailRetry" -> With(Without(queue, p, m), {"mail"}, m)
                   [] p = "historyRetrySent" ->
                        With(Without(queue, p, m), {"dropped"}, m)
                   [] OTHER -> Routed(Without(queue, p, m), m.event, m.n)
  BY DEF RetryDue, HeldBy
<1>1. PICK m \in HeldBy(p) :
        queue' = CASE p = "mailRetry" -> With(Without(queue, p, m), {"mail"}, m)
                   [] p = "historyRetrySent" ->
                        With(Without(queue, p, m), {"dropped"}, m)
                   [] OTHER -> Routed(Without(queue, p, m), m.event, m.n)
  BY <1>0
<1> DEFINE rest == Without(queue, p, m)
<1>2. /\ p \in Place /\ m \in [event : Event, n : Nat] /\ Fits(rest) /\ m \in Holds(queue, p)
      /\ Within(rest) /\ Fits(queue')
  BY HeldMessage, PlacesKnown, WithoutFits, WithinWithout, RetryDueStep DEF HeldBy, Holds
<1>3. \A e : \A n \in 0..MaxRetries :
        /\ Alive(rest, e)[n] = Alive(queue, e)[n] - IF m = Message(e, n) THEN AliveIn({p}) ELSE 0
        /\ Dead(rest, e)[n] = Dead(queue, e)[n] - IF m = Message(e, n) THEN DeadIn({p}) ELSE 0
  BY <1>2, AliveWithout
<1>4. \A e : \A n \in 0..MaxRetries : Alive(queue, e)[n] \in Nat /\ Dead(queue, e)[n] \in Nat
  BY CopiesType
<1> HIDE DEF rest
<1>5. CASE p = "mailRetry"
  <2>1. /\ AliveIn({p}) = 0 /\ DeadIn({p}) = 0 /\ AliveIn({"mail"}) = 0 /\ DeadIn({"mail"}) = 0
        /\ {"mail"} \cap Counted = {}
    BY <1>5 DEF AliveIn, DeadIn, Counted
  <2>2. queue' = With(rest, {"mail"}, m)
    BY <1>1, <1>5 DEF rest
  <2>3. Within(queue')
    BY <1>2, <2>1, <2>2, WithinWith
  <2>4. ASSUME NEW e PROVE Cheaper(queue, queue', e)
    <3>1. ASSUME NEW n \in 0..MaxRetries
          PROVE  /\ Alive(queue', e)[n] <= Alive(queue, e)[n]
                 /\ Dead(queue', e)[n] <= Dead(queue, e)[n]
      <4>1. /\ Alive(queue', e)[n] = Alive(rest, e)[n] + (IF m = Message(e, n) THEN 0 ELSE 0)
            /\ Dead(queue', e)[n] = Dead(rest, e)[n] + (IF m = Message(e, n) THEN 0 ELSE 0)
        BY <1>2, <2>1, <2>2, AliveWith
      <4>2. /\ Alive(rest, e)[n] = Alive(queue, e)[n] - (IF m = Message(e, n) THEN 0 ELSE 0)
            /\ Dead(rest, e)[n] = Dead(queue, e)[n] - (IF m = Message(e, n) THEN 0 ELSE 0)
        BY <1>3, <2>1
      <4>3. Alive(queue, e)[n] \in Nat /\ Dead(queue, e)[n] \in Nat
        BY <1>4
      <4> QED BY <4>1, <4>2, <4>3
    <3> QED BY <1>2, <3>1, FewerCopies
  <2> QED BY <2>3, <2>4
<1>6. CASE p \notin {"mailRetry", "historyRetrySent"}
  <2>1. p \in {"historyRetry", "ownerRetry"} /\ p \in Counted
    BY <1>6 DEF RetryPlace, Counted
  <2>2. AliveIn({p}) = 1 /\ DeadIn({p}) = 0
    BY <2>1 DEF AliveIn, DeadIn
  <2>3. m.event \in Event /\ m.n \in 0..MaxRetries
    BY <1>2, <2>1, HistoryAssumption DEF Within
  <2>4. queue' = Routed(rest, m.event, m.n)
    BY <1>1, <1>6 DEF rest
  <2>5. /\ Within(queue')
        /\ \A e : \A n \in 0..MaxRetries :
             /\ Alive(queue', e)[n]
                  = Alive(rest, e)[n] + IF e = m.event /\ n = m.n THEN 1 ELSE 0
             /\ Dead(queue', e)[n] = Dead(rest, e)[n]
    BY <1>2, <2>3, <2>4, RoutedCopies
  <2>6. \A e, n : m = Message(e, n) <=> e = m.event /\ n = m.n
    BY <1>2 DEF Message
  <2>7. ASSUME NEW e PROVE Cheaper(queue, queue', e)
    <3>1. ASSUME NEW n \in 0..MaxRetries
          PROVE  /\ Alive(queue', e)[n] <= Alive(queue, e)[n]
                 /\ Dead(queue', e)[n] <= Dead(queue, e)[n]
      <4>1. /\ Alive(rest, e)[n] = Alive(queue, e)[n] - (IF m = Message(e, n) THEN 1 ELSE 0)
            /\ Dead(rest, e)[n] = Dead(queue, e)[n] - (IF m = Message(e, n) THEN 0 ELSE 0)
        BY <1>3, <2>2
      <4>2. Alive(queue, e)[n] \in Nat /\ Dead(queue, e)[n] \in Nat
        BY <1>4
      <4> QED BY <2>5, <2>6, <4>1, <4>2
    <3> QED BY <1>2, <3>1, FewerCopies
  <2> QED BY <2>5, <2>7
<1>7. CASE p = "historyRetrySent"
  <2>1. /\ AliveIn({p}) = 1 /\ DeadIn({p}) = 0
        /\ AliveIn({"dropped"}) = 0 /\ DeadIn({"dropped"}) = 0
        /\ {"dropped"} \cap Counted = {}
    BY <1>7 DEF AliveIn, DeadIn, Counted
  <2>2. queue' = With(rest, {"dropped"}, m)
    BY <1>1, <1>7 DEF rest
  <2>3. Within(queue')
    BY <1>2, <2>1, <2>2, WithinWith
  <2>4. ASSUME NEW e PROVE Cheaper(queue, queue', e)
    <3>1. ASSUME NEW n \in 0..MaxRetries
          PROVE  /\ Alive(queue', e)[n] <= Alive(queue, e)[n]
                 /\ Dead(queue', e)[n] <= Dead(queue, e)[n]
      <4>1. /\ Alive(queue', e)[n] = Alive(rest, e)[n] + (IF m = Message(e, n) THEN 0 ELSE 0)
            /\ Dead(queue', e)[n] = Dead(rest, e)[n] + (IF m = Message(e, n) THEN 0 ELSE 0)
        BY <1>2, <2>1, <2>2, AliveWith
      <4>2. /\ Alive(rest, e)[n] = Alive(queue, e)[n] - (IF m = Message(e, n) THEN 1 ELSE 0)
            /\ Dead(rest, e)[n] = Dead(queue, e)[n] - (IF m = Message(e, n) THEN 0 ELSE 0)
        BY <1>3, <2>1
      <4>3. Alive(queue, e)[n] \in Nat /\ Dead(queue, e)[n] \in Nat
        BY <1>4
      <4> QED BY <4>1, <4>2, <4>3
    <3> QED BY <1>2, <3>1, FewerCopies
  <2> QED BY <2>3, <2>4
<1> QED BY <1>5, <1>6, <1>7

LEMMA OneAdded ==
  ASSUME NEW a \in [0..MaxRetries -> Nat], NEW j \in 0..MaxRetries
  PROVE  \E c \in [0..MaxRetries -> Nat] :
           c[j] = a[j] + 1 /\ \A n \in 0..MaxRetries : n # j => c[n] = a[n]
<1> DEFINE c == [a EXCEPT ![j] = a[j] + 1]
<1>1. c \in [0..MaxRetries -> Nat]
  OBVIOUS
<1>2. c[j] = a[j] + 1 /\ \A n \in 0..MaxRetries : n # j => c[n] = a[n]
  OBVIOUS
<1> QED BY <1>1, <1>2

\* A retry, with the acknowledgement of the message or, at the price of one
\* publication, without.
LEMMA FailureCopies ==
  ASSUME Fits(queue), Within(queue),
         NEW p \in {"history", "historySent", "owner"}, NEW dead \in {"historyDead", "ownerDead"},
         p \in Arrival <=> dead = "historyDead", NEW m \in HeldBy(p)
  PROVE  /\ queue' = Retried(Without(queue, p, m), p, m, dead) =>
              Within(queue') /\ \A e : Cheaper(queue, queue', e)
         /\ queue' = Retried(queue, p, m, dead) =>
              /\ Within(queue') /\ Dearer(queue, queue', m.event)
              /\ \A e : e # m.event => Cheaper(queue, queue', e)
<1> DEFINE rest == Without(queue, p, m)
           d == m.event
           g == Growth(d)
           again(q) == Retried(q, p, m, dead)
<1>1. /\ p \in Place /\ p \in Counted /\ m \in Holds(queue, p) /\ m.n \in 0..MaxRetries
      /\ m \in [event : Event, n : Nat] /\ m \in Meant(dead)
      /\ AliveIn({p}) = 1 /\ DeadIn({p}) = 0
  <2>1. p \in Place /\ p \in Counted
    BY DEF Place, Counted
  <2>2. m \in Meant(p) /\ m \in [event : Event, n : Nat] /\ m \in Holds(queue, p)
    BY <2>1, HeldMessage DEF HeldBy, Holds
  <2>3. m \in Meant(dead)
    BY <2>2 DEF Meant, MailPlace, HistoryQueue, Arrival
  <2>4. m.n \in 0..MaxRetries
    BY <2>1, <2>2, HistoryAssumption DEF Within
  <2> QED BY <2>1, <2>2, <2>3, <2>4 DEF AliveIn, DeadIn
<1>2. \A e, n : m = Message(e, n) <=> e = d /\ n = m.n
  BY <1>1 DEF Message
<1>3. Fits(rest) /\ Within(rest)
  BY <1>1, WithoutFits, WithinWithout
<1>4. \A e : \A n \in 0..MaxRetries : Alive(queue, e)[n] \in Nat /\ Dead(queue, e)[n] \in Nat
  BY CopiesType
<1>5. \A e : \A n \in 0..MaxRetries :
        /\ Alive(rest, e)[n] = Alive(queue, e)[n] - IF e = d /\ n = m.n THEN 1 ELSE 0
        /\ Dead(rest, e)[n] = Dead(queue, e)[n]
  <2> TAKE e
  <2> TAKE n \in 0..MaxRetries
  <2>1. /\ Alive(rest, e)[n] = Alive(queue, e)[n] - (IF m = Message(e, n) THEN 1 ELSE 0)
        /\ Dead(rest, e)[n] = Dead(queue, e)[n] - (IF m = Message(e, n) THEN 0 ELSE 0)
    BY <1>1, AliveWithout
  <2> HIDE DEF rest
  <2> QED BY <1>2, <1>4, <2>1
\* of every queue
<1>6. ASSUME NEW q, Fits(q), Within(q)
      PROVE  /\ Fits(again(q)) /\ Within(again(q))
             /\ \A e : e # d => \A n \in 0..MaxRetries :
                  Alive(again(q), e)[n] = Alive(q, e)[n] /\ Dead(again(q), e)[n] = Dead(q, e)[n]
  <2>1. Fits(again(q))
    BY <1>1, <1>6, RetriedFits DEF Arrival
  <2>2. PICK P, x : again(q) = With(q, P, x) /\ x.n <= MaxRetries /\ x.event = d
                    /\ \A e, n : x = Message(e, n) => e = d
    <3>1. CASE m.n >= MaxRetries
      <4>1. again(q) = With(q, {dead}, m) /\ m.n <= MaxRetries
        BY <1>1, <3>1, HistoryAssumption DEF Retried
      <4> QED BY <1>2, <4>1
    <3>2. CASE ~(m.n >= MaxRetries)
      <4> DEFINE x == Message(d, m.n + 1)
      <4>1. again(q) = With(q, RetriedTo(p, m), x)
        BY <3>2 DEF Retried
      <4>2. x.n <= MaxRetries /\ x.event = d /\ \A e, n : x = Message(e, n) => e = d
        BY <1>1, <3>2, HistoryAssumption DEF Message
      <4> HIDE DEF x, again
      <4> QED BY <4>1, <4>2
    <3> QED BY <3>1, <3>2
  <2>3. Within(again(q))
    BY <1>6, <2>2, WithinWith
  <2>4. ASSUME NEW e, e # d, NEW n \in 0..MaxRetries
        PROVE  Alive(again(q), e)[n] = Alive(q, e)[n] /\ Dead(again(q), e)[n] = Dead(q, e)[n]
    <3>1. x # Message(e, n)
      BY <2>2, <2>4
    <3>2. /\ Alive(again(q), e)[n] = Alive(q, e)[n] + 0
          /\ Dead(again(q), e)[n] = Dead(q, e)[n] + 0
      BY <1>6, <2>2, <3>1, AliveWith
    <3>3. Alive(q, e)[n] \in Nat /\ Dead(q, e)[n] \in Nat
      BY <1>6, CopiesType
    <3> QED BY <3>2, <3>3
  <2> QED BY <2>1, <2>3, <2>4
<1>7. ASSUME queue' = again(rest)
      PROVE  Within(queue') /\ \A e : Cheaper(queue, queue', e)
  <2> HIDE DEF rest, again
  <2>1. Fits(queue') /\ Within(queue')
    BY <1>3, <1>6, <1>7
  <2>2. ASSUME NEW e, e # d PROVE Cheaper(queue, queue', e)
    <3>1. \A n \in 0..MaxRetries : /\ Alive(queue', e)[n] <= Alive(queue, e)[n]
                                   /\ Dead(queue', e)[n] <= Dead(queue, e)[n]
      BY <1>3, <1>4, <1>5, <1>6, <1>7, <2>2
    <3> QED BY <2>1, <3>1, FewerCopies
  <2>3. Cheaper(queue, queue', d)
    <3>1. Alive(queue, d) \in [0..MaxRetries -> Nat]
      BY CopiesType
    <3>2. \A n \in 0..MaxRetries :
            Alive(rest, d)[n] = Alive(queue, d)[n] - IF n = m.n THEN 1 ELSE 0
      BY <1>5
    <3>3. Copies(again(rest), d) <= Becoming(g, Alive(queue, d)) + Becoming(1, Dead(rest, d))
      BY <1>1, <1>3, <3>1, <3>2, RetriedCopies DEF again, Arrival
    <3>4. Becoming(1, Dead(rest, d)) <= Becoming(1, Dead(queue, d))
      <4>1. Dead(rest, d) \in [0..MaxRetries -> Nat] /\ Dead(queue, d) \in [0..MaxRetries -> Nat]
        BY <1>3, CopiesType
      <4>2. \A n \in 0..MaxRetries : Dead(rest, d)[n] <= Dead(queue, d)[n]
        BY <1>4, <1>5
      <4> QED BY <4>1, <4>2, BecomingFewer
    <3>5. /\ Becoming(g, Alive(queue, d)) \in Nat /\ Becoming(1, Dead(rest, d)) \in Nat
          /\ Becoming(1, Dead(queue, d)) \in Nat /\ Copies(again(rest), d) \in Nat
      BY <1>3, <1>7, <2>1, CopiesType
    <3> QED BY <1>7, <3>3, <3>4, <3>5 DEF Copies, Cheaper
  <2> QED BY <2>1, <2>2, <2>3
<1>8. ASSUME queue' = again(queue)
      PROVE  /\ Within(queue') /\ Dearer(queue, queue', d)
             /\ \A e : e # d => Cheaper(queue, queue', e)
  <2> HIDE DEF rest, again
  <2>1. Fits(queue') /\ Within(queue')
    BY <1>6, <1>8
  <2>2. ASSUME NEW e, e # d PROVE Cheaper(queue, queue', e)
    <3>1. \A n \in 0..MaxRetries : /\ Alive(queue', e)[n] <= Alive(queue, e)[n]
                                   /\ Dead(queue', e)[n] <= Dead(queue, e)[n]
      BY <1>4, <1>6, <1>8, <2>2
    <3> QED BY <2>1, <3>1, FewerCopies
  <2>3. Dearer(queue, queue', d)
    <3>1. Alive(queue, d) \in [0..MaxRetries -> Nat] /\ g \in {1, 2} /\ m.n \in 0..MaxRetries
      BY <1>1, CopiesType
    <3>a. PICK c \in [0..MaxRetries -> Nat] :
            /\ c[m.n] = Alive(queue, d)[m.n] + 1
            /\ \A n \in 0..MaxRetries : n # m.n => c[n] = Alive(queue, d)[n]
      <4> DEFINE a == Alive(queue, d)
                 j == m.n
      <4>1. a \in [0..MaxRetries -> Nat] /\ j \in 0..MaxRetries
        BY <3>1
      <4> HIDE DEF a, j
      <4>2. \E c \in [0..MaxRetries -> Nat] :
              c[j] = a[j] + 1 /\ \A n \in 0..MaxRetries : n # j => c[n] = a[n]
        BY <4>1, OneAdded
      <4> QED BY <4>2 DEF a, j
    <3>2. \A n \in 0..MaxRetries :
            /\ Alive(queue, d)[n] = c[n] - IF n = m.n THEN 1 ELSE 0
            /\ c[n] <= Alive(queue, d)[n] + IF n = m.n THEN 1 ELSE 0
      <4> DEFINE a == Alive(queue, d)
      <4>1. /\ a \in [0..MaxRetries -> Nat]
            /\ c[m.n] = a[m.n] + 1
            /\ \A n \in 0..MaxRetries : n # m.n => c[n] = a[n]
        BY <3>1, <3>a
      <4> HIDE DEF a
      <4>2. \A n \in 0..MaxRetries :
              /\ a[n] = c[n] - IF n = m.n THEN 1 ELSE 0
              /\ c[n] <= a[n] + IF n = m.n THEN 1 ELSE 0
        BY <3>1, <4>1
      <4> QED BY <4>2 DEF a
    <3> HIDE DEF g
    <3>3. Copies(again(queue), d) <= Becoming(g, c) + Becoming(1, Dead(queue, d))
      BY <1>1, <3>2, RetriedCopies DEF again, g, d, Arrival
    <3>4. Becoming(g, c) <= Becoming(g, Alive(queue, d)) + Becoming(g, One)
      BY <3>1, <3>2, BecomingOneMore
    <3>5. /\ Becoming(g, Alive(queue, d)) \in Nat /\ Becoming(1, Dead(queue, d)) \in Nat
          /\ Becoming(g, c) \in Nat /\ Copies(again(queue), d) \in Nat
          /\ Allowance(d) = Becoming(g, One) /\ Allowance(d) \in Nat
      <4>1. Becoming(g, c) \in Nat
        BY <3>1, <3>2, BecomingType
      <4> QED BY <1>8, <2>1, <4>1, CopiesType, AllowanceType DEF g
    <3>6. Copies(queue, d) = Becoming(g, Alive(queue, d)) + Becoming(1, Dead(queue, d))
      BY DEF Copies, g
    <3>7. Copies(queue', d) <= Copies(queue, d) + Allowance(d)
      BY <1>8, <3>3, <3>4, <3>5, <3>6
    <3> QED BY <3>7 DEF Dearer
  <2> QED BY <2>1, <2>2, <2>3
<1> QED BY <1>7, <1>8

\* By counts, a queue that holds no more than another.
NoMore(q, r) ==
  \A e : \A n \in 0..MaxRetries : /\ Alive(r, e)[n] <= Alive(q, e)[n]
                                  /\ Dead(r, e)[n] <= Dead(q, e)[n]

LEMMA TakenCopies ==
  ASSUME NEW q, Fits(q), Within(q), NEW p \in Place, NEW m \in Holds(q, p)
  PROVE  /\ Fits(Without(q, p, m)) /\ Within(Without(q, p, m))
         /\ NoMore(q, Without(q, p, m))
<1> DEFINE rest == Without(q, p, m)
<1>1. Fits(rest) /\ Within(rest)
  BY WithoutFits, WithinWithout
<1>2. ASSUME NEW x, NEW r \in Counted
      PROVE  /\ Count(rest, r, x) <= Count(q, r, x)
             /\ Count(rest, r, x) \in Nat /\ Count(q, r, x) \in Nat
  <2>1. r \in Place
    BY CountedPlaces
  <2>2. Count(rest, r, x) = Count(q, r, x) - IF r = p /\ x = m THEN 1 ELSE 0
    BY <2>1, CountWithout
  <2>3. Count(rest, r, x) \in Nat /\ Count(q, r, x) \in Nat
    BY <1>1, <2>1, CountType
  <2> HIDE DEF rest
  <2> QED BY <2>2, <2>3
<1> HIDE DEF rest
<1>3. ASSUME NEW e, NEW n \in 0..MaxRetries
      PROVE  Alive(rest, e)[n] <= Alive(q, e)[n] /\ Dead(rest, e)[n] <= Dead(q, e)[n]
  BY <1>2 DEF Alive, Dead, Counted
<1> QED BY <1>1, <1>3 DEF NoMore, rest

LEMMA SentBack ==
  ASSUME NEW q, NEW rest, NEW r, Fits(q), Fits(rest), Fits(r), Within(rest), NoMore(q, rest),
         NEW d, NEW p \in {"history", "historySent", "owner"}, r = With(rest, {p}, Message(d, 0))
  PROVE  /\ Within(r) /\ Dearer(q, r, d)
         /\ \A e : e # d => Cheaper(q, r, e)
<1> DEFINE m == Message(d, 0)
<1>1. /\ 0 \in 0..MaxRetries /\ m.n <= MaxRetries
      /\ \A e, n : m = Message(e, n) <=> e = d /\ n = 0
      /\ AliveIn({p}) = 1 /\ DeadIn({p}) = 0
  BY HistoryAssumption DEF Message, AliveIn, DeadIn
<1>2. Within(r)
  <2> HIDE DEF m
  <2> QED BY <1>1, WithinWith DEF m
<1>3. ASSUME NEW e, NEW n \in 0..MaxRetries
      PROVE  /\ Alive(r, e)[n] <= Alive(q, e)[n] + IF e = d /\ n = 0 THEN 1 ELSE 0
             /\ Dead(r, e)[n] <= Dead(q, e)[n]
  <2>0. r = With(rest, {p}, m)
    OBVIOUS
  <2> HIDE DEF m
  <2>1. /\ Alive(r, e)[n] = Alive(rest, e)[n] + (IF m = Message(e, n) THEN 1 ELSE 0)
        /\ Dead(r, e)[n] = Dead(rest, e)[n] + (IF m = Message(e, n) THEN 0 ELSE 0)
    BY <1>1, <2>0, AliveWith
  <2>2. /\ Alive(q, e)[n] \in Nat /\ Dead(q, e)[n] \in Nat
        /\ Alive(rest, e)[n] \in Nat /\ Dead(rest, e)[n] \in Nat
    BY CopiesType
  <2>3. Alive(rest, e)[n] <= Alive(q, e)[n] /\ Dead(rest, e)[n] <= Dead(q, e)[n]
    BY DEF NoMore
  <2> QED BY <1>1, <2>1, <2>2, <2>3
<1> HIDE DEF m
<1>4. Dearer(q, r, d)
  <2>1. \A n \in 0..MaxRetries :
          /\ Alive(r, d)[n] <= Alive(q, d)[n] + IF n = 0 THEN 1 ELSE 0
          /\ Dead(r, d)[n] <= Dead(q, d)[n]
    BY <1>3
  <2> QED BY <1>1, <2>1, AnotherCopy
<1>5. ASSUME NEW e, e # d PROVE Cheaper(q, r, e)
  <2>1. \A n \in 0..MaxRetries :
          Alive(r, e)[n] <= Alive(q, e)[n] /\ Dead(r, e)[n] <= Dead(q, e)[n]
    <3> TAKE n \in 0..MaxRetries
    <3>1. Alive(r, e)[n] <= Alive(q, e)[n] + 0 /\ Dead(r, e)[n] <= Dead(q, e)[n]
      BY <1>3, <1>5
    <3>2. Alive(q, e)[n] \in Nat /\ Alive(r, e)[n] \in Nat
      BY CopiesType
    <3> QED BY <3>1, <3>2
  <2> QED BY <2>1, FewerCopies
<1> QED BY <1>2, <1>4, <1>5

\* What a step does to the copies of an event it pays for: with the fault or
\* the replay that it is, or with a message the outbox was due to publish.
Paying(e) == (faults' + replays' + DueOf(e)) - (faults + replays + DueOf(e)')
Settled(e) ==
  \/ Cheaper(queue, queue', e) /\ Paying(e) >= 0
  \/ Dearer(queue, queue', e) /\ Paying(e) >= 1

LEMMA SameCopies ==
  ASSUME Fits(queue), NEW e, \A p \in Counted : queue'[p] = queue[p]
  PROVE  Copies(queue', e) = Copies(queue, e)
<1>1. \A m : \A p \in Counted : Count(queue', p, m) = Count(queue, p, m)
  BY DEF Count
<1>2. Alive(queue', e) = Alive(queue, e) /\ Dead(queue', e) = Dead(queue, e)
  BY <1>1 DEF Alive, Dead, Counted
<1> QED BY <1>2 DEF Copies

LEMMA Untouched ==
  ASSUME Fits(queue), Fits(queue'), Within(queue), \A p \in Counted : queue'[p] = queue[p]
  PROVE  Within(queue') /\ \A e : Cheaper(queue, queue', e)
<1>1. Within(queue')
  BY DEF Within, Holds
<1>2. ASSUME NEW e PROVE Cheaper(queue, queue', e)
  <2>1. Copies(queue, e) \in Nat
    BY CopiesType
  <2> QED BY <2>1, SameCopies DEF Cheaper
<1> QED BY <1>1, <1>2

LEMMA ConsumerCopies ==
  ASSUME Fits(queue), Within(queue), faults \in Nat, ConsumerNext
  PROVE  /\ Within(queue')
         /\ \A e : \/ Cheaper(queue, queue', e) /\ faults' >= faults
                   \/ Dearer(queue, queue', e) /\ faults' >= faults + 1
<1> DEFINE Same == Within(queue') /\ \A e : Cheaper(queue, queue', e)
           More == /\ Within(queue')
                   /\ \A e : Cheaper(queue, queue', e) \/ Dearer(queue, queue', e)
<1>1. faults' \in {faults, faults + 1}
  BY DEF ConsumerNext, Fault
<1>2. ASSUME queue' = queue PROVE Same
  <2>1. \A e : Copies(queue, e) \in Nat
    BY CopiesType
  <2> QED BY <1>2, <2>1 DEF Cheaper, Within, Holds
<1>3. ASSUME NEW p \in {"history", "historySent", "owner"}, NEW m \in HeldBy(p),
             queue' = Without(queue, p, m)
      PROVE  Same
  <2>1. p \in Place /\ m \in Holds(queue, p)
    BY DEF Place, Holds, HeldBy
  <2>2. Fits(queue') /\ Within(queue') /\ NoMore(queue, queue')
    BY <1>3, <2>1, TakenCopies
  <2>3. ASSUME NEW e PROVE Cheaper(queue, queue', e)
    <3>1. \A n \in 0..MaxRetries : /\ Alive(queue', e)[n] <= Alive(queue, e)[n]
                                   /\ Dead(queue', e)[n] <= Dead(queue, e)[n]
      BY <2>2 DEF NoMore
    <3> QED BY <2>2, <3>1, FewerCopies
  <2> QED BY <2>2, <2>3
<1>4. ASSUME NEW p \in {"history", "historySent", "owner"}, NEW m \in HeldBy(p),
             NEW dead \in {"historyDead", "ownerDead"}, p \in Arrival <=> dead = "historyDead"
      PROVE  /\ queue' = Retried(Without(queue, p, m), p, m, dead) => Same
             /\ queue' = Retried(queue, p, m, dead) => More
  BY <1>4, FailureCopies
<1>5. CASE faults' = faults + 1
  <2>1. \/ queue' = queue
        \/ \E p \in {"history", "historySent", "owner"} : \E m \in HeldBy(p) :
             \E dead \in {"historyDead", "ownerDead"} :
               /\ p \in Arrival <=> dead = "historyDead"
               /\ \/ queue' = Without(queue, p, m)
                  \/ queue' = Retried(Without(queue, p, m), p, m, dead)
                  \/ queue' = Retried(queue, p, m, dead)
    BY DEF ConsumerNext, AppendHistory, AppendUnacked, AppendFails, RetryUnacked,
       ApplyOwnerEvent, OwnerEventFails, OwnerRetryUnacked, OwnerRetried, Arrival
  <2>2. Same \/ More
    <3> HIDE DEF Same, More
    <3> QED BY <1>2, <1>3, <1>4, <2>1
  <2>3. ASSUME NEW e, Cheaper(queue, queue', e) \/ Dearer(queue, queue', e), Fits(queue')
        PROVE  Dearer(queue, queue', e)
    <3>1. Copies(queue, e) \in Nat /\ Copies(queue', e) \in Nat /\ Allowance(e) \in Nat
      BY <2>3, CopiesType, AllowanceType
    <3> QED BY <2>3, <3>1 DEF Cheaper, Dearer
  <2>4. Fits(queue')
    <3>1. ASSUME NEW p \in {"history", "historySent", "owner"}, NEW m \in HeldBy(p),
                 NEW dead \in {"historyDead", "ownerDead"},
                 p \in Arrival <=> dead = "historyDead"
          PROVE  /\ Fits(Without(queue, p, m))
                 /\ Fits(Retried(Without(queue, p, m), p, m, dead))
                 /\ Fits(Retried(queue, p, m, dead))
      <4>1. p \in Place
        BY DEF Place
      <4>2. m \in Meant(dead) /\ Fits(Without(queue, p, m))
        <5>1. m \in Meant(p)
          BY <4>1, HeldMessage
        <5> QED BY <3>1, <4>1, <5>1, WithoutFits DEF Meant, MailPlace, HistoryQueue, Arrival
      <4> QED BY <3>1, <4>2, RetriedFits DEF Arrival
    <3> QED BY <2>1, <3>1
  <2> QED BY <1>5, <2>2, <2>3, <2>4
<1>6. CASE faults' = faults
  <2>1. \E p \in {"history", "historySent", "owner"} : \E m \in HeldBy(p) :
          \E dead \in {"historyDead", "ownerDead"} :
            /\ p \in Arrival <=> dead = "historyDead"
            /\ \/ queue' = Without(queue, p, m)
               \/ queue' = Retried(Without(queue, p, m), p, m, dead)
    <3>1. ~Fault
      BY <1>6 DEF Fault
    <3> QED BY <3>1 DEF ConsumerNext, AppendHistory, AppendFails, ApplyOwnerEvent,
               OwnerEventFails, OwnerRetried, Arrival
  <2>2. Same
    <3> HIDE DEF Same, More
    <3> QED BY <1>3, <1>4, <2>1
  <2> QED BY <1>6, <2>2
<1> QED BY <1>1, <1>5, <1>6

LEMMA ReplayedCopies ==
  ASSUME Fits(queue), HistoryTypeOK, Within(queue),
         \/ \E dead \in Place : ReplayDead(dead)
         \/ \E e \in TodoEvent : ReplayEvent(e)
         \/ \E e \in AccountEvent : ReplayOwnerEvent(e)
  PROVE  /\ Within(queue')
         /\ \A e : Cheaper(queue, queue', e) \/ Dearer(queue, queue', e)
<1>0. Fits(queue')
  BY ReplayedStep
<1>1. \E rest, d : \E p \in {"history", "historySent", "owner"} :
        /\ Fits(rest) /\ Within(rest) /\ NoMore(queue, rest)
        /\ queue' = With(rest, {p}, Message(d, 0))
  <2>0. Fits(queue) /\ Within(queue) /\ NoMore(queue, queue)
    <3>1. \A e : \A n \in 0..MaxRetries : Alive(queue, e)[n] \in Nat /\ Dead(queue, e)[n] \in Nat
      BY CopiesType
    <3> QED BY <3>1 DEF NoMore
  <2>1. ASSUME NEW dead \in Place, ReplayDead(dead)
        PROVE  \E rest, d : \E p \in {"history", "historySent", "owner"} :
                 /\ Fits(rest) /\ Within(rest) /\ NoMore(queue, rest)
                 /\ queue' = With(rest, {p}, Message(d, 0))
    <3> DEFINE to == IF dead = "historyDead" THEN "historySent" ELSE "owner"
    <3>1. PICK m \in HeldBy(dead) :
            \/ queue' = With(Without(queue, dead, m), {to}, Message(m.event, 0))
            \/ queue' = With(queue, {to}, Message(m.event, 0))
      BY <2>1 DEF ReplayDead
    <3>2. to \in {"history", "historySent", "owner"} /\ m \in Holds(queue, dead)
      BY DEF Holds, HeldBy
    <3>3. /\ Fits(Without(queue, dead, m)) /\ Within(Without(queue, dead, m))
          /\ NoMore(queue, Without(queue, dead, m))
      BY <3>2, TakenCopies
    <3> HIDE DEF to
    <3> QED BY <2>0, <3>1, <3>2, <3>3
  <2> QED BY <2>0, <2>1 DEF ReplayEvent, ReplayOwnerEvent
<1>2. PICK rest, d : \E p \in {"history", "historySent", "owner"} :
        /\ Fits(rest) /\ Within(rest) /\ NoMore(queue, rest)
        /\ queue' = With(rest, {p}, Message(d, 0))
  BY <1>1
<1> QED BY <1>0, <1>2, SentBack

\* The notifications are not counted.
LEMMA MailCopies ==
  ASSUME Fits(queue), MailNext, faults \in Nat, replays \in Nat
  PROVE  /\ \A p \in Counted : queue'[p] = queue[p]
         /\ faults' >= faults /\ replays' >= replays
<1>0. Counted \subseteq Place \ {"mail", "mailRetry", "mailDead"} /\ DOMAIN queue = Place
  BY DEF Counted, Place, RetryPlace, Fits
<1>1. \A to \in {"mail", "mailRetry", "mailDead"} : \A m : \A p \in Counted :
        With(queue, {to}, m)[p] = queue[p] /\ Without(queue, to, m)[p] = queue[p]
  BY <1>0 DEF With, Without
<1>2. \/ queue' = queue
      \/ \E to \in {"mail", "mailRetry", "mailDead"} : \E m :
           queue' = With(queue, {to}, m) \/ queue' = Without(queue, to, m)
  BY MailTouches DEF MailPlace
<1>3. faults' \in {faults, faults + 1}
  BY DEF MailNext, Fault
<1>4. replays' \in {replays, replays + 1}
  BY MailTouches
<1> QED BY <1>1, <1>2, <1>3, <1>4

(***************************************************************************)
(* What the outboxes are due to publish.                                    *)
(***************************************************************************)
LEMMA OwedType ==
  ASSUME NEW B, IsFiniteSet(B), NEW w
  PROVE  Owed(B, w) \in Nat
<1>1. Cardinality(B) \in Nat
  BY FS_CardinalityType
<1> QED BY <1>1 DEF Owed

LEMMA OwedLess ==
  ASSUME NEW B, IsFiniteSet(B), NEW w, NEW C \in SUBSET B, NEW v
  PROVE  /\ IsFiniteSet(C)
         /\ Owed(C, v) <= Owed(B, w) + 1
         /\ (v => w) => Owed(C, v) <= Owed(B, w)
<1>1. IsFiniteSet(C) /\ Cardinality(C) <= Cardinality(B)
  BY FS_Subset
<1>2. Cardinality(B) \in Nat /\ Cardinality(C) \in Nat
  BY <1>1, FS_CardinalityType
<1> QED BY <1>1, <1>2 DEF Owed

LEMMA OwedGone ==
  ASSUME NEW B, IsFiniteSet(B), NEW w, NEW p \in B, NEW C, C = B \ {p}, NEW v
  PROVE  /\ IsFiniteSet(C)
         /\ Owed(C, v) <= Owed(B, w)
         /\ (v => w) => Owed(C, v) + 1 <= Owed(B, w)
<1>1. IsFiniteSet(C) /\ Cardinality(C) = Cardinality(B) - 1
  BY FS_RemoveElement
<1>2. Cardinality(B) \in Nat /\ Cardinality(C) \in Nat
  BY <1>1, FS_CardinalityType
<1> QED BY <1>1, <1>2 DEF Owed

LEMMA OwedClaimed ==
  ASSUME NEW B, IsFiniteSet(B), NEW w, NEW p, NEW C \in SUBSET (B \cup {p}), NEW v, w, ~v
  PROVE  IsFiniteSet(C) /\ Owed(C, v) <= Owed(B, w)
<1>1. /\ IsFiniteSet(B \cup {p})
      /\ Cardinality(B \cup {p}) = Cardinality(B) \/ Cardinality(B \cup {p}) = Cardinality(B) + 1
  BY FS_AddElement
<1>2. IsFiniteSet(C) /\ Cardinality(C) <= Cardinality(B \cup {p})
  BY <1>1, FS_Subset
<1>3. Cardinality(B) \in Nat /\ Cardinality(C) \in Nat
  BY <1>2, FS_CardinalityType
<1> QED BY <1>1, <1>2, <1>3 DEF Owed

\* A worker takes an event of its batch in hand.
LEMMA DueHeld ==
  ASSUME NEW row, NEW pub, NEW pub2, NEW W, NEW p \in W,
         \A x \in W \ {p} : pub2[x] = pub[x],
         NEW d, d \in pub[p].batch, pub[p].at = "next", NEW y \in {"mark", "fail"},
         pub2[p] = [at |-> y, batch |-> pub[p].batch \ {d}, event |-> d],
         NEW e, IsFiniteSet(Batches(pub, W, e))
  PROVE  /\ IsFiniteSet(Batches(pub2, W, e))
         /\ Due(row, pub2, W, e) <= Due(row, pub, W, e)
         /\ e = d /\ y = "mark" => Due(row, pub2, W, e) + 1 <= Due(row, pub, W, e)
<1> DEFINE B == Batches(pub, W, e)
           C == Batches(pub2, W, e)
           w == Waiting(row, pub, W, e)
           v == Waiting(row, pub2, W, e)
<1>1. pub2[p].at = y /\ pub2[p].batch = pub[p].batch \ {d} /\ pub2[p].event = d
  OBVIOUS
<1>2. CASE e = d
  <2>1. p \in B /\ C = B \ {p}
    BY <1>1, <1>2 DEF Batches
  <2>2. y = "mark" => (v => w)
    BY <1>1, <1>2 DEF Waiting, InHand
  <2> HIDE DEF B, C, v, w
  <2>3. /\ IsFiniteSet(C) /\ Owed(C, v) <= Owed(B, w)
        /\ (v => w) => Owed(C, v) + 1 <= Owed(B, w)
    BY <2>1, OwedGone DEF B
  <2> QED BY <2>2, <2>3 DEF Due, B, C, v, w
<1>3. CASE e # d
  <2>1. C \in SUBSET B
    BY <1>1, <1>3 DEF Batches
  <2>2. v => w
    BY <1>1, <1>3 DEF Waiting, InHand
  <2> HIDE DEF B, C, v, w
  <2>3. IsFiniteSet(C) /\ Owed(C, v) <= Owed(B, w)
    BY <2>1, <2>2, OwedLess DEF B
  <2> QED BY <1>3, <2>3 DEF Due, B, C, v, w
<1> QED BY <1>2, <1>3

\* A worker that rested claims every free row.
LEMMA DueClaimed ==
  ASSUME NEW row, NEW row2, NEW pub, NEW pub2, NEW W, NEW p \in W,
         \A x \in W \ {p} : pub2[x] = pub[x],
         pub[p].at = "idle", pub[p].batch = {}, NEW free,
         pub2[p] = [at |-> "next", batch |-> free],
         NEW e, IsFiniteSet(Batches(pub, W, e)),
         e \in free => /\ row[e].state = "pending" /\ ~row[e].fresh
                       /\ row2[e].state = "pending" /\ row2[e].fresh /\ row2[e].holder = p,
         e \notin free => row2[e] = row[e]
  PROVE  /\ IsFiniteSet(Batches(pub2, W, e))
         /\ Due(row2, pub2, W, e) <= Due(row, pub, W, e)
<1> DEFINE B == Batches(pub, W, e)
           C == Batches(pub2, W, e)
           w == Waiting(row, pub, W, e)
           v == Waiting(row2, pub2, W, e)
<1>1. pub2[p].at = "next" /\ pub2[p].batch = free
  OBVIOUS
<1>2. CASE e \in free
  <2>1. C \in SUBSET (B \cup {p})
    BY DEF Batches
  <2>2. w /\ ~v
    BY <1>1, <1>2 DEF Waiting, InHand
  <2> HIDE DEF B, C, v, w
  <2>3. IsFiniteSet(C) /\ Owed(C, v) <= Owed(B, w)
    BY <2>1, <2>2, OwedClaimed DEF B
  <2> QED BY <2>3 DEF Due, B, C, v, w
<1>3. CASE e \notin free
  <2>1. C \in SUBSET B
    BY <1>1, <1>3 DEF Batches
  <2>2. v => w
    BY <1>1, <1>3 DEF Waiting, InHand
  <2> HIDE DEF B, C, v, w
  <2>3. IsFiniteSet(C) /\ Owed(C, v) <= Owed(B, w)
    BY <2>1, <2>2, OwedLess DEF B
  <2> QED BY <2>3 DEF Due, B, C, v, w
<1> QED BY <1>2, <1>3

\* A worker that is done with an event goes on with the rest of its batch, or
\* gives the batch up.
LEMMA DueLeft ==
  ASSUME NEW row, NEW row2, NEW pub, NEW pub2, NEW W, NEW p \in W,
         \A x \in W \ {p} : pub2[x] = pub[x],
         pub2[p].batch \subseteq pub[p].batch, pub2[p].at # "mark",
         NEW e, IsFiniteSet(Batches(pub, W, e)),
         \* the row it had in hand was due, or is no longer
         \/ row2[e] = row[e] /\ pub[p].at # "mark"
         \/ row2[e] = row[e] /\ (pub[p].event # e \/ row[e].holder # p)
         \/ row2[e] = row[e] /\ row[e].state # "pending"
         \/ row2[e].state \in {"published", "deleted"}
         \/ row[e].state = "pending" /\ row[e].holder = p
              /\ pub[p].at # "mark" /\ e \notin pub[p].batch
  PROVE  /\ IsFiniteSet(Batches(pub2, W, e))
         /\ Due(row2, pub2, W, e) <= Due(row, pub, W, e)
<1> DEFINE B == Batches(pub, W, e)
           C == Batches(pub2, W, e)
           w == Waiting(row, pub, W, e)
           v == Waiting(row2, pub2, W, e)
<1>1. C \in SUBSET B
  BY DEF Batches
<1>2. CASE p \in B /\ p \notin C
  <2>1. C = B \ {p}
    BY <1>2 DEF Batches
  <2> HIDE DEF B, C, v, w
  <2>2. IsFiniteSet(C) /\ Owed(C, v) <= Owed(B, w)
    BY <1>2, <2>1, OwedGone DEF B
  <2> QED BY <2>2 DEF Due, B, C, v, w
<1>3. CASE ~(p \in B /\ p \notin C)
  <2>0. e \in pub[p].batch => e \in pub2[p].batch
    BY <1>3 DEF Batches
  <2>1. v => w
    <3>1. CASE row2[e] = row[e]
      BY <2>0, <3>1 DEF Waiting, InHand
    <3>2. CASE row2[e].state \in {"published", "deleted"}
      BY <3>2 DEF Waiting
    <3>3. CASE /\ row[e].state = "pending" /\ row[e].holder = p
               /\ pub[p].at # "mark" /\ e \notin pub[p].batch
      BY <3>3 DEF Waiting, InHand
    <3> QED BY <3>1, <3>2, <3>3
  <2> HIDE DEF B, C, v, w
  <2>2. IsFiniteSet(C) /\ Owed(C, v) <= Owed(B, w)
    BY <1>1, <2>1, OwedLess DEF B
  <2> QED BY <2>2 DEF Due, B, C, v, w
<1> QED BY <1>2, <1>3

\* At worst, what was in hand is due again.
LEMMA DueAgain ==
  ASSUME NEW row, NEW row2, NEW pub, NEW pub2, NEW W,
         NEW e, IsFiniteSet(Batches(pub, W, e)),
         Batches(pub2, W, e) \subseteq Batches(pub, W, e)
  PROVE  /\ IsFiniteSet(Batches(pub2, W, e))
         /\ Due(row2, pub2, W, e) <= Due(row, pub, W, e) + 1
         /\ (Waiting(row2, pub2, W, e) => Waiting(row, pub, W, e)) =>
              Due(row2, pub2, W, e) <= Due(row, pub, W, e)
<1> DEFINE B == Batches(pub, W, e)
           C == Batches(pub2, W, e)
           w == Waiting(row, pub, W, e)
           v == Waiting(row2, pub2, W, e)
<1>1. C \in SUBSET B
  OBVIOUS
<1> HIDE DEF B, C, v, w
<1>2. /\ IsFiniteSet(C) /\ Owed(C, v) <= Owed(B, w) + 1
      /\ (v => w) => Owed(C, v) <= Owed(B, w)
  BY <1>1, OwedLess DEF B
<1> QED BY <1>2 DEF Due, B, C, v, w

\* A step that publishes nothing owes no more than its fault adds; one that
\* publishes has one message less to publish, or is a fault.
Spent == faults' - faults

LEMMA TodoDue ==
  ASSUME TodoOutboxTypeOK, Tidy(todoPublisher, TodoPublisher), TodoOutboxNext,
         \A e \in TodoEvent : IsFiniteSet(Batches(todoPublisher, TodoPublisher, e))
  PROVE  /\ Tidy(todoPublisher', TodoPublisher)
         /\ \A e \in TodoEvent : IsFiniteSet(Batches(todoPublisher', TodoPublisher, e))
         /\ faults' \in {faults, faults + 1}
         /\ \/ /\ queue' = queue
               /\ \A e \in TodoEvent :
                    Due(todoRow', todoPublisher', TodoPublisher, e)
                      <= Due(todoRow, todoPublisher, TodoPublisher, e) + Spent
            \/ \E d \in TodoEvent :
                 /\ queue' = Routed(queue, d, 0)
                 /\ \A e \in TodoEvent :
                      Due(todoRow', todoPublisher', TodoPublisher, e) + (IF e = d THEN 1 ELSE 0)
                        <= Due(todoRow, todoPublisher, TodoPublisher, e) + Spent
<1> DEFINE now(e) == Due(todoRow, todoPublisher, TodoPublisher, e)
           then(e) == Due(todoRow', todoPublisher', TodoPublisher, e)
           Sound == Tidy(todoPublisher', TodoPublisher)
           Few == \A e \in TodoEvent : IsFiniteSet(Batches(todoPublisher', TodoPublisher, e))
           Quiet == queue' = queue /\ \A e \in TodoEvent : then(e) <= now(e) + Spent
           Loud == \E d \in TodoEvent :
                     /\ queue' = Routed(queue, d, 0)
                     /\ \A e \in TodoEvent :
                          then(e) + (IF e = d THEN 1 ELSE 0) <= now(e) + Spent
           Counts == faults' \in {faults, faults + 1}
           Goal == Sound /\ Few /\ Counts /\ (Quiet \/ Loud)
<1>0. /\ DOMAIN todoRow = TodoEvent /\ DOMAIN todoPublisher = TodoPublisher
      /\ faults \in Nat /\ NoPublisher \notin TodoPublisher
  BY OutboxAssumption DEF TodoOutboxTypeOK
<1>a. \A e \in TodoEvent : /\ DOMAIN todoRow[e] = {"state", "holder", "fresh"}
                           /\ todoRow[e].fresh \in BOOLEAN
  BY DEF TodoOutboxTypeOK
<1>b. \A p \in TodoPublisher :
        /\ todoPublisher[p].at \in {"idle", "next", "mark", "fail"}
        /\ todoPublisher[p].at \in {"mark", "fail"} =>
             /\ todoPublisher[p].event \in TodoEvent
             /\ DOMAIN todoPublisher[p] = {"at", "batch", "event"}
        /\ todoPublisher[p].batch \in SUBSET TodoEvent
  BY DEF TodoOutboxTypeOK
<1>c. \A e \in TodoEvent : now(e) \in Nat
  BY OwedType DEF Due
<1>d. ASSUME Few, NEW e \in TodoEvent PROVE then(e) \in Nat
  BY <1>d, OwedType DEF Due
<1>e. /\ faults' = faults => Spent = 0
      /\ faults' = faults + 1 => Spent = 1
  BY <1>0 DEF Spent
\* of the rows alone
<1>f. ASSUME UNCHANGED <<todoPublisher, queue>>,
             \/ faults' = faults + 1
             \/ /\ faults' = faults
                /\ \A e \in TodoEvent : Waiting(todoRow', todoPublisher, TodoPublisher, e) =>
                                          Waiting(todoRow, todoPublisher, TodoPublisher, e)
      PROVE  Goal
  <2>1. Sound /\ Few /\ Counts
    BY <1>f
  <2>2. ASSUME NEW e \in TodoEvent
        PROVE  /\ then(e) <= now(e) + 1
               /\ faults' = faults => then(e) <= now(e)
    <3>1. todoPublisher' = todoPublisher
      BY <1>f
    <3>2. /\ IsFiniteSet(Batches(todoPublisher, TodoPublisher, e))
          /\ Batches(todoPublisher', TodoPublisher, e) \subseteq
               Batches(todoPublisher, TodoPublisher, e)
      BY <3>1
    <3>3. faults' = faults => (Waiting(todoRow', todoPublisher', TodoPublisher, e) =>
                                 Waiting(todoRow, todoPublisher, TodoPublisher, e))
      BY <1>0, <1>f, <3>1
    <3>4. /\ then(e) <= now(e) + 1
          /\ (Waiting(todoRow', todoPublisher', TodoPublisher, e) =>
                Waiting(todoRow, todoPublisher, TodoPublisher, e)) => then(e) <= now(e)
      BY <3>2, DueAgain
    <3> QED BY <3>3, <3>4
  <2>3. \A e \in TodoEvent : then(e) <= now(e) + Spent
    <3> HIDE DEF now, then
    <3> QED BY <1>c, <1>d, <1>e, <1>f, <2>1, <2>2
  <2> HIDE DEF now, then
  <2> QED BY <1>f, <2>1, <2>3
\* of a worker that stops, or whose channel closes
<1>g. ASSUME UNCHANGED <<todoRow, queue>>, faults' = faults + 1, NEW p \in TodoPublisher,
             \/ todoPublisher' = todoPublisher
             \/ todoPublisher' = [todoPublisher EXCEPT ![p] = Resting]
      PROVE  Goal
  <2>1. /\ \A x \in TodoPublisher \ {p} : todoPublisher'[x] = todoPublisher[x]
        /\ \/ todoPublisher'[p] = todoPublisher[p]
           \/ todoPublisher'[p].at = "idle" /\ todoPublisher'[p].batch = {}
    BY <1>0, <1>g DEF Resting
  <2>2. Sound
    BY <2>1 DEF Tidy
  <2>3. ASSUME NEW e \in TodoEvent
        PROVE  IsFiniteSet(Batches(todoPublisher', TodoPublisher, e)) /\ then(e) <= now(e) + 1
    <3>1. Batches(todoPublisher', TodoPublisher, e)
            \subseteq Batches(todoPublisher, TodoPublisher, e)
      BY <2>1 DEF Batches
    <3> QED BY <3>1, DueAgain
  <2>4. Few
    BY <2>3
  <2>5. \A e \in TodoEvent : then(e) <= now(e) + Spent
    <3> HIDE DEF now, then
    <3> QED BY <1>c, <1>d, <1>e, <1>g, <2>3, <2>4
  <2> HIDE DEF now, then
  <2> QED BY <1>g, <2>2, <2>4, <2>5
<1>1. ASSUME NEW d \in TodoEvent, Append(d) PROVE Goal
  <2>1. /\ UNCHANGED <<todoPublisher, queue, faults>> /\ todoRow[d].state = "none"
        /\ \A e \in TodoEvent : e # d => todoRow'[e] = todoRow[e]
    BY <1>1 DEF Append
  <2>2. \A e \in TodoEvent : Waiting(todoRow', todoPublisher, TodoPublisher, e) =>
                               Waiting(todoRow, todoPublisher, TodoPublisher, e)
    BY <2>1 DEF Waiting, InHand
  <2> QED BY <1>f, <2>1, <2>2
<1>2. ASSUME NEW d \in TodoEvent, LockLapses(d) PROVE Goal
  <2>1. /\ UNCHANGED <<todoPublisher, queue>>
        /\ \A e \in TodoEvent : e # d => todoRow'[e] = todoRow[e]
        /\ todoRow'[d].state = todoRow[d].state /\ todoRow[d].fresh
        /\ \/ faults' = faults + 1
           \/ faults' = faults /\ todoPublisher[todoRow[d].holder].at = "idle"
    BY <1>0, <1>2 DEF LockLapses, Fault
  <2>2. CASE faults' = faults + 1
    BY <1>f, <2>1, <2>2
  <2>3. CASE faults' = faults /\ todoPublisher[todoRow[d].holder].at = "idle"
    <3>1. ~InHand(todoRow, todoPublisher, TodoPublisher, d)
      BY <2>3 DEF InHand, Tidy
    <3>2. \A e \in TodoEvent : Waiting(todoRow', todoPublisher, TodoPublisher, e) =>
                                 Waiting(todoRow, todoPublisher, TodoPublisher, e)
      BY <2>1, <3>1 DEF Waiting, InHand
    <3> QED BY <1>f, <2>1, <2>3, <3>2
  <2> QED BY <2>1, <2>2, <2>3
<1>3. ASSUME NEW d \in TodoEvent, CleanUpRow(d) PROVE Goal
  BY <1>3, <1>f DEF CleanUpRow, Fault
<1>4. ASSUME NEW p \in TodoPublisher, ConnectionCloses(p) \/ PublisherStops(p) PROVE Goal
  BY <1>4, <1>g DEF ConnectionCloses, PublisherStops, Fault
<1>5. ASSUME NEW p \in TodoPublisher, ClaimPendingEvents(p) PROVE Goal
  <2> DEFINE free == {e \in TodoEvent : todoRow[e].state = "pending" /\ ~todoRow[e].fresh}
  <2>1. /\ todoPublisher[p].at = "idle" /\ todoPublisher[p].batch = {}
        /\ UNCHANGED <<faults, queue>>
    BY <1>5 DEF ClaimPendingEvents, Tidy
  <2>2. /\ todoPublisher'[p] = [at |-> "next", batch |-> free]
        /\ \A x \in TodoPublisher \ {p} : todoPublisher'[x] = todoPublisher[x]
    BY <1>0, <1>5 DEF ClaimPendingEvents
  <2>3. ASSUME NEW e \in TodoEvent
        PROVE  /\ e \in free => /\ todoRow[e].state = "pending" /\ ~todoRow[e].fresh
                                /\ todoRow'[e].state = "pending" /\ todoRow'[e].fresh
                                /\ todoRow'[e].holder = p
               /\ e \notin free => todoRow'[e] = todoRow[e]
    <3>1. todoRow'[e] = IF e \in free THEN [todoRow[e] EXCEPT !.holder = p, !.fresh = TRUE]
                        ELSE todoRow[e]
      BY <1>5 DEF ClaimPendingEvents
    <3> QED BY <1>a, <3>1
  <2>4. Sound
    <3> HIDE DEF free
    <3> QED BY <2>2 DEF Tidy
  <2>5. ASSUME NEW e \in TodoEvent
        PROVE  IsFiniteSet(Batches(todoPublisher', TodoPublisher, e)) /\ then(e) <= now(e)
    <3> HIDE DEF free
    <3> QED BY <2>1, <2>2, <2>3, DueClaimed
  <2>6. Few
    BY <2>5
  <2>7. \A e \in TodoEvent : then(e) <= now(e) + Spent
    <3> HIDE DEF now, then
    <3> QED BY <1>c, <1>d, <1>e, <2>1, <2>5, <2>6
  <2> HIDE DEF now, then, free
  <2> QED BY <2>1, <2>4, <2>6, <2>7
<1>6. ASSUME NEW p \in TodoPublisher, NEW d \in TodoEvent, Publish(p, d) \/ ConfirmLost(p, d)
      PROVE  Goal
  <2>1. /\ todoPublisher[p].at = "next" /\ d \in todoPublisher[p].batch
        /\ UNCHANGED todoRow
        /\ \/ /\ faults' = faults /\ Hold(p, d, "mark")
              /\ queue' = Routed(queue, d, 0)
           \/ /\ faults' = faults /\ Hold(p, d, "fail")
              /\ queue' = queue
           \/ /\ faults' = faults + 1 /\ Hold(p, d, "fail")
              /\ queue' = Routed(queue, d, 0)
    BY <1>6 DEF Publish, ConfirmLost, Fault
  <2>2. PICK y \in {"mark", "fail"} :
          /\ Hold(p, d, y)
          /\ \/ faults' = faults /\ y = "mark" /\ queue' = Routed(queue, d, 0)
             \/ faults' = faults /\ y = "fail" /\ queue' = queue
             \/ faults' = faults + 1 /\ y = "fail" /\ queue' = Routed(queue, d, 0)
    BY <2>1
  <2>3. /\ todoPublisher'[p] =
             [at |-> y, batch |-> todoPublisher[p].batch \ {d}, event |-> d]
        /\ \A x \in TodoPublisher \ {p} : todoPublisher'[x] = todoPublisher[x]
    BY <1>0, <2>2 DEF Hold
  <2>4. Sound
    BY <2>3 DEF Tidy
  <2>5. ASSUME NEW e \in TodoEvent
        PROVE  /\ IsFiniteSet(Batches(todoPublisher', TodoPublisher, e))
               /\ then(e) <= now(e)
               /\ e = d /\ y = "mark" => then(e) + 1 <= now(e)
    <3>1. todoRow' = todoRow
      BY <2>1
    <3> QED BY <2>1, <2>3, <3>1, DueHeld
  <2>6. Few
    BY <2>5
  <2>7. CASE queue' = queue /\ faults' = faults
    <3>1. \A e \in TodoEvent : then(e) <= now(e) + Spent
      <4> HIDE DEF now, then
      <4> QED BY <1>c, <1>d, <1>e, <2>5, <2>6, <2>7
    <3> HIDE DEF now, then
    <3> QED BY <2>4, <2>6, <2>7, <3>1
  <2>8. CASE ~(queue' = queue /\ faults' = faults)
    <3>1. queue' = Routed(queue, d, 0) /\ Counts
      BY <2>2, <2>8
    <3>2. ASSUME NEW e \in TodoEvent
          PROVE  then(e) + (IF e = d THEN 1 ELSE 0) <= now(e) + Spent
      <4> HIDE DEF now, then
      <4> QED BY <1>c, <1>d, <1>e, <2>2, <2>5, <2>6, <2>8
    <3> HIDE DEF now, then
    <3> QED BY <2>4, <2>6, <3>1, <3>2
  <2> QED BY <2>7, <2>8
\* of a worker that is done with an event
<1>h. ASSUME NEW p \in TodoPublisher, UNCHANGED <<faults, queue>>,
             \A x \in TodoPublisher \ {p} : todoPublisher'[x] = todoPublisher[x],
             todoPublisher'[p].batch \subseteq todoPublisher[p].batch,
             todoPublisher'[p].at # "mark", Sound,
             \A e \in TodoEvent :
               \/ todoRow'[e] = todoRow[e] /\ todoPublisher[p].at # "mark"
               \/ todoRow'[e] = todoRow[e] /\ (todoPublisher[p].event # e \/ todoRow[e].holder # p)
               \/ todoRow'[e] = todoRow[e] /\ todoRow[e].state # "pending"
               \/ todoRow'[e].state \in {"published", "deleted"}
               \/ todoRow[e].state = "pending" /\ todoRow[e].holder = p
                    /\ todoPublisher[p].at # "mark" /\ e \notin todoPublisher[p].batch
      PROVE  Goal
  <2>1. ASSUME NEW e \in TodoEvent
        PROVE  IsFiniteSet(Batches(todoPublisher', TodoPublisher, e)) /\ then(e) <= now(e)
    BY <1>h, DueLeft
  <2>2. Few
    BY <2>1
  <2>3. \A e \in TodoEvent : then(e) <= now(e) + Spent
    <3> HIDE DEF now, then
    <3> QED BY <1>c, <1>d, <1>e, <1>h, <2>1, <2>2
  <2> HIDE DEF now, then
  <2> QED BY <1>h, <2>2, <2>3
<1>i. ASSUME NEW p \in TodoPublisher, Advance(p)
      PROVE  /\ \A x \in TodoPublisher \ {p} : todoPublisher'[x] = todoPublisher[x]
             /\ todoPublisher'[p].batch = todoPublisher[p].batch
             /\ todoPublisher'[p].at # "mark" /\ Sound
  <2>1. \A x \in TodoPublisher \ {p} : todoPublisher'[x] = todoPublisher[x]
    BY <1>0, <1>i DEF Advance
  <2>2. \/ /\ todoPublisher[p].batch = {}
           /\ todoPublisher'[p].at = "idle" /\ todoPublisher'[p].batch = {}
        \/ /\ todoPublisher'[p].at = "next"
           /\ todoPublisher'[p].batch = todoPublisher[p].batch
    BY <1>0, <1>i DEF Advance, Resting
  <2> QED BY <2>1, <2>2 DEF Tidy
<1>7. ASSUME NEW p \in TodoPublisher, MarkPublished(p) PROVE Goal
  <2>1. PICK d \in TodoEvent : d = todoPublisher[p].event
    BY <1>b, <1>7 DEF MarkPublished
  <2>2. todoPublisher[p].at = "mark" /\ UNCHANGED <<faults, queue>>
    BY <1>7 DEF MarkPublished
  <2>3. CASE Owns(p, d)
    <3>1. /\ Advance(p)
          /\ todoRow' = [todoRow EXCEPT ![d] = [Unlocked(todoRow[d]) EXCEPT !.state = "published"]]
      BY <1>7, <2>1, <2>3 DEF MarkPublished
    <3>2. /\ todoRow'[d].state = "published"
          /\ \A e \in TodoEvent : e # d => todoRow'[e] = todoRow[e]
      BY <1>0, <1>a, <3>1 DEF Unlocked
    <3> HIDE DEF Goal, Sound
    <3> QED BY <1>h, <1>i, <2>1, <2>2, <3>1, <3>2
  <2>4. CASE ~Owns(p, d)
    <3>1. /\ todoPublisher' = [todoPublisher EXCEPT ![p].at = "fail"]
          /\ UNCHANGED todoRow
      BY <1>7, <2>1, <2>4 DEF MarkPublished
    <3>2. /\ \A x \in TodoPublisher \ {p} : todoPublisher'[x] = todoPublisher[x]
          /\ todoPublisher'[p].at = "fail" /\ todoPublisher'[p].batch = todoPublisher[p].batch
          /\ todoPublisher'[p].event = todoPublisher[p].event
      BY <1>0, <1>b, <2>2, <3>1
    <3>3. Sound
      BY <2>2, <3>2 DEF Tidy
    <3>4. \A e \in TodoEvent :
            /\ todoRow'[e] = todoRow[e]
            /\ \/ todoPublisher[p].event # e \/ todoRow[e].holder # p
               \/ todoRow[e].state # "pending"
      BY <2>1, <2>4, <3>1 DEF Owns
    <3> HIDE DEF Goal, Sound
    <3> QED BY <1>h, <2>2, <3>2, <3>3, <3>4
  <2> QED BY <2>3, <2>4
<1>8. ASSUME NEW p \in TodoPublisher, MarkFailed(p) PROVE Goal
  <2>1. PICK d \in TodoEvent : d = todoPublisher[p].event
    BY <1>b, <1>8 DEF MarkFailed
  <2>2. /\ todoPublisher[p].at = "fail" /\ UNCHANGED <<faults, queue>>
        /\ d \notin todoPublisher[p].batch
    BY <1>8, <2>1 DEF MarkFailed, Tidy
  <2>3. CASE Owns(p, d)
    <3>1. Advance(p) /\ todoRow' = [todoRow EXCEPT ![d] = Unlocked(todoRow[d])]
      BY <1>8, <2>1, <2>3 DEF MarkFailed
    <3>2. \A e \in TodoEvent : e # d => todoRow'[e] = todoRow[e]
      BY <3>1
    <3>3. todoRow[d].state = "pending" /\ todoRow[d].holder = p
      BY <2>3 DEF Owns
    <3> HIDE DEF Goal, Sound
    <3> QED BY <1>h, <1>i, <2>2, <3>1, <3>2, <3>3
  <2>4. CASE ~Owns(p, d)
    <3>1. todoPublisher' = [todoPublisher EXCEPT ![p] = Resting] /\ UNCHANGED todoRow
      BY <1>8, <2>1, <2>4 DEF MarkFailed
    <3>2. /\ \A x \in TodoPublisher \ {p} : todoPublisher'[x] = todoPublisher[x]
          /\ todoPublisher'[p].at = "idle" /\ todoPublisher'[p].batch = {}
      BY <1>0, <3>1 DEF Resting
    <3>3. Sound
      BY <3>2 DEF Tidy
    <3> HIDE DEF Goal, Sound
    <3> QED BY <1>h, <2>2, <3>1, <3>2, <3>3
  <2> QED BY <2>3, <2>4
<1>9. Goal
  <2> HIDE DEF Goal
  <2> QED BY <1>1, <1>2, <1>3, <1>4, <1>5, <1>6, <1>7, <1>8 DEF TodoOutboxNext, TodoPublisherStep
<1> HIDE DEF now, then
<1> QED BY <1>9 DEF now, then

LEMMA AccountDue ==
  ASSUME AccountOutboxTypeOK, faults \in Nat, Tidy(accountPublisher, AccountPublisher),
         AccountOutboxNext,
         \A e \in AccountEvent : IsFiniteSet(Batches(accountPublisher, AccountPublisher, e))
  PROVE  /\ Tidy(accountPublisher', AccountPublisher)
         /\ \A e \in AccountEvent : IsFiniteSet(Batches(accountPublisher', AccountPublisher, e))
         /\ faults' \in {faults, faults + 1}
         /\ \/ /\ queue' = queue
               /\ \A e \in AccountEvent :
                    Due(accountRow', accountPublisher', AccountPublisher, e)
                      <= Due(accountRow, accountPublisher, AccountPublisher, e) + Spent
            \/ \E d \in AccountEvent :
                 /\ queue' = Routed(queue, d, 0)
                 /\ \A e \in AccountEvent :
                      Due(accountRow', accountPublisher', AccountPublisher, e)
                          + (IF e = d THEN 1 ELSE 0)
                        <= Due(accountRow, accountPublisher, AccountPublisher, e) + Spent
<1> DEFINE now(e) == Due(accountRow, accountPublisher, AccountPublisher, e)
           then(e) == Due(accountRow', accountPublisher', AccountPublisher, e)
           Sound == Tidy(accountPublisher', AccountPublisher)
           Few == \A e \in AccountEvent :
                    IsFiniteSet(Batches(accountPublisher', AccountPublisher, e))
           Quiet == queue' = queue /\ \A e \in AccountEvent : then(e) <= now(e) + Spent
           Loud == \E d \in AccountEvent :
                     /\ queue' = Routed(queue, d, 0)
                     /\ \A e \in AccountEvent :
                          then(e) + (IF e = d THEN 1 ELSE 0) <= now(e) + Spent
           Counts == faults' \in {faults, faults + 1}
           Goal == Sound /\ Few /\ Counts /\ (Quiet \/ Loud)
<1>0. /\ DOMAIN accountRow = AccountEvent /\ DOMAIN accountPublisher = AccountPublisher
      /\ NoPublisher \notin AccountPublisher
  BY AccountOutboxAssumption DEF AccountOutboxTypeOK
<1>a. \A e \in AccountEvent : /\ DOMAIN accountRow[e] = {"state", "holder", "fresh"}
                           /\ accountRow[e].fresh \in BOOLEAN
  BY DEF AccountOutboxTypeOK
<1>b. \A p \in AccountPublisher :
        /\ accountPublisher[p].at \in {"idle", "next", "mark", "fail"}
        /\ accountPublisher[p].at \in {"mark", "fail"} =>
             /\ accountPublisher[p].event \in AccountEvent
             /\ DOMAIN accountPublisher[p] = {"at", "batch", "event"}
        /\ accountPublisher[p].batch \in SUBSET AccountEvent
  BY DEF AccountOutboxTypeOK
<1>c. \A e \in AccountEvent : now(e) \in Nat
  BY OwedType DEF Due
<1>d. ASSUME Few, NEW e \in AccountEvent PROVE then(e) \in Nat
  BY <1>d, OwedType DEF Due
<1>e. /\ faults' = faults => Spent = 0
      /\ faults' = faults + 1 => Spent = 1
  BY <1>0 DEF Spent
\* of the rows alone
<1>f. ASSUME UNCHANGED <<accountPublisher, queue>>,
             \/ faults' = faults + 1
             \/ /\ faults' = faults
                /\ \A e \in AccountEvent :
                     Waiting(accountRow', accountPublisher, AccountPublisher, e) =>
                       Waiting(accountRow, accountPublisher, AccountPublisher, e)
      PROVE  Goal
  <2>1. Sound /\ Few /\ Counts
    BY <1>f
  <2>2. ASSUME NEW e \in AccountEvent
        PROVE  /\ then(e) <= now(e) + 1
               /\ faults' = faults => then(e) <= now(e)
    <3>1. accountPublisher' = accountPublisher
      BY <1>f
    <3>2. /\ IsFiniteSet(Batches(accountPublisher, AccountPublisher, e))
          /\ Batches(accountPublisher', AccountPublisher, e) \subseteq
               Batches(accountPublisher, AccountPublisher, e)
      BY <3>1
    <3>3. faults' = faults => (Waiting(accountRow', accountPublisher', AccountPublisher, e) =>
                                 Waiting(accountRow, accountPublisher, AccountPublisher, e))
      BY <1>0, <1>f, <3>1
    <3>4. /\ then(e) <= now(e) + 1
          /\ (Waiting(accountRow', accountPublisher', AccountPublisher, e) =>
                Waiting(accountRow, accountPublisher, AccountPublisher, e)) => then(e) <= now(e)
      BY <3>2, DueAgain
    <3> QED BY <3>3, <3>4
  <2>3. \A e \in AccountEvent : then(e) <= now(e) + Spent
    <3> HIDE DEF now, then
    <3> QED BY <1>c, <1>d, <1>e, <1>f, <2>1, <2>2
  <2> HIDE DEF now, then
  <2> QED BY <1>f, <2>1, <2>3
\* of a worker that stops, or whose channel closes
<1>g. ASSUME UNCHANGED <<accountRow, queue>>, faults' = faults + 1, NEW p \in AccountPublisher,
             \/ accountPublisher' = accountPublisher
             \/ accountPublisher' = [accountPublisher EXCEPT ![p] = Resting]
      PROVE  Goal
  <2>1. /\ \A x \in AccountPublisher \ {p} : accountPublisher'[x] = accountPublisher[x]
        /\ \/ accountPublisher'[p] = accountPublisher[p]
           \/ accountPublisher'[p].at = "idle" /\ accountPublisher'[p].batch = {}
    BY <1>0, <1>g DEF Resting
  <2>2. Sound
    BY <2>1 DEF Tidy
  <2>3. ASSUME NEW e \in AccountEvent
        PROVE  IsFiniteSet(Batches(accountPublisher', AccountPublisher, e)) /\ then(e) <= now(e) + 1
    <3>1. Batches(accountPublisher', AccountPublisher, e)
            \subseteq Batches(accountPublisher, AccountPublisher, e)
      BY <2>1 DEF Batches
    <3> QED BY <3>1, DueAgain
  <2>4. Few
    BY <2>3
  <2>5. \A e \in AccountEvent : then(e) <= now(e) + Spent
    <3> HIDE DEF now, then
    <3> QED BY <1>c, <1>d, <1>e, <1>g, <2>3, <2>4
  <2> HIDE DEF now, then
  <2> QED BY <1>g, <2>2, <2>4, <2>5
<1>1. ASSUME NEW d \in AccountEvent, Register(d) PROVE Goal
  <2>1. /\ UNCHANGED <<accountPublisher, queue, faults>> /\ accountRow[d].state = "none"
        /\ \A e \in AccountEvent : e # d => accountRow'[e] = accountRow[e]
    BY <1>1 DEF Register
  <2>2. \A e \in AccountEvent : Waiting(accountRow', accountPublisher, AccountPublisher, e) =>
                               Waiting(accountRow, accountPublisher, AccountPublisher, e)
    BY <2>1 DEF Waiting, InHand
  <2> QED BY <1>f, <2>1, <2>2
<1>2. ASSUME NEW d \in AccountEvent, AccountLockLapses(d) PROVE Goal
  <2>1. /\ UNCHANGED <<accountPublisher, queue>>
        /\ \A e \in AccountEvent : e # d => accountRow'[e] = accountRow[e]
        /\ accountRow'[d].state = accountRow[d].state /\ accountRow[d].fresh
        /\ \/ faults' = faults + 1
           \/ faults' = faults /\ accountPublisher[accountRow[d].holder].at = "idle"
    BY <1>0, <1>2 DEF AccountLockLapses, Fault
  <2>2. CASE faults' = faults + 1
    BY <1>f, <2>1, <2>2
  <2>3. CASE faults' = faults /\ accountPublisher[accountRow[d].holder].at = "idle"
    <3>1. ~InHand(accountRow, accountPublisher, AccountPublisher, d)
      BY <2>3 DEF InHand, Tidy
    <3>2. \A e \in AccountEvent : Waiting(accountRow', accountPublisher, AccountPublisher, e) =>
                                 Waiting(accountRow, accountPublisher, AccountPublisher, e)
      BY <2>1, <3>1 DEF Waiting, InHand
    <3> QED BY <1>f, <2>1, <2>3, <3>2
  <2> QED BY <2>1, <2>2, <2>3
<1>3. ASSUME NEW p \in AccountPublisher, Connect(p) \/ ReleaseWorkerLocks(p) PROVE Goal
  <2>1. /\ UNCHANGED <<accountPublisher, queue, faults>>
        /\ \/ accountRow' = accountRow
           \/ /\ accountPublisher[p].at = "idle"
              /\ accountRow' = [e \in AccountEvent |-> IF OwnsAccount(p, e)
                                THEN Unlocked(accountRow[e]) ELSE accountRow[e]]
    BY <1>3 DEF Connect, ReleaseWorkerLocks
  <2>2. ASSUME NEW e \in AccountEvent,
               Waiting(accountRow', accountPublisher, AccountPublisher, e)
        PROVE  Waiting(accountRow, accountPublisher, AccountPublisher, e)
    <3>1. CASE accountRow'[e] = accountRow[e]
      BY <2>2, <3>1 DEF Waiting, InHand
    <3>2. CASE accountRow'[e] # accountRow[e]
      <4>1. accountPublisher[p].at = "idle" /\ OwnsAccount(p, e)
        BY <2>1, <3>2
      <4>2. ~InHand(accountRow, accountPublisher, AccountPublisher, e)
        BY <4>1 DEF OwnsAccount, InHand, Tidy
      <4> QED BY <4>1, <4>2 DEF Waiting, OwnsAccount
    <3> QED BY <3>1, <3>2
  <2> QED BY <1>f, <2>1, <2>2
<1>4. ASSUME NEW p \in AccountPublisher, PublisherCloses(p) \/ AccountPublisherDies(p) PROVE Goal
  BY <1>4, <1>g DEF PublisherCloses, AccountPublisherDies, Fault
<1>5. ASSUME NEW p \in AccountPublisher, ClaimAccountEvents(p) PROVE Goal
  <2> DEFINE free == {e \in AccountEvent : accountRow[e].state = "pending" /\ ~accountRow[e].fresh}
  <2>1. /\ accountPublisher[p].at = "idle" /\ accountPublisher[p].batch = {}
        /\ UNCHANGED <<faults, queue>>
    BY <1>5 DEF ClaimAccountEvents, Tidy
  <2>2. /\ accountPublisher'[p] = [at |-> "next", batch |-> free]
        /\ \A x \in AccountPublisher \ {p} : accountPublisher'[x] = accountPublisher[x]
    BY <1>0, <1>5 DEF ClaimAccountEvents
  <2>3. ASSUME NEW e \in AccountEvent
        PROVE  /\ e \in free => /\ accountRow[e].state = "pending" /\ ~accountRow[e].fresh
                                /\ accountRow'[e].state = "pending" /\ accountRow'[e].fresh
                                /\ accountRow'[e].holder = p
               /\ e \notin free => accountRow'[e] = accountRow[e]
    <3>1. accountRow'[e] = IF e \in free THEN [accountRow[e] EXCEPT !.holder = p, !.fresh = TRUE]
                        ELSE accountRow[e]
      BY <1>5 DEF ClaimAccountEvents
    <3> QED BY <1>a, <3>1
  <2>4. Sound
    <3> HIDE DEF free
    <3> QED BY <2>2 DEF Tidy
  <2>5. ASSUME NEW e \in AccountEvent
        PROVE  IsFiniteSet(Batches(accountPublisher', AccountPublisher, e)) /\ then(e) <= now(e)
    <3> HIDE DEF free
    <3> QED BY <2>1, <2>2, <2>3, DueClaimed
  <2>6. Few
    BY <2>5
  <2>7. \A e \in AccountEvent : then(e) <= now(e) + Spent
    <3> HIDE DEF now, then
    <3> QED BY <1>c, <1>d, <1>e, <2>1, <2>5, <2>6
  <2> HIDE DEF now, then, free
  <2> QED BY <2>1, <2>4, <2>6, <2>7
<1>6. ASSUME NEW p \in AccountPublisher, NEW d \in AccountEvent,
             PublishAccountEvent(p, d) \/ AccountConfirmLost(p, d)
      PROVE  Goal
  <2>1. /\ accountPublisher[p].at = "next" /\ d \in accountPublisher[p].batch
        /\ UNCHANGED accountRow
        /\ \/ /\ faults' = faults /\ HoldAccount(p, d, "mark")
              /\ queue' = Routed(queue, d, 0)
           \/ /\ faults' = faults /\ HoldAccount(p, d, "fail")
              /\ queue' = queue
           \/ /\ faults' = faults + 1 /\ HoldAccount(p, d, "fail")
              /\ queue' = Routed(queue, d, 0)
    BY <1>6 DEF PublishAccountEvent, AccountConfirmLost, Fault
  <2>2. PICK y \in {"mark", "fail"} :
          /\ HoldAccount(p, d, y)
          /\ \/ faults' = faults /\ y = "mark" /\ queue' = Routed(queue, d, 0)
             \/ faults' = faults /\ y = "fail" /\ queue' = queue
             \/ faults' = faults + 1 /\ y = "fail" /\ queue' = Routed(queue, d, 0)
    BY <2>1
  <2>3. /\ accountPublisher'[p] =
             [at |-> y, batch |-> accountPublisher[p].batch \ {d}, event |-> d]
        /\ \A x \in AccountPublisher \ {p} : accountPublisher'[x] = accountPublisher[x]
    BY <1>0, <2>2 DEF HoldAccount
  <2>4. Sound
    BY <2>3 DEF Tidy
  <2>5. ASSUME NEW e \in AccountEvent
        PROVE  /\ IsFiniteSet(Batches(accountPublisher', AccountPublisher, e))
               /\ then(e) <= now(e)
               /\ e = d /\ y = "mark" => then(e) + 1 <= now(e)
    <3>1. accountRow' = accountRow
      BY <2>1
    <3> QED BY <2>1, <2>3, <3>1, DueHeld
  <2>6. Few
    BY <2>5
  <2>7. CASE queue' = queue /\ faults' = faults
    <3>1. \A e \in AccountEvent : then(e) <= now(e) + Spent
      <4> HIDE DEF now, then
      <4> QED BY <1>c, <1>d, <1>e, <2>5, <2>6, <2>7
    <3> HIDE DEF now, then
    <3> QED BY <2>4, <2>6, <2>7, <3>1
  <2>8. CASE ~(queue' = queue /\ faults' = faults)
    <3>1. queue' = Routed(queue, d, 0) /\ Counts
      BY <2>2, <2>8
    <3>2. ASSUME NEW e \in AccountEvent
          PROVE  then(e) + (IF e = d THEN 1 ELSE 0) <= now(e) + Spent
      <4> HIDE DEF now, then
      <4> QED BY <1>c, <1>d, <1>e, <2>2, <2>5, <2>6, <2>8
    <3> HIDE DEF now, then
    <3> QED BY <2>4, <2>6, <3>1, <3>2
  <2> QED BY <2>7, <2>8
\* of a worker that is done with an event
<1>h. ASSUME NEW p \in AccountPublisher, UNCHANGED <<faults, queue>>,
             \A x \in AccountPublisher \ {p} : accountPublisher'[x] = accountPublisher[x],
             accountPublisher'[p].batch \subseteq accountPublisher[p].batch,
             accountPublisher'[p].at # "mark", Sound,
             \A e \in AccountEvent :
               \/ accountRow'[e] = accountRow[e] /\ accountPublisher[p].at # "mark"
               \/ /\ accountRow'[e] = accountRow[e]
                  /\ accountPublisher[p].event # e \/ accountRow[e].holder # p
               \/ accountRow'[e] = accountRow[e] /\ accountRow[e].state # "pending"
               \/ accountRow'[e].state \in {"published", "deleted"}
               \/ accountRow[e].state = "pending" /\ accountRow[e].holder = p
                    /\ accountPublisher[p].at # "mark" /\ e \notin accountPublisher[p].batch
      PROVE  Goal
  <2>1. ASSUME NEW e \in AccountEvent
        PROVE  IsFiniteSet(Batches(accountPublisher', AccountPublisher, e)) /\ then(e) <= now(e)
    BY <1>h, DueLeft
  <2>2. Few
    BY <2>1
  <2>3. \A e \in AccountEvent : then(e) <= now(e) + Spent
    <3> HIDE DEF now, then
    <3> QED BY <1>c, <1>d, <1>e, <1>h, <2>1, <2>2
  <2> HIDE DEF now, then
  <2> QED BY <1>h, <2>2, <2>3
<1>i. ASSUME NEW p \in AccountPublisher, AdvanceAccount(p)
      PROVE  /\ \A x \in AccountPublisher \ {p} : accountPublisher'[x] = accountPublisher[x]
             /\ accountPublisher'[p].batch = accountPublisher[p].batch
             /\ accountPublisher'[p].at # "mark" /\ Sound
  <2>1. \A x \in AccountPublisher \ {p} : accountPublisher'[x] = accountPublisher[x]
    BY <1>0, <1>i DEF AdvanceAccount
  <2>2. \/ /\ accountPublisher[p].batch = {}
           /\ accountPublisher'[p].at = "idle" /\ accountPublisher'[p].batch = {}
        \/ /\ accountPublisher'[p].at = "next"
           /\ accountPublisher'[p].batch = accountPublisher[p].batch
    BY <1>0, <1>i DEF AdvanceAccount, Resting
  <2> QED BY <2>1, <2>2 DEF Tidy
<1>7. ASSUME NEW p \in AccountPublisher, MarkAccountPublished(p) PROVE Goal
  <2>1. PICK d \in AccountEvent : d = accountPublisher[p].event
    BY <1>b, <1>7 DEF MarkAccountPublished
  <2>2. accountPublisher[p].at = "mark" /\ UNCHANGED <<faults, queue>>
    BY <1>7 DEF MarkAccountPublished
  <2>3. CASE OwnsAccount(p, d)
    <3>1. /\ AdvanceAccount(p)
          /\ accountRow' = [accountRow EXCEPT
                              ![d] = [Unlocked(accountRow[d]) EXCEPT !.state = "published"]]
      BY <1>7, <2>1, <2>3 DEF MarkAccountPublished
    <3>2. /\ accountRow'[d].state = "published"
          /\ \A e \in AccountEvent : e # d => accountRow'[e] = accountRow[e]
      BY <1>0, <1>a, <3>1 DEF Unlocked
    <3> HIDE DEF Goal, Sound
    <3> QED BY <1>h, <1>i, <2>1, <2>2, <3>1, <3>2
  <2>4. CASE ~OwnsAccount(p, d)
    <3>1. /\ accountPublisher' = [accountPublisher EXCEPT ![p].at = "fail"]
          /\ UNCHANGED accountRow
      BY <1>7, <2>1, <2>4 DEF MarkAccountPublished
    <3>2. /\ \A x \in AccountPublisher \ {p} : accountPublisher'[x] = accountPublisher[x]
          /\ accountPublisher'[p].at = "fail"
          /\ accountPublisher'[p].batch = accountPublisher[p].batch
          /\ accountPublisher'[p].event = accountPublisher[p].event
      BY <1>0, <1>b, <2>2, <3>1
    <3>3. Sound
      BY <2>2, <3>2 DEF Tidy
    <3>4. \A e \in AccountEvent :
            /\ accountRow'[e] = accountRow[e]
            /\ \/ accountPublisher[p].event # e \/ accountRow[e].holder # p
               \/ accountRow[e].state # "pending"
      BY <2>1, <2>4, <3>1 DEF OwnsAccount
    <3> HIDE DEF Goal, Sound
    <3> QED BY <1>h, <2>2, <3>2, <3>3, <3>4
  <2> QED BY <2>3, <2>4
<1>8. ASSUME NEW p \in AccountPublisher, MarkAccountFailed(p) PROVE Goal
  <2>1. PICK d \in AccountEvent : d = accountPublisher[p].event
    BY <1>b, <1>8 DEF MarkAccountFailed
  <2>2. /\ accountPublisher[p].at = "fail" /\ UNCHANGED <<faults, queue>>
        /\ d \notin accountPublisher[p].batch
    BY <1>8, <2>1 DEF MarkAccountFailed, Tidy
  <2>3. CASE OwnsAccount(p, d)
    <3>1. AdvanceAccount(p) /\ accountRow' = [accountRow EXCEPT ![d] = Unlocked(accountRow[d])]
      BY <1>8, <2>1, <2>3 DEF MarkAccountFailed
    <3>2. \A e \in AccountEvent : e # d => accountRow'[e] = accountRow[e]
      BY <3>1
    <3>3. accountRow[d].state = "pending" /\ accountRow[d].holder = p
      BY <2>3 DEF OwnsAccount
    <3> HIDE DEF Goal, Sound
    <3> QED BY <1>h, <1>i, <2>2, <3>1, <3>2, <3>3
  <2>4. CASE ~OwnsAccount(p, d)
    <3>1. accountPublisher' = [accountPublisher EXCEPT ![p] = Resting] /\ UNCHANGED accountRow
      BY <1>8, <2>1, <2>4 DEF MarkAccountFailed
    <3>2. /\ \A x \in AccountPublisher \ {p} : accountPublisher'[x] = accountPublisher[x]
          /\ accountPublisher'[p].at = "idle" /\ accountPublisher'[p].batch = {}
      BY <1>0, <3>1 DEF Resting
    <3>3. Sound
      BY <3>2 DEF Tidy
    <3> HIDE DEF Goal, Sound
    <3> QED BY <1>h, <2>2, <3>1, <3>2, <3>3
  <2> QED BY <2>3, <2>4
<1>9. Goal
  <2> HIDE DEF Goal
  <2> QED BY <1>1, <1>2, <1>3, <1>4, <1>5, <1>6, <1>7, <1>8
          DEF AccountOutboxNext, AccountPublisherStep
<1> HIDE DEF now, then
<1> QED BY <1>9 DEF now, then

(***************************************************************************)
(* Every copy is paid for.                                                  *)
(***************************************************************************)
LEMMA Times ==
  ASSUME NEW a \in Int, NEW b \in Int, NEW w \in Nat
  PROVE  /\ a <= b => a * w <= b * w
         /\ a + 1 <= b => a * w + w <= b * w
<1>1. (b - a) * w = b * w - a * w
  OBVIOUS
<1>2. a <= b => (b - a) * w >= 0
  <2>1. \A c \in Nat : c * w >= 0
    OBVIOUS
  <2> QED BY <2>1
<1>3. a + 1 <= b => (b - a - 1) * w >= 0
  <2>1. \A c \in Nat : c * w >= 0
    OBVIOUS
  <2> QED BY <2>1
<1>4. (b - a - 1) * w = b * w - a * w - w
  OBVIOUS
<1>5. a * w \in Int /\ b * w \in Int
  OBVIOUS
<1> QED BY <1>1, <1>2, <1>3, <1>4, <1>5

LEMMA Sums ==
  ASSUME NEW a \in Nat, NEW b \in Nat, NEW c \in Nat, NEW d \in Nat, c >= a, d >= b
  PROVE  /\ c + d >= a + b
         /\ c >= a + 1 => c + d >= a + b + 1
  OBVIOUS

LEMMA SpentType ==
  ASSUME faults \in Nat, faults' \in {faults, faults + 1}
  PROVE  Spent \in Nat
<1>1. CASE faults' = faults
  BY <1>1 DEF Spent
<1>2. CASE faults' = faults + 1
  BY <1>2 DEF Spent
<1> QED BY <1>1, <1>2

LEMMA DueOfType ==
  ASSUME FewBatches, NEW e \in Event
  PROVE  DueOf(e) \in Nat
  BY OwedType DEF FewBatches, DueOf, Due, Event

LEMMA PaidOn ==
  ASSUME NEW e \in Event, Paid(e), Settled(e), FewBatches, FewBatches', Fits(queue), Fits(queue'),
         faults \in Nat, replays \in Nat, faults' \in Nat, replays' \in Nat
  PROVE  Paid(e)'
<1> DEFINE a == 1 + faults + replays - DueOf(e)
           b == 1 + faults' + replays' - DueOf(e)'
           w == Allowance(e)
<1>1. DueOf(e) \in Nat /\ DueOf(e)' \in Nat
  <2>1. DueOf(e)' \in Nat
    BY OwedType DEF FewBatches, DueOf, Due, Event
  <2> QED BY <2>1, DueOfType
<1>2. a \in Int /\ b \in Int /\ Paying(e) = b - a
  BY <1>1 DEF Paying
<1>3. w \in Nat /\ Copies(queue, e) \in Nat /\ Copies(queue', e) \in Nat
  BY AllowanceType, CopiesType
<1>4. Copies(queue, e) <= a * w
  BY DEF Paid
<1>5. /\ Cheaper(queue, queue', e) => Copies(queue', e) <= Copies(queue, e)
      /\ Dearer(queue, queue', e) => Copies(queue', e) <= Copies(queue, e) + w
  BY DEF Cheaper, Dearer
<1> HIDE DEF a, b, w
<1>6. a * w \in Int /\ b * w \in Int
  BY <1>2, <1>3
<1>7. /\ a <= b => a * w <= b * w
      /\ a + 1 <= b => a * w + w <= b * w
  BY <1>2, <1>3, Times
<1>8. CASE Cheaper(queue, queue', e) /\ Paying(e) >= 0
  <2>1. a <= b
    BY <1>2, <1>8
  <2>2. Copies(queue', e) <= b * w
    BY <1>3, <1>4, <1>5, <1>6, <1>7, <1>8, <2>1
  <2> QED BY <2>2 DEF Paid, b, w
<1>9. CASE Dearer(queue, queue', e) /\ Paying(e) >= 1
  <2>1. a + 1 <= b
    BY <1>2, <1>9
  <2>2. Copies(queue', e) <= b * w
    BY <1>3, <1>4, <1>5, <1>6, <1>7, <1>9, <2>1
  <2> QED BY <2>2 DEF Paid, b, w
<1> QED BY <1>8, <1>9 DEF Settled

\* A step that leaves the outboxes alone.
LEMMA SettledElsewhere ==
  ASSUME NEW e, FewBatches, e \in Event,
         UNCHANGED <<todoRow, todoPublisher, accountRow, accountPublisher>>,
         faults \in Nat, replays \in Nat, faults' \in Nat, replays' \in Nat,
         \/ Cheaper(queue, queue', e) /\ faults' + replays' >= faults + replays
         \/ Dearer(queue, queue', e) /\ faults' + replays' >= faults + replays + 1
  PROVE  Settled(e)
<1>1. DueOf(e)' = DueOf(e) /\ DueOf(e) \in Nat
  BY DueOfType DEF DueOf
<1>2. /\ faults' + replays' >= faults + replays => Paying(e) >= 0
      /\ faults' + replays' >= faults + replays + 1 => Paying(e) >= 1
  <2> DEFINE a == faults + replays
             b == faults' + replays'
             d == DueOf(e)
  <2>0. Paying(e) = (b + d) - (a + d)
    <3>1. Paying(e) = (b + d) - (a + DueOf(e)')
      BY DEF Paying
    <3> QED BY <1>1, <3>1
  <2>1. a \in Nat /\ b \in Nat /\ d \in Nat /\ Paying(e) = (b + d) - (a + d)
    <3>1. a \in Nat
      OBVIOUS
    <3>2. b \in Nat
      <4> DEFINE f == faults'
                 r == replays'
      <4>1. f \in Nat /\ r \in Nat
        OBVIOUS
      <4> HIDE DEF f, r
      <4>2. f + r \in Nat
        BY <4>1
      <4> QED BY <4>2 DEF f, r
    <3>3. d \in Nat
      BY <1>1
    <3> HIDE DEF a, b, d
    <3> QED BY <2>0, <3>1, <3>2, <3>3
  <2> HIDE DEF a, b, d
  <2>2. /\ b >= a => Paying(e) >= 0
        /\ b >= a + 1 => Paying(e) >= 1
    BY <2>1
  <2> QED BY <2>2 DEF a, b
<1> QED BY <1>2 DEF Settled

\* A step of an outbox.
LEMMA SettledByOutbox ==
  ASSUME Fits(queue), Within(queue), FewBatches, FewBatches', replays \in Nat, replays' = replays,
         faults \in Nat, faults' \in {faults, faults + 1},
         \/ /\ queue' = queue
            /\ \A e \in Event : DueOf(e)' <= DueOf(e) + Spent
         \/ \E d \in Event :
              /\ queue' = Routed(queue, d, 0)
              /\ \A e \in Event : DueOf(e)' + (IF e = d THEN 1 ELSE 0) <= DueOf(e) + Spent
  PROVE  Within(queue') /\ \A e \in Event : Settled(e)
<1>1. \A e \in Event : DueOf(e) \in Nat /\ DueOf(e)' \in Nat
  <2>1. \A e \in Event : DueOf(e)' \in Nat
    BY OwedType DEF FewBatches, DueOf, Due, Event
  <2> QED BY <2>1, DueOfType
<1>2. \A e \in Event : Paying(e) = DueOf(e) + Spent - DueOf(e)'
  BY <1>1 DEF Paying, Spent
<1>3. Spent \in Nat
  BY SpentType
<1>4. CASE /\ queue' = queue
           /\ \A e \in Event : DueOf(e)' <= DueOf(e) + Spent
  <2>1. \A e : Cheaper(queue, queue', e)
    <3>1. \A e : Copies(queue, e) \in Nat
      BY CopiesType
    <3> QED BY <1>4, <3>1 DEF Cheaper
  <2>2. \A e \in Event : Paying(e) >= 0
    BY <1>1, <1>2, <1>3, <1>4
  <2> QED BY <1>4, <2>1, <2>2 DEF Settled, Within, Holds
<1>5. ASSUME NEW d \in Event, queue' = Routed(queue, d, 0),
             \A e \in Event : DueOf(e)' + (IF e = d THEN 1 ELSE 0) <= DueOf(e) + Spent
      PROVE  Within(queue') /\ \A e \in Event : Settled(e)
  <2>1. /\ Within(queue') /\ Dearer(queue, queue', d)
        /\ \A e : e # d => Cheaper(queue, queue', e)
    BY <1>5, PublishedCopies
  <2>2. Paying(d) >= 1
    BY <1>1, <1>2, <1>3, <1>5
  <2>3. \A e \in Event : e # d => Paying(e) >= 0
    BY <1>1, <1>2, <1>3, <1>5
  <2> QED BY <2>1, <2>2, <2>3 DEF Settled
<1> QED BY <1>4, <1>5

LEMMA RetryStep ==
  ASSUME TypeInv, RetryInv, [DeliveryNext]_vars
  PROVE  RetryInv'
<1>0. /\ Fits(queue) /\ TodoOutboxTypeOK /\ AccountOutboxTypeOK /\ HistoryTypeOK
      /\ faults \in Nat /\ replays \in Nat
  BY NotificationParts DEF TypeInv, DeliveryTypeOK, TodoOutboxTypeOK, OtherMailTypes
<1>1. Fits(queue') /\ faults' \in Nat /\ replays' \in Nat
  <2>1. TypeInv'
    BY TypeStep
  <2> QED BY <2>1, NotificationPartsPrimed
          DEF TypeInv, DeliveryTypeOK, TodoOutboxTypeOK, OtherMailTypes
<1>2. /\ Within(queue) /\ FewBatches /\ Tidy(todoPublisher, TodoPublisher)
      /\ Tidy(accountPublisher, AccountPublisher) /\ \A e \in Event : Paid(e)
  BY DEF RetryInv
<1>3. ASSUME Within(queue'), FewBatches', Tidy(todoPublisher', TodoPublisher),
             Tidy(accountPublisher', AccountPublisher), \A e \in Event : Settled(e)
      PROVE  RetryInv'
  <2>1. \A e \in Event : Paid(e)'
    BY <1>0, <1>1, <1>2, <1>3, PaidOn
  <2> QED BY <1>3, <2>1 DEF RetryInv
\* of what leaves the outboxes alone
<1>4. ASSUME UNCHANGED <<todoOutboxVars, accountOutboxVars>>, Within(queue'),
             \A e \in Event :
               \/ Cheaper(queue, queue', e) /\ faults' + replays' >= faults + replays
               \/ Dearer(queue, queue', e) /\ faults' + replays' >= faults + replays + 1
      PROVE  RetryInv'
  <2>1. UNCHANGED <<todoRow, todoPublisher, accountRow, accountPublisher>>
    BY <1>4 DEF todoOutboxVars, accountOutboxVars
  <2>2. \A e \in Event : Settled(e)
    BY <1>0, <1>1, <1>2, <1>4, <2>1, SettledElsewhere
  <2>3. /\ FewBatches' /\ Tidy(todoPublisher', TodoPublisher)
        /\ Tidy(accountPublisher', AccountPublisher)
    BY <1>2, <2>1 DEF FewBatches
  <2> QED BY <1>3, <1>4, <2>2, <2>3
<1>5. \A e : Copies(queue, e) \in Nat /\ Copies(queue', e) \in Nat /\ Allowance(e) \in Nat
  BY <1>0, <1>1, CopiesType, AllowanceType
<1>6. CASE UNCHANGED vars
  <2>1. UNCHANGED <<queue, faults, replays, todoOutboxVars, accountOutboxVars>>
    BY <1>6 DEF vars, mailVars
  <2>2. Within(queue') /\ \A e : Cheaper(queue, queue', e)
    BY <1>2, <1>5, <2>1 DEF Cheaper, Within, Holds
  <2> QED BY <1>0, <1>4, <2>1, <2>2
<1>7. CASE TodoOutboxNext /\ UNCHANGED <<accountOutboxVars, others>>
  <2>1. /\ replays' = replays /\ UNCHANGED <<accountRow, accountPublisher>>
        /\ \A e \in TodoEvent : IsFiniteSet(Batches(todoPublisher, TodoPublisher, e))
    BY <1>2, <1>7 DEF others, mailVars, accountOutboxVars, FewBatches
  <2>2. /\ Tidy(todoPublisher', TodoPublisher)
        /\ \A e \in TodoEvent : IsFiniteSet(Batches(todoPublisher', TodoPublisher, e))
        /\ faults' \in {faults, faults + 1}
        /\ \/ /\ queue' = queue
              /\ \A e \in TodoEvent : DueOf(e)' <= DueOf(e) + Spent
           \/ \E d \in TodoEvent :
                /\ queue' = Routed(queue, d, 0)
                /\ \A e \in TodoEvent :
                     DueOf(e)' + (IF e = d THEN 1 ELSE 0) <= DueOf(e) + Spent
    BY <1>0, <1>2, <1>7, <2>1, TodoDue DEF DueOf
  <2>3. FewBatches' /\ Tidy(accountPublisher', AccountPublisher)
    BY <1>2, <2>1, <2>2 DEF FewBatches
  <2>4. \A e \in Event : e \notin TodoEvent => DueOf(e)' = DueOf(e) /\ DueOf(e) \in Nat
    BY <1>2, <2>1, DueOfType DEF DueOf
  <2>5. Spent \in Nat
    BY <1>0, <2>2, SpentType
  <2>6. Within(queue') /\ \A e \in Event : Settled(e)
    <3>1. CASE queue' = queue /\ \A e \in TodoEvent : DueOf(e)' <= DueOf(e) + Spent
      <4>1. \A e \in Event : DueOf(e)' <= DueOf(e) + Spent
        BY <2>4, <2>5, <3>1
      <4> QED BY <1>0, <1>2, <2>1, <2>2, <2>3, <3>1, <4>1, SettledByOutbox
    <3>2. ASSUME NEW d \in TodoEvent, queue' = Routed(queue, d, 0),
                 \A e \in TodoEvent : DueOf(e)' + (IF e = d THEN 1 ELSE 0) <= DueOf(e) + Spent
          PROVE  Within(queue') /\ \A e \in Event : Settled(e)
      <4>1. d \in Event /\ \A e \in Event :
              DueOf(e)' + (IF e = d THEN 1 ELSE 0) <= DueOf(e) + Spent
        BY <2>4, <2>5, <3>2 DEF Event
      <4> QED BY <1>0, <1>2, <2>1, <2>2, <2>3, <3>2, <4>1, SettledByOutbox
    <3> QED BY <2>2, <3>1, <3>2
  <2> QED BY <1>3, <2>2, <2>3, <2>6
<1>8. CASE AccountOutboxNext /\ UNCHANGED <<todoOutboxVars, others>>
  <2>1. /\ replays' = replays /\ UNCHANGED <<todoRow, todoPublisher>>
        /\ \A e \in AccountEvent : IsFiniteSet(Batches(accountPublisher, AccountPublisher, e))
        /\ \A e \in AccountEvent : e \notin TodoEvent
    BY <1>2, <1>8, EventAssumption DEF others, mailVars, todoOutboxVars, FewBatches
  <2>2. /\ Tidy(accountPublisher', AccountPublisher)
        /\ \A e \in AccountEvent : IsFiniteSet(Batches(accountPublisher', AccountPublisher, e))
        /\ faults' \in {faults, faults + 1}
        /\ \/ /\ queue' = queue
              /\ \A e \in AccountEvent : DueOf(e)' <= DueOf(e) + Spent
           \/ \E d \in AccountEvent :
                /\ queue' = Routed(queue, d, 0)
                /\ \A e \in AccountEvent :
                     DueOf(e)' + (IF e = d THEN 1 ELSE 0) <= DueOf(e) + Spent
    BY <1>0, <1>2, <1>8, <2>1, AccountDue DEF DueOf
  <2>3. FewBatches' /\ Tidy(todoPublisher', TodoPublisher)
    BY <1>2, <2>1, <2>2 DEF FewBatches
  <2>4. \A e \in Event : e \notin AccountEvent => DueOf(e)' = DueOf(e) /\ DueOf(e) \in Nat
    BY <1>2, <2>1, DueOfType DEF DueOf, Event
  <2>5. Spent \in Nat
    BY <1>0, <2>2, SpentType
  <2>6. Within(queue') /\ \A e \in Event : Settled(e)
    <3>1. CASE queue' = queue /\ \A e \in AccountEvent : DueOf(e)' <= DueOf(e) + Spent
      <4>1. \A e \in Event : DueOf(e)' <= DueOf(e) + Spent
        BY <2>4, <2>5, <3>1
      <4> QED BY <1>0, <1>2, <2>1, <2>2, <2>3, <3>1, <4>1, SettledByOutbox
    <3>2. ASSUME NEW d \in AccountEvent, queue' = Routed(queue, d, 0),
                 \A e \in AccountEvent : DueOf(e)' + (IF e = d THEN 1 ELSE 0) <= DueOf(e) + Spent
          PROVE  Within(queue') /\ \A e \in Event : Settled(e)
      <4>1. d \in Event /\ \A e \in Event :
              DueOf(e)' + (IF e = d THEN 1 ELSE 0) <= DueOf(e) + Spent
        BY <2>4, <2>5, <3>2 DEF Event
      <4> QED BY <1>0, <1>2, <2>1, <2>2, <2>3, <3>2, <4>1, SettledByOutbox
    <3> QED BY <2>2, <3>1, <3>2
  <2> QED BY <1>3, <2>2, <2>3, <2>6
<1>9. CASE RetryDue /\ UNCHANGED <<faults, todoOutboxVars, accountOutboxVars, others>>
  <2>1. UNCHANGED <<todoOutboxVars, accountOutboxVars>> /\ faults' = faults /\ replays' = replays
    BY <1>9 DEF others, mailVars
  <2>2. Within(queue') /\ \A e : Cheaper(queue, queue', e)
    BY <1>0, <1>2, <1>9, RetryDueCopies
  <2> QED BY <1>0, <1>4, <2>1, <2>2
<1>10. CASE ConsumerNext /\ UNCHANGED <<todoOutboxVars, accountOutboxVars, mailVars>>
  <2>1. UNCHANGED <<todoOutboxVars, accountOutboxVars>> /\ replays' = replays
    BY <1>10 DEF mailVars
  <2>2. /\ Within(queue')
        /\ \A e : \/ Cheaper(queue, queue', e) /\ faults' >= faults
                  \/ Dearer(queue, queue', e) /\ faults' >= faults + 1
    BY <1>0, <1>2, <1>10, ConsumerCopies
  <2>3. \A e : \/ Cheaper(queue, queue', e) /\ faults' + replays' >= faults + replays
               \/ Dearer(queue, queue', e) /\ faults' + replays' >= faults + replays + 1
    <3>1. replays' >= replays
      BY <1>0, <2>1
    <3>2. /\ faults' >= faults => faults' + replays' >= faults + replays
          /\ faults' >= faults + 1 =>
               faults' >= faults /\ faults' + replays' >= faults + replays + 1
      <4>1. faults' >= faults + 1 => faults' >= faults
        BY <1>0, <1>1
      <4> QED BY <1>0, <1>1, <3>1, <4>1, Sums
    <3> QED BY <2>2, <3>2
  <2> QED BY <1>4, <2>1, <2>2, <2>3
<1>11. CASE MailNext /\ UNCHANGED <<todoOutboxVars, accountOutboxVars, historyVars>>
  <2>1. /\ \A p \in Counted : queue'[p] = queue[p]
        /\ faults' >= faults /\ replays' >= replays
    BY <1>0, <1>11, MailCopies
  <2>2. Within(queue') /\ \A e : Cheaper(queue, queue', e)
    BY <1>0, <1>1, <1>2, <2>1, Untouched
  <2>3. faults' + replays' >= faults + replays
    BY <1>0, <1>1, <2>1, Sums
  <2> QED BY <1>4, <1>11, <2>2, <2>3
<1>12. CASE Replayed /\ \/ \E dead \in Place : ReplayDead(dead)
                        \/ \E e \in TodoEvent : ReplayEvent(e)
                        \/ \E e \in AccountEvent : ReplayOwnerEvent(e)
  <2>1. /\ UNCHANGED <<todoOutboxVars, accountOutboxVars>>
        /\ faults' = faults /\ replays' = replays + 1
    BY <1>12 DEF Replayed
  <2>2. /\ Within(queue')
        /\ \A e : Cheaper(queue, queue', e) \/ Dearer(queue, queue', e)
    BY <1>0, <1>2, <1>12, ReplayedCopies
  <2>3. faults' + replays' >= faults + replays /\ faults' + replays' >= faults + replays + 1
    BY <1>0, <2>1
  <2> QED BY <1>4, <2>1, <2>2, <2>3
<1> QED BY <1>6, <1>7, <1>8, <1>9, <1>10, <1>11, <1>12 DEF DeliveryNext

LEMMA BecomingNone ==
  ASSUME NEW g \in {1, 2}, NEW c \in [0..MaxRetries -> Nat], \A n \in 0..MaxRetries : c[n] = 0
  PROVE  Becoming(g, c) = 0
<1>1. MaxRetries \in Nat
  BY HistoryAssumption
<1>2. PICK f \in [0..MaxRetries -> Nat] :
        Grown(f, g, c, MaxRetries) /\ Becoming(g, c) = f[MaxRetries]
  BY BecomingGrown
<1>3. \A n \in 0..MaxRetries : f[n] = 0 + IF n = 0 THEN 0 ELSE g * f[n - 1]
  BY <1>2 DEF Grown
<1> DEFINE T == {n \in 0..MaxRetries : f[n] # 0}
<1>4. T = {}
  <2>1. SUFFICES ASSUME T # {} PROVE FALSE
    OBVIOUS
  <2>2. PICK k \in T : \A j \in T : k <= j
    <3>1. T \subseteq Nat
      OBVIOUS
    <3> HIDE DEF T
    <3> QED BY <2>1, <3>1, LeastOf
  <2>3. k \in 0..MaxRetries /\ f[k] # 0
    BY <2>2
  <2>4. k # 0
    BY <1>1, <1>3, <2>3
  <2>5. k - 1 \in 0..MaxRetries /\ k - 1 \notin T
    BY <1>1, <2>2, <2>3, <2>4
  <2>6. f[k - 1] = 0
    BY <2>5
  <2>7. f[k] = 0 + g * f[k - 1]
    BY <1>3, <2>3, <2>4
  <2> QED BY <2>3, <2>6, <2>7
<1>5. f[MaxRetries] = 0
  BY <1>1, <1>4
<1> QED BY <1>2, <1>5

LEMMA RetryInit ==
  ASSUME DeliveryInit
  PROVE  RetryInv
<1>1. /\ \A p \in Place : queue[p] = EmptyBag
      /\ \A e \in TodoEvent : todoRow[e] = NoRow
      /\ \A e \in AccountEvent : accountRow[e] = NoRow
      /\ \A p \in TodoPublisher : todoPublisher[p] = Resting
      /\ \A p \in AccountPublisher : accountPublisher[p] = Resting
      /\ faults = 0 /\ replays = 0
  BY DEF DeliveryInit, BrokerInit, TodoOutboxInit, AccountOutboxInit, NotificationInit
<1>2. DOMAIN EmptyBag = {}
  BY DEF EmptyBag, SetToBag
<1>3. Within(queue)
  BY <1>1, <1>2, CountedPlaces DEF Within, Holds, BagToSet
<1>4. /\ Tidy(todoPublisher, TodoPublisher) /\ Tidy(accountPublisher, AccountPublisher)
      /\ \A e : /\ Batches(todoPublisher, TodoPublisher, e) = {}
                /\ Batches(accountPublisher, AccountPublisher, e) = {}
  BY <1>1 DEF Tidy, Batches, Resting
<1>5. IsFiniteSet({}) /\ Cardinality({}) = 0
  BY FS_EmptySet
<1>6. FewBatches
  BY <1>4, <1>5 DEF FewBatches
<1>7. Fits(queue)
  BY InitTypes DEF TypeInv
<1>8. ASSUME NEW e \in Event PROVE Paid(e)
  <2>1. \A m : \A p \in Counted : Count(queue, p, m) = 0
    BY <1>1, <1>2, CountedPlaces DEF Count
  <2>2. \A n \in 0..MaxRetries : Alive(queue, e)[n] = 0 /\ Dead(queue, e)[n] = 0
    BY <2>1 DEF Alive, Dead, Counted
  <2>3. /\ Alive(queue, e) \in [0..MaxRetries -> Nat] /\ Dead(queue, e) \in [0..MaxRetries -> Nat]
        /\ Growth(e) \in {1, 2}
    BY <1>7, CopiesType DEF Growth
  <2>4. Copies(queue, e) = 0
    <3>1. Becoming(Growth(e), Alive(queue, e)) = 0
      BY <2>2, <2>3, BecomingNone
    <3>2. 1 \in {1, 2}
      OBVIOUS
    <3>3. Becoming(1, Dead(queue, e)) = 0
      BY <2>2, <2>3, <3>2, BecomingNone
    <3> QED BY <3>1, <3>3 DEF Copies
  <2>5. DueOf(e) = 1
    <3>1. Owed({}, TRUE) = 1
      BY <1>5 DEF Owed
    <3>2. e \in TodoEvent => Waiting(todoRow, todoPublisher, TodoPublisher, e) = TRUE
      BY <1>1 DEF Waiting, NoRow
    <3>3. e \in AccountEvent => Waiting(accountRow, accountPublisher, AccountPublisher, e) = TRUE
      BY <1>1 DEF Waiting, NoRow
    <3> QED BY <1>4, <3>1, <3>2, <3>3 DEF DueOf, Due, Event
  <2>6. Allowance(e) \in Nat
    BY AllowanceType
  <2>7. (1 + faults + replays - DueOf(e)) * Allowance(e) = 0
    BY <1>1, <2>5, <2>6
  <2> QED BY <2>4, <2>7 DEF Paid
<1> QED BY <1>3, <1>4, <1>6, <1>8 DEF RetryInv

LEMMA PaidIsBounded ==
  ASSUME TypeInv, RetryInv
  PROVE  RetriesBounded
<1>1. Fits(queue) /\ faults \in Nat /\ replays \in Nat
  BY NotificationParts DEF TypeInv, DeliveryTypeOK, TodoOutboxTypeOK, OtherMailTypes
<1>2. \A p \in Counted : \A m \in HeldBy(p) : m.n <= MaxRetries
  BY DEF RetryInv, Within, Holds, HeldBy
<1>3. ASSUME NEW e \in Event
      PROVE  Copies(queue, e) <= (1 + faults + replays) * Allowance(e)
  <2> DEFINE a == 1 + faults + replays - DueOf(e)
             b == 1 + faults + replays
             w == Allowance(e)
  <2>1. a \in Int /\ b \in Int /\ w \in Nat /\ a <= b
    BY <1>1, DueOfType, AllowanceType DEF RetryInv
  <2>2. Copies(queue, e) <= a * w /\ Copies(queue, e) \in Nat
    BY <1>1, CopiesType DEF RetryInv, Paid
  <2> HIDE DEF a, b, w
  <2>3. a * w <= b * w /\ a * w \in Int /\ b * w \in Int
    BY <2>1, Times
  <2>4. Copies(queue, e) <= b * w
    BY <2>2, <2>3
  <2> QED BY <2>4 DEF b, w
<1> QED BY <1>2, <1>3 DEF RetriesBounded, HistoryWaits, Counted

\* No message is retried beyond the last retry, and what the copies of an event
\* may become is never more than what one publication becomes, and as much
\* again for every fault and every replay: no failure, lost acknowledgement or
\* stop makes retries multiply without end (retryOrDeadLetter of the history's
\* and the owner's consumer).
THEOREM RetriesAreBounded == DeliverySpec => []RetriesBounded
<1>1. DeliveryInit => RetryInv
  BY RetryInit
<1>2. TypeInv /\ RetryInv /\ [DeliveryNext]_vars => RetryInv'
  BY RetryStep
<1>3. TypeInv /\ RetryInv => RetriesBounded
  BY PaidIsBounded
<1> QED BY <1>1, <1>2, <1>3, TypeInvariant, PTL DEF DeliverySpec
=============================================================================
