-------------------------------- MODULE Broker --------------------------------
(***************************************************************************)
(* The queues of RabbitMQ that the services declare, and what is bound to   *)
(* what.  A queue is a bag: the same message may wait twice, and the order  *)
(* of delivery is not relied on.                                            *)
(***************************************************************************)
EXTENDS Naturals, FiniteSets, Bags

CONSTANTS
  TodoEvent,     \* events todo.shared
  AccountEvent   \* events account.registered

ASSUME EventAssumption == TodoEvent \cap AccountEvent = {}

\* "dropped" is no queue but history: the messages the exchange had none for.
VARIABLE queue   \* of each queue, the messages in it

Event == TodoEvent \cup AccountEvent
\* n counts the retries of the consumer the queue belongs to; of the mail
\* queues it is the number of the delivery attempt.
Message(e, n) == [event |-> e, n |-> n]

\* The queue of the history is two places, and so is its queue for retries:
\* what the exchange routed has the type of its event for a key, what a command
\* of an operator sent to the queue itself ("Sent") has the queue's name.
RetryPlace == {"historyRetry", "historyRetrySent", "ownerRetry", "mailRetry"}
Place == {"history", "historySent", "owner", "mail", "historyDead", "ownerDead",
          "mailDead", "dropped"} \cup RetryPlace

BrokerTypeOK ==
  /\ DOMAIN queue = Place
  /\ \A p \in Place :
       IsABag(queue[p]) /\ BagToSet(queue[p]) \subseteq [event : Event, n : Nat]

BrokerInit == queue = [p \in Place |-> EmptyBag]

\* The bindings of the exchange, and those of the exchange for retries: to the
\* latter the history's queue is bound with "#".
BoundTo(e) == IF e \in TodoEvent THEN {"history", "mail"} ELSE {"owner"}
RetryBoundTo(e) == {"historyRetry"} \cup IF e \in TodoEvent THEN {} ELSE {"ownerRetry"}

With(q, places, m) ==
  [p \in Place |-> IF p \in places THEN q[p] (+) SetToBag({m}) ELSE q[p]]
Without(q, p, m) == [q EXCEPT ![p] = @ (-) SetToBag({m})]

\* A message arrives at every queue that its event is bound to; a mail that
\* comes this way is a first attempt.
Routed(q, e, n) ==
  With(With(q, BoundTo(e) \ {"mail"}, Message(e, n)),
       BoundTo(e) \cap {"mail"}, Message(e, 1))

\* The time of a message in a retry queue is over: the exchange gets it again,
\* under the key of the mail queue, or under the one it was retried with, the
\* type of its event or the name of the history's queue, to which nothing is
\* bound.
RetryDue ==
  \E p \in RetryPlace : \E m \in BagToSet(queue[p]) :
    LET rest == Without(queue, p, m)
    IN queue' = CASE p = "mailRetry" -> With(rest, {"mail"}, m)
                  [] p = "historyRetrySent" -> With(rest, {"dropped"}, m)
                  [] OTHER -> Routed(rest, m.event, m.n)
=============================================================================
