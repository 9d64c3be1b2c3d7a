----------------------------- MODULE TodoHistory -----------------------------
(***************************************************************************)
(* The consumers of TODO history and of the owner projection: append or     *)
(* apply, else retry, else the dead-letter queue.  A message leaves its     *)
(* queue when it is acknowledged; a consumer that stops before leaves it    *)
(* there, which the Unacked actions show.                                   *)
(***************************************************************************)
EXTENDS Broker

CONSTANTS
  MaxRetries,  \* TODO_HISTORY_MAX_RETRIES, TODO_OWNER_MAX_RETRIES
  Unfit        \* events whose handling fails every time

ASSUME HistoryAssumption == MaxRetries \in Nat /\ Unfit \subseteq Event

VARIABLES
  history,  \* event ids in todo_history
  applied   \* account events the owner projection has seen

historyVars == <<history, applied>>

HistoryTypeOK == history \subseteq TodoEvent /\ applied \subseteq AccountEvent
HistoryInit == history = {} /\ applied = {}

HeldBy(p) == BagToSet(queue[p])

\* The two ways a message comes into the history's queue.
Arrival == {"history", "historySent"}

\* append, ON CONFLICT DO NOTHING, and the acknowledgement
AppendHistory(p, m) ==
  /\ m \in HeldBy(p) /\ m.event \notin Unfit
  /\ history' = history \cup {m.event}
  /\ queue' = Without(queue, p, m)
  /\ UNCHANGED applied

AppendUnacked(p, m) ==
  /\ m \in HeldBy(p) /\ m.event \notin Unfit \cup history
  /\ history' = history \cup {m.event}
  /\ UNCHANGED <<applied, queue>>

\* Where a retry of m goes that came to the place p: the consumer keeps the key
\* it arrived under, and the name of a queue matches "#" only.
RetriedTo(p, m) ==
  IF p = "historySent" THEN {"historyRetrySent"} ELSE RetryBoundTo(m.event)

\* Mutant: the count of the retries is not carried on.
RetriedUncounted(q, p, m, dead) ==
  IF m.n >= MaxRetries THEN With(q, {dead}, m) ELSE With(q, RetriedTo(p, m), m)

\* retryOrDeadLetter: a copy to every queue that is bound for retries, with the
\* next count.
Retried(q, p, m, dead) ==
  IF m.n >= MaxRetries THEN With(q, {dead}, m)
  ELSE With(q, RetriedTo(p, m), Message(m.event, m.n + 1))

AppendFails(p, m) ==
  /\ m \in HeldBy(p)
  /\ queue' = Retried(Without(queue, p, m), p, m, "historyDead")
  /\ UNCHANGED historyVars

RetryUnacked(p, m) ==
  /\ m \in HeldBy(p)
  /\ queue' = Retried(queue, p, m, "historyDead")
  /\ UNCHANGED historyVars

\* handleAccountRegistered, and the acknowledgement
ApplyOwnerEvent(m) ==
  /\ m \in HeldBy("owner") /\ m.event \notin Unfit
  /\ applied' = applied \cup {m.event}
  /\ queue' = Without(queue, "owner", m)
  /\ UNCHANGED history

\* The owner consumer's retryOrDeadLetter: the key is the type of the event,
\* however the message came.
OwnerRetried(q, m) == Retried(q, "owner", m, "ownerDead")

OwnerEventFails(m) ==
  /\ m \in HeldBy("owner")
  /\ queue' = OwnerRetried(Without(queue, "owner", m), m)
  /\ UNCHANGED historyVars

OwnerRetryUnacked(m) ==
  /\ m \in HeldBy("owner")
  /\ queue' = OwnerRetried(queue, m)
  /\ UNCHANGED historyVars

\* operateDlq for these two: to the queue itself, its retries counted anew; the
\* dead letter is acknowledged afterwards, or not.
ReplayDead(dead) ==
  /\ dead \in {"historyDead", "ownerDead"}
  /\ \E m \in HeldBy(dead) :
       LET again(q) == With(q, {IF dead = "historyDead" THEN "historySent" ELSE "owner"},
                            Message(m.event, 0))
       IN queue' \in {again(Without(queue, dead, m)), again(queue)}
  /\ UNCHANGED historyVars
=============================================================================
