------------------------------ MODULE MCEvents ------------------------------
EXTENDS EventDelivery, TLC

Symmetric == Permutations(Mailer) \cup Permutations(TodoPublisher)
               \cup Permutations(TodoEvent \ Unfit)

\* Two events with one fault or a replay, or one event with two and one.  The
\* account event and the others share the broker and the bound of the faults,
\* and nothing else: they are not explored together, and no more is the TODO
\* event whose handling fails every time.
Explored ==
  LET todo == {t \in TodoEvent : todoRow[t].state # "none"}
      accounts == {a \in AccountEvent : accountRow[a].state # "none"}
  IN /\ Cardinality(todo) = 2 \/ todo \cap Unfit # {} => faults + replays <= 1
     /\ todo \subseteq Unfit \/ todo \cap Unfit = {}
     /\ todo = {} \/ accounts = {}
=============================================================================
