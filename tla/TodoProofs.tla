------------------------------ MODULE TodoProofs ------------------------------
(***************************************************************************)
(* Proofs about TodoCommands and TodoCache, for any number of TODOs, keys,  *)
(* clients, readers and requests and any page size.                        *)
(***************************************************************************)
EXTENDS TodoCache, FiniteSetTheorems, WellFoundedInduction, TLAPS

(***************************************************************************)
(* Finite sets of TODOs, and the pages cut from them.                      *)
(***************************************************************************)
LEMMA LargestExists ==
  ASSUME NEW S \in SUBSET Todo, S # {}
  PROVE  \E x \in S : \A y \in S : x >= y
<1> DEFINE Gap == {MaxTodo - t : t \in S}
<1>1. Gap \subseteq Nat
  <2>1. \A t \in S : MaxTodo - t \in Nat
    BY CommandsAssumption DEF Todo
  <2> QED BY <2>1
<1>2. Gap # {}
  OBVIOUS
<1>3. \E x \in Gap : \A y \in Gap : ~(<<y, x>> \in OpToRel(<, Nat))
  <2> HIDE DEF Gap
  <2> QED BY <1>1, <1>2, WFMin, NatLessThanWellFounded
<1>4. PICK x \in Gap : \A y \in Gap : ~(<<y, x>> \in OpToRel(<, Nat))
  BY <1>3
<1>5. \A y \in Gap : ~(y < x)
  <2> HIDE DEF Gap
  <2> QED BY <1>4, <1>1 DEF OpToRel
<1>6. PICK t \in S : x = MaxTodo - t
  OBVIOUS
<1>7. \A u \in S : ~(MaxTodo - u < MaxTodo - t)
  BY <1>5, <1>6
<1>8. \A u \in S : u \in Nat /\ t \in Nat /\ MaxTodo \in Nat
  BY CommandsAssumption DEF Todo
<1> HIDE DEF Gap
<1>9. \A u \in S : t >= u
  BY <1>7, <1>8
<1> QED BY <1>9

LEMMA MaxIsLargest ==
  ASSUME NEW S \in SUBSET Todo, S # {}
  PROVE  Max(S) \in S /\ \A y \in S : Max(S) >= y
  BY LargestExists DEF Max

LEMMA SmallestExists ==
  ASSUME NEW S \in SUBSET Todo, S # {}
  PROVE  \E x \in S : \A y \in S : x <= y
<1>1. S \subseteq Nat
  BY DEF Todo
<1>2. PICK x \in S : \A y \in S : ~(<<y, x>> \in OpToRel(<, Nat))
  BY <1>1, WFMin, NatLessThanWellFounded
<1>3. \A y \in S : ~(y < x)
  BY <1>2, <1>1 DEF OpToRel
<1> QED BY <1>1, <1>3

LEMMA TodosFinite ==
  ASSUME NEW S \in SUBSET Todo
  PROVE  IsFiniteSet(S) /\ Cardinality(S) \in Nat
<1>1. IsFiniteSet(Todo)
  BY FS_Interval, CommandsAssumption DEF Todo
<1> QED BY <1>1, FS_Subset, FS_CardinalityType

\* A page is the lower part of what it is cut from, the whole of it if that is
\* short enough, and never empty otherwise.
LEMMA PageFacts ==
  ASSUME NEW S \in SUBSET Todo, NEW n \in Nat \ {0}
  PROVE  /\ FirstOf(S, n) \subseteq S
         /\ \A t \in FirstOf(S, n), u \in S : u <= t => u \in FirstOf(S, n)
         /\ Cardinality(S) <= n => FirstOf(S, n) = S
         /\ S # {} => FirstOf(S, n) # {}
<1> DEFINE Upto(t) == {u \in S : u <= t}
<1>0. S \subseteq Nat
  BY DEF Todo
<1>1. FirstOf(S, n) = {t \in S : Cardinality(Upto(t)) <= n}
  BY DEF FirstOf
<1>2. \A t \in S : /\ Upto(t) \subseteq S
                   /\ IsFiniteSet(Upto(t)) /\ Cardinality(Upto(t)) \in Nat
                   /\ Cardinality(Upto(t)) <= Cardinality(S)
  <2> TAKE t \in S
  <2>1. Upto(t) \in SUBSET S
    OBVIOUS
  <2> HIDE DEF Upto
  <2> QED BY <2>1, TodosFinite, FS_Subset
<1>3. \A t, u \in S : u <= t => Cardinality(Upto(u)) <= Cardinality(Upto(t))
  <2> TAKE t, u \in S
  <2> HAVE u <= t
  <2>1. Upto(u) \in SUBSET Upto(t)
    <3>1. u \in Nat /\ t \in Nat /\ \A v \in S : v \in Nat
      BY <1>0
    <3>2. \A v \in S : v <= u => v <= t
      BY <3>1
    <3> QED BY <3>2
  <2>2. IsFiniteSet(Upto(t))
    BY <1>2
  <2> HIDE DEF Upto
  <2> QED BY <2>1, <2>2, FS_Subset
<1>4. \A t \in FirstOf(S, n), u \in S : u <= t => u \in FirstOf(S, n)
  <2> SUFFICES ASSUME NEW t \in FirstOf(S, n), NEW u \in S, u <= t
               PROVE  u \in FirstOf(S, n)
    OBVIOUS
  <2>1. t \in S /\ Cardinality(Upto(t)) <= n
    BY <1>1
  <2> HIDE DEF Upto
  <2>2. Cardinality(Upto(u)) <= n
    BY <2>1, <1>2, <1>3
  <2> QED BY <2>2, <1>1
<1>5. ASSUME Cardinality(S) <= n PROVE FirstOf(S, n) = S
  <2>1. Cardinality(S) \in Nat
    BY TodosFinite
  <2> HIDE DEF Upto
  <2>2. \A t \in S : Cardinality(Upto(t)) <= n
    BY <1>2, <1>5, <2>1
  <2> QED BY <2>2, <1>1
<1>6. ASSUME S # {} PROVE FirstOf(S, n) # {}
  <2>1. PICK x \in S : \A y \in S : x <= y
    BY <1>6, SmallestExists
  <2>2. Upto(x) = {x}
    <3>1. x \in Nat /\ \A v \in S : v \in Nat /\ x <= v
      BY <2>1, <1>0
    <3>2. \A v \in S : v <= x <=> v = x
      BY <3>1
    <3> QED BY <3>2
  <2> HIDE DEF Upto
  <2>3. Cardinality(Upto(x)) = 1
    BY <2>2, FS_Singleton
  <2> QED BY <2>3, <1>1
<1>7. FirstOf(S, n) \subseteq S
  BY <1>1
<1> QED BY <1>4, <1>5, <1>6, <1>7

(***************************************************************************)
(* Types.                                                                  *)
(***************************************************************************)
\* What a command is, by its operation.
LEMMA CommandFacts ==
  ASSUME CommandsTypeOK, NEW c \in Client
  PROVE  LET m == command[c]
         IN /\ m \in Command
            /\ m.op = "create" => /\ m.key \in Key /\ m.title \in Title
                                  /\ m.done \in BOOLEAN
                                  /\ m.todo \in Todo /\ m.past \subseteq Todo
            /\ m.op \in {"update", "check", "write"} =>
                 /\ m.todo \in Todo /\ m.done \in BOOLEAN /\ m.was \in BOOLEAN
                 /\ m.version \in Nat
            /\ m.op \in {"check", "write"} => m.caller \in Accounts
            /\ m.op = "update" => m.title \in Title
            /\ m.op = "write" => m.late \in BOOLEAN
            /\ m.op = "share" => m.todo \in Todo /\ m.recipient \in Recipient
            /\ m.op = "invalidate" => m.from \in Nat
<1> DEFINE m == command[c]
<1>1. m \in Command
  BY DEF CommandsTypeOK
<1>2. CASE m \in {Idle}
  BY <1>2, <1>1 DEF Idle
<1>3. CASE m \in Create
  BY <1>3, <1>1 DEF Create
<1>4. CASE m \in Update
  BY <1>4, <1>1 DEF Update
<1>5. CASE m \in StateRead
  BY <1>5, <1>1 DEF StateRead
<1>6. CASE m \in StateWrite
  BY <1>6, <1>1 DEF StateWrite
<1>7. CASE m \in Share
  BY <1>7, <1>1 DEF Share
<1>8. CASE m \in Invalidation
  BY <1>8, <1>1 DEF Invalidation
<1> QED BY <1>1, <1>2, <1>3, <1>4, <1>5, <1>6, <1>7, <1>8 DEF Command

LEMMA BeginType ==
  ASSUME CommandsTypeOK, NEW c \in Client, NEW what \in Command, Begin(c, what)
  PROVE  command' \in [Client -> Command] /\ requests' \in 0..MaxRequests
  BY CommandsAssumption DEF CommandsTypeOK, Begin

LEMMA EndType ==
  ASSUME CommandsTypeOK, NEW c \in Client, End(c)
  PROVE  command' \in [Client -> Command]
  BY DEF CommandsTypeOK, End, Command

LEMMA InvalidationType ==
  ASSUME NEW n \in Nat
  PROVE  [op |-> "invalidate", from |-> n] \in Command
  BY DEF Command, Invalidation

LEMMA CommittedType ==
  ASSUME CommandsTypeOK, NEW c \in Client, Committed(c)
  PROVE  command' \in [Client -> Command] /\ cacheVersion' \in Nat
<1>1. cacheVersion \in Nat
  BY DEF CommandsTypeOK
<1>2. [op |-> "invalidate", from |-> cacheVersion + 1] \in Command
  BY <1>1, InvalidationType
<1> QED BY <1>1, <1>2 DEF Committed, CommandsTypeOK

LEMMA SweptType ==
  ASSUME CommandsTypeOK, NEW past
  PROVE  Swept(past) \in [Key -> Record \cup {NoRecord}]
  BY DEF CommandsTypeOK, Swept

\* A stored record is one of a TODO.
LEMMA RecordFacts ==
  ASSUME CommandsTypeOK, NEW k \in Key, record[k] # NoRecord
  PROVE  record[k] \in Record /\ record[k].todo \in Todo
<1>1. record[k] \in Record
  BY DEF CommandsTypeOK
<1> QED BY <1>1 DEF Record

LEMMA CommandsInitType == CommandsInit => CommandsTypeOK
<1> SUFFICES ASSUME CommandsInit PROVE CommandsTypeOK
  OBVIOUS
<1>1. todo \in [Todo -> Row]
  <2>1. \A t \in Todo : /\ (IF t <= Existing THEN t ELSE 1) \in Title
                        /\ (IF t <= Existing THEN "live" ELSE "absent")
                             \in {"absent", "live", "deleted"}
    BY CommandsAssumption DEF Todo, Title
  <2> QED BY <2>1 DEF CommandsInit, Row
<1>2. command \in [Client -> Command]
  BY DEF CommandsInit, Command
<1>3. requests \in 0..MaxRequests
  BY CommandsAssumption DEF CommandsInit
<1> QED BY <1>1, <1>2, <1>3 DEF CommandsInit, CommandsTypeOK

LEMMA CommandsTypeStep ==
  ASSUME CommandsTypeOK, CommandsNext
  PROVE  CommandsTypeOK'
<1>1. CASE SweepByOthers
  BY <1>1, SweptType DEF SweepByOthers, CommandsTypeOK
<1>2. CASE Lapse
  <2>1. PICK k \in Key : /\ record[k] # NoRecord
                         /\ lapsed' = lapsed \cup {record[k].todo}
                         /\ UNCHANGED <<rowVars, command, requests, answers, completed>>
    BY <1>2 DEF Lapse
  <2>2. record[k].todo \in Todo
    BY <2>1, RecordFacts
  <2> QED BY <2>1, <2>2 DEF CommandsTypeOK, rowVars
<1>3. ASSUME NEW c \in Client, Step(c) PROVE CommandsTypeOK'
  <2> DEFINE m == command[c]
  <2>0. /\ CommandsTypeOK /\ lapsed \subseteq Todo /\ cacheVersion \in Nat
        /\ todo \in [Todo -> Row] /\ \A t \in Todo : todo[t] \in Row
    BY DEF CommandsTypeOK
  <2>1. CASE AskCreate(c)
    <3>1. PICK k \in Key, title \in Title, done \in BOOLEAN, t \in Todo :
            /\ Begin(c, [op |-> "create", key |-> k, title |-> title,
                         done |-> done, todo |-> t, past |-> lapsed])
            /\ UNCHANGED <<rowVars, lapsed, answers, completed>>
      BY <2>1 DEF AskCreate
    <3>2. [op |-> "create", key |-> k, title |-> title, done |-> done,
           todo |-> t, past |-> lapsed] \in Command
      BY <2>0 DEF Command, Create
    <3> QED BY <3>1, <3>2, BeginType DEF CommandsTypeOK, rowVars
  <2>2. CASE Replay(c)
    <3>1. PICK found : /\ found = Swept(m.past)[m.key] /\ found # NoRecord
      BY <2>2 DEF Replay
    <3>2. /\ m.op = "create" /\ m.key \in Key /\ m.title \in Title
          /\ m.done \in BOOLEAN
      BY <2>2, CommandFacts DEF Replay
    <3>3. found \in Record
      BY <3>1, <3>2, SweptType
    <3>4. answers' \subseteq
            [key : Key, todo : Todo, title : Title, done : BOOLEAN]
      BY <2>2, <3>1, <3>2, <3>3 DEF Replay, Answer, CommandsTypeOK, Record
    <3>5. record' \in [Key -> Record \cup {NoRecord}]
      BY <2>2, SweptType DEF Replay, CommandsTypeOK
    <3>6. command' \in [Client -> Command]
      BY <2>2, <2>0, EndType, InvalidationType DEF Replay, CommandsTypeOK
    <3> QED BY <2>2, <3>4, <3>5, <3>6 DEF Replay, CommandsTypeOK
  <2>3. CASE CreateRefused(c)
    BY <2>3, EndType DEF CreateRefused, CommandsTypeOK, rowVars
  <2>4. CASE CreateTodo(c)
    <3>1. /\ m.op = "create" /\ m.key \in Key /\ m.title \in Title
          /\ m.todo \in Todo /\ m.done \in BOOLEAN
      BY <2>4, CommandFacts DEF CreateTodo
    <3>2. /\ command' \in [Client -> Command] /\ cacheVersion' \in Nat
      BY <2>4, CommittedType DEF CreateTodo
    <3>3. answers' \subseteq
            [key : Key, todo : Todo, title : Title, done : BOOLEAN]
      BY <2>4, <3>1 DEF CreateTodo, Answer, CommandsTypeOK
    <3>4. record' \in [Key -> Record \cup {NoRecord}]
      <4>1. Made(m, m.todo) \in Record
        BY <3>1 DEF Record, Made
      <4> QED BY <2>4, <4>1, SweptType DEF CreateTodo
    <3>5. todo' \in [Todo -> Row]
      <4>1. [phase |-> "live", title |-> m.title, done |-> m.done, version |-> 1]
              \in Row
        BY <3>1 DEF Row
      <4> QED BY <2>4, <2>0, <4>1 DEF CreateTodo
    <3> QED BY <2>4, <3>2, <3>3, <3>4, <3>5 DEF CreateTodo, CommandsTypeOK
  <2>5. CASE BeginUpdate(c)
    <3>1. PICK t \in Todo, title \in Title, done \in BOOLEAN :
            /\ Begin(c, [op |-> "update", todo |-> t, title |-> title,
                         done |-> done, was |-> todo[t].done,
                         version |-> todo[t].version])
            /\ UNCHANGED <<rowVars, lapsed, answers, completed>>
      BY <2>5 DEF BeginUpdate
    <3>2. [op |-> "update", todo |-> t, title |-> title, done |-> done,
           was |-> todo[t].done, version |-> todo[t].version] \in Command
      BY <2>0 DEF Command, Update, Row
    <3> QED BY <3>1, <3>2, BeginType DEF CommandsTypeOK, rowVars
  <2>6. CASE UpdateOwnedTodo(c)
    <3>1. /\ m.todo \in Todo /\ m.title \in Title /\ m.done \in BOOLEAN
      BY <2>6, CommandFacts DEF UpdateOwnedTodo
    <3>4. todo' \in [Todo -> Row]
      BY <2>6, <3>1, <2>0 DEF UpdateOwnedTodo, Row
    <3>5. completed' \in [Todo -> Nat]
      <4>1. completed \in [Todo -> Nat]
        BY DEF CommandsTypeOK
      <4>2. \A n \in {0, 1} : [completed EXCEPT ![m.todo] = @ + n] \in [Todo -> Nat]
        BY <4>1, <3>1
      <4>3. AppendCompletedEvent(m.was, m.done, m.todo)
        BY <2>6 DEF UpdateOwnedTodo
      <4> QED BY <4>2, <4>3 DEF AppendCompletedEvent
    <3> QED BY <2>6, <3>4, <3>5, CommittedType DEF UpdateOwnedTodo, CommandsTypeOK
  <2>7. CASE UpdateRefused(c)
    BY <2>7, EndType DEF UpdateRefused, CommandsTypeOK, rowVars
  <2>8. CASE BeginState(c)
    <3>1. PICK t \in Todo, caller \in Accounts, done \in BOOLEAN :
            /\ Begin(c, [op |-> "check", todo |-> t, caller |-> caller,
                         done |-> done, was |-> todo[t].done,
                         version |-> todo[t].version])
            /\ UNCHANGED <<rowVars, lapsed, answers, completed>>
      BY <2>8 DEF BeginState
    <3>2. [op |-> "check", todo |-> t, caller |-> caller, done |-> done,
           was |-> todo[t].done, version |-> todo[t].version] \in Command
      BY <2>0 DEF Command, StateRead, Row
    <3> QED BY <3>1, <3>2, BeginType DEF CommandsTypeOK, rowVars
  <2>9. CASE CheckState(c)
    <3>1. /\ m.todo \in Todo /\ m.done \in BOOLEAN /\ m.was \in BOOLEAN
          /\ m.version \in Nat /\ m.caller \in Accounts
      BY <2>9, CommandFacts DEF CheckState
    <3>2. [op |-> "write", todo |-> m.todo, caller |-> m.caller,
           done |-> m.done, was |-> m.was, version |-> m.version,
           late |-> FALSE] \in Command
      BY <3>1 DEF Command, StateWrite
    <3>3. Idle \in Command
      BY DEF Command
    <3> QED BY <2>9, <3>2, <3>3 DEF CheckState, CommandsTypeOK, rowVars
  <2>10. CASE WriteState(c)
    <3>1. m.todo \in Todo /\ m.done \in BOOLEAN
      BY <2>10, CommandFacts DEF WriteState
    <3>4. todo' \in [Todo -> Row]
      BY <2>10, <3>1, <2>0 DEF WriteState, Row
    <3>5. completed' \in [Todo -> Nat]
      <4>1. completed \in [Todo -> Nat]
        BY DEF CommandsTypeOK
      <4>2. \A n \in {0, 1} : [completed EXCEPT ![m.todo] = @ + n] \in [Todo -> Nat]
        BY <4>1, <3>1
      <4>3. AppendCompletedEvent(m.was, m.done, m.todo)
        BY <2>10 DEF WriteState
      <4> QED BY <4>2, <4>3 DEF AppendCompletedEvent
    <3> QED BY <2>10, <3>4, <3>5, CommittedType DEF WriteState, CommandsTypeOK
  <2>11. CASE SoftDeleteOwnedTodo(c)
    <3>1. PICK t \in Todo :
            todo' = [todo EXCEPT ![t].phase = "deleted", ![t].version = @ + 1]
      BY <2>11 DEF SoftDeleteOwnedTodo
    <3>3. todo' \in [Todo -> Row]
      BY <3>1, <2>0 DEF Row
    <3>4. requests' \in 0..MaxRequests
      BY <2>11, CommandsAssumption DEF SoftDeleteOwnedTodo, CommandsTypeOK
    <3> QED BY <2>11, <3>3, <3>4, CommittedType
            DEF SoftDeleteOwnedTodo, CommandsTypeOK
  <2>12. CASE BeginShare(c)
    <3>1. PICK t \in Todo, r \in Recipient :
            /\ Begin(c, [op |-> "share", todo |-> t, recipient |-> r])
            /\ UNCHANGED <<rowVars, lapsed, answers, completed>>
      BY <2>12 DEF BeginShare
    <3>2. [op |-> "share", todo |-> t, recipient |-> r] \in Command
      BY DEF Command, Share
    <3> QED BY <3>1, <3>2, BeginType DEF CommandsTypeOK, rowVars
  <2>13. CASE CreateShare(c)
    <3>1. m.todo \in Todo /\ m.recipient \in Recipient
      BY <2>13, CommandFacts DEF CreateShare
    <3>2. share' \in [Todo -> SUBSET Recipient]
      BY <2>13, <3>1 DEF CreateShare, CommandsTypeOK
    <3> QED BY <2>13, <3>2, EndType DEF CreateShare, CommandsTypeOK
  <2>14. CASE Withdraw(c)
    <3>1. PICK t \in Todo, r \in Recipient :
            /\ share' = [share EXCEPT ![t] = @ \ {r}]
            /\ command' = [d \in Client |->
                 IF d = c THEN [op |-> "invalidate", from |-> cacheVersion]
                 ELSE IF /\ command[d].op = "write"
                         /\ command[d].todo = t /\ command[d].caller = r
                      THEN [command[d] EXCEPT !.late = TRUE]
                      ELSE command[d]]
      BY <2>14 DEF Withdraw
    <3>2. \A d \in Client : command[d].op = "write" =>
            [command[d] EXCEPT !.late = TRUE] \in Command
      <4> TAKE d \in Client
      <4> HAVE command[d].op = "write"
      <4>1. command[d] \in StateWrite
        BY <2>0 DEF CommandsTypeOK, Command, Idle, Create, Update, StateRead,
                    StateWrite, Share, Invalidation
      <4> QED BY <4>1 DEF StateWrite, Command
    <3>3. \A d \in Client : command[d] \in Command
      BY <2>0 DEF CommandsTypeOK
    <3>4. command' \in [Client -> Command]
      BY <3>1, <3>2, <3>3, <2>0, InvalidationType
    <3>5. share' \in [Todo -> SUBSET Recipient]
      BY <3>1 DEF CommandsTypeOK
    <3>6. requests' \in 0..MaxRequests
      BY <2>14, CommandsAssumption DEF Withdraw, CommandsTypeOK
    <3> QED BY <2>14, <3>4, <3>5, <3>6 DEF Withdraw, CommandsTypeOK
  <2> QED
    BY <1>3, <2>1, <2>2, <2>3, <2>4, <2>5, <2>6, <2>7, <2>8, <2>9, <2>10,
       <2>11, <2>12, <2>13, <2>14
    DEF Step
<1> QED BY <1>1, <1>2, <1>3 DEF CommandsNext

(***************************************************************************)
(* Idempotency.  A record is that of an answer; an answer has its record    *)
(* until the TODO has lapsed; the TODO of an answer is the answer's alone;  *)
(* and the id a create request has drawn is nobody else's.                  *)
(***************************************************************************)
RecordsMatch(rec) ==
  /\ \A k \in Key : rec[k] # NoRecord =>
       [key |-> k, todo |-> rec[k].todo, title |-> rec[k].title,
        done |-> rec[k].done] \in answers
  /\ \A a \in answers : a.todo \notin lapsed => rec[a.key] = Made(a, a.todo)

AnswersApart ==
  /\ \A a, b \in answers : a.todo = b.todo => a = b
  /\ \A a \in answers : todo[a.todo].phase # "absent"

DrawnApart ==
  \A c \in Client : command[c].op = "create" =>
    /\ todo[command[c].todo].phase = "absent"
    /\ command[c].past \subseteq lapsed
    /\ \A d \in Client : command[d].op = "create"
                           /\ command[d].todo = command[c].todo => d = c

IdempotencyInv == RecordsMatch(record) /\ AnswersApart /\ DrawnApart

\* Deleting records that have lapsed leaves those that have not.
LEMMA SweptMatches ==
  ASSUME CommandsTypeOK, RecordsMatch(record), NEW past \in SUBSET lapsed
  PROVE  RecordsMatch(Swept(past))
<1>1. \A k \in Key : Swept(past)[k] = IF record[k].todo \in past THEN NoRecord ELSE record[k]
  BY DEF Swept
<1>2. \A k \in Key : Swept(past)[k] # NoRecord => Swept(past)[k] = record[k]
  BY <1>1
<1>3. ASSUME NEW a \in answers, a.todo \notin lapsed
      PROVE  Swept(past)[a.key] = Made(a, a.todo)
  <2>1. a.key \in Key /\ record[a.key] = Made(a, a.todo)
    BY <1>3 DEF RecordsMatch, CommandsTypeOK
  <2>2. record[a.key].todo \notin past
    BY <2>1, <1>3 DEF Made
  <2> QED BY <2>1, <2>2, <1>1
<1> QED BY <1>2, <1>3 DEF RecordsMatch

\* What a step of a client does to the rows: a TODO changes in no way, or with
\* its version; only a create request makes one, the one it has drawn.
LEMMA RowStep ==
  ASSUME CommandsTypeOK, NEW c \in Client, Step(c), NEW t \in Todo
  PROVE  \/ todo'[t] = todo[t]
         \/ /\ todo[t].phase = "live" /\ todo'[t].phase # "absent"
            /\ todo'[t].version = todo[t].version + 1
         \/ CreateTodo(c) /\ t = command[c].todo
<1>0. todo \in [Todo -> Row]
  BY DEF CommandsTypeOK
<1>1. CASE UNCHANGED todo
  BY <1>1
<1>2. CASE CreateTodo(c)
  <2>1. command[c].todo \in Todo
    BY <1>2, CommandFacts DEF CreateTodo
  <2> QED BY <1>2, <2>1, <1>0 DEF CreateTodo
<1>3. CASE UpdateOwnedTodo(c)
  <2>1. command[c].todo \in Todo
    BY <1>3, CommandFacts DEF UpdateOwnedTodo
  <2> QED BY <1>3, <2>1, <1>0 DEF UpdateOwnedTodo, Matches, Live, Row
<1>4. CASE WriteState(c)
  <2>1. command[c].todo \in Todo
    BY <1>4, CommandFacts DEF WriteState
  <2> QED BY <1>4, <2>1, <1>0 DEF WriteState, Matches, Live, Row
<1>5. CASE SoftDeleteOwnedTodo(c)
  BY <1>5, <1>0 DEF SoftDeleteOwnedTodo, Live, Row
<1>6. CASE \/ AskCreate(c) \/ Replay(c) \/ CreateRefused(c) \/ BeginUpdate(c)
           \/ UpdateRefused(c) \/ BeginState(c) \/ CheckState(c)
           \/ BeginShare(c) \/ CreateShare(c) \/ Withdraw(c)
  BY <1>6 DEF AskCreate, Replay, CreateRefused, BeginUpdate, UpdateRefused,
              BeginState, CheckState, BeginShare, CreateShare, Withdraw, rowVars
<1> QED BY <1>2, <1>3, <1>4, <1>5, <1>6 DEF Step

\* What a step of a client does to the commands: the other clients' are as they
\* were, but for a state change whose share is withdrawn.
LEMMA OthersStep ==
  ASSUME CommandsTypeOK, NEW c \in Client, Step(c), NEW d \in Client, d # c
  PROVE  \/ command'[d] = command[d]
         \/ /\ command[d].op = "write" /\ command'[d].op = "write"
            /\ command'[d].late /\ command'[d].todo = command[d].todo
            /\ command'[d].was = command[d].was
            /\ command'[d].version = command[d].version
<1>0. command \in [Client -> Command]
  BY DEF CommandsTypeOK
<1>1. CASE Withdraw(c)
  <2>1. \/ command'[d] = command[d]
        \/ /\ command[d].op = "write"
           /\ command'[d] = [command[d] EXCEPT !.late = TRUE]
    BY <1>1 DEF Withdraw
  <2>2. command[d].op = "write" => command[d] \in StateWrite
    BY <1>0 DEF Command, Idle, Create, Update, StateRead, StateWrite, Share,
                Invalidation
  <2> QED BY <2>1, <2>2 DEF StateWrite
<1>2. CASE \E what : command' = [command EXCEPT ![c] = what]
  BY <1>2, <1>0
<1>3. ASSUME ~Withdraw(c) PROVE \E what : command' = [command EXCEPT ![c] = what]
  <2>1. CASE AskCreate(c) \/ BeginUpdate(c) \/ BeginState(c) \/ BeginShare(c)
    BY <2>1 DEF AskCreate, BeginUpdate, BeginState, BeginShare, Begin
  <2>2. CASE CreateRefused(c) \/ UpdateRefused(c) \/ CreateShare(c) \/ CheckState(c)
    BY <2>2 DEF CreateRefused, UpdateRefused, CreateShare, CheckState, End
  <2>3. CASE Replay(c)
    BY <2>3 DEF Replay, End
  <2>4. CASE \/ CreateTodo(c) \/ UpdateOwnedTodo(c) \/ WriteState(c)
             \/ SoftDeleteOwnedTodo(c)
    BY <2>4 DEF CreateTodo, UpdateOwnedTodo, WriteState, SoftDeleteOwnedTodo,
                Committed
  <2> QED BY <1>3, <2>1, <2>2, <2>3, <2>4 DEF Step
<1> QED BY <1>1, <1>2, <1>3

LEMMA IdempotencyStep ==
  ASSUME CommandsTypeOK, IdempotencyInv, CommandsNext
  PROVE  IdempotencyInv'
<1> USE DEF IdempotencyInv
<1>0. /\ lapsed \subseteq Todo /\ answers \subseteq
                                [key : Key, todo : Todo, title : Title,
                                 done : BOOLEAN]
      /\ record \in [Key -> Record \cup {NoRecord}]
  BY DEF CommandsTypeOK
<1>1. CASE SweepByOthers
  <2>1. RecordsMatch(Swept(lapsed))
    BY SweptMatches
  <2>2. UNCHANGED <<todo, lapsed, command, answers>> /\ record' = Swept(lapsed)
    BY <1>1 DEF SweepByOthers
  <2> QED BY <2>1, <2>2 DEF RecordsMatch, AnswersApart, DrawnApart
<1>2. CASE Lapse
  <2>1. /\ lapsed \subseteq lapsed'
        /\ UNCHANGED <<todo, record, command, answers>>
    BY <1>2 DEF Lapse, rowVars
  <2> QED BY <2>1 DEF RecordsMatch, AnswersApart, DrawnApart
<1>3. ASSUME NEW c \in Client, Step(c) PROVE IdempotencyInv'
  <2> DEFINE m == command[c]
  <2>0. lapsed' = lapsed
    BY <1>3 DEF Step, AskCreate, Replay, CreateRefused, CreateTodo, BeginUpdate,
                UpdateOwnedTodo, UpdateRefused, BeginState, CheckState, WriteState,
                SoftDeleteOwnedTodo, BeginShare, CreateShare, Withdraw
  <2>1. DrawnApart'
    <3>1. ASSUME NEW d \in Client, command'[d].op = "create", d # c
          PROVE  command'[d] = command[d] /\ command[d].op = "create"
      BY <3>1, <1>3, OthersStep
    <3>2. CASE AskCreate(c)
      <4>1. PICK k \in Key, title \in Title, done \in BOOLEAN, t \in Todo :
              /\ Next(t)
              /\ Begin(c, [op |-> "create", key |-> k, title |-> title,
                           done |-> done, todo |-> t, past |-> lapsed])
              /\ UNCHANGED <<rowVars, lapsed, answers, completed>>
        BY <3>2 DEF AskCreate
      <4>2. ~Used(t)
        BY <4>1, CommandsAssumption DEF Next, Todo
      <4>3. todo' = todo
        BY <4>1 DEF rowVars
      <4>4. command'[c] = [op |-> "create", key |-> k, title |-> title,
                           done |-> done, todo |-> t, past |-> lapsed]
        BY <4>1 DEF Begin, CommandsTypeOK
      <4>5. \A d \in Client : command[d].op = "create" => command[d].todo # t
        BY <4>2 DEF Used
      <4>6. todo[t].phase = "absent"
        BY <4>2 DEF Used
      <4> QED BY <3>1, <4>3, <4>4, <4>5, <4>6, <2>0 DEF DrawnApart
    <3>3. CASE ~AskCreate(c)
      <4>1. command'[c].op # "create"
        <5> USE DEF CommandsTypeOK
        <5>1. CASE BeginUpdate(c) \/ BeginState(c) \/ BeginShare(c)
          BY <5>1 DEF BeginUpdate, BeginState, BeginShare, Begin
        <5>2. CASE CreateRefused(c) \/ UpdateRefused(c) \/ CreateShare(c) \/ CheckState(c)
          BY <5>2 DEF CreateRefused, UpdateRefused, CreateShare, CheckState, End, Idle
        <5>3. CASE Replay(c)
          BY <5>3 DEF Replay, End, Idle
        <5>4. CASE \/ CreateTodo(c) \/ UpdateOwnedTodo(c) \/ WriteState(c)
                   \/ SoftDeleteOwnedTodo(c)
          <6>1. Committed(c)
            BY <5>4 DEF CreateTodo, UpdateOwnedTodo, WriteState,
                        SoftDeleteOwnedTodo
          <6> QED BY <6>1 DEF Committed
        <5>5. CASE Withdraw(c)
          BY <5>5 DEF Withdraw
        <5> QED BY <3>3, <1>3, <5>1, <5>2, <5>3, <5>4, <5>5 DEF Step
      <4>2. ASSUME NEW d \in Client, command'[d].op = "create"
            PROVE  todo'[command[d].todo].phase = "absent"
        <5>1. d # c /\ command[d].op = "create" /\ command[d].todo \in Todo
              /\ todo[command[d].todo].phase = "absent"
          BY <4>1, <4>2, <3>1, CommandFacts DEF DrawnApart
        <5>2. ~(CreateTodo(c) /\ command[c].todo = command[d].todo)
          BY <5>1 DEF DrawnApart, CreateTodo
        <5> QED BY <5>1, <5>2, <1>3, RowStep
      <4> QED BY <3>1, <4>1, <4>2, <2>0 DEF DrawnApart
    <3> QED BY <3>2, <3>3
  <2>2. CASE Replay(c)
    <3>1. PICK found : /\ found = Swept(m.past)[m.key] /\ found # NoRecord
                       /\ answers' # answers =>
                            /\ found = Made(m, found.todo)
                            /\ Answer(m, found.todo)
                       /\ record' = record \/ record' = Swept(m.past)
      BY <2>2 DEF Replay
    <3>2. m.op = "create" /\ m.key \in Key /\ m.past \in SUBSET lapsed
      BY <2>2, CommandFacts DEF Replay, DrawnApart
    <3>3. RecordsMatch(Swept(m.past))
      BY <3>2, SweptMatches
    <3>4. answers' = answers
      <4> SUFFICES ASSUME answers' # answers PROVE FALSE
        OBVIOUS
      <4>1. [key |-> m.key, todo |-> found.todo, title |-> found.title,
             done |-> found.done] \in answers
        BY <3>1, <3>2, <3>3 DEF RecordsMatch
      <4>2. found.title = m.title /\ found.done = m.done
        BY <3>1 DEF Made
      <4> QED BY <3>1, <4>1, <4>2 DEF Answer
    <3>5. todo' = todo
      BY <2>2 DEF Replay
    <3> QED BY <3>1, <3>3, <3>4, <3>5, <2>0, <2>1 DEF RecordsMatch, AnswersApart
  <2>3. CASE CreateTodo(c)
    <3> DEFINE new == [key |-> m.key, todo |-> m.todo, title |-> m.title,
                       done |-> m.done]
    <3>1. /\ m.op = "create" /\ m.key \in Key /\ m.title \in Title
          /\ m.todo \in Todo /\ m.past \in SUBSET lapsed
          /\ todo[m.todo].phase = "absent"
      BY <2>3, CommandFacts DEF CreateTodo, DrawnApart
    <3>2. RecordsMatch(Swept(m.past)) /\ Swept(m.past) \in [Key -> Record \cup {NoRecord}]
      BY <3>1, SweptMatches, SweptType
    <3>3. /\ Swept(m.past)[m.key] = NoRecord
          /\ record' = [Swept(m.past) EXCEPT ![m.key] = Made(m, m.todo)]
          /\ todo' = [todo EXCEPT ![m.todo] =
                        [phase |-> "live", title |-> m.title, done |-> m.done,
                         version |-> 1]]
          /\ answers' = answers \cup {new}
      BY <2>3 DEF CreateTodo, Answer
    <3>4. \A a \in answers : a.todo # m.todo
      BY <3>1 DEF AnswersApart
    <3>5. \A a \in answers : a.todo \notin lapsed => a.key # m.key
      <4> SUFFICES ASSUME NEW a \in answers, a.todo \notin lapsed, a.key = m.key
                   PROVE  FALSE
        OBVIOUS
      <4>1. a.todo \in Todo
        BY <1>0
      <4>2. NoRecord = Made(a, a.todo)
        BY <3>2, <3>3 DEF RecordsMatch
      <4>3. NoRecord.todo = 0 /\ Made(a, a.todo).todo = a.todo
        BY DEF NoRecord, Made
      <4> QED BY <4>1, <4>2, <4>3 DEF Todo
    <3>6. RecordsMatch(record)'
      <4>1. \A k \in Key : record'[k] = IF k = m.key
                             THEN Made(m, m.todo)
                             ELSE Swept(m.past)[k]
        BY <3>2, <3>3, <3>1
      <4>2. ASSUME NEW k \in Key, record'[k] # NoRecord
            PROVE  [key |-> k, todo |-> record'[k].todo,
                    title |-> record'[k].title,
                    done |-> record'[k].done] \in answers'
        <5>1. CASE k = m.key
          BY <5>1, <4>1, <3>3 DEF Made
        <5>2. CASE k # m.key
          BY <5>2, <4>1, <4>2, <3>2, <3>3 DEF RecordsMatch
        <5> QED BY <5>1, <5>2
      <4>3. ASSUME NEW a \in answers', a.todo \notin lapsed
            PROVE  record'[a.key] = Made(a, a.todo)
        <5>1. CASE a = new
          BY <5>1, <4>1, <3>1 DEF Made
        <5>2. CASE a \in answers
          <6>1. a.key \in Key /\ a.key # m.key
            BY <5>2, <4>3, <3>5, <1>0
          <6> QED BY <5>2, <4>3, <6>1, <4>1, <3>2 DEF RecordsMatch
        <5> QED BY <5>1, <5>2, <3>3
      <4> QED BY <4>2, <4>3, <2>0 DEF RecordsMatch
    <3>7. AnswersApart'
      <4>1. \A a, b \in answers' : a.todo = b.todo => a = b
        BY <3>3, <3>4 DEF AnswersApart
      <4>2. \A a \in answers' : todo'[a.todo].phase # "absent"
        <5>1. todo'[new.todo].phase # "absent"
          BY <3>3, <3>1 DEF CommandsTypeOK
        <5>2. \A a \in answers : todo'[a.todo] = todo[a.todo]
          BY <3>3, <3>4, <1>0 DEF CommandsTypeOK
        <5> QED BY <5>1, <5>2, <3>3 DEF AnswersApart
      <4> QED BY <4>1, <4>2 DEF AnswersApart
    <3> QED BY <3>6, <3>7, <2>1
  <2>4. CASE ~Replay(c) /\ ~CreateTodo(c)
    <3>1. UNCHANGED <<record, answers>>
      BY <2>4, <1>3
      DEF Step, AskCreate, CreateRefused, BeginUpdate, UpdateOwnedTodo,
          UpdateRefused, BeginState, CheckState, WriteState, SoftDeleteOwnedTodo,
          BeginShare, CreateShare, Withdraw, rowVars
    <3>2. \A a \in answers : todo'[a.todo].phase # "absent"
      <4> TAKE a \in answers
      <4>1. a.todo \in Todo /\ todo[a.todo].phase # "absent"
        BY <1>0 DEF AnswersApart
      <4> QED BY <4>1, <2>4, <1>3, RowStep
    <3> QED BY <3>1, <3>2, <2>0, <2>1 DEF RecordsMatch, AnswersApart
  <2> QED BY <2>2, <2>3, <2>4
<1> QED BY <1>1, <1>2, <1>3 DEF CommandsNext

LEMMA AnswersOnce ==
  ASSUME CommandsTypeOK, IdempotencyInv PROVE KeyAnswersOnce
<1> SUFFICES ASSUME NEW a \in answers, NEW b \in answers, a.key = b.key, a # b
             PROVE  /\ a.todo # b.todo
                    /\ a.todo \in lapsed \/ b.todo \in lapsed
  BY DEF KeyAnswersOnce
<1>1. a.todo # b.todo
  BY DEF IdempotencyInv, AnswersApart
<1>2. ASSUME a.todo \notin lapsed, b.todo \notin lapsed PROVE FALSE
  <2>1. Made(a, a.todo) = Made(b, b.todo)
    BY <1>2 DEF IdempotencyInv, RecordsMatch
  <2>2. Made(a, a.todo).todo = a.todo /\ Made(b, b.todo).todo = b.todo
    BY DEF Made
  <2> QED BY <1>1, <2>1, <2>2
<1> QED BY <1>1, <1>2

(***************************************************************************)
(* Versions.  As long as a TODO has the version that a command has read, it *)
(* is as the command has read it.                                          *)
(***************************************************************************)
ReadCurrent ==
  \A c \in Client : command[c].op \in {"update", "check", "write"} =>
    LET m == command[c]
    IN /\ todo[m.todo].phase # "absent"
       /\ m.version <= todo[m.todo].version
       /\ m.version = todo[m.todo].version => m.was = todo[m.todo].done

LEMMA ReadCurrentStep ==
  ASSUME CommandsTypeOK, IdempotencyInv, ReadCurrent, CommandsNext
  PROVE  ReadCurrent'
<1>0. command \in [Client -> Command] /\ todo \in [Todo -> Row]
  BY DEF CommandsTypeOK
<1>1. CASE SweepByOthers
  BY <1>1 DEF SweepByOthers, ReadCurrent
<1>2. CASE Lapse
  BY <1>2 DEF Lapse, rowVars, ReadCurrent
<1>3. ASSUME NEW c \in Client, Step(c), NEW d \in Client,
             command'[d].op \in {"update", "check", "write"}
      PROVE  LET m == command'[d]
             IN /\ todo'[m.todo].phase # "absent"
                /\ m.version <= todo'[m.todo].version
                /\ m.version = todo'[m.todo].version => m.was = todo'[m.todo].done
  <2> DEFINE m == command'[d]
  <2>1. \/ UNCHANGED todo /\ \E t \in Todo :
             /\ todo[t].phase = "live"
             /\ m.todo = t /\ m.was = todo[t].done /\ m.version = todo[t].version
        \/ /\ command[d].op \in {"update", "check", "write"}
           /\ m.todo = command[d].todo /\ m.was = command[d].was
           /\ m.version = command[d].version
    <3>1. CASE d # c
      <4>1. \/ m = command[d]
            \/ /\ command[d].op = "write"
               /\ m.todo = command[d].todo /\ m.was = command[d].was
               /\ m.version = command[d].version
        BY <3>1, <1>3, OthersStep
      <4> QED BY <4>1, <1>3
    <3>2. CASE d = c
      <4>1. CASE BeginUpdate(c) \/ BeginState(c)
        BY <4>1, <3>2, <1>0 DEF BeginUpdate, BeginState, Begin, Live, rowVars
      <4>2. CASE CheckState(c)
        BY <4>2, <3>2, <1>3, <1>0 DEF CheckState, Idle
      <4>3. CASE ~BeginUpdate(c) /\ ~BeginState(c) /\ ~CheckState(c)
        <5>1. CASE AskCreate(c) \/ BeginShare(c)
          BY <5>1, <3>2, <1>3, <1>0 DEF AskCreate, BeginShare, Begin
        <5>2. CASE CreateRefused(c) \/ UpdateRefused(c) \/ CreateShare(c)
          BY <5>2, <3>2, <1>3, <1>0
          DEF CreateRefused, UpdateRefused, CreateShare, End, Idle
        <5>3. CASE Replay(c)
          BY <5>3, <3>2, <1>3, <1>0 DEF Replay, End, Idle
        <5>4. CASE \/ CreateTodo(c) \/ UpdateOwnedTodo(c) \/ WriteState(c)
                   \/ SoftDeleteOwnedTodo(c)
          <6>1. Committed(c)
            BY <5>4 DEF CreateTodo, UpdateOwnedTodo, WriteState,
                        SoftDeleteOwnedTodo
          <6> QED BY <6>1, <3>2, <1>3, <1>0 DEF Committed
        <5>5. CASE Withdraw(c)
          BY <5>5, <3>2, <1>3, <1>0 DEF Withdraw
        <5> QED BY <4>3, <1>3, <5>1, <5>2, <5>3, <5>4, <5>5 DEF Step
      <4> QED BY <4>1, <4>2, <4>3
    <3> QED BY <3>1, <3>2
  <2>2. CASE UNCHANGED todo /\ \E t \in Todo :
             /\ todo[t].phase = "live"
             /\ m.todo = t /\ m.was = todo[t].done /\ m.version = todo[t].version
    <3>1. PICK t \in Todo :
             /\ todo' = todo /\ todo[t].phase = "live"
             /\ m.todo = t /\ m.was = todo[t].done /\ m.version = todo[t].version
      BY <2>2
    <3>2. todo[t].version \in Nat
      BY <1>0 DEF Row
    <3> QED BY <3>1, <3>2
  <2>3. CASE /\ command[d].op \in {"update", "check", "write"}
             /\ m.todo = command[d].todo /\ m.was = command[d].was
             /\ m.version = command[d].version
    <3> DEFINE t == command[d].todo
    <3>1. /\ t \in Todo /\ command[d].version \in Nat
          /\ todo[t].version \in Nat
      BY <2>3, <1>0, CommandFacts DEF Row
    <3>2. /\ todo[t].phase # "absent"
          /\ command[d].version <= todo[t].version
          /\ command[d].version = todo[t].version => command[d].was = todo[t].done
      BY <2>3 DEF ReadCurrent
    <3>3. \/ todo'[t] = todo[t]
          \/ /\ todo'[t].phase # "absent"
             /\ todo'[t].version = todo[t].version + 1
      <4>1. ~(CreateTodo(c) /\ t = command[c].todo)
        BY <3>2 DEF CreateTodo, IdempotencyInv, DrawnApart
      <4> QED BY <4>1, <3>1, <1>3, RowStep
    <3>4. /\ todo'[t].phase # "absent"
          /\ command[d].version <= todo'[t].version
          /\ command[d].version = todo'[t].version => command[d].was = todo'[t].done
      BY <3>1, <3>2, <3>3
    <3> QED BY <3>4, <2>3
  <2> QED BY <2>1, <2>2, <2>3
<1> QED BY <1>1, <1>2, <1>3 DEF CommandsNext, ReadCurrent

\* The count of completions keeps up with every step.
LEMMA CompletionStep ==
  ASSUME CommandsTypeOK, IdempotencyInv, ReadCurrent, CommandsNext, NEW t \in Todo
  PROVE  completed'[t] = completed[t]
           + (IF /\ todo[t].phase # "absent"
                 /\ todo'[t].done /\ ~todo[t].done THEN 1 ELSE 0)
<1>0. /\ todo \in [Todo -> Row] /\ completed \in [Todo -> Nat]
      /\ completed[t] \in Nat
  BY DEF CommandsTypeOK
<1>1. CASE UNCHANGED <<todo, completed>>
  BY <1>1, <1>0
<1>2. ASSUME NEW c \in Client, UpdateOwnedTodo(c) \/ WriteState(c)
      PROVE  completed'[t] = completed[t]
               + (IF /\ todo[t].phase # "absent"
                     /\ todo'[t].done /\ ~todo[t].done THEN 1 ELSE 0)
  <2> DEFINE m == command[c]
  <2>1. /\ m.op \in {"update", "write"} /\ m.todo \in Todo
        /\ m.done \in BOOLEAN
    BY <1>2, CommandFacts DEF UpdateOwnedTodo, WriteState
  <2>2. /\ Matches(m) /\ AppendCompletedEvent(m.was, m.done, m.todo)
    BY <1>2 DEF UpdateOwnedTodo, WriteState
  <2>3. m.was = todo[m.todo].done /\ todo[m.todo].phase # "absent"
    BY <2>1, <2>2 DEF Matches, ReadCurrent
  <2>4. /\ \A u \in Todo : u # m.todo => todo'[u] = todo[u]
        /\ todo'[m.todo].done = m.done
    BY <1>2, <2>1, <1>0 DEF UpdateOwnedTodo, WriteState, Row
  <2>5. completed' = [completed EXCEPT ![m.todo] =
                        @ + (IF m.done /\ ~m.was THEN 1 ELSE 0)]
    BY <2>2 DEF AppendCompletedEvent
  <2> HIDE DEF m
  <2>6. CASE t = m.todo
    BY <2>6, <2>5, <2>4, <2>3, <2>1, <1>0
  <2>7. CASE t # m.todo
    <3>1. completed'[t] = completed[t] /\ todo'[t] = todo[t]
      BY <2>7, <2>5, <2>4, <1>0
    <3> QED BY <3>1, <1>0
  <2> QED BY <2>6, <2>7
<1>3. ASSUME NEW c \in Client, CreateTodo(c)
      PROVE  completed'[t] = completed[t]
               + (IF /\ todo[t].phase # "absent"
                     /\ todo'[t].done /\ ~todo[t].done THEN 1 ELSE 0)
  <2>1. /\ completed' = completed
        /\ todo'[t] = todo[t] \/ t = command[c].todo
    BY <1>3, <1>0 DEF CreateTodo
  <2>2. todo[command[c].todo].phase = "absent"
    BY <1>3 DEF CreateTodo, IdempotencyInv, DrawnApart
  <2> QED BY <2>1, <2>2, <1>0
<1>4. ASSUME NEW c \in Client, SoftDeleteOwnedTodo(c)
      PROVE  completed'[t] = completed[t]
               + (IF /\ todo[t].phase # "absent"
                     /\ todo'[t].done /\ ~todo[t].done THEN 1 ELSE 0)
  <2>1. /\ completed' = completed
        /\ todo'[t].done = todo[t].done
    BY <1>4, <1>0 DEF SoftDeleteOwnedTodo, Row
  <2> QED BY <2>1, <1>0
<1>5. \/ UNCHANGED <<todo, completed>>
      \/ \E c \in Client : \/ UpdateOwnedTodo(c) \/ WriteState(c)
                           \/ CreateTodo(c) \/ SoftDeleteOwnedTodo(c)
  BY DEF CommandsNext, SweepByOthers, Lapse, Step, AskCreate, Replay,
         CreateRefused, BeginUpdate, UpdateRefused, BeginState, CheckState,
         BeginShare, CreateShare, Withdraw, rowVars
<1> QED BY <1>1, <1>2, <1>3, <1>4, <1>5

(***************************************************************************)
(* Shares.  An update that is about to be written is one of a recipient     *)
(* whose share is there, or was withdrawn after the update had begun.      *)
(***************************************************************************)
AccessKept ==
  \A c \in Client : command[c].op = "write" =>
    MayAccess(command[c].caller, command[c].todo) \/ command[c].late

LEMMA AccessStep ==
  ASSUME CommandsTypeOK, AccessKept, CommandsNext
  PROVE  AccessKept'
<1>0. command \in [Client -> Command] /\ share \in [Todo -> SUBSET Recipient]
  BY DEF CommandsTypeOK
<1>1. CASE SweepByOthers
  BY <1>1 DEF SweepByOthers, AccessKept, MayAccess
<1>2. CASE Lapse
  BY <1>2 DEF Lapse, rowVars, AccessKept, MayAccess
<1>3. ASSUME NEW c \in Client, Withdraw(c) PROVE AccessKept'
  <2>1. PICK t \in Todo, r \in Recipient :
          /\ share' = [share EXCEPT ![t] = @ \ {r}]
          /\ command' = [d \in Client |->
               IF d = c THEN [op |-> "invalidate", from |-> cacheVersion]
               ELSE IF /\ command[d].op = "write"
                       /\ command[d].todo = t /\ command[d].caller = r
                    THEN [command[d] EXCEPT !.late = TRUE]
                    ELSE command[d]]
    BY <1>3 DEF Withdraw
  <2>2. ASSUME NEW d \in Client, command'[d].op = "write"
        PROVE  \/ (command'[d].caller = Owner
                    \/ command'[d].caller \in share'[command'[d].todo])
               \/ command'[d].late
    <3>1. CASE d # c /\ command[d].op = "write"
               /\ command[d].todo = t /\ command[d].caller = r
      <4>1. command[d] \in StateWrite
        BY <3>1, <1>0 DEF Command, Idle, Create, Update, StateRead, StateWrite,
                          Share, Invalidation
      <4> QED BY <2>1, <3>1, <4>1 DEF StateWrite
    <3>2. CASE d # c /\ command'[d] = command[d]
               /\ ~(command[d].todo = t /\ command[d].caller = r)
      <4>1. command[d].op = "write" /\ command[d].todo \in Todo
        BY <2>2, <3>2, CommandFacts
      <4> QED BY <4>1, <3>2, <2>1, <1>0 DEF AccessKept, MayAccess
    <3> QED BY <2>1, <2>2, <3>1, <3>2
  <2> QED BY <2>2 DEF AccessKept, MayAccess
<1>4. ASSUME NEW c \in Client, Step(c), ~Withdraw(c) PROVE AccessKept'
  <2>1. \A t \in Todo : share[t] \subseteq share'[t]
    <3>1. CASE CreateShare(c)
      BY <3>1, <1>0 DEF CreateShare
    <3>2. CASE ~CreateShare(c)
      BY <3>2, <1>4
      DEF Step, AskCreate, Replay, CreateRefused, CreateTodo, BeginUpdate,
          UpdateOwnedTodo, UpdateRefused, BeginState, CheckState, WriteState,
          SoftDeleteOwnedTodo, BeginShare, rowVars
    <3> QED BY <3>1, <3>2
  <2>2. ASSUME NEW d \in Client, command'[d].op = "write", d # c
        PROVE  \/ command'[d].late
               \/ /\ command'[d] = command[d] /\ command[d].op = "write"
    BY <2>2, <1>4, OthersStep
  <2>3. ASSUME command'[c].op = "write"
        PROVE  /\ MayAccess(command'[c].caller, command'[c].todo)
               /\ command'[c].todo \in Todo
    <3>1. CASE CheckState(c)
      <4>1. command[c].todo \in Todo
        BY <3>1, CommandFacts DEF CheckState
      <4> QED BY <4>1, <3>1, <2>3, <1>0 DEF CheckState, Idle
    <3>2. CASE ~CheckState(c)
      <4>1. CASE AskCreate(c) \/ BeginUpdate(c) \/ BeginState(c) \/ BeginShare(c)
        BY <4>1, <2>3, <1>0 DEF AskCreate, BeginUpdate, BeginState, BeginShare, Begin
      <4>2. CASE CreateRefused(c) \/ UpdateRefused(c) \/ CreateShare(c)
        BY <4>2, <2>3, <1>0
        DEF CreateRefused, UpdateRefused, CreateShare, End, Idle
      <4>3. CASE Replay(c)
        BY <4>3, <2>3, <1>0 DEF Replay, End, Idle
      <4>4. CASE \/ CreateTodo(c) \/ UpdateOwnedTodo(c) \/ WriteState(c)
                 \/ SoftDeleteOwnedTodo(c)
        <5>1. Committed(c)
          BY <4>4 DEF CreateTodo, UpdateOwnedTodo, WriteState, SoftDeleteOwnedTodo
        <5> QED BY <5>1, <2>3, <1>0 DEF Committed
      <4> QED BY <3>2, <1>4, <4>1, <4>2, <4>3, <4>4 DEF Step
    <3> QED BY <3>1, <3>2
  <2>4. ASSUME NEW d \in Client, command'[d].op = "write"
        PROVE  \/ (command'[d].caller = Owner
                    \/ command'[d].caller \in share'[command'[d].todo])
               \/ command'[d].late
    <3>1. CASE d = c
      BY <3>1, <2>4, <2>3, <2>1 DEF MayAccess
    <3>2. CASE d # c
      <4>1. command[d].op = "write" => command[d].todo \in Todo
        BY CommandFacts
      <4> QED BY <4>1, <3>2, <2>4, <2>2, <2>1 DEF AccessKept, MayAccess
    <3> QED BY <3>1, <3>2
  <2> QED BY <2>4 DEF AccessKept, MayAccess
<1> QED BY <1>1, <1>2, <1>3, <1>4 DEF CommandsNext

(***************************************************************************)
(* The cache.                                                              *)
(***************************************************************************)
LEMMA CacheInitType == CacheInit => CacheTypeOK
<1> SUFFICES ASSUME CacheInit PROVE CacheTypeOK
  OBVIOUS
<1>1. CommandsTypeOK
  BY CommandsInitType DEF CacheInit
<1>2. NoImage \in Image
  BY DEF NoImage, Image
<1>3. [kind |-> "page", at |-> 0] \in Resource
  BY CommandsAssumption DEF Resource
<1>4. reader \in [Reader -> Read]
  BY <1>2, <1>3 DEF CacheInit, Read, Place
<1>5. copy \in Nat \cup {NoVersion} /\ entries = {}
  BY <1>1 DEF CacheInit, CommandsTypeOK
<1> QED BY <1>1, <1>4, <1>5 DEF CacheTypeOK

LEMMA AskType ==
  ASSUME CacheTypeOK, NEW r \in Reader, NEW resource \in Resource,
         NEW must \in SUBSET Todo, NEW got \in SUBSET Todo,
         Ask(r, resource, must, got)
  PROVE  CacheTypeOK'
<1>1. NoImage \in Image
  BY DEF NoImage, Image
<1>2. cacheVersion \in Nat
  BY DEF CacheTypeOK, CommandsTypeOK
<1>3. reader' \in [Reader -> Read]
  BY <1>1, <1>2 DEF Ask, CacheTypeOK, Read, Place
<1>4. requests' \in 0..MaxRequests
  BY CommandsAssumption DEF Ask, CacheTypeOK, CommandsTypeOK
<1>5. CommandsTypeOK'
  BY <1>4 DEF Ask, CacheTypeOK, CommandsTypeOK, rowVars
<1> QED BY <1>3, <1>5 DEF Ask, CacheTypeOK

LEMMA AnsweredType ==
  ASSUME CacheTypeOK, NEW resource \in Resource
  PROVE  /\ Answered(resource) \in Image
         /\ resource.kind = "page" =>
              /\ resource.at \in 0..MaxTodo
              /\ Answered(resource).items = FirstOf(After(resource.at), PageSize)
              /\ Answered(resource).more
                   = (Cardinality(After(resource.at)) > PageSize)
         /\ resource.kind # "page" => ~Answered(resource).more
         /\ Answered(resource).asOf = cacheVersion
<1>1. cacheVersion \in Nat
  BY DEF CacheTypeOK, CommandsTypeOK
<1>2. After(resource.at) \in SUBSET Todo
  BY DEF After
<1>3. FirstOf(After(resource.at), PageSize) \subseteq Todo
  BY <1>2, CacheAssumption, PageFacts
<1> DEFINE items == IF resource.kind = "item"
                    THEN {t \in {resource.at} : Live(t)}
                    ELSE FirstOf(After(resource.at), PageSize)
           more == resource.kind = "page"
                     /\ Cardinality(After(resource.at)) > PageSize
<1>4. Answered(resource) = [items |-> items, more |-> more, asOf |-> cacheVersion]
  BY DEF Answered
<1>5. resource.kind = "item" => resource.at \in Todo
  BY DEF Resource
<1>6. items \subseteq Todo /\ more \in BOOLEAN
  BY <1>3, <1>5
<1>7. resource.kind = "page" => resource.at \in 0..MaxTodo
  BY DEF Resource
<1>8. resource.kind = "page" =>
        items = FirstOf(After(resource.at), PageSize)
        /\ more = (Cardinality(After(resource.at)) > PageSize)
  OBVIOUS
<1>9. resource.kind # "page" => ~more
  OBVIOUS
<1> HIDE DEF items, more
<1>10. Answered(resource) \in Image
  BY <1>1, <1>4, <1>6 DEF Image
<1> QED BY <1>4, <1>7, <1>8, <1>9, <1>10

LEMMA ReaderFacts ==
  ASSUME CacheTypeOK, NEW r \in Reader
  PROVE  LET x == reader[r]
         IN /\ x \in Read /\ x.resource \in Resource /\ x.at \in Place
            /\ x.version \in Nat \cup {NoVersion} /\ x.began \in Nat
            /\ x.image \in Image /\ x.image.items \subseteq Todo
            /\ x.image.more \in BOOLEAN /\ x.image.asOf \in Nat
            /\ x.must \subseteq Todo /\ x.got \subseteq Todo
  BY DEF CacheTypeOK, Read, Image

LEMMA EntryFacts ==
  ASSUME CacheTypeOK, NEW e \in entries
  PROVE  /\ e.resource \in Resource /\ e.version \in Nat /\ e.image \in Image
         /\ e.image.items \subseteq Todo /\ e.image.asOf \in Nat
         /\ e.image.more \in BOOLEAN
  BY DEF CacheTypeOK, Entry, Image

(***************************************************************************)
(* What is stored under a version was read when the owner's version was at  *)
(* least that; what a reader looks for is no older than its request.        *)
(***************************************************************************)
FreshInv ==
  /\ \A e \in entries : e.version <= e.image.asOf /\ e.image.asOf <= cacheVersion
  /\ \A r \in Reader :
       LET x == reader[r]
       IN /\ x.began <= cacheVersion
          /\ x.at = "lookup" => x.version # NoVersion
          /\ x.at \in {"lookup", "load", "store"} /\ x.version # NoVersion =>
               x.began <= x.version /\ x.version <= cacheVersion
          /\ x.at = "resolve" => x.version = NoVersion
          /\ x.at = "store" => x.version # NoVersion /\ x.version <= x.image.asOf
          /\ Answering(r) => x.began <= x.image.asOf /\ x.image.asOf <= cacheVersion

(***************************************************************************)
(* Pages.  A page that is as old as a walk, or younger, lacks none of the   *)
(* TODOs that the walk has to return and that lie behind its cursor, up to  *)
(* its last TODO, or up to the end when it is the last page.               *)
(***************************************************************************)
Shape(image, resource) ==
  /\ resource.kind = "page" => \A t \in image.items : t > resource.at
  /\ image.more => resource.kind = "page" /\ image.items # {}

Complete(image, resource, must) ==
  resource.kind = "page" =>
    \A t \in must : Live(t) /\ t > resource.at =>
      t \in image.items \/ (image.more /\ \A u \in image.items : t > u)

\* The walk of a reader up to its cursor.
Walked(r) ==
  LET x == reader[r]
  IN /\ \A t \in x.must : todo[t].phase # "absent"
     /\ x.resource.kind = "page" =>
          /\ \A t \in x.got : t <= x.resource.at
          /\ \A t \in x.must : Live(t) /\ t <= x.resource.at => t \in x.got
     /\ x.resource.kind = "item" => x.must = {} /\ x.got = {}

WalkInv ==
  /\ \A e \in entries :
       /\ Shape(e.image, e.resource)
       /\ e.image.asOf = cacheVersion => Complete(e.image, e.resource, Todo)
       /\ \A r \in Reader :
            reader[r].began <= e.version => Complete(e.image, e.resource, reader[r].must)
  /\ \A s \in Reader :
       LET x == reader[s]
       IN /\ Walked(s)
          /\ Answering(s) => Shape(x.image, x.resource)
                             /\ Complete(x.image, x.resource, x.must)
          /\ x.at = "store" =>
               /\ x.image.asOf = cacheVersion => Complete(x.image, x.resource, Todo)
               /\ \A r \in Reader :
                    reader[r].began <= x.version =>
                      Complete(x.image, x.resource, reader[r].must)

CacheIInv == /\ CacheTypeOK /\ IdempotencyInv /\ ReadCurrent /\ AccessKept
             /\ FreshInv /\ WalkInv

\* The cursor of the next page.
LEMMA NextCursor ==
  ASSUME CacheTypeOK, WalkInv, NEW r \in Reader, NextPage(r)
  PROVE  LET items == reader[r].image.items
         IN /\ Max(items) \in items /\ \A t \in items : t <= Max(items)
            /\ [kind |-> "page", at |-> Max(items)] \in Resource
            /\ reader[r].resource.kind = "page"
<1> DEFINE items == reader[r].image.items
<1>1. items \in SUBSET Todo
  BY ReaderFacts
<1>2. items # {} /\ reader[r].resource.kind = "page"
  BY DEF NextPage, WalkInv, Answering, Shape
<1> HIDE DEF items
<1>3. Max(items) \in items /\ \A t \in items : Max(items) >= t
  BY <1>1, <1>2, MaxIsLargest
<1>4. Max(items) \in Todo /\ \A t \in items : t \in Todo
  BY <1>1, <1>3
<1>5. \A t \in items : t <= Max(items)
  BY <1>3, <1>4, CommandsAssumption DEF Todo
<1>6. Max(items) \in 0..MaxTodo
  BY <1>4, CommandsAssumption DEF Todo
<1>7. [kind |-> "page", at |-> Max(items)] \in Resource
  BY <1>6 DEF Resource
<1> QED BY <1>2, <1>3, <1>5, <1>7 DEF items

LEMMA CacheTypeStep ==
  ASSUME CacheTypeOK, FreshInv, WalkInv, [CacheNext]_vars
  PROVE  CacheTypeOK'
<1>0. /\ CommandsTypeOK /\ cacheVersion \in Nat
      /\ copy \in Nat \cup {NoVersion} /\ entries \subseteq Entry
      /\ reader \in [Reader -> Read]
  BY DEF CacheTypeOK, CommandsTypeOK
<1>1. CASE UNCHANGED vars
  BY <1>1, <1>0 DEF vars, commandVars, rowVars, cacheVars, CacheTypeOK, CommandsTypeOK
<1>2. CASE CommandsNext /\ UNCHANGED cacheVars
  BY <1>2, <1>0, CommandsTypeStep DEF cacheVars, CacheTypeOK
<1>3. ASSUME NEW c \in Client, Invalidate(c) PROVE CacheTypeOK'
  <2>1. command[c].from \in Nat
    BY <1>3, <1>0, CommandFacts DEF Invalidate
  <2>2. copy' \in Nat \cup {NoVersion}
    BY <1>3, <2>1, <1>0 DEF Invalidate
  <2>3. command' \in [Client -> Command]
    BY <1>3, <1>0, EndType DEF Invalidate
  <2>4. CommandsTypeOK'
    BY <1>3, <2>3, <1>0 DEF Invalidate, rowVars, CommandsTypeOK
  <2> QED BY <1>3, <2>2, <2>4, <1>0 DEF Invalidate, CacheTypeOK
<1>4. CASE Expire
  <2>1. /\ UNCHANGED <<commandVars, reader>> /\ entries' \subseteq entries
        /\ copy' \in {copy, NoVersion}
    BY <1>4 DEF Expire
  <2>2. CommandsTypeOK'
    BY <2>1, <1>0 DEF commandVars, rowVars, CommandsTypeOK
  <2> QED BY <2>1, <2>2, <1>0 DEF CacheTypeOK
<1>5. ASSUME NEW r \in Reader, ReadStep(r) PROVE CacheTypeOK'
  <2>0. reader[r] \in Read /\ reader[r].resource \in Resource
    BY <1>0 DEF Read
  <2>00. UNCHANGED commandVars => CommandsTypeOK'
    BY <1>0 DEF commandVars, rowVars, CommandsTypeOK
  <2>1. CASE BeginRead(r)
    <3>1. \A t \in Todo : [kind |-> "item", at |-> t] \in Resource
      BY DEF Resource
    <3>2. [kind |-> "page", at |-> 0] \in Resource
      BY CommandsAssumption DEF Resource
    <3>3. PICK resource \in Resource, must \in SUBSET Todo :
            Ask(r, resource, must, {})
      BY <2>1, <3>1, <3>2 DEF BeginRead
    <3> QED BY <3>3, AskType
  <2>2. CASE NextPage(r)
    <3>1. /\ reader[r].must \in SUBSET Todo
          /\ reader[r].got \cup reader[r].image.items \in SUBSET Todo
      BY ReaderFacts
    <3> QED BY <2>2, <3>1, NextCursor, AskType DEF NextPage
  <2>3. CASE Resolve(r)
    BY <2>3, <2>00, <1>0 DEF Resolve, CacheTypeOK, Read, Place
  <2>4. CASE Lookup(r)
    <3>1. reader[r].version \in Nat \cup {NoVersion}
      BY <2>0 DEF Read
    <3>2. reader' \in [Reader -> Read]
      <4>1. \A e \in entries : e.image \in Image
        BY EntryFacts
      <4> QED BY <2>4, <4>1, <1>0 DEF Lookup, Result, Read, Place
    <3> QED BY <2>4, <3>1, <3>2, <2>00, <1>0 DEF Lookup, CacheTypeOK
  <2>5. CASE Load(r)
    <3>1. Answered(reader[r].resource) \in Image
      BY <2>0, AnsweredType
    <3>2. PICK at \in {"done", "store"} : Result(r, Answered(reader[r].resource), at)
      BY <2>5 DEF Load
    <3>3. reader' \in [Reader -> Read]
      <4>1. ASSUME NEW image \in Image
            PROVE  [reader EXCEPT ![r].at = at, ![r].image = image] \in [Reader -> Read]
        BY <1>0 DEF Read, Place
      <4> QED BY <4>1, <3>1, <3>2 DEF Result
    <3> QED BY <2>5, <3>3, <2>00, <1>0 DEF Load, CacheTypeOK
  <2>6. CASE Store(r)
    <3>1. reader[r].version \in Nat
      BY <2>6, <2>0 DEF Store, FreshInv, Read
    <3>2. [resource |-> reader[r].resource, version |-> reader[r].version,
           image |-> reader[r].image] \in Entry
      BY <3>1, <2>0 DEF Entry, Read
    <3>3. entries' \subseteq Entry
      BY <2>6, <3>2, <1>0 DEF Store, Keyed
    <3>4. reader' \in [Reader -> Read]
      BY <2>6, <1>0 DEF Store, Read, Place
    <3> QED BY <2>6, <3>3, <3>4, <2>00, <1>0 DEF Store, CacheTypeOK
  <2> QED BY <1>5, <2>1, <2>2, <2>3, <2>4, <2>5, <2>6 DEF ReadStep
<1> QED BY <1>1, <1>2, <1>3, <1>4, <1>5 DEF CacheNext, Commands

\* A command changes the TODOs only together with the owner's version, and
\* brings no TODO that was there back to life.
LEMMA VersionStep ==
  ASSUME CommandsTypeOK, IdempotencyInv, CommandsNext
  PROVE  /\ cacheVersion' \in {cacheVersion, cacheVersion + 1}
         /\ UNCHANGED todo \/ cacheVersion' = cacheVersion + 1
         /\ \A t \in Todo : todo[t].phase # "absent" =>
              todo'[t].phase # "absent" /\ (Live(t)' => Live(t))
<1>1. CASE SweepByOthers
  BY <1>1 DEF SweepByOthers, Live
<1>2. CASE Lapse
  BY <1>2 DEF Lapse, rowVars, Live
<1>3. ASSUME NEW c \in Client, Step(c)
      PROVE  /\ cacheVersion' \in {cacheVersion, cacheVersion + 1}
             /\ UNCHANGED todo \/ cacheVersion' = cacheVersion + 1
             /\ \A t \in Todo : todo[t].phase # "absent" =>
                  todo'[t].phase # "absent" /\ (Live(t)' => Live(t))
  <2>1. \/ UNCHANGED <<todo, cacheVersion>>
        \/ cacheVersion' = cacheVersion + 1
    <3>1. CASE \/ CreateTodo(c) \/ UpdateOwnedTodo(c) \/ WriteState(c)
               \/ SoftDeleteOwnedTodo(c)
      <4>1. Committed(c)
        BY <3>1 DEF CreateTodo, UpdateOwnedTodo, WriteState, SoftDeleteOwnedTodo
      <4> QED BY <4>1 DEF Committed
    <3>2. CASE ~ \/ CreateTodo(c) \/ UpdateOwnedTodo(c) \/ WriteState(c)
                 \/ SoftDeleteOwnedTodo(c)
      BY <3>2, <1>3
      DEF Step, AskCreate, Replay, CreateRefused, BeginUpdate, UpdateRefused,
          BeginState, CheckState, BeginShare, CreateShare, Withdraw, rowVars
    <3> QED BY <3>1, <3>2
  <2>2. ASSUME NEW t \in Todo, todo[t].phase # "absent"
        PROVE  todo'[t].phase # "absent" /\ (Live(t)' => Live(t))
    <3>1. ~(CreateTodo(c) /\ t = command[c].todo)
      BY <2>2 DEF CreateTodo, IdempotencyInv, DrawnApart
    <3> QED BY <3>1, <2>2, <1>3, RowStep DEF Live
  <2> QED BY <2>1, <2>2
<1> QED BY <1>1, <1>2, <1>3 DEF CommandsNext

LEMMA FreshStep ==
  ASSUME CacheTypeOK, IdempotencyInv, FreshInv, [CacheNext]_vars
  PROVE  FreshInv'
<1>0. /\ CommandsTypeOK /\ cacheVersion \in Nat /\ reader \in [Reader -> Read]
  BY DEF CacheTypeOK, CommandsTypeOK
<1>1. ASSUME UNCHANGED <<entries, reader>>,
             cacheVersion' \in {cacheVersion, cacheVersion + 1}
      PROVE  FreshInv'
  <2>1. \A e \in entries : e.version \in Nat /\ e.image.asOf \in Nat
    BY EntryFacts
  <2>2. \A r \in Reader : /\ reader[r].began \in Nat /\ reader[r].image.asOf \in Nat
                          /\ reader[r].version \in Nat \cup {NoVersion}
    BY ReaderFacts
  <2>3. ASSUME NEW n \in Nat, n <= cacheVersion PROVE n <= cacheVersion'
    BY <1>1, <1>0, <2>3
  <2>4. \A e \in entries : e.version <= e.image.asOf /\ e.image.asOf <= cacheVersion'
    BY <2>1, <2>3 DEF FreshInv
  <2>5. ASSUME NEW r \in Reader
        PROVE  LET x == reader[r]
               IN /\ x.began <= cacheVersion'
                  /\ x.at = "lookup" => x.version # NoVersion
                  /\ x.at \in {"lookup", "load", "store"} /\ x.version # NoVersion =>
                       x.began <= x.version /\ x.version <= cacheVersion'
                  /\ x.at = "resolve" => x.version = NoVersion
                  /\ x.at = "store" => x.version # NoVersion /\ x.version <= x.image.asOf
                  /\ Answering(r) => x.began <= x.image.asOf
                                     /\ x.image.asOf <= cacheVersion'
    BY <2>2, <2>3 DEF FreshInv
  <2> QED BY <1>1, <2>4, <2>5 DEF FreshInv, Answering
<1>2. CASE UNCHANGED vars
  BY <1>2, <1>1 DEF vars, commandVars, rowVars, cacheVars
<1>3. CASE CommandsNext /\ UNCHANGED cacheVars
  BY <1>3, <1>1, <1>0, VersionStep DEF cacheVars
<1>4. ASSUME NEW c \in Client, Invalidate(c) PROVE FreshInv'
  BY <1>4, <1>1 DEF Invalidate, rowVars
<1>5. CASE Expire
  <2>1. /\ UNCHANGED <<cacheVersion, reader>> /\ entries' \subseteq entries
    BY <1>5 DEF Expire, commandVars, rowVars
  <2> QED BY <2>1 DEF FreshInv, Answering
<1>6. ASSUME NEW r \in Reader, ReadStep(r) PROVE FreshInv'
  <2> DEFINE x == reader[r]
  <2>0. /\ x \in Read /\ x.resource \in Resource /\ x.began \in Nat
        /\ x.image.asOf \in Nat /\ x.version \in Nat \cup {NoVersion}
        /\ x.began <= cacheVersion
    BY ReaderFacts DEF FreshInv
  <2>1. cacheVersion' = cacheVersion
    BY <1>6 DEF ReadStep, BeginRead, NextPage, Ask, Resolve, Lookup, Load, Store,
                commandVars, rowVars
  <2>2. \A s \in Reader : s # r => reader'[s] = reader[s]
    BY <1>6, <1>0 DEF ReadStep, BeginRead, NextPage, Ask, Resolve, Lookup, Load,
                      Store, Result
  \* What is left is the reader itself and, for Store, the new entry.
  <2>3. ASSUME NEW y, reader'[r] = y,
               /\ y.began <= cacheVersion
               /\ y.at = "lookup" => y.version # NoVersion
               /\ y.at \in {"lookup", "load", "store"} /\ y.version # NoVersion =>
                    y.began <= y.version /\ y.version <= cacheVersion
               /\ y.at = "resolve" => y.version = NoVersion
               /\ y.at = "store" => y.version # NoVersion /\ y.version <= y.image.asOf
               /\ y.at \in {"store", "done"} => y.began <= y.image.asOf
                                                /\ y.image.asOf <= cacheVersion,
               \A e \in entries' : e.version <= e.image.asOf /\ e.image.asOf <= cacheVersion
        PROVE  FreshInv'
    <3>1. ASSUME NEW s \in Reader
          PROVE  LET z == reader'[s]
                 IN /\ z.began <= cacheVersion'
                    /\ z.at = "lookup" => z.version # NoVersion
                    /\ z.at \in {"lookup", "load", "store"} /\ z.version # NoVersion =>
                         z.began <= z.version /\ z.version <= cacheVersion'
                    /\ z.at = "resolve" => z.version = NoVersion
                    /\ z.at = "store" => z.version # NoVersion /\ z.version <= z.image.asOf
                    /\ Answering(s)' => z.began <= z.image.asOf
                                        /\ z.image.asOf <= cacheVersion'
      <4>1. CASE s = r
        BY <4>1, <2>3, <2>1 DEF Answering
      <4>2. CASE s # r
        <5>1. reader'[s] = reader[s]
          BY <4>2, <2>2
        <5> QED BY <5>1, <2>1 DEF FreshInv, Answering
      <4> QED BY <4>1, <4>2
    <3> QED BY <3>1, <2>1, <2>3 DEF FreshInv
  <2>4. entries' = entries =>
          \A e \in entries' : e.version <= e.image.asOf /\ e.image.asOf <= cacheVersion
    BY DEF FreshInv
  <2>5. CASE BeginRead(r) \/ NextPage(r)
    <3>1. PICK resource, must, got : Ask(r, resource, must, got)
      BY <2>5 DEF BeginRead, NextPage
    <3>2. reader'[r] = [at |-> "resolve", resource |-> resource,
                        version |-> NoVersion, began |-> cacheVersion,
                        image |-> NoImage, must |-> must, got |-> got]
      BY <3>1, <1>0 DEF Ask
    <3>3. entries' = entries
      BY <3>1 DEF Ask
    <3> QED BY <3>2, <3>3, <2>4, <2>3, <1>0
  <2>6. CASE Resolve(r)
    <3>1. x.at = "resolve" /\ x.version = NoVersion
      BY <2>6 DEF Resolve, FreshInv
    <3>2. \/ reader'[r] = [x EXCEPT !.at = "lookup", !.version = cacheVersion]
          \/ reader'[r] = [x EXCEPT !.at = "load"]
      BY <2>6, <1>0 DEF Resolve
    <3>3. cacheVersion # NoVersion /\ cacheVersion <= cacheVersion
      BY <1>0, CacheAssumption
    <3>4. entries' = entries
      BY <2>6 DEF Resolve
    <3>5. CASE reader'[r] = [x EXCEPT !.at = "lookup", !.version = cacheVersion]
      BY <3>5, <3>3, <3>4, <2>3, <2>4, <2>0, <1>0 DEF Read
    <3>6. CASE reader'[r] = [x EXCEPT !.at = "load"]
      BY <3>6, <3>1, <3>4, <2>3, <2>4, <2>0, <1>0 DEF Read
    <3> QED BY <3>2, <3>5, <3>6
  <2>7. CASE Lookup(r)
    <3>1. /\ x.at = "lookup" /\ x.version # NoVersion
          /\ x.began <= x.version /\ x.version <= cacheVersion /\ x.version \in Nat
      BY <2>7, <2>0 DEF Lookup, FreshInv
    <3>2. entries' = entries
      BY <2>7 DEF Lookup
    <3>3. ASSUME NEW e \in entries, e.version = x.version, Result(r, e.image, "done")
          PROVE  FreshInv'
      <4>1. reader'[r] = [x EXCEPT !.at = "done", !.image = e.image]
        BY <3>3, <1>0 DEF Result
      <4>2. /\ e.version <= e.image.asOf /\ e.image.asOf <= cacheVersion
            /\ e.image.asOf \in Nat /\ e.version \in Nat
        BY EntryFacts DEF FreshInv
      <4>3. x.began <= e.image.asOf
        BY <4>2, <3>1, <3>3, <2>0
      <4> QED BY <4>1, <4>2, <4>3, <3>2, <2>3, <2>4, <2>0 DEF Read
    <3>4. CASE reader' = [reader EXCEPT ![r].at = "load"]
      <4>1. reader'[r] = [x EXCEPT !.at = "load"]
        BY <3>4, <1>0
      <4> QED BY <4>1, <3>1, <3>2, <2>3, <2>4, <2>0 DEF Read
    <3>5. CASE reader' = [reader EXCEPT ![r].at = "load", ![r].version = NoVersion]
      <4>1. reader'[r] = [x EXCEPT !.at = "load", !.version = NoVersion]
        BY <3>5, <1>0
      <4> QED BY <4>1, <3>1, <3>2, <2>3, <2>4, <2>0 DEF Read
    <3> QED BY <2>7, <3>3, <3>4, <3>5 DEF Lookup
  <2>8. CASE Load(r)
    <3>1. PICK at \in {"done", "store"} :
            /\ Result(r, Answered(x.resource), at)
            /\ at = "store" => x.version # NoVersion
      BY <2>8 DEF Load
    <3>2. reader'[r] = [x EXCEPT !.at = at, !.image = Answered(x.resource)]
      BY <3>1, <1>0 DEF Result
    <3>3. Answered(x.resource).asOf = cacheVersion
      BY <2>0, AnsweredType
    <3>4. /\ x.at = "load"
          /\ x.version # NoVersion => x.began <= x.version /\ x.version <= cacheVersion
          /\ entries' = entries
      BY <2>8 DEF Load, FreshInv
    <3>5. cacheVersion <= cacheVersion
      BY <1>0
    <3> DEFINE y == reader'[r]
    <3>6. /\ y.at = at /\ y.version = x.version /\ y.began = x.began
          /\ y.image.asOf = cacheVersion
      BY <3>2, <3>3, <2>0 DEF Read
    <3> QED BY <3>1, <3>4, <3>5, <3>6, <2>3, <2>4, <2>0
  <2>9. CASE Store(r)
    <3>1. /\ x.at = "store" /\ x.version <= x.image.asOf
          /\ x.began <= x.image.asOf /\ x.image.asOf <= cacheVersion
      BY <2>9 DEF Store, FreshInv, Answering
    <3>2. reader'[r] = [x EXCEPT !.at = "done"]
      BY <2>9, <1>0 DEF Store
    <3>3. \A e \in entries' : \/ e \in entries
                              \/ e.version = x.version /\ e.image = x.image
      BY <2>9 DEF Store, Keyed
    <3>4. \A e \in entries' : e.version <= e.image.asOf /\ e.image.asOf <= cacheVersion
      BY <3>1, <3>3 DEF FreshInv
    <3> QED BY <3>1, <3>2, <3>4, <2>3, <2>0 DEF Read
  <2> QED BY <1>6, <2>5, <2>6, <2>7, <2>8, <2>9 DEF ReadStep
<1> QED BY <1>2, <1>3, <1>4, <1>5, <1>6 DEF CacheNext, Commands

\* A page that has just been read lacks nothing.
LEMMA AnsweredComplete ==
  ASSUME CacheTypeOK, NEW resource \in Resource
  PROVE  /\ Shape(Answered(resource), resource)
         /\ Complete(Answered(resource), resource, Todo)
<1> DEFINE image == Answered(resource)
           S == After(resource.at)
<1>1. CASE resource.kind # "page"
  BY <1>1, AnsweredType DEF Shape, Complete
<1>2. CASE resource.kind = "page"
  <2>1. /\ image.items = FirstOf(S, PageSize)
        /\ image.more = (Cardinality(S) > PageSize)
    BY <1>2, AnsweredType
  <2>2. S \in SUBSET Todo /\ \A t \in S : t > resource.at
    BY DEF After
  <2>3. /\ FirstOf(S, PageSize) \subseteq S
        /\ \A t \in FirstOf(S, PageSize), u \in S : u <= t => u \in FirstOf(S, PageSize)
        /\ Cardinality(S) <= PageSize => FirstOf(S, PageSize) = S
        /\ S # {} => FirstOf(S, PageSize) # {}
    BY <2>2, CacheAssumption, PageFacts
  <2>4. Cardinality(S) \in Nat /\ (Cardinality(S) > PageSize => S # {})
    <3>1. Cardinality(S) \in Nat
      BY <2>2, TodosFinite
    <3>2. S = {} => Cardinality(S) = 0
      BY FS_EmptySet
    <3> HIDE DEF S
    <3> QED BY <3>1, <3>2, CacheAssumption
  <2>5. \A t \in S : t \in FirstOf(S, PageSize)
                       \/ (image.more /\ \A u \in FirstOf(S, PageSize) : t > u)
    <3> SUFFICES ASSUME NEW t \in S, t \notin FirstOf(S, PageSize)
                 PROVE  image.more /\ \A u \in FirstOf(S, PageSize) : t > u
      OBVIOUS
    <3>1. ~(Cardinality(S) <= PageSize)
      BY <2>3
    <3>2. \A u \in FirstOf(S, PageSize) : ~(t <= u)
      BY <2>3
    <3>3. \A u \in FirstOf(S, PageSize) : u \in Nat /\ t \in Nat
      BY <2>2, <2>3 DEF Todo
    <3>4. Cardinality(S) > PageSize
      BY <3>1, <2>4, CacheAssumption
    <3>5. \A u \in FirstOf(S, PageSize) : t > u
      BY <3>2, <3>3
    <3> QED BY <3>4, <3>5, <2>1
  <2>6. \A t \in Todo : Live(t) /\ t > resource.at => t \in S
    BY DEF After
  <2>7. image.more => image.items # {}
    BY <2>1, <2>3, <2>4
  <2> HIDE DEF image, S
  <2>8. Shape(image, resource)
    BY <1>2, <2>1, <2>2, <2>3, <2>7 DEF Shape
  <2>9. Complete(image, resource, Todo)
    BY <2>1, <2>5, <2>6 DEF Complete
  <2> QED BY <2>8, <2>9 DEF image
<1> QED BY <1>1, <1>2

\* What is complete for all TODOs is so for some of them.
LEMMA CompleteForSome ==
  ASSUME NEW image, NEW resource, NEW must \in SUBSET Todo,
         Complete(image, resource, Todo)
  PROVE  Complete(image, resource, must)
  BY DEF Complete

\* The commands leave complete what is.
LEMMA CompleteKept ==
  ASSUME CommandsTypeOK, IdempotencyInv, CommandsNext, NEW image, NEW resource,
         NEW must \in SUBSET Todo, \A t \in must : todo[t].phase # "absent",
         Complete(image, resource, must)
  PROVE  Complete(image, resource, must)'
<1>1. \A t \in must : Live(t)' => Live(t)
  BY VersionStep
<1> QED BY <1>1 DEF Complete

LEMMA WalkByCommand ==
  ASSUME CacheTypeOK, IdempotencyInv, FreshInv, WalkInv,
         CommandsNext, UNCHANGED cacheVars
  PROVE  WalkInv'
<1>0. /\ CommandsTypeOK /\ cacheVersion \in Nat
      /\ UNCHANGED <<entries, reader>>
  BY DEF CacheTypeOK, CommandsTypeOK, cacheVars
<1>1. \A s \in Reader : /\ reader[s].must \in SUBSET Todo
                        /\ \A t \in reader[s].must : todo[t].phase # "absent"
  BY ReaderFacts DEF WalkInv, Walked
<1>2. ASSUME NEW image, NEW resource, image.asOf \in Nat,
             image.asOf <= cacheVersion, image.asOf = cacheVersion',
             image.asOf = cacheVersion => Complete(image, resource, Todo)
      PROVE  Complete(image, resource, Todo)'
  <2>1. cacheVersion' = cacheVersion
    BY <1>2, <1>0, VersionStep
  <2>2. todo' = todo
    BY <2>1, <1>0, VersionStep
  <2> QED BY <1>2, <2>1, <2>2 DEF Complete, Live
<1>3. ASSUME NEW e \in entries
      PROVE  /\ Shape(e.image, e.resource)
             /\ e.image.asOf = cacheVersion' => Complete(e.image, e.resource, Todo)'
             /\ \A r \in Reader :
                  reader[r].began <= e.version
                    => Complete(e.image, e.resource, reader[r].must)'
  <2>1. e.image.asOf \in Nat /\ e.image.asOf <= cacheVersion
    BY EntryFacts DEF FreshInv
  <2>2. ASSUME NEW r \in Reader, reader[r].began <= e.version
        PROVE  Complete(e.image, e.resource, reader[r].must)'
    <3>1. Complete(e.image, e.resource, reader[r].must)
      BY <2>2 DEF WalkInv
    <3> DEFINE must == reader[r].must
    <3>2. must' = must
      BY <1>0
    <3>3. ASSUME NEW m \in SUBSET Todo, m = must PROVE Complete(e.image, e.resource, m)'
      BY <3>1, <3>3, <1>0, <1>1, CompleteKept
    <3> QED BY <3>2, <3>3, <1>1 DEF Complete
  <2>3. e.image.asOf = cacheVersion => Complete(e.image, e.resource, Todo)
    BY DEF WalkInv
  <2>4. e.image.asOf = cacheVersion' => Complete(e.image, e.resource, Todo)'
    BY <2>1, <2>3, <1>2
  <2> QED BY <2>2, <2>4 DEF WalkInv
<1>4. ASSUME NEW s \in Reader
      PROVE  LET x == reader[s]
             IN /\ Walked(s)'
                /\ Answering(s) => Shape(x.image, x.resource)
                                   /\ Complete(x.image, x.resource, x.must)'
                /\ x.at = "store" =>
                     /\ x.image.asOf = cacheVersion' => Complete(x.image, x.resource, Todo)'
                     /\ \A r \in Reader :
                          reader[r].began <= x.version =>
                            Complete(x.image, x.resource, reader[r].must)'
  <2> DEFINE x == reader[s]
  <2>0. reader' = reader
    BY <1>0
  <2>1. ASSUME NEW r \in Reader, Complete(x.image, x.resource, reader[r].must)
        PROVE  Complete(x.image, x.resource, reader[r].must)'
    <3>1. ASSUME NEW m \in SUBSET Todo, m = reader[r].must,
                 NEW i, NEW o, i = x.image, o = x.resource
          PROVE  Complete(i, o, m)'
      BY <2>1, <3>1, <1>0, <1>1, CompleteKept
    <3> QED BY <2>0, <3>1, <1>1 DEF Complete
  <2>2. Walked(s)'
    <3>1. \A t \in x.must : todo'[t].phase # "absent" /\ (Live(t)' => Live(t))
      BY <1>0, <1>1, VersionStep
    <3> QED BY <3>1, <2>0 DEF WalkInv, Walked
  <2>3. ASSUME x.at = "store", x.image.asOf = cacheVersion'
        PROVE  Complete(x.image, x.resource, Todo)'
    <3>1. x.image.asOf \in Nat /\ x.image.asOf <= cacheVersion
      BY <2>3, ReaderFacts DEF FreshInv, Answering
    <3>2. x.image.asOf = cacheVersion => Complete(x.image, x.resource, Todo)
      BY <2>3 DEF WalkInv
    <3>3. ASSUME NEW i, NEW o, i = x.image, o = x.resource
          PROVE  Complete(i, o, Todo)'
      BY <2>3, <3>1, <3>2, <3>3, <1>2
    <3> QED BY <2>0, <3>3 DEF Complete
  <2>4. Answering(s) => Shape(x.image, x.resource) /\ Complete(x.image, x.resource, x.must)
    BY DEF WalkInv
  <2>5. x.at = "store" => \A r \in Reader : reader[r].began <= x.version =>
                            Complete(x.image, x.resource, reader[r].must)
    BY DEF WalkInv
  <2> HIDE DEF x
  <2> QED BY <2>1, <2>2, <2>3, <2>4, <2>5 DEF x
<1> QED BY <1>0, <1>3, <1>4 DEF WalkInv, Answering, Shape

LEMMA WalkByReader ==
  ASSUME CacheTypeOK, FreshInv, WalkInv, NEW r \in Reader, ReadStep(r)
  PROVE  WalkInv'
<1> DEFINE x == reader[r]
<1>0. /\ CommandsTypeOK /\ cacheVersion \in Nat /\ reader \in [Reader -> Read]
      /\ x \in Read /\ x.resource \in Resource
      /\ x.must \in SUBSET Todo /\ x.got \in SUBSET Todo
  BY ReaderFacts DEF CacheTypeOK, CommandsTypeOK
<1>1. todo' = todo /\ cacheVersion' = cacheVersion
  BY DEF ReadStep, BeginRead, NextPage, Ask, Resolve, Lookup, Load, Store,
         commandVars, rowVars
<1>2. \A s \in Reader : s # r => reader'[s] = reader[s]
  BY <1>0 DEF ReadStep, BeginRead, NextPage, Ask, Resolve, Lookup, Load,
              Store, Result
<1>3. \A t \in Todo : Live(t)' <=> Live(t)
  BY <1>1 DEF Live
\* What has to be shown of the reader, of the entries, and of its new image.
<1>4. ASSUME NEW y, reader'[r] = y, y.must \in SUBSET Todo,
             \A t \in y.must : todo[t].phase # "absent",
             y.resource.kind = "page" =>
               /\ \A t \in y.got : t <= y.resource.at
               /\ \A t \in y.must : Live(t) /\ t <= y.resource.at => t \in y.got,
             y.resource.kind = "item" => y.must = {} /\ y.got = {},
             y.at \in {"store", "done"} =>
               Shape(y.image, y.resource) /\ Complete(y.image, y.resource, y.must),
             y.at = "store" => Complete(y.image, y.resource, Todo),
             \A e \in entries' :
               /\ Shape(e.image, e.resource)
               /\ e.image.asOf = cacheVersion => Complete(e.image, e.resource, Todo)
               /\ \A s \in Reader : s # r /\ reader[s].began <= e.version =>
                    Complete(e.image, e.resource, reader[s].must)
               /\ y.began <= e.version => Complete(e.image, e.resource, y.must),
             \A s \in Reader :
               s # r /\ reader[s].at = "store" /\ y.began <= reader[s].version =>
                 Complete(reader[s].image, reader[s].resource, y.must)
      PROVE  WalkInv'
  <2>1. \A s \in Reader : reader'[s].must \in SUBSET Todo
    BY <1>2, <1>4, ReaderFacts
  <2>2. ASSUME NEW image, NEW resource, NEW must \in SUBSET Todo
        PROVE  Complete(image, resource, must)' <=> Complete(image, resource, must)
    BY <1>3 DEF Complete
  <2>3. ASSUME NEW e \in entries'
        PROVE  /\ Shape(e.image, e.resource)
               /\ e.image.asOf = cacheVersion' => Complete(e.image, e.resource, Todo)'
               /\ \A s \in Reader : reader'[s].began <= e.version =>
                    Complete(e.image, e.resource, reader[s].must)'
    <3>1. ASSUME NEW s \in Reader, reader'[s].began <= e.version
          PROVE  Complete(e.image, e.resource, reader[s].must)'
      <4>1. Complete(e.image, e.resource, reader'[s].must)
        BY <3>1, <1>2, <1>4
      <4> QED BY <4>1, <2>1, <1>3 DEF Complete
    <3>2. Shape(e.image, e.resource)
      BY <1>4
    <3>3. e.image.asOf = cacheVersion' => Complete(e.image, e.resource, Todo)'
      BY <1>1, <1>4, <2>2
    <3> QED BY <3>1, <3>2, <3>3
  <2>4. ASSUME NEW s \in Reader
        PROVE  LET z == reader'[s]
               IN /\ Walked(s)'
                  /\ Answering(s)' => Shape(z.image, z.resource)
                                      /\ Complete(reader[s].image, reader[s].resource,
                                                  reader[s].must)'
                  /\ z.at = "store" =>
                       /\ z.image.asOf = cacheVersion' =>
                            Complete(reader[s].image, reader[s].resource, Todo)'
                       /\ \A q \in Reader :
                            reader'[q].began <= z.version =>
                              Complete(reader[s].image, reader[s].resource,
                                       reader[q].must)'
    <3> DEFINE z == reader'[s]
    <3>1. Walked(s)'
      <4>1. /\ \A t \in z.must : todo[t].phase # "absent"
            /\ z.resource.kind = "page" =>
                 /\ \A t \in z.got : t <= z.resource.at
                 /\ \A t \in z.must : Live(t) /\ t <= z.resource.at => t \in z.got
            /\ z.resource.kind = "item" => z.must = {} /\ z.got = {}
        <5>1. CASE s = r
          BY <5>1, <1>4
        <5>2. CASE s # r
          <6>1. z = reader[s]
            BY <5>2, <1>2
          <6> QED BY <6>1 DEF WalkInv, Walked
        <5> QED BY <5>1, <5>2
      <4> QED BY <4>1, <2>1, <1>1, <1>3 DEF Walked
    <3>2. z.at \in {"store", "done"} =>
            Shape(z.image, z.resource) /\ Complete(z.image, z.resource, z.must)
      <4>1. CASE s = r
        BY <4>1, <1>4
      <4>2. CASE s # r
        <5>1. z = reader[s]
          BY <4>2, <1>2
        <5> QED BY <5>1 DEF WalkInv, Answering
      <4> QED BY <4>1, <4>2
    <3>3. z.at = "store" =>
            /\ z.image.asOf = cacheVersion => Complete(z.image, z.resource, Todo)
            /\ \A q \in Reader : reader'[q].began <= z.version =>
                 Complete(z.image, z.resource, reader'[q].must)
      <4>1. CASE s = r
        <5>1. z.at = "store" => Complete(z.image, z.resource, Todo)
          BY <4>1, <1>4
        <5> QED BY <5>1, <2>1 DEF Complete
      <4>2. CASE s # r
        <5>1. z = reader[s]
          BY <4>2, <1>2
        <5>2. ASSUME z.at = "store", NEW q \in Reader, reader'[q].began <= z.version
              PROVE  Complete(z.image, z.resource, reader'[q].must)
          <6>1. CASE q = r
            BY <6>1, <5>1, <5>2, <4>2, <1>4
          <6>2. CASE q # r
            <7>1. reader'[q] = reader[q]
              BY <6>2, <1>2
            <7> QED BY <7>1, <5>1, <5>2 DEF WalkInv
          <6> QED BY <6>1, <6>2
        <5>3. z.at = "store" /\ z.image.asOf = cacheVersion =>
                Complete(z.image, z.resource, Todo)
          BY <5>1 DEF WalkInv
        <5> QED BY <5>2, <5>3
      <4> QED BY <4>1, <4>2
    <3>4. ASSUME NEW q \in Reader, Complete(z.image, z.resource, reader'[q].must)
          PROVE  Complete(reader[s].image, reader[s].resource, reader[q].must)'
      BY <3>4, <2>1, <1>3 DEF Complete
    <3>5. Complete(z.image, z.resource, Todo) =>
            Complete(reader[s].image, reader[s].resource, Todo)'
      BY <1>3 DEF Complete
    <3>6. Answering(s)' <=> z.at \in {"store", "done"}
      BY DEF Answering
    <3> HIDE DEF z
    <3> QED BY <3>1, <3>2, <3>3, <3>4, <3>5, <3>6, <1>1 DEF z
  <2> QED BY <2>3, <2>4 DEF WalkInv, Shape
\* What holds already.
<1>5. \A e \in entries :
        /\ Shape(e.image, e.resource)
        /\ e.image.asOf = cacheVersion => Complete(e.image, e.resource, Todo)
        /\ \A s \in Reader : reader[s].began <= e.version =>
             Complete(e.image, e.resource, reader[s].must)
  BY DEF WalkInv
<1>6. \A s \in Reader :
        reader[s].at = "store" /\ x.began <= reader[s].version =>
          Complete(reader[s].image, reader[s].resource, x.must)
  BY DEF WalkInv
<1>7. /\ \A t \in x.must : todo[t].phase # "absent"
      /\ x.resource.kind = "page" =>
           /\ \A t \in x.got : t <= x.resource.at
           /\ \A t \in x.must : Live(t) /\ t <= x.resource.at => t \in x.got
      /\ x.resource.kind = "item" => x.must = {} /\ x.got = {}
  BY DEF WalkInv, Walked
\* A step that goes on with the same walk.
<1>8. ASSUME NEW y, reader'[r] = y, y.must = x.must, y.got = x.got,
             y.resource = x.resource, y.began = x.began,
             y.at \in {"store", "done"} =>
               Shape(y.image, x.resource) /\ Complete(y.image, x.resource, x.must),
             y.at = "store" => Complete(y.image, x.resource, Todo),
             entries' = entries
      PROVE  WalkInv'
  <2>1. \A e \in entries' :
           /\ Shape(e.image, e.resource)
           /\ e.image.asOf = cacheVersion => Complete(e.image, e.resource, Todo)
           /\ \A s \in Reader : s # r /\ reader[s].began <= e.version =>
                Complete(e.image, e.resource, reader[s].must)
           /\ y.began <= e.version => Complete(e.image, e.resource, y.must)
    BY <1>5, <1>8
  <2>2. \A s \in Reader :
           s # r /\ reader[s].at = "store" /\ y.began <= reader[s].version =>
             Complete(reader[s].image, reader[s].resource, y.must)
    BY <1>6, <1>8
  <2>3. /\ \A t \in y.must : todo[t].phase # "absent"
        /\ y.resource.kind = "page" =>
             /\ \A t \in y.got : t <= y.resource.at
             /\ \A t \in y.must : Live(t) /\ t <= y.resource.at => t \in y.got
        /\ y.resource.kind = "item" => y.must = {} /\ y.got = {}
        /\ y.must \in SUBSET Todo
    BY <1>7, <1>8, <1>0
  <2>4. /\ y.at \in {"store", "done"} =>
             Shape(y.image, y.resource) /\ Complete(y.image, y.resource, y.must)
        /\ y.at = "store" => Complete(y.image, y.resource, Todo)
    BY <1>8
  <2> HIDE DEF x
  <2> QED BY <1>8, <1>4, <2>1, <2>2, <2>3, <2>4
\* A step that asks anew.
<1>9. ASSUME NEW resource, NEW must \in SUBSET Todo, NEW got,
             Ask(r, resource, must, got),
             \A t \in must : todo[t].phase # "absent",
             resource.kind = "page" =>
               /\ \A t \in got : t <= resource.at
               /\ \A t \in must : Live(t) /\ t <= resource.at => t \in got,
             resource.kind = "item" => must = {} /\ got = {}
      PROVE  WalkInv'
  <2> DEFINE y == [at |-> "resolve", resource |-> resource,
                   version |-> NoVersion, began |-> cacheVersion,
                   image |-> NoImage, must |-> must, got |-> got]
  <2>1. reader'[r] = y /\ entries' = entries
    BY <1>9, <1>0 DEF Ask
  <2>2. ASSUME NEW e \in entries, cacheVersion <= e.version
        PROVE  Complete(e.image, e.resource, must)
    <3>1. /\ e.version <= e.image.asOf /\ e.image.asOf <= cacheVersion
          /\ e.image.asOf \in Nat /\ e.version \in Nat
      BY EntryFacts DEF FreshInv
    <3>2. e.image.asOf = cacheVersion
      BY <2>2, <3>1, <1>0
    <3> QED BY <3>2, <1>5, CompleteForSome
  <2>3. ASSUME NEW s \in Reader, reader[s].at = "store",
               cacheVersion <= reader[s].version
        PROVE  Complete(reader[s].image, reader[s].resource, must)
    <3>1. /\ reader[s].version # NoVersion
          /\ reader[s].version <= reader[s].image.asOf
          /\ reader[s].image.asOf <= cacheVersion
          /\ reader[s].image.asOf \in Nat /\ reader[s].version \in Nat
      BY <2>3, ReaderFacts DEF FreshInv, Answering
    <3>2. reader[s].image.asOf = cacheVersion
      BY <2>3, <3>1, <1>0
    <3>3. Complete(reader[s].image, reader[s].resource, Todo)
      BY <2>3, <3>2 DEF WalkInv
    <3> QED BY <3>3, CompleteForSome
  <2>4. /\ y.must = must /\ y.got = got /\ y.resource = resource
        /\ y.began = cacheVersion /\ y.at = "resolve"
    OBVIOUS
  <2> HIDE DEF y
  <2>5. \A e \in entries' :
           /\ Shape(e.image, e.resource)
           /\ e.image.asOf = cacheVersion => Complete(e.image, e.resource, Todo)
           /\ \A s \in Reader : s # r /\ reader[s].began <= e.version =>
                Complete(e.image, e.resource, reader[s].must)
           /\ y.began <= e.version => Complete(e.image, e.resource, y.must)
    BY <2>1, <2>2, <2>4, <1>5
  <2>6. \A s \in Reader :
           s # r /\ reader[s].at = "store" /\ y.began <= reader[s].version =>
             Complete(reader[s].image, reader[s].resource, y.must)
    BY <2>3, <2>4
  <2>7. /\ \A t \in y.must : todo[t].phase # "absent"
        /\ y.resource.kind = "page" =>
             /\ \A t \in y.got : t <= y.resource.at
             /\ \A t \in y.must : Live(t) /\ t <= y.resource.at => t \in y.got
        /\ y.resource.kind = "item" => y.must = {} /\ y.got = {}
        /\ y.must \in SUBSET Todo
    BY <1>9, <2>4
  <2>8. y.at \notin {"store", "done"}
    BY <2>4
  <2> QED BY <2>1, <2>5, <2>6, <2>7, <2>8, <1>4
<1>10. CASE BeginRead(r)
  <2>1. CASE \E t \in Todo : Ask(r, [kind |-> "item", at |-> t], {}, {})
    <3>1. PICK t \in Todo : Ask(r, [kind |-> "item", at |-> t], {}, {})
      BY <2>1
    <3>2. [kind |-> "item", at |-> t].kind = "item"
      OBVIOUS
    <3> QED BY <3>1, <3>2, <1>9
  <2>3. CASE Ask(r, [kind |-> "page", at |-> 0], {t \in Todo : Live(t)}, {})
    <3> DEFINE must == {t \in Todo : Live(t)}
               page == [kind |-> "page", at |-> 0]
    <3>1. /\ must \in SUBSET Todo
          /\ \A t \in must : todo[t].phase # "absent"
      BY DEF Live
    <3>2. \A t \in Todo : ~(t <= 0)
      BY DEF Todo
    <3>3. page.kind = "page" /\ page.at = 0
      OBVIOUS
    <3> QED BY <2>3, <3>1, <3>2, <3>3, <1>9
  <2> QED BY <1>10, <2>1, <2>3 DEF BeginRead
<1>11. CASE NextPage(r)
  <2> DEFINE items == x.image.items
             page == [kind |-> "page", at |-> Max(items)]
  <2>1. /\ Max(items) \in items /\ \A t \in items : t <= Max(items)
        /\ x.resource.kind = "page"
    BY <1>11, NextCursor
  <2>2. x.at = "done" /\ x.image.more /\ Ask(r, page, x.must, x.got \cup items)
    BY <1>11 DEF NextPage
  <2>3. /\ Shape(x.image, x.resource) /\ Complete(x.image, x.resource, x.must)
    BY <2>2 DEF WalkInv, Answering
  <2>4. /\ items \in SUBSET Todo /\ Max(items) \in Nat
        /\ x.resource.at \in Nat
        /\ \A t \in items : t > x.resource.at
    <3>1. items \in SUBSET Todo
      BY ReaderFacts
    <3>2. x.resource.at \in 0..MaxTodo
      BY <2>1, <1>0 DEF Resource
    <3> QED BY <3>1, <3>2, <2>1, <2>3, CommandsAssumption DEF Shape, Todo
  <2>5. \A t \in x.got \cup items : t <= Max(items)
    <3>1. ASSUME NEW t \in x.got PROVE t <= Max(items)
      <4>1. t <= x.resource.at /\ x.resource.at < Max(items) /\ t \in Nat
        BY <1>7, <2>1, <2>4, <1>0 DEF Todo
      <4> QED BY <4>1, <2>4
    <3> QED BY <3>1, <2>1
  <2>6. ASSUME NEW t \in x.must, Live(t), t <= Max(items)
        PROVE  t \in x.got \cup items
    <3>0. t \in Nat
      BY <1>0 DEF Todo
    <3>1. CASE t <= x.resource.at
      BY <3>1, <2>6, <2>1, <1>7
    <3>2. CASE t > x.resource.at
      <4>1. t \in items \/ \A u \in items : t > u
        BY <3>2, <2>6, <2>3, <2>1 DEF Complete
      <4>2. ~(t > Max(items))
        BY <2>6, <3>0, <2>4
      <4> QED BY <4>1, <4>2, <2>1
    <3> QED BY <3>0, <3>1, <3>2, <2>4
  <2>7. page.kind = "page" /\ page.at = Max(items)
    OBVIOUS
  <2> HIDE DEF items, page
  <2> QED BY <2>2, <2>5, <2>6, <2>7, <1>0, <1>7, <1>9
<1>12. CASE Resolve(r)
  <2>1. ASSUME NEW at \in {"lookup", "load"}, NEW version,
               reader'[r] = [x EXCEPT !.at = at, !.version = version]
        PROVE  WalkInv'
    <3> DEFINE y == reader'[r]
    <3>1. /\ y.must = x.must /\ y.got = x.got /\ y.resource = x.resource
          /\ y.began = x.began /\ y.at = at
      BY <2>1, <1>0 DEF Read
    <3>2. entries' = entries
      BY <1>12 DEF Resolve
    <3>3. y.at \notin {"store", "done"}
      BY <3>1
    <3> HIDE DEF y
    <3> QED BY <3>1, <3>2, <3>3, <1>8 DEF y
  <2>2. CASE reader' = [reader EXCEPT ![r].at = "lookup", ![r].version = cacheVersion]
    <3>1. reader'[r] = [x EXCEPT !.at = "lookup", !.version = cacheVersion]
      BY <2>2, <1>0
    <3> QED BY <3>1, <2>1
  <2>3. CASE reader' = [reader EXCEPT ![r].at = "load"]
    <3>1. reader'[r] = [x EXCEPT !.at = "load", !.version = x.version]
      BY <2>3, <1>0 DEF Read
    <3> QED BY <3>1, <2>1
  <2> QED BY <1>12, <2>2, <2>3 DEF Resolve
<1>13. CASE Lookup(r)
  <2>0. entries' = entries /\ x.version # NoVersion /\ x.began <= x.version
    BY <1>13 DEF Lookup, FreshInv
  <2>1. ASSUME NEW e \in entries, e.resource = x.resource, e.version = x.version,
               Result(r, e.image, "done")
        PROVE  WalkInv'
    <3>1. reader'[r] = [x EXCEPT !.at = "done", !.image = e.image]
      BY <2>1, <1>0 DEF Result
    <3>2. Shape(e.image, x.resource) /\ Complete(e.image, x.resource, x.must)
      BY <2>0, <2>1, <1>5
    <3> DEFINE y == reader'[r]
    <3>3. /\ y.must = x.must /\ y.got = x.got /\ y.resource = x.resource
          /\ y.began = x.began /\ y.at = "done" /\ y.image = e.image
      BY <3>1, <1>0 DEF Read
    <3> QED BY <2>0, <3>2, <3>3, <1>8
  <2>2. ASSUME NEW version, reader'[r] = [x EXCEPT !.at = "load", !.version = version]
        PROVE  WalkInv'
    <3> DEFINE y == reader'[r]
    <3>1. /\ y.must = x.must /\ y.got = x.got /\ y.resource = x.resource
          /\ y.began = x.began /\ y.at = "load"
      BY <2>2, <1>0 DEF Read
    <3> QED BY <2>0, <3>1, <1>8
  <2>3. CASE reader' = [reader EXCEPT ![r].at = "load"]
    <3>1. reader'[r] = [x EXCEPT !.at = "load", !.version = x.version]
      BY <2>3, <1>0 DEF Read
    <3> QED BY <3>1, <2>2
  <2>4. CASE reader' = [reader EXCEPT ![r].at = "load", ![r].version = NoVersion]
    BY <2>4, <2>2, <1>0
  <2> QED BY <1>13, <2>1, <2>3, <2>4 DEF Lookup
<1>14. CASE Load(r)
  <2>1. PICK at \in {"done", "store"} : Result(r, Answered(x.resource), at)
    BY <1>14 DEF Load
  <2>2. reader'[r] = [x EXCEPT !.at = at, !.image = Answered(x.resource)]
    BY <2>1, <1>0 DEF Result
  <2>3. /\ Shape(Answered(x.resource), x.resource)
        /\ Complete(Answered(x.resource), x.resource, Todo)
    BY <1>0, AnsweredComplete
  <2>4. Complete(Answered(x.resource), x.resource, x.must)
    BY <2>3, <1>0, CompleteForSome
  <2> DEFINE y == reader'[r]
  <2>5. /\ y.must = x.must /\ y.got = x.got /\ y.resource = x.resource
        /\ y.began = x.began /\ y.image = Answered(x.resource)
    BY <2>2, <1>0 DEF Read
  <2>6. entries' = entries
    BY <1>14 DEF Load
  <2> QED BY <2>3, <2>4, <2>5, <2>6, <1>8
<1>15. CASE Store(r)
  <2>1. x.at = "store" /\ reader'[r] = [x EXCEPT !.at = "done"]
    BY <1>15, <1>0 DEF Store
  <2> DEFINE y == reader'[r]
  <2>2. /\ y.must = x.must /\ y.got = x.got /\ y.resource = x.resource
        /\ y.began = x.began /\ y.at = "done" /\ y.image = x.image
    BY <2>1, <1>0 DEF Read
  <2>3. /\ Shape(x.image, x.resource) /\ Complete(x.image, x.resource, x.must)
        /\ x.image.asOf = cacheVersion => Complete(x.image, x.resource, Todo)
        /\ \A s \in Reader : reader[s].began <= x.version =>
             Complete(x.image, x.resource, reader[s].must)
    BY <2>1 DEF WalkInv, Answering
  <2>4. \A e \in entries' :
          \/ e \in entries
          \/ e.resource = x.resource /\ e.version = x.version /\ e.image = x.image
    BY <1>15 DEF Store, Keyed
  <2>5. \A e \in entries' :
           /\ Shape(e.image, e.resource)
           /\ e.image.asOf = cacheVersion => Complete(e.image, e.resource, Todo)
           /\ \A s \in Reader : reader[s].began <= e.version =>
                Complete(e.image, e.resource, reader[s].must)
    BY <2>3, <2>4, <1>5
  <2>6. \A e \in entries' :
           /\ Shape(e.image, e.resource)
           /\ e.image.asOf = cacheVersion => Complete(e.image, e.resource, Todo)
           /\ \A s \in Reader : s # r /\ reader[s].began <= e.version =>
                Complete(e.image, e.resource, reader[s].must)
           /\ y.began <= e.version => Complete(e.image, e.resource, y.must)
    BY <2>2, <2>5
  <2>7. \A s \in Reader :
           s # r /\ reader[s].at = "store" /\ y.began <= reader[s].version =>
             Complete(reader[s].image, reader[s].resource, y.must)
    BY <2>2, <1>6
  <2>8. /\ \A t \in y.must : todo[t].phase # "absent"
        /\ y.resource.kind = "page" =>
             /\ \A t \in y.got : t <= y.resource.at
             /\ \A t \in y.must : Live(t) /\ t <= y.resource.at => t \in y.got
        /\ y.resource.kind = "item" => y.must = {} /\ y.got = {}
        /\ y.must \in SUBSET Todo
    BY <2>2, <1>7, <1>0
  <2>9. /\ Shape(y.image, y.resource) /\ Complete(y.image, y.resource, y.must)
        /\ y.at # "store"
    BY <2>2, <2>3
  <2> HIDE DEF x
  <2> QED BY <2>6, <2>7, <2>8, <2>9, <1>4
<1> QED BY <1>10, <1>11, <1>12, <1>13, <1>14, <1>15 DEF ReadStep

LEMMA WalkStep ==
  ASSUME CacheTypeOK, IdempotencyInv, FreshInv, WalkInv, [CacheNext]_vars
  PROVE  WalkInv'
<1>1. ASSUME UNCHANGED <<todo, cacheVersion, reader>>, entries' \subseteq entries
      PROVE  WalkInv'
  BY <1>1 DEF WalkInv, Walked, Answering, Shape, Complete, Live
<1>2. CASE UNCHANGED vars
  BY <1>2, <1>1 DEF vars, commandVars, rowVars, cacheVars
<1>3. ASSUME NEW c \in Client, Invalidate(c) PROVE WalkInv'
  BY <1>3, <1>1 DEF Invalidate, rowVars
<1>4. CASE Expire
  BY <1>4, <1>1 DEF Expire, commandVars, rowVars
<1> QED BY <1>2, <1>3, <1>4, WalkByCommand, WalkByReader DEF CacheNext, Commands

(***************************************************************************)
(* The inductive invariant, and what follows from it.                      *)
(***************************************************************************)
LEMMA CacheInitInv == CacheInit => CacheIInv
<1> SUFFICES ASSUME CacheInit PROVE CacheIInv
  OBVIOUS
<1>1. CacheTypeOK /\ CommandsTypeOK
  BY CacheInitType, CommandsInitType DEF CacheInit
<1>2. IdempotencyInv /\ ReadCurrent /\ AccessKept
  BY DEF CacheInit, CommandsInit, IdempotencyInv, RecordsMatch, AnswersApart,
         DrawnApart, ReadCurrent, AccessKept, Idle
<1>3. FreshInv
  BY DEF CacheInit, CommandsInit, FreshInv, Answering
<1>4. WalkInv
  BY DEF CacheInit, WalkInv, Walked, Answering
<1> QED BY <1>1, <1>2, <1>3, <1>4 DEF CacheIInv

LEMMA CacheStepInv == CacheIInv /\ [CacheNext]_vars => CacheIInv'
<1> SUFFICES ASSUME CacheIInv, [CacheNext]_vars PROVE CacheIInv'
  OBVIOUS
<1> USE DEF CacheIInv
<1>1. CacheTypeOK' /\ FreshInv' /\ WalkInv'
  BY CacheTypeStep, FreshStep, WalkStep
<1>2. CommandsTypeOK
  BY DEF CacheTypeOK
<1>3. CASE CommandsNext
  BY <1>1, <1>2, <1>3, IdempotencyStep, ReadCurrentStep, AccessStep
<1>4. ASSUME NEW c \in Client, Invalidate(c)
      PROVE  IdempotencyInv' /\ ReadCurrent' /\ AccessKept'
  <2>1. \A d \in Client : command'[d].op # "idle" => command'[d] = command[d]
    BY <1>4, <1>2 DEF Invalidate, End, Idle, CommandsTypeOK
  <2>2. UNCHANGED <<todo, record, share, lapsed, answers>>
    BY <1>4 DEF Invalidate, rowVars
  <2>3. IdempotencyInv'
    BY <2>1, <2>2 DEF IdempotencyInv, RecordsMatch, AnswersApart, DrawnApart
  <2>4. ReadCurrent'
    BY <2>1, <2>2 DEF ReadCurrent
  <2>5. AccessKept'
    BY <2>1, <2>2 DEF AccessKept, MayAccess
  <2> QED BY <2>3, <2>4, <2>5
<1>5. ASSUME UNCHANGED commandVars PROVE IdempotencyInv' /\ ReadCurrent' /\ AccessKept'
  BY <1>5 DEF commandVars, rowVars, IdempotencyInv, RecordsMatch, AnswersApart,
              DrawnApart, ReadCurrent, AccessKept, MayAccess
<1>6. CASE Expire \/ UNCHANGED vars
  BY <1>1, <1>5, <1>6 DEF Expire, vars, commandVars
<1>7. ASSUME NEW r \in Reader, ReadStep(r)
      PROVE  IdempotencyInv' /\ ReadCurrent' /\ AccessKept'
  <2>1. UNCHANGED <<rowVars, lapsed, command, answers>>
    BY <1>7 DEF ReadStep, BeginRead, NextPage, Ask, Resolve, Lookup, Load, Store,
                commandVars
  <2> QED BY <2>1 DEF rowVars, IdempotencyInv, RecordsMatch, AnswersApart,
                      DrawnApart, ReadCurrent, AccessKept, MayAccess
<1> QED BY <1>1, <1>3, <1>4, <1>6, <1>7 DEF CacheNext, Commands

LEMMA CacheInvariant == Spec => []CacheIInv
  BY CacheInitInv, CacheStepInv, PTL DEF Spec

\* The type invariant of commands, rows, cache entries and readers.
THEOREM CacheTypes == Spec => []CacheTypeOK
<1>1. CacheIInv => CacheTypeOK
  BY DEF CacheIInv
<1> QED BY <1>1, CacheInvariant, PTL

\* An idempotency key is answered with one TODO until its record has lapsed
\* (PostgresTodoRepository.create), however requests, replays and sweeps meet.
THEOREM KeyAnswered == Spec => []KeyAnswersOnce
<1>1. CacheIInv => KeyAnswersOnce
  BY AnswersOnce DEF CacheIInv, CacheTypeOK
<1> QED BY <1>1, CacheInvariant, PTL

\* Every change of a TODO from open to completed is one event todo.completed
\* and every event such a change (appendCompletedEvent), whatever else is under
\* way; the creation of a completed TODO has none (PostgresTodoRepository.create).
THEOREM CompletionsCorrect == Spec => CompletionsCounted
<1>1. CacheIInv /\ [CacheNext]_vars =>
        [\A t \in Todo :
           completed'[t] = completed[t]
             + (IF /\ todo[t].phase # "absent"
                   /\ todo'[t].done /\ ~todo[t].done THEN 1 ELSE 0)]_commandVars
  <2> SUFFICES ASSUME CacheIInv, [CacheNext]_vars, ~UNCHANGED commandVars
               PROVE  \A t \in Todo :
                        completed'[t] = completed[t]
                          + (IF /\ todo[t].phase # "absent"
                                /\ todo'[t].done /\ ~todo[t].done THEN 1 ELSE 0)
    OBVIOUS
  <2>0. CommandsTypeOK
    BY DEF CacheIInv, CacheTypeOK
  <2>1. CASE CommandsNext
    BY <2>1, <2>0, CompletionStep DEF CacheIInv
  <2>2. CASE UNCHANGED <<todo, completed>>
    <3>1. \A t \in Todo : completed[t] \in Nat
      BY <2>0 DEF CommandsTypeOK
    <3> QED BY <2>2, <3>1
  <2>3. CommandsNext \/ UNCHANGED <<todo, completed>>
    BY DEF CacheNext, Commands, Invalidate, Expire, ReadStep, BeginRead, NextPage,
           Ask, Resolve, Lookup, Load, Store, vars, commandVars, rowVars
  <2> QED BY <2>1, <2>2, <2>3
<1> QED BY <1>1, CacheInvariant, PTL DEF Spec, CompletionsCounted

\* Whoever lost the share changes the TODO only by an UPDATE that had begun
\* (updateAccessibleTodoState, withdrawShare).
THEOREM WithdrawalHolds == Spec => WithdrawnStaysOut
<1>1. CacheIInv /\ [CacheNext]_vars =>
        [\A c \in Client :
           WriteState(c) => \/ MayAccess(command[c].caller, command[c].todo)
                            \/ command[c].late]_commandVars
  BY DEF CacheIInv, AccessKept, WriteState
<1> QED BY <1>1, CacheInvariant, PTL DEF Spec, WithdrawnStaysOut

\* No read is answered with TODOs older than itself (RedisTodoReadCache).
THEOREM ReadsFresh == Spec => []FreshReads
<1>1. CacheIInv => FreshReads
  <2> SUFFICES ASSUME CacheIInv, NEW r \in Reader, Answering(r)
               PROVE  reader[r].image.asOf >= reader[r].began
    BY DEF FreshReads
  <2>1. reader[r].image.asOf \in Nat /\ reader[r].began \in Nat
    BY ReaderFacts DEF CacheIInv
  <2>2. reader[r].began <= reader[r].image.asOf
    BY DEF CacheIInv, FreshInv
  <2> QED BY <2>1, <2>2
<1> QED BY <1>1, CacheInvariant, PTL

\* A walk over the pages misses no TODO that was live throughout and repeats
\* none (listTodos, todoListCursor), whatever is cached and changed meanwhile.
THEOREM WalksComplete == Spec => []WalkComplete
<1>1. CacheIInv => WalkComplete
  <2> SUFFICES ASSUME CacheIInv, NEW r \in Reader, Answering(r)
               PROVE  /\ reader[r].image.items \cap reader[r].got = {}
                      /\ ~reader[r].image.more =>
                           \A t \in reader[r].must :
                             Live(t) => t \in reader[r].image.items \cup reader[r].got
    BY DEF WalkComplete
  <2> DEFINE x == reader[r]
  <2>1. /\ Walked(r) /\ Shape(x.image, x.resource)
        /\ Complete(x.image, x.resource, x.must)
    BY DEF CacheIInv, WalkInv
  <2>2. /\ x.resource \in Resource /\ x.image.items \subseteq Todo
        /\ x.must \subseteq Todo /\ x.got \subseteq Todo
    BY ReaderFacts DEF CacheIInv
  <2>3. CASE x.resource.kind = "item"
    BY <2>3, <2>1 DEF Walked
  <2>4. CASE x.resource.kind = "page"
    <3>1. x.resource.at \in Int /\ Todo \subseteq Int
      BY <2>4, <2>2 DEF Resource, Todo
    <3>2. x.image.items \cap x.got = {}
      <4>1. ASSUME NEW t \in x.image.items, t \in x.got PROVE FALSE
        <5>1. t > x.resource.at /\ t <= x.resource.at /\ t \in Int
          BY <4>1, <2>4, <2>1, <2>2, <3>1 DEF Shape, Walked
        <5> QED BY <5>1, <3>1
      <4> QED BY <4>1
    <3>3. ASSUME ~x.image.more, NEW t \in x.must, Live(t)
          PROVE  t \in x.image.items \cup x.got
      <4>1. CASE t <= x.resource.at
        BY <4>1, <3>3, <2>4, <2>1 DEF Walked
      <4>2. CASE t > x.resource.at
        BY <4>2, <3>3, <2>4, <2>1 DEF Complete
      <4>3. t \in Int /\ x.resource.at \in Int
        BY <3>1, <2>2
      <4> QED BY <4>1, <4>2, <4>3
    <3> QED BY <3>2, <3>3
  <2>5. x.resource.kind \in {"item", "page"}
    BY <2>2 DEF Resource
  <2> QED BY <2>3, <2>4, <2>5
<1> QED BY <1>1, CacheInvariant, PTL
=============================================================================
