----------------------------- MODULE TodoCommands -----------------------------
(***************************************************************************)
(* The TODOs of one owner and the commands on them: create under an        *)
(* idempotency key, update and state change under an optimistic version,   *)
(* soft delete, share and withdraw.  A transaction is one action; a command *)
(* that reads before it takes a row lock is one action for each part.  The *)
(* number of a TODO is its place in the order of (created_at, id).         *)
(***************************************************************************)
EXTENDS Naturals, FiniteSets

CONSTANTS
  MaxTodo,      \* bound: TODOs ever asked for
  Existing,     \* the TODOs there are at first
  MaxTitle,     \* normalized titles
  Key,          \* idempotency keys
  Recipient,    \* accounts the owner may share with
  Owner,
  Client,       \* requests in flight at a time
  MaxRequests   \* bound: commands and reads ever begun

Todo == 1..MaxTodo
Title == 1..MaxTitle

ASSUME CommandsAssumption ==
  /\ MaxTodo \in Nat /\ MaxTitle \in Nat \ {0} /\ MaxRequests \in Nat
  /\ Existing \in 0..MaxTodo /\ Existing <= MaxTitle
  /\ Owner \notin Recipient

VARIABLES
  todo,          \* rows of todos
  record,        \* rows of todo_idempotency_records of the owner
  lapsed,        \* the TODOs whose record has passed its expires_at
  share,         \* active rows of todo_shares
  cacheVersion,  \* todo_owners.cache_version
  command,       \* the command each client carries out, and how far it is
  requests,
  answers,       \* history: which TODO was answered to which create request
  completed      \* todo.completed events of each TODO

rowVars == <<todo, record, share, cacheVersion>>
commandVars == <<rowVars, lapsed, command, requests, answers, completed>>

Accounts == Recipient \cup {Owner}
Row == [phase : {"absent", "live", "deleted"}, title : Title, done : BOOLEAN,
        version : Nat]
\* The request hash tells titles and states apart.
Record == [todo : Todo, title : Title, done : BOOLEAN]
NoRecord == [todo |-> 0]

Idle == [op |-> "idle"]
Create == [op : {"create"}, key : Key, title : Title, done : BOOLEAN,
           todo : Todo, past : SUBSET Todo]
Update == [op : {"update"}, todo : Todo, title : Title, done : BOOLEAN,
           was : BOOLEAN, version : Nat]
StateRead == [op : {"check"}, todo : Todo, caller : Accounts, done : BOOLEAN,
              was : BOOLEAN, version : Nat]
StateWrite == [op : {"write"}, todo : Todo, caller : Accounts, done : BOOLEAN,
               was : BOOLEAN, version : Nat, late : BOOLEAN]
Share == [op : {"share"}, todo : Todo, recipient : Recipient]
Invalidation == [op : {"invalidate"}, from : Nat]
Command == {Idle} \cup Create \cup Update \cup StateRead \cup StateWrite
             \cup Share \cup Invalidation

CommandsTypeOK ==
  /\ todo \in [Todo -> Row]
  /\ record \in [Key -> Record \cup {NoRecord}]
  /\ lapsed \subseteq Todo
  /\ share \in [Todo -> SUBSET Recipient]
  /\ cacheVersion \in Nat
  /\ command \in [Client -> Command] /\ requests \in 0..MaxRequests
  /\ answers \subseteq [key : Key, todo : Todo, title : Title, done : BOOLEAN]
  /\ completed \in [Todo -> Nat]

Live(t) == todo[t].phase = "live"
Free(title, t) == \A u \in Todo : Live(u) /\ todo[u].title = title => u = t

CommandsInit ==
  /\ todo = [t \in Todo |->
               [phase |-> IF t <= Existing THEN "live" ELSE "absent",
                title |-> IF t <= Existing THEN t ELSE 1,
                done |-> FALSE, version |-> 1]]
  /\ record = [k \in Key |-> NoRecord] /\ lapsed = {}
  /\ share = [t \in Todo |-> {}]
  /\ cacheVersion = 0
  /\ command = [c \in Client |-> Idle] /\ requests = 0
  /\ answers = {}
  /\ completed = [t \in Todo |-> 0]

Begin(c, what) ==
  /\ command[c] = Idle
  /\ requests < MaxRequests
  /\ requests' = requests + 1
  /\ command' = [command EXCEPT ![c] = what]

End(c) == command' = [command EXCEPT ![c] = Idle]

\* After the commit the service brings the version in Redis up to date.
Committed(c) ==
  /\ cacheVersion' = cacheVersion + 1
  /\ command' = [command EXCEPT
                   ![c] = [op |-> "invalidate", from |-> cacheVersion + 1]]

-----------------------------------------------------------------------------
(* Create *)

Used(t) == \/ todo[t].phase # "absent"
           \/ \E c \in Client :
                command[c].op = "create" /\ command[c].todo = t
Next(t) == (\A u \in t..MaxTodo : ~Used(u)) /\ (t > 1 => Used(t - 1))

\* The service draws the id and reads the clock.  The request may name the
\* state; without one the TODO is open.
AskCreate(c) ==
  \E k \in Key, title \in Title, done \in BOOLEAN, t \in Todo :
    /\ Next(t)
    /\ Begin(c, [op |-> "create", key |-> k, title |-> title, done |-> done,
                 todo |-> t, past |-> lapsed])
    /\ UNCHANGED <<rowVars, lapsed, answers, completed>>

\* Mutant: the comparison of the DELETE turned round.
SweptCurrent(past) ==
  [k \in Key |-> IF record[k].todo \in past THEN record[k] ELSE NoRecord]

\* DELETE ... WHERE expires_at <= occurredAt, of every owner
Swept(past) ==
  [k \in Key |-> IF record[k].todo \in past THEN NoRecord ELSE record[k]]

\* A request of another owner deletes expired records of this one too.
SweepByOthers ==
  /\ record' = Swept(lapsed)
  /\ UNCHANGED <<todo, share, cacheVersion, lapsed, command,
                 requests, answers, completed>>

\* What the record of a creation keeps.
Made(m, t) == [todo |-> t, title |-> m.title, done |-> m.done]

Answer(m, t) ==
  answers' = answers \cup
    {[key |-> m.key, todo |-> t, title |-> m.title, done |-> m.done]}

\* INSERT ... ON CONFLICT DO NOTHING found a record: another request, or a
\* replay, which commits and is answered with the first TODO.
Replay(c) ==
  /\ command[c].op = "create"
  /\ LET m == command[c]
         kept == Swept(m.past)
         found == kept[m.key]
     IN /\ found # NoRecord
        /\ \/ /\ found # Made(m, found.todo)
              /\ End(c)
              /\ UNCHANGED <<record, answers>>
           \/ /\ found = Made(m, found.todo)
              /\ record' = kept
              /\ Answer(m, found.todo)
              /\ command' = [command EXCEPT
                               ![c] = [op |-> "invalidate",
                                       from |-> cacheVersion]]
  /\ UNCHANGED <<todo, share, cacheVersion, lapsed, requests,
                 completed>>

\* A duplicate title, or an owner whose projection is inactive, rolls the
\* record and the DELETE back.
CreateRefused(c) ==
  /\ command[c].op = "create"
  /\ Swept(command[c].past)[command[c].key] = NoRecord
  /\ End(c)
  /\ UNCHANGED <<rowVars, lapsed, requests, answers, completed>>

CreateTodo(c) ==
  /\ command[c].op = "create"
  /\ LET m == command[c]
         kept == Swept(m.past)
     IN /\ kept[m.key] = NoRecord
        /\ Free(m.title, m.todo)
        /\ record' = [kept EXCEPT ![m.key] = Made(m, m.todo)]
        /\ todo' = [todo EXCEPT
                      ![m.todo] = [phase |-> "live", title |-> m.title,
                                   done |-> m.done, version |-> 1]]
        /\ Answer(m, m.todo)
        /\ Committed(c)
  /\ UNCHANGED <<share, lapsed, requests, completed>>

\* The 24 hours of a record are over.
Lapse ==
  \E k \in Key :
    /\ record[k] # NoRecord /\ record[k].todo \notin lapsed
    /\ lapsed' = lapsed \cup {record[k].todo}
    /\ UNCHANGED <<rowVars, command, requests, answers, completed>>

-----------------------------------------------------------------------------
(* Update, delete *)

\* The SELECT without a lock.  A request that names another version than the
\* row's, or a TODO that is not live, is refused here; the fields that it does
\* not name keep the value that is read.
BeginUpdate(c) ==
  \E t \in Todo, title \in Title, done \in BOOLEAN :
    /\ Live(t)
    /\ Begin(c, [op |-> "update", todo |-> t, title |-> title, done |-> done,
                 was |-> todo[t].done, version |-> todo[t].version])
    /\ UNCHANGED <<rowVars, lapsed, answers, completed>>

\* appendCompletedEvent: what was read decides.
AppendCompletedEvent(was, done, t) ==
  completed' = [completed EXCEPT ![t] = @ + (IF done /\ ~was THEN 1 ELSE 0)]

\* Mutant: the UPDATE has no condition on the version.
MatchesLive(m) == Live(m.todo)

\* UPDATE ... WHERE version = $; the trigger counts the row's version.
Matches(m) == Live(m.todo) /\ todo[m.todo].version = m.version

UpdateOwnedTodo(c) ==
  /\ command[c].op = "update"
  /\ LET m == command[c]
     IN /\ Matches(m) /\ Free(m.title, m.todo)
        /\ todo' = [todo EXCEPT ![m.todo].title = m.title, ![m.todo].done = m.done,
                                ![m.todo].version = @ + 1]
        /\ AppendCompletedEvent(m.was, m.done, m.todo)
        /\ Committed(c)
  /\ UNCHANGED <<record, share, lapsed, requests, answers>>

\* version_conflict or duplicate_title
UpdateRefused(c) ==
  /\ command[c].op \in {"update", "write"}
  /\ \/ ~Matches(command[c])
     \/ command[c].op = "update" /\ ~Free(command[c].title, command[c].todo)
  /\ End(c)
  /\ UNCHANGED <<rowVars, lapsed, requests, answers, completed>>

MayAccess(caller, t) == caller = Owner \/ caller \in share[t]

\* The owner or a recipient changes the state; the first SELECT.
BeginState(c) ==
  \E t \in Todo, caller \in Accounts, done \in BOOLEAN :
    /\ Live(t) /\ MayAccess(caller, t)
    /\ Begin(c, [op |-> "check", todo |-> t, caller |-> caller,
                 done |-> done, was |-> todo[t].done,
                 version |-> todo[t].version])
    /\ UNCHANGED <<rowVars, lapsed, answers, completed>>

\* Mutant: access is checked by the first SELECT only.
CheckStateVersion(c) ==
  /\ command[c].op = "check"
  /\ LET m == command[c]
     IN command' = [command EXCEPT ![c] =
          IF Matches(m)
          THEN [op |-> "write", todo |-> m.todo, caller |-> m.caller,
                done |-> m.done, was |-> m.was, version |-> m.version,
                late |-> FALSE]
          ELSE Idle]
  /\ UNCHANGED <<rowVars, lapsed, requests, answers, completed>>

\* The UPDATE takes its snapshot and then waits for the row: its subquery on
\* the shares is not evaluated again unless the row was changed.
CheckState(c) ==
  /\ command[c].op = "check"
  /\ LET m == command[c]
     IN command' = [command EXCEPT ![c] =
          IF Matches(m) /\ MayAccess(m.caller, m.todo)
          THEN [op |-> "write", todo |-> m.todo, caller |-> m.caller,
                done |-> m.done, was |-> m.was, version |-> m.version,
                late |-> FALSE]
          ELSE Idle]
  /\ UNCHANGED <<rowVars, lapsed, requests, answers, completed>>

WriteState(c) ==
  /\ command[c].op = "write"
  /\ LET m == command[c]
     IN /\ Matches(m)
        /\ todo' = [todo EXCEPT ![m.todo].done = m.done, ![m.todo].version = @ + 1]
        /\ AppendCompletedEvent(m.was, m.done, m.todo)
        /\ Committed(c)
  /\ UNCHANGED <<record, share, lapsed, requests, answers>>

SoftDeleteOwnedTodo(c) ==
  \E t \in Todo :
    /\ Live(t)
    /\ command[c] = Idle
    /\ requests < MaxRequests
    /\ requests' = requests + 1
    /\ todo' = [todo EXCEPT ![t].phase = "deleted", ![t].version = @ + 1]
    /\ Committed(c)
    /\ UNCHANGED <<record, share, lapsed, answers, completed>>

-----------------------------------------------------------------------------
(* Shares *)

\* The snapshot of the statement shows the TODO live; it takes no lock.
BeginShare(c) ==
  \E t \in Todo, r \in Recipient :
    /\ Live(t)
    /\ Begin(c, [op |-> "share", todo |-> t, recipient |-> r])
    /\ UNCHANGED <<rowVars, lapsed, answers, completed>>

\* ON CONFLICT DO NOTHING; nothing is invalidated.
CreateShare(c) ==
  /\ command[c].op = "share"
  /\ share' = [share EXCEPT ![command[c].todo] = @ \cup {command[c].recipient}]
  /\ End(c)
  /\ UNCHANGED <<todo, record, cacheVersion, lapsed, requests, answers,
                 completed>>

\* The TODO is locked and must be live.  The row is not changed, so a state
\* change of the recipient that waits for the lock goes on afterwards.
Withdraw(c) ==
  \E t \in Todo, r \in Recipient :
    /\ Live(t) /\ r \in share[t]
    /\ command[c] = Idle
    /\ requests < MaxRequests
    /\ requests' = requests + 1
    /\ share' = [share EXCEPT ![t] = @ \ {r}]
    /\ command' = [d \in Client |->
         IF d = c THEN [op |-> "invalidate", from |-> cacheVersion]
         ELSE IF /\ command[d].op = "write"
                 /\ command[d].todo = t /\ command[d].caller = r
              THEN [command[d] EXCEPT !.late = TRUE]
              ELSE command[d]]
    /\ UNCHANGED <<todo, record, cacheVersion, lapsed, answers, completed>>

Step(c) ==
  \/ AskCreate(c) \/ Replay(c) \/ CreateRefused(c) \/ CreateTodo(c)
  \/ BeginUpdate(c) \/ UpdateOwnedTodo(c) \/ UpdateRefused(c)
  \/ BeginState(c) \/ CheckState(c) \/ WriteState(c)
  \/ SoftDeleteOwnedTodo(c)
  \/ BeginShare(c) \/ CreateShare(c) \/ Withdraw(c)

CommandsNext == SweepByOthers \/ Lapse \/ \E c \in Client : Step(c)

-----------------------------------------------------------------------------
(* Properties *)

\* One idempotency key creates one TODO, and every answer under it is that
\* TODO for the content it was asked with, until the record of a TODO has
\* passed its 24 hours (PostgresTodoRepository.create).
KeyAnswersOnce ==
  \A a, b \in answers : a.key = b.key =>
    \/ a = b
    \/ a.todo # b.todo /\ (a.todo \in lapsed \/ b.todo \in lapsed)

\* The events todo.completed of a TODO are its changes from open to completed,
\* whichever updates were prepared on the same version (appendCompletedEvent
\* decides from what was read before the UPDATE).  A TODO that is created
\* completed has no event: the creation writes none.
CompletionsCounted ==
  [][\A t \in Todo :
       completed'[t] = completed[t]
         + (IF /\ todo[t].phase # "absent"
               /\ todo'[t].done /\ ~todo[t].done THEN 1 ELSE 0)]_commandVars

\* A recipient whose share was withdrawn changes the state of the TODO no
\* more, except by an UPDATE that had begun (updateAccessibleTodoState).
WithdrawnStaysOut ==
  [][\A c \in Client :
       WriteState(c) => \/ MayAccess(command[c].caller, command[c].todo)
                        \/ command[c].late]_commandVars
=============================================================================
