--------------------------- MODULE OwnerProjection ---------------------------
(***************************************************************************)
(* The address of one account in Account Service and the copy Todo Service *)
(* keeps of it: `users' and the outbox on one side, `todo_owners', the     *)
(* pending e-mail changes, the processed events, the rebuild and the       *)
(* tombstone on the other, RabbitMQ in between.                            *)
(*                                                                         *)
(* A row is [mail |-> m, at |-> t]: the address number m (0 is the one     *)
(* registered), written under the stamp t; t = 0 means that there is no    *)
(* row, so that an INSERT ... ON CONFLICT DO UPDATE ... WHERE older is     *)
(* one comparison.  The event of a commit is the row it wrote.             *)
(***************************************************************************)
EXTENDS Integers

CONSTANTS
  MaxTime,      \* bound: different stamps
  MaxChanges,   \* bound: e-mail changes asked for
  MaxRebuilds,  \* bound: runs of the rebuild
  Skews,        \* bound: whether a commit may carry a stamp that is not later
                \* than the row's
  PlaceholderFits  \* the row that erasure inserts for the anonymous owner
                   \* satisfies the constraints of todo_owners

ASSUME ConstantsAssumption ==
  /\ MaxTime \in Nat \ {0}
  /\ MaxChanges \in Nat
  /\ MaxRebuilds \in Nat
  /\ Skews \in BOOLEAN /\ PlaceholderFits \in BOOLEAN

VARIABLES
  now,        \* the latest stamp taken
  user,       \* row of users
  asked,      \* e-mail changes that took their stamp and have not committed
  asks,       \* how many were asked for
  outbox,     \* unpublished rows of the account in outbox_events
  queue,      \* messages in the owner queue, its retry queue or its DLQ
  taken,      \* deliveries whose transaction has passed the tombstone test
  looked,     \* those of a registration that have found no pending change
  owner,      \* row of todo_owners
  active,     \* its deactivated_at is NULL
  pending,    \* row of todo_owner_pending_email_changes
  processed,  \* events ever recorded in processed_events
  tombstone,  \* row of account_deletion_tombstones
  rebuild,    \* the maintenance run: its position, batch, and member row
  rebuilds,   \* how many there were
  skewed,     \* history: a commit carried a stamp not later than the row's
  overtaken,  \* history: a delivery that had passed its tombstone test, or a
              \* rebuild that had read the account, outlived the erasure
  stranded,   \* history: a registration that had looked before the pending
              \* change was written has left it behind
  missed      \* history: the last listing found no account to rebuild

accountVars == <<user, asked, asks, outbox, skewed>>
brokerVars == <<queue, taken, looked>>
copyVars == <<owner, active, pending, stranded>>
projectionVars == <<copyVars, processed, tombstone, overtaken>>
rebuildVars == <<rebuild, rebuilds, missed>>
ownerVars == <<now, accountVars, brokerVars, projectionVars, rebuildVars>>

Row == [mail : 0..MaxChanges, at : 0..MaxTime]
Absent == [mail |-> 0, at |-> 0]
Present(row) == row.at > 0
Event == [mail : 0..MaxChanges, at : 1..MaxTime]

TypeOK ==
  /\ now \in 1..MaxTime
  /\ user \in Row /\ owner \in Row /\ pending \in Row
  /\ active \in BOOLEAN /\ tombstone \in BOOLEAN
  /\ asked \subseteq Event /\ asks \in 0..MaxChanges
  /\ outbox \subseteq Event /\ queue \subseteq Event
  /\ taken \subseteq Event /\ looked \subseteq Event
  /\ processed \subseteq Event
  /\ rebuild \in [phase : {"idle", "started", "read", "listed"},
                  batch : Row, member : BOOLEAN]
  /\ rebuilds \in 0..MaxRebuilds
  /\ skewed \in BOOLEAN /\ overtaken \in BOOLEAN
  /\ stranded \in BOOLEAN /\ missed \in BOOLEAN

Init ==
  /\ now = 1
  /\ user = Absent /\ owner = Absent /\ pending = Absent
  /\ active = FALSE /\ tombstone = FALSE
  /\ asked = {} /\ asks = 0
  /\ outbox = {} /\ queue = {} /\ taken = {} /\ looked = {}
  /\ processed = {}
  /\ rebuild = [phase |-> "idle", batch |-> Absent, member |-> FALSE]
  /\ rebuilds = 0
  /\ skewed = FALSE /\ overtaken = FALSE /\ stranded = FALSE /\ missed = FALSE

-----------------------------------------------------------------------------
(* Account Service *)

\* The row and its event are written in one transaction.
Write(row) ==
  /\ user' = row
  /\ outbox' = outbox \cup {row}

\* The stamp was taken before the row was locked.
Stamped(t) ==
  /\ t <= user.at => Skews
  /\ skewed' = (skewed \/ t <= user.at)

\* A deleted account does not register again: the id is a new UUID.
Register ==
  /\ ~Present(user) /\ ~tombstone
  /\ Write([mail |-> 0, at |-> now])
  /\ UNCHANGED <<now, asked, asks, skewed, brokerVars, projectionVars,
                 rebuildVars>>

\* The service reads the clock; the transaction then waits for the advisory
\* lock of the account.
AskEmailChange ==
  /\ Present(user)
  /\ asks < MaxChanges
  /\ asks' = asks + 1
  /\ now' \in now..MaxTime
  /\ asked' = asked \cup {[mail |-> asks + 1, at |-> now']}
  /\ UNCHANGED <<user, outbox, skewed, brokerVars, projectionVars,
                 rebuildVars>>

\* Mutant: the UPDATE's row count is not looked at.
ChangeEmailUnchecked(row) ==
  /\ row \in asked
  /\ asked' = asked \ {row}
  /\ Write(IF Present(user) THEN row ELSE Absent)
  /\ skewed' = (skewed \/ row.at <= user.at)
  /\ UNCHANGED <<now, asks, brokerVars, projectionVars, rebuildVars>>

ChangeEmail(row) ==
  /\ row \in asked
  /\ asked' = asked \ {row}
  /\ \/ /\ Present(user)
        /\ Write(row)
        /\ Stamped(row.at)
     \/ /\ ~Present(user)
        /\ UNCHANGED <<user, outbox, skewed>>
  /\ UNCHANGED <<now, asks, brokerVars, projectionVars, rebuildVars>>

\* A new password stamps the row and tells the projection nothing.
ResetPassword(t) ==
  /\ Present(user)
  /\ now' = IF t > now THEN t ELSE now
  /\ user' = [user EXCEPT !.at = t]
  /\ Stamped(t)
  /\ UNCHANGED <<asked, asks, outbox, brokerVars, projectionVars, rebuildVars>>

-----------------------------------------------------------------------------
(* The outbox publisher and the broker *)

\* Published with a confirm; the publisher may stop before markPublished.
Publish(e) ==
  /\ e \in outbox
  /\ queue' = queue \cup {e}
  /\ outbox' \in {outbox, outbox \ {e}}
  /\ UNCHANGED <<now, user, asked, asks, skewed, taken, looked, projectionVars,
                 rebuildVars>>

-----------------------------------------------------------------------------
(* The consumer of the owner queue *)

\* Mutant: the tombstones are not looked at.
TakeUntested(e) ==
  /\ e \in queue
  /\ queue' = queue \ {e}
  /\ taken' = taken \cup {e}
  /\ UNCHANGED <<now, accountVars, looked, projectionVars, rebuildVars>>

\* BEGIN and the SELECT on the tombstones, which takes no lock.
Take(e) ==
  /\ e \in queue
  /\ queue' = queue \ {e}
  /\ taken' = IF tombstone THEN taken ELSE taken \cup {e}
  /\ UNCHANGED <<now, accountVars, looked, projectionVars, rebuildVars>>

\* SELECT ... FOR UPDATE of the pending change.  A row that is there stays
\* locked until the registration commits; if there is none, nothing keeps a
\* change from coming in before.
LookUpPending(e) ==
  /\ e \in taken /\ e.mail = 0
  /\ ~Present(pending)
  /\ looked' = looked \cup {e}
  /\ UNCHANGED <<now, accountVars, queue, taken, projectionVars, rebuildVars>>

Later(a, b) == IF a.at > b.at THEN a ELSE b

\* Mutant: the upsert has no WHERE.
UpsertAlways(row) ==
  /\ owner' = row
  /\ active' = TRUE

\* The owner row becomes `row' if that is later, and is then active.
Upsert(row) ==
  /\ owner' = Later(row, owner)
  /\ active' = (active \/ row.at > owner.at)

DropAppliedPending(change) ==
  pending' = IF Present(owner') /\ change.at <= owner'.at
             THEN Absent ELSE change

ApplyAccountRegistered(e) ==
  /\ Upsert(IF e \in looked THEN e ELSE Later(pending, e))
  /\ DropAppliedPending(pending)

\* Mutant: a change whose owner is unknown is dropped.
ApplyToKnownOwner(e) ==
  /\ IF Present(owner) THEN Upsert(e) ELSE UNCHANGED <<owner, active>>
  /\ UNCHANGED pending

ApplyAccountEmailChanged(e) ==
  LET change == Later(e, pending) IN
  /\ IF Present(owner) THEN Upsert(change) ELSE UNCHANGED <<owner, active>>
  /\ DropAppliedPending(change)

\* The rest of the transaction, or all of it.  A second delivery finds the
\* receipt, unless retention has deleted it; the acknowledgement may get lost.
Apply(e) ==
  /\ e \in taken
  /\ taken' = taken \ {e} /\ looked' = looked \ {e}
  /\ queue' \in {queue, queue \cup {e}}
  /\ processed' = processed \cup {e}
  /\ \/ e \in processed \ looked /\ UNCHANGED copyVars
     \/ /\ \/ e.mail = 0 /\ ApplyAccountRegistered(e)
           \/ e.mail # 0 /\ ApplyAccountEmailChanged(e)
        /\ stranded' = (Present(pending') /\ (stranded \/ e \in looked))
  /\ UNCHANGED <<now, accountVars, tombstone, overtaken, rebuildVars>>

\* The transaction fails or the consumer stops: the message waits in the
\* retry queue, in the DLQ, or for redelivery.
Fail(e) ==
  /\ e \in taken
  /\ taken' = taken \ {e} /\ looked' = looked \ {e}
  /\ queue' = queue \cup {e}
  /\ UNCHANGED <<now, accountVars, projectionVars, rebuildVars>>

-----------------------------------------------------------------------------
(* The rebuild: a maintenance run in Account Service that posts the users *)

StartRebuild ==
  /\ rebuild.phase = "idle"
  /\ rebuilds < MaxRebuilds
  /\ rebuilds' = rebuilds + 1
  /\ rebuild' = [phase |-> "started", batch |-> Absent, member |-> FALSE]
  /\ UNCHANGED <<now, accountVars, brokerVars, projectionVars, missed>>

\* The SELECT whose range the account's id falls into.
ReadUsers ==
  /\ rebuild.phase = "started"
  /\ rebuild' = [rebuild EXCEPT !.batch = user,
                   !.phase = IF Present(user) THEN "read" ELSE "listed"]
  /\ missed' = (missed \/ ~Present(user))
  /\ overtaken' = (overtaken \/ (tombstone /\ Present(user)))
  /\ UNCHANGED <<now, accountVars, brokerVars, copyVars, processed, tombstone,
                 rebuilds>>

\* Mutant: the members are those whose row the batch has updated.
ApplyRebuildBatchIfOlder ==
  /\ rebuild.phase = "read"
  /\ rebuild' = [rebuild EXCEPT !.phase = "listed",
                   !.member = owner.at <= rebuild.batch.at]
  /\ IF owner.at <= rebuild.batch.at
     THEN owner' = rebuild.batch /\ active' = TRUE
     ELSE UNCHANGED <<owner, active>>
  /\ missed' = FALSE
  /\ UNCHANGED <<now, accountVars, brokerVars, pending, stranded, processed,
                 tombstone, overtaken, rebuilds>>

ApplyRebuildBatch ==
  /\ rebuild.phase = "read"
  /\ rebuild' = [rebuild EXCEPT !.phase = "listed", !.member = TRUE]
  /\ IF owner.at <= rebuild.batch.at
     THEN owner' = rebuild.batch /\ active' = TRUE
     ELSE UNCHANGED <<owner, active>>
  /\ missed' = FALSE
  /\ UNCHANGED <<now, accountVars, brokerVars, pending, stranded, processed,
                 tombstone, overtaken, rebuilds>>

CompleteRebuild ==
  /\ rebuild.phase = "listed"
  /\ rebuild' = [rebuild EXCEPT !.phase = "idle"]
  /\ active' = (active /\ rebuild.member)
  /\ UNCHANGED <<now, accountVars, brokerVars, owner, pending, stranded,
                 processed, tombstone, overtaken, rebuilds, missed>>

AbandonRebuild ==
  /\ rebuild.phase # "idle"
  /\ rebuild' = [rebuild EXCEPT !.phase = "idle"]
  /\ UNCHANGED <<now, accountVars, brokerVars, projectionVars, rebuilds,
                 missed>>

-----------------------------------------------------------------------------
(* The deletion of the account *)

\* One transaction; a row that does not fit rolls it back.
EraseAccountData ==
  /\ PlaceholderFits
  /\ tombstone' = TRUE
  /\ overtaken' = (overtaken \/ taken # {} \/ rebuild.phase = "read")
  /\ owner' = Absent /\ active' = FALSE
  /\ pending' = Absent /\ stranded' = FALSE
  /\ rebuild' = [rebuild EXCEPT !.member = FALSE]
  /\ UNCHANGED <<now, accountVars, brokerVars, processed, rebuilds, missed>>

\* Messages that are ready are removed, queue by queue; those that leave a
\* retry queue meanwhile, and those a consumer holds, escape.
PurgeQueue ==
  /\ queue' \in SUBSET queue
  /\ UNCHANGED <<now, accountVars, taken, looked, projectionVars, rebuildVars>>

DeleteUser ==
  /\ user' = Absent
  /\ UNCHANGED <<now, asked, asks, outbox, skewed, brokerVars, projectionVars,
                 rebuildVars>>

Account ==
  \/ Register \/ AskEmailChange
  \/ \E row \in asked : ChangeEmail(row)
  \/ \E t \in 1..MaxTime : ResetPassword(t)
Delivery == \E e \in Event :
  Publish(e) \/ Take(e) \/ LookUpPending(e) \/ Apply(e) \/ Fail(e)
Rebuild == StartRebuild \/ ReadUsers \/ ApplyRebuildBatch
             \/ CompleteRebuild \/ AbandonRebuild

\* The worker of AccountDeletion erases an account that exists or was erased
\* before, and purges and deletes afterwards.
Deletion ==
  \/ (Present(user) \/ tombstone) /\ EraseAccountData
  \/ tombstone /\ PurgeQueue
  \/ tombstone /\ outbox = {} /\ DeleteUser

Next == Account \/ Delivery \/ Rebuild \/ Deletion

Spec == Init /\ [][Next]_ownerVars

-----------------------------------------------------------------------------
(* Properties *)

\* Once every event of the account has been handled, Todo Service has the
\* address Account Service has, in whatever order, and however often, the
\* registration, the changes and the rebuild's batches came
\* (owner-projection.repository.ts: pending changes, `<' and `<=').  Only a
\* registration that had looked for a pending change before there was one
\* leaves the address behind, in the pending change, which nothing applies
\* until another event or a rebuild comes.  Excepted are changes and resets
\* that committed with a stamp not later than the row's: the stamp is read
\* before the lock.
ProjectionAgrees ==
  Present(user) /\ ~tombstone /\ ~skewed /\ outbox \cup queue \cup taken = {}
    => /\ Present(owner)
       /\ owner.mail = user.mail \/ (stranded /\ pending.mail = user.mail)

\* An owner whose account exists is deactivated only if the account was not
\* there when the last rebuild listed the users, so no batch contained it
\* (completeRebuild and the order of its members and batches).
InactiveForCause ==
  Present(user) /\ ~tombstone /\ Present(owner) /\ ~active /\ ~skewed => missed

\* No event and no batch brings back an address that a later one replaced,
\* until the row is erased.
AddressForward ==
  [][Present(owner) /\ Present(owner') /\ owner' # owner
       => owner'.at > owner.at \/ skewed]_ownerVars

\* After the erasure neither the owner nor a pending change returns, unless a
\* delivery or a rebuild was past its last look at the tombstone or at the
\* account (applyAccountRegistered, applyAccountEmailChanged, eraseAccountData).
ErasedStaysErased ==
  tombstone /\ ~overtaken => ~Present(owner) /\ ~Present(pending)
=============================================================================
