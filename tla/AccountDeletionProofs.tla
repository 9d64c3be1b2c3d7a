------------------------ MODULE AccountDeletionProofs ------------------------
(***************************************************************************)
(* Theorems about OwnerProjection, for any number of stamps, e-mail        *)
(* changes and rebuilds and any order of deliveries, and about             *)
(* AccountDeletion around it, for any number of workers, failed calls,     *)
(* stops, lapsed leases and workspaces.                                    *)
(***************************************************************************)
EXTENDS AccountDeletion, TLAPS

USE DEF Present

\* What the delivery of an event does before its transaction commits.
Quiet(e) == Publish(e) \/ Take(e) \/ LookUpPending(e) \/ Fail(e)

-----------------------------------------------------------------------------
(* The owner projection: types *)

LEMMA RowFacts ==
  /\ Absent \in Row
  /\ Event \subseteq Row
  /\ \A a, b \in Row : Later(a, b) \in Row
<1>1. MaxTime \in Nat \ {0} /\ MaxChanges \in Nat
  BY ConstantsAssumption
<1> QED
  BY <1>1 DEF Absent, Row, Event, Later

LEMMA InitType == Init => TypeOK
<1> SUFFICES ASSUME Init PROVE TypeOK
  OBVIOUS
<1>1. 1 \in 1..MaxTime /\ 0 \in 0..MaxChanges /\ 0 \in 0..MaxRebuilds
  BY ConstantsAssumption
<1>2. rebuild \in [phase : {"idle", "started", "read", "listed"},
                    batch : Row, member : BOOLEAN]
  BY RowFacts DEF Init
<1> QED
  BY <1>1, <1>2, RowFacts DEF Init, TypeOK

LEMMA StepType ==
  ASSUME TypeOK, [Next]_ownerVars
  PROVE  TypeOK'
<1> USE RowFacts, ConstantsAssumption
<1>1. CASE Register
  <2>1. [mail |-> 0, at |-> now] \in Event
    BY DEF TypeOK, Event
  <2> QED
    BY <1>1, <2>1 DEF Register, Write, TypeOK, brokerVars, projectionVars,
         copyVars, rebuildVars
<1>2. CASE AskEmailChange
  <2>1. now' \in 1..MaxTime /\ asks' \in 0..MaxChanges
    BY <1>2 DEF AskEmailChange, TypeOK
  <2>2. [mail |-> asks + 1, at |-> now'] \in Event
    BY <1>2, <2>1 DEF AskEmailChange, TypeOK, Event
  <2> QED
    BY <1>2, <2>1, <2>2 DEF AskEmailChange, TypeOK, brokerVars, projectionVars,
         copyVars, rebuildVars
<1>3. ASSUME NEW row \in asked, ChangeEmail(row)
      PROVE  TypeOK'
  <2>1. row \in Event /\ row.at \in Int /\ user.at \in Int
    BY DEF TypeOK, Event, Row
  <2> QED
    BY <1>3, <2>1 DEF ChangeEmail, Write, Stamped, TypeOK, brokerVars,
         projectionVars, copyVars, rebuildVars
<1>9. ASSUME NEW t \in 1..MaxTime, ResetPassword(t)
      PROVE  TypeOK'
  <2>1. t \in 0..MaxTime /\ user.at \in Int
    BY DEF TypeOK, Row
  <2>2. user' \in Row
    BY <1>9, <2>1 DEF ResetPassword, TypeOK, Row
  <2>3. now' \in 1..MaxTime /\ skewed' \in BOOLEAN
    BY <1>9, <2>1 DEF ResetPassword, Stamped, TypeOK
  <2> QED
    BY <1>9, <2>2, <2>3 DEF ResetPassword, TypeOK, brokerVars,
         projectionVars, copyVars, rebuildVars
<1>4. ASSUME NEW e \in Event, Quiet(e)
      PROVE  TypeOK'
  BY <1>4 DEF Quiet, Publish, Take, LookUpPending, Fail, TypeOK,
       accountVars, projectionVars, copyVars, rebuildVars
<1>5. ASSUME NEW e \in Event, Apply(e)
      PROVE  TypeOK'
  <2>1. /\ taken' \subseteq Event /\ queue' \subseteq Event
        /\ looked' \subseteq Event /\ processed' \subseteq Event
    BY <1>5 DEF Apply, TypeOK
  <2>2. owner' \in Row /\ pending' \in Row /\ active' \in BOOLEAN
    <3>1. CASE UNCHANGED copyVars
      BY <3>1 DEF copyVars, TypeOK
    <3>2. CASE ApplyAccountRegistered(e)
      BY <3>2 DEF ApplyAccountRegistered, Upsert, DropAppliedPending, TypeOK
    <3>3. CASE ApplyAccountEmailChanged(e)
      <4> DEFINE change == Later(e, pending)
      <4>1. change \in Row /\ Later(change, owner) \in Row
        BY DEF TypeOK
      <4>2. owner' \in Row
        BY <3>3, <4>1 DEF ApplyAccountEmailChanged, Upsert, TypeOK
      <4>3. pending' \in Row
        BY <3>3, <4>1 DEF ApplyAccountEmailChanged, DropAppliedPending
      <4>4. active' \in BOOLEAN
        BY <3>3 DEF ApplyAccountEmailChanged, Upsert, TypeOK
      <4> QED
        BY <4>2, <4>3, <4>4
    <3> QED
      BY <1>5, <3>1, <3>2, <3>3 DEF Apply
  <2>3. UNCHANGED <<now, accountVars, tombstone, overtaken, rebuildVars>>
    BY <1>5 DEF Apply
  <2>4. stranded' \in BOOLEAN
    BY <1>5 DEF Apply, copyVars, TypeOK
  <2> QED
    BY <2>1, <2>2, <2>3, <2>4 DEF TypeOK, accountVars, rebuildVars
<1>6. CASE Rebuild
  <2> USE DEF accountVars, brokerVars, projectionVars, copyVars
  <2>1. CASE StartRebuild
    BY <2>1 DEF StartRebuild, TypeOK
  <2>2. CASE ReadUsers
    BY <2>2 DEF ReadUsers, TypeOK
  <2>3. CASE ApplyRebuildBatch
    BY <2>3 DEF ApplyRebuildBatch, TypeOK
  <2>4. CASE CompleteRebuild
    BY <2>4 DEF CompleteRebuild, TypeOK
  <2>5. CASE AbandonRebuild
    BY <2>5 DEF AbandonRebuild, TypeOK
  <2> QED
    BY <1>6, <2>1, <2>2, <2>3, <2>4, <2>5 DEF Rebuild
<1>7. CASE Deletion
  BY <1>7 DEF Deletion, EraseAccountData, PurgeQueue, DeleteUser, TypeOK,
       accountVars, brokerVars, projectionVars, copyVars, rebuildVars
<1>8. CASE UNCHANGED ownerVars
  BY <1>8 DEF TypeOK, ownerVars, accountVars, brokerVars, projectionVars,
       copyVars, rebuildVars
<1> QED
  BY <1>1, <1>2, <1>3, <1>4, <1>5, <1>6, <1>7, <1>8, <1>9
     DEF Next, Account, Delivery, Quiet

\* Every variable keeps its type.
THEOREM TypeCorrect == Spec => []TypeOK
<1>1. Init => TypeOK
  BY InitType
<1>2. TypeOK /\ [Next]_ownerVars => TypeOK'
  BY StepType
<1> QED
  BY <1>1, <1>2, PTL DEF Spec

-----------------------------------------------------------------------------
(* What one application of an event does *)

LEMMA LaterFacts ==
  ASSUME NEW a, NEW b, a.at \in Int, b.at \in Int
  PROVE  /\ Later(a, b) \in {a, b} /\ Later(a, b).at \in Int
         /\ a.at <= Later(a, b).at /\ b.at <= Later(a, b).at
BY DEF Later

LEMMA UpsertEffect ==
  ASSUME NEW row, row.at \in Int, owner.at \in Int, active \in BOOLEAN,
         Upsert(row)
  PROVE  /\ owner' = owner \/ (owner' = row /\ active')
         /\ owner'.at \in Int /\ owner.at <= owner'.at /\ row.at <= owner'.at
         /\ active => active'
<1>1. owner' = Later(row, owner) /\ active' = (active \/ row.at > owner.at)
  BY DEF Upsert
<1>2. CASE row.at > owner.at
  <2>1. owner' = row
    BY <1>1, <1>2 DEF Later
  <2>2. active'
    BY <1>1, <1>2, Zenon
  <2> QED
    BY <1>2, <2>1, <2>2
<1>3. CASE ~(row.at > owner.at)
  <2>1. owner' = owner
    BY <1>1, <1>3 DEF Later
  <2> QED
    BY <1>1, <1>3, <2>1
<1> QED
  BY <1>2, <1>3

LEMMA ApplyEffect ==
  ASSUME TypeOK, NEW e \in Event, Apply(e)
  PROVE  /\ owner' = owner \/ (owner' \in {e, pending} /\ active')
         /\ owner.at <= owner'.at
         /\ pending' \in {pending, e, Absent}
         /\ pending.at <= owner'.at \/ pending.at <= pending'.at
         /\ \/ e \in processed /\ UNCHANGED copyVars
            \/ e.at <= owner'.at \/ e.at <= pending'.at
         /\ e.mail = 0 => \/ e \in processed /\ UNCHANGED copyVars
                          \/ /\ Present(owner')
                             /\ Present(pending') => stranded'
         /\ Present(owner) /\ (Present(pending) => stranded)
              => (Present(pending') => stranded')
         /\ active => active'
<1>1. /\ e.at \in Int /\ e.at > 0 /\ owner.at \in Int /\ owner.at >= 0
      /\ pending.at \in Int /\ pending.at >= 0 /\ active \in BOOLEAN
  BY ConstantsAssumption DEF TypeOK, Event, Row
<1>2. CASE e \in processed \ looked /\ UNCHANGED copyVars
  BY <1>1, <1>2 DEF copyVars
<1> DEFINE Strands ==
      stranded' = (Present(pending') /\ (stranded \/ e \in looked))
<1>3. CASE e.mail = 0 /\ ApplyAccountRegistered(e) /\ Strands
  <2> DEFINE row == IF e \in looked THEN e ELSE Later(pending, e)
  <2>1. /\ row \in {pending, e} /\ row.at \in Int
        /\ e \notin looked => pending.at <= row.at
        /\ e.at <= row.at
    BY <1>1, LaterFacts
  <2>2. Upsert(row)
    BY <1>3 DEF ApplyAccountRegistered
  <2> HIDE DEF row
  <2>3. /\ owner' = owner \/ (owner' = row /\ active')
        /\ owner'.at \in Int /\ owner.at <= owner'.at /\ row.at <= owner'.at
        /\ active => active'
    BY <1>1, <2>1, <2>2, UpsertEffect
  <2>4. Present(owner') /\ e.at <= owner'.at
    BY <1>1, <2>1, <2>3
  <2>5. pending' = IF pending.at <= owner'.at THEN Absent ELSE pending
    BY <1>3, <2>4 DEF ApplyAccountRegistered, DropAppliedPending
  <2>6. Present(pending') => e \in looked
    BY <1>1, <2>1, <2>3, <2>5 DEF Absent
  <2>7. Present(pending') => stranded'
    BY <1>3, <2>6
  <2> QED
    BY <1>1, <2>1, <2>3, <2>4, <2>5, <2>7
<1>4. CASE e.mail # 0 /\ ApplyAccountEmailChanged(e) /\ Strands
  <2> DEFINE change == Later(e, pending)
  <2>1. /\ change \in {pending, e} /\ change.at \in Int
        /\ pending.at <= change.at /\ e.at <= change.at
    BY <1>1, LaterFacts
  <2>2. DropAppliedPending(change)
    BY <1>4 DEF ApplyAccountEmailChanged
  <2>3. CASE Present(owner)
    <3>1. Upsert(change)
      BY <1>4, <2>3 DEF ApplyAccountEmailChanged
    <3> HIDE DEF change
    <3>2. /\ owner' = owner \/ (owner' = change /\ active')
          /\ owner'.at \in Int /\ owner.at <= owner'.at
          /\ change.at <= owner'.at
          /\ active => active'
      BY <1>1, <2>1, <3>1, UpsertEffect
    <3>3. Present(owner') /\ pending.at <= owner'.at /\ e.at <= owner'.at
      BY <1>1, <2>1, <3>2
    <3>4. pending' = Absent
      BY <2>2, <3>2, <3>3, <1>1, <2>3 DEF DropAppliedPending
    <3>5. ~Present(pending')
      BY <3>4 DEF Absent
    <3> QED
      BY <1>4, <2>1, <3>2, <3>3, <3>4, <3>5
  <2>4. CASE ~Present(owner)
    <3>1. UNCHANGED <<owner, active>>
      BY <1>4, <2>4 DEF ApplyAccountEmailChanged
    <3> HIDE DEF change
    <3>2. pending' = change
      BY <2>2, <2>4, <3>1 DEF DropAppliedPending
    <3> QED
      BY <1>1, <1>4, <2>1, <2>4, <3>1, <3>2
  <2> QED
    BY <2>3, <2>4
<1> QED
  BY <1>2, <1>3, <1>4 DEF Apply

-----------
(* The erasure *)

\* Nothing that could write the copy again has survived the erasure.
NothingUnderWay ==
  tombstone /\ ~overtaken =>
    /\ owner = Absent /\ pending = Absent
    /\ taken = {} /\ rebuild.phase # "read"

LEMMA StepNothingUnderWay ==
  ASSUME TypeOK, NothingUnderWay, [Next]_ownerVars
  PROVE  NothingUnderWay'
<1> USE DEF NothingUnderWay
<1>1. CASE Account
  BY <1>1 DEF Account, Register, AskEmailChange, ChangeEmail, ResetPassword,
       brokerVars, projectionVars, copyVars, rebuildVars
<1>2. ASSUME NEW e \in Event, Quiet(e)
      PROVE  NothingUnderWay'
  BY <1>2 DEF Quiet, Publish, Take, LookUpPending, Fail, projectionVars,
       copyVars, rebuildVars
<1>3. ASSUME NEW e \in Event, Apply(e)
      PROVE  NothingUnderWay'
  BY <1>3 DEF Apply, rebuildVars
<1>4. CASE Rebuild
  <2> USE DEF accountVars, brokerVars, projectionVars, copyVars
  <2>1. CASE StartRebuild
    BY <2>1 DEF StartRebuild
  <2>2. CASE ReadUsers
    <3>1. rebuild'.phase = "read" => Present(user)
      BY <2>2 DEF ReadUsers, TypeOK
    <3>2. overtaken' = (overtaken \/ (tombstone /\ Present(user)))
      BY <2>2 DEF ReadUsers
    <3>3. UNCHANGED <<tombstone, owner, pending, taken>>
      BY <2>2 DEF ReadUsers
    <3> QED
      BY <3>1, <3>2, <3>3, Zenon
  <2>3. CASE ApplyRebuildBatch
    BY <2>3 DEF ApplyRebuildBatch
  <2>4. CASE CompleteRebuild
    BY <2>4 DEF CompleteRebuild, TypeOK
  <2>5. CASE AbandonRebuild
    BY <2>5 DEF AbandonRebuild, TypeOK
  <2> QED
    BY <1>4, <2>1, <2>2, <2>3, <2>4, <2>5 DEF Rebuild
<1>5. CASE EraseAccountData
  <2>1. owner' = Absent /\ pending' = Absent /\ taken' = taken
    BY <1>5 DEF EraseAccountData, brokerVars
  <2>2. rebuild'.phase = rebuild.phase
    BY <1>5 DEF EraseAccountData, TypeOK
  <2>3. overtaken' = (overtaken \/ taken # {} \/ rebuild.phase = "read")
    BY <1>5 DEF EraseAccountData
  <2> QED
    BY <2>1, <2>2, <2>3
<1>6. CASE PurgeQueue \/ DeleteUser
  BY <1>6 DEF PurgeQueue, DeleteUser, brokerVars, projectionVars, copyVars,
       rebuildVars
<1>7. CASE UNCHANGED ownerVars
  BY <1>7 DEF ownerVars, brokerVars, projectionVars, copyVars, rebuildVars
<1> QED
  BY <1>1, <1>2, <1>3, <1>4, <1>5, <1>6, <1>7
     DEF Next, Delivery, Quiet, Deletion

\* After the erasure neither the owner nor a pending change returns, unless a
\* delivery or a rebuild was past its last look at the tombstone or at the
\* account (applyAccountRegistered, applyAccountEmailChanged, eraseAccountData).
THEOREM ErasedForGood == Spec => []ErasedStaysErased
<1>1. Init => TypeOK /\ NothingUnderWay
  BY InitType DEF Init, NothingUnderWay
<1>2. TypeOK /\ NothingUnderWay /\ [Next]_ownerVars
        => (TypeOK /\ NothingUnderWay)'
  BY StepType, StepNothingUnderWay
<1>3. NothingUnderWay => ErasedStaysErased
  BY DEF NothingUnderWay, ErasedStaysErased, Absent
<1> QED
  BY <1>1, <1>2, <1>3, PTL DEF Spec

-----------------------------------------------------------------------------
(* Stamps *)

\* Messages on their way to the projection, and those it has recorded.
Sent == outbox \cup queue \cup taken \cup processed

\* Every row of the account there is, here or there, but for the changes that
\* wait for their lock.
Copies == {Absent, user, owner, pending, rebuild.batch} \cup Sent

StampsNameRows ==
  ~skewed => \A c, d \in Copies : c.at = d.at => c = d

UserIsLatest ==
  Present(user) /\ ~skewed => \A c \in Copies : c.at <= user.at

NothingBefore ==
  ~Present(user) /\ ~tombstone => \A c \in Copies : c = Absent

StampsInv == TypeOK /\ StampsNameRows /\ UserIsLatest /\ NothingBefore

LEMMA CopiesAreRows == TypeOK => Copies \subseteq Row
BY RowFacts DEF TypeOK, Copies, Sent

\* Only Account Service makes a new row.
LEMMA StepCopies ==
  ASSUME TypeOK, [Next]_ownerVars
  PROVE  \/ /\ Copies' \subseteq Copies
            /\ user' = user \/ (user' = Absent /\ tombstone')
            /\ skewed' = skewed
            /\ tombstone => tombstone'
         \/ /\ Copies' \subseteq Copies \cup {user'} /\ Present(user')
            /\ tombstone' = tombstone
            /\ \/ /\ Present(user)
                  /\ skewed' = (skewed \/ user'.at <= user.at)
                  /\ user' \in Sent' \/ user'.mail = user.mail
               \/ /\ ~Present(user) /\ ~tombstone /\ skewed' = skewed
                  /\ user' \in Sent' /\ user'.mail = 0
<1> USE DEF Copies, Sent
<1> USE DEF accountVars, brokerVars, projectionVars, copyVars, rebuildVars
<1>1. CASE Register
  <2>1. Present(user')
    BY <1>1, ConstantsAssumption DEF Register, Write, TypeOK
  <2> QED
    BY <1>1, <2>1 DEF Register, Write
<1>2. CASE AskEmailChange
  BY <1>2 DEF AskEmailChange
<1>3. ASSUME NEW row \in asked, ChangeEmail(row)
      PROVE  \/ /\ Copies' \subseteq Copies
                /\ user' = user /\ skewed' = skewed /\ tombstone' = tombstone
             \/ /\ Copies' \subseteq Copies \cup {user'} /\ Present(user')
                /\ tombstone' = tombstone
                /\ Present(user) /\ skewed' = (skewed \/ user'.at <= user.at)
                /\ user' \in Sent'
  <2>1. CASE Present(user) /\ Write(row)
    <3>1. Present(row)
      BY ConstantsAssumption DEF TypeOK, Event
    <3>2. skewed' = (skewed \/ row.at <= user.at)
      BY <1>3, <2>1 DEF ChangeEmail, Stamped
    <3> QED
      BY <1>3, <2>1, <3>1, <3>2 DEF ChangeEmail, Write
  <2>2. CASE UNCHANGED <<user, outbox, skewed>>
    BY <1>3, <2>2 DEF ChangeEmail
  <2> QED
    BY <1>3, <2>1, <2>2 DEF ChangeEmail
<1>4. ASSUME NEW e \in Event, Quiet(e)
      PROVE  /\ Copies' \subseteq Copies
             /\ UNCHANGED <<user, skewed, tombstone>>
  BY <1>4 DEF Quiet, Publish, Take, LookUpPending, Fail
<1>9. ASSUME NEW t \in 1..MaxTime, ResetPassword(t)
      PROVE  /\ Copies' \subseteq Copies \cup {user'} /\ Present(user')
             /\ tombstone' = tombstone
             /\ Present(user) /\ skewed' = (skewed \/ user'.at <= user.at)
             /\ user'.mail = user.mail
  <2>1. user'.at = t /\ t > 0 /\ user'.mail = user.mail
    BY <1>9, ConstantsAssumption DEF ResetPassword, TypeOK, Row
  <2>2. skewed' = (skewed \/ t <= user.at)
    BY <1>9 DEF ResetPassword, Stamped
  <2> QED
    BY <1>9, <2>1, <2>2 DEF ResetPassword
<1>5. ASSUME NEW e \in Event, Apply(e)
      PROVE  /\ Copies' \subseteq Copies
             /\ UNCHANGED <<user, skewed, tombstone>>
  <2>1. /\ e \in taken /\ taken' \subseteq taken
        /\ queue' \subseteq queue \cup {e}
        /\ processed' = processed \cup {e}
        /\ UNCHANGED <<user, outbox, skewed, tombstone, rebuild>>
    BY <1>5 DEF Apply
  <2>2. owner' \in {owner, e, pending} /\ pending' \in {pending, e, Absent}
    BY <1>5, ApplyEffect
  <2> QED
    BY <2>1, <2>2
<1>6. CASE Rebuild
  <2> SUFFICES /\ Copies' \subseteq Copies
               /\ UNCHANGED <<user, skewed, tombstone>>
    BY DEF Copies
  <2>1. CASE StartRebuild
    BY <2>1 DEF StartRebuild
  <2>2. CASE ReadUsers
    BY <2>2 DEF ReadUsers, TypeOK
  <2>3. CASE ApplyRebuildBatch
    BY <2>3 DEF ApplyRebuildBatch, TypeOK
  <2>4. CASE CompleteRebuild
    BY <2>4 DEF CompleteRebuild, TypeOK
  <2>5. CASE AbandonRebuild
    BY <2>5 DEF AbandonRebuild, TypeOK
  <2> QED
    BY <1>6, <2>1, <2>2, <2>3, <2>4, <2>5 DEF Rebuild
<1>7. CASE Deletion
  <2>1. CASE EraseAccountData
    BY <2>1 DEF EraseAccountData, TypeOK
  <2>2. CASE PurgeQueue
    BY <2>2 DEF PurgeQueue
  <2>3. CASE tombstone /\ DeleteUser
    BY <2>3 DEF DeleteUser
  <2> QED
    BY <1>7, <2>1, <2>2, <2>3 DEF Deletion
<1>8. CASE UNCHANGED ownerVars
  BY <1>8 DEF ownerVars
<1> QED
  BY <1>1, <1>2, <1>3, <1>4, <1>5, <1>6, <1>7, <1>8, <1>9
     DEF Next, Account, Delivery, Quiet

LEMMA InitStamps == Init => StampsInv
<1> SUFFICES ASSUME Init PROVE StampsInv
  OBVIOUS
<1>1. Copies = {Absent}
  BY DEF Init, Copies, Sent
<1>2. ~Present(user)
  BY DEF Init, Absent
<1> QED
  BY <1>1, <1>2, InitType
     DEF StampsInv, StampsNameRows, UserIsLatest, NothingBefore

\* A row that Account Service writes in order is later than every copy.
LEMMA NewRowIsLatest ==
  ASSUME StampsInv,
         \/ Present(user) /\ skewed' = (skewed \/ user'.at <= user.at)
         \/ ~Present(user) /\ ~tombstone /\ skewed' = skewed,
         user' \in Row, Present(user'), ~skewed'
  PROVE  ~skewed /\ \A c \in Copies : c.at < user'.at
<1>1. Copies \subseteq Row /\ user \in Row
  BY CopiesAreRows DEF StampsInv, TypeOK
<1>2. \A row \in Row : row.at \in Int
  BY ConstantsAssumption DEF Row
<1>3. CASE Present(user) /\ skewed' = (skewed \/ user'.at <= user.at)
  <2>1. ~skewed /\ ~(user'.at <= user.at)
    BY <1>3, Zenon
  <2> QED
    BY <1>1, <1>2, <1>3, <2>1 DEF StampsInv, UserIsLatest
<1>4. CASE ~Present(user) /\ ~tombstone /\ skewed' = skewed
  BY <1>4 DEF StampsInv, NothingBefore, Absent
<1> QED
  BY <1>3, <1>4

LEMMA StepStamps ==
  ASSUME StampsInv, [Next]_ownerVars
  PROVE  StampsInv'
<1> USE DEF StampsInv
<1>1. TypeOK'
  BY StepType
<1>2. /\ Copies \subseteq Row /\ Copies' \subseteq Row
      /\ user \in Copies /\ user' \in Copies' /\ Absent \in Copies
  <2>1. Copies' \subseteq Row
    BY <1>1, RowFacts DEF TypeOK, Copies, Sent
  <2> QED
    BY <2>1, CopiesAreRows DEF Copies
<1>3. \A row \in Row : row.at \in Int /\ row.at >= 0
  BY ConstantsAssumption DEF Row
<1>4. CASE /\ Copies' \subseteq Copies
           /\ user' = user \/ (user' = Absent /\ tombstone')
           /\ skewed' = skewed
           /\ tombstone => tombstone'
  <2>1. StampsNameRows'
    BY <1>4 DEF StampsNameRows
  <2>2. UserIsLatest'
    BY <1>4 DEF UserIsLatest, Absent
  <2>3. NothingBefore'
    BY <1>4 DEF NothingBefore
  <2> QED
    BY <1>1, <2>1, <2>2, <2>3
<1>5. CASE /\ Copies' \subseteq Copies \cup {user'} /\ Present(user')
           /\ tombstone' = tombstone
           /\ \/ Present(user) /\ skewed' = (skewed \/ user'.at <= user.at)
              \/ ~Present(user) /\ ~tombstone /\ skewed' = skewed
  <2>1. ~skewed' => ~skewed /\ \A c \in Copies : c.at < user'.at
    BY <1>2, <1>5, NewRowIsLatest
  <2>2. StampsNameRows'
    BY <1>2, <1>3, <1>5, <2>1 DEF StampsNameRows
  <2>3. UserIsLatest'
    BY <1>2, <1>3, <1>5, <2>1 DEF UserIsLatest
  <2>4. NothingBefore'
    BY <1>5 DEF NothingBefore
  <2> QED
    BY <1>1, <2>2, <2>3, <2>4
<1> QED
  BY <1>4, <1>5, StepCopies

\* No event and no batch brings back an address that a later one replaced,
\* until the row is erased.
THEOREM AddressesForward == Spec => AddressForward
<1>1. ASSUME StampsInv, [Next]_ownerVars
      PROVE  [Present(owner) /\ Present(owner') /\ owner' # owner
                => owner'.at > owner.at \/ skewed]_ownerVars
  <2>1. owner' \in Copies /\ owner.at <= owner'.at
          => owner' = owner \/ owner'.at > owner.at \/ skewed
    <3>1. owner \in Copies /\ Copies \subseteq Row
      BY <1>1, CopiesAreRows DEF StampsInv, Copies
    <3>2. \A row \in Row : row.at \in Int
      BY ConstantsAssumption DEF Row
    <3> QED
      BY <1>1, <3>1, <3>2 DEF StampsInv, StampsNameRows
  <2>2. \/ owner' = owner \/ ~Present(owner')
        \/ owner' \in Copies /\ owner.at <= owner'.at
    <3>1. ASSUME NEW e \in Event, Apply(e)
          PROVE  \/ owner' = owner
                 \/ owner' \in Copies /\ owner.at <= owner'.at
      <4>1. e \in Copies /\ pending \in Copies
        BY <3>1 DEF Apply, Copies, Sent
      <4> QED
        BY <1>1, <3>1, <4>1, ApplyEffect DEF StampsInv
    <3>2. ASSUME NEW e \in Event, Quiet(e)
          PROVE  owner' = owner
      BY <3>2 DEF Quiet, Publish, Take, LookUpPending, Fail, projectionVars,
           copyVars
    <3>3. CASE Rebuild
      BY <3>3 DEF Rebuild, StartRebuild, ReadUsers, ApplyRebuildBatch,
           CompleteRebuild, AbandonRebuild, projectionVars, copyVars, Copies
    <3>4. CASE Account
      BY <3>4 DEF Account, Register, AskEmailChange, ChangeEmail,
           ResetPassword, projectionVars, copyVars
    <3>5. CASE Deletion
      BY <3>5 DEF Deletion, EraseAccountData, PurgeQueue, DeleteUser,
           projectionVars, copyVars, Absent
    <3>6. CASE UNCHANGED ownerVars
      BY <3>6 DEF ownerVars, projectionVars, copyVars
    <3> QED
      BY <1>1, <3>1, <3>2, <3>3, <3>4, <3>5, <3>6 DEF Next, Delivery, Quiet
  <2> QED
    BY <2>1, <2>2
<1> QED
  BY <1>1, InitStamps, StepStamps, PTL DEF Spec, AddressForward

-----------------------------------------------------------------------------
(* Agreement *)

\* Nothing of a live account gets lost on the way: the registration was sent,
\* and so was an event with its address, which no later row contradicts.
RowSent ==
  Present(user) /\ ~tombstone =>
    /\ \E e \in Sent : e.mail = 0
    /\ ~skewed => \E e \in Sent :
                    \A c \in Copies : c.at >= e.at => c.mail = user.mail

\* The registration, once applied, leaves an owner, and a pending change only
\* if it had looked for one before.
RegistrationApplied ==
  ~tombstone /\ (\E e \in processed : e.mail = 0)
    => Present(owner) /\ (Present(pending) => stranded)

\* What was applied has reached the owner or waits for the registration.
NothingSkipped ==
  ~tombstone => \A e \in processed : e.at <= owner.at \/ e.at <= pending.at

BatchPresent == rebuild.phase = "read" => Present(rebuild.batch)

AgreementInv == RowSent /\ RegistrationApplied /\ NothingSkipped /\ BatchPresent

LEMMA StepSent ==
  ASSUME TypeOK, [Next]_ownerVars, ~tombstone'
  PROVE  ~tombstone /\ Sent \subseteq Sent'
<1> USE DEF Sent
<1> USE DEF accountVars, brokerVars, projectionVars, copyVars, rebuildVars
<1>1. CASE Account
  BY <1>1 DEF Account, Register, AskEmailChange, ChangeEmail, ResetPassword,
       Write
<1>2. ASSUME NEW e \in Event, Quiet(e)
      PROVE  ~tombstone /\ Sent \subseteq Sent'
  BY <1>2 DEF Quiet, Publish, Take, LookUpPending, Fail
<1>3. ASSUME NEW e \in Event, Apply(e)
      PROVE  ~tombstone /\ Sent \subseteq Sent'
  <2>1. /\ taken' = taken \ {e} /\ queue \subseteq queue'
        /\ processed' = processed \cup {e}
        /\ UNCHANGED <<outbox, tombstone>>
    BY <1>3 DEF Apply
  <2> QED
    BY <2>1
<1>4. CASE Rebuild
  BY <1>4 DEF Rebuild, StartRebuild, ReadUsers, ApplyRebuildBatch,
       CompleteRebuild, AbandonRebuild
<1>5. CASE Deletion
  BY <1>5 DEF Deletion, EraseAccountData, PurgeQueue, DeleteUser
<1>6. CASE UNCHANGED ownerVars
  BY <1>6 DEF ownerVars
<1> QED
  BY <1>1, <1>2, <1>3, <1>4, <1>5, <1>6 DEF Next, Delivery, Quiet

LEMMA StepRowSent ==
  ASSUME StampsInv, RowSent, [Next]_ownerVars
  PROVE  RowSent'
<1> SUFFICES ASSUME Present(user'), ~tombstone'
             PROVE  /\ \E e \in Sent' : e.mail = 0
                    /\ ~skewed' => \E e \in Sent' : \A c \in Copies' :
                                     c.at >= e.at => c.mail = user'.mail
  BY DEF RowSent
<1>1. ~tombstone /\ Sent \subseteq Sent'
  BY StepSent DEF StampsInv
<1>2. user' \in Row /\ Copies \subseteq Row
  BY StepType, CopiesAreRows DEF StampsInv, TypeOK
<1>3. \A row \in Row : row.at \in Int
  BY ConstantsAssumption DEF Row
<1>4. CASE Copies' \subseteq Copies /\ user' = user /\ skewed' = skewed
  BY <1>1, <1>4 DEF RowSent
<1>5. CASE /\ Copies' \subseteq Copies \cup {user'}
           /\ Present(user) /\ skewed' = (skewed \/ user'.at <= user.at)
           /\ user' \in Sent' \/ user'.mail = user.mail
  <2>1. ~skewed' => ~skewed /\ \A c \in Copies : c.at < user'.at
    BY <1>2, <1>5, NewRowIsLatest
  <2>2. CASE user' \in Sent'
    BY <1>1, <1>2, <1>3, <1>5, <2>1, <2>2 DEF RowSent
  <2>3. CASE user'.mail = user.mail
    BY <1>1, <1>5, <2>1, <2>3 DEF RowSent
  <2> QED
    BY <1>5, <2>2, <2>3
<1>6. CASE /\ Copies' \subseteq Copies \cup {user'}
           /\ ~Present(user) /\ ~tombstone /\ skewed' = skewed
           /\ user' \in Sent' /\ user'.mail = 0
  <2>1. ~skewed' => \A c \in Copies : c.at < user'.at
    BY <1>2, <1>6, NewRowIsLatest
  <2> QED
    BY <1>2, <1>3, <1>6, <2>1
<1> QED
  BY <1>4, <1>5, <1>6, StepCopies DEF StampsInv, Absent

LEMMA StepAgreement ==
  ASSUME StampsInv, AgreementInv, [Next]_ownerVars
  PROVE  AgreementInv'
<1> DEFINE Rest == RegistrationApplied /\ NothingSkipped /\ BatchPresent
<1> SUFFICES Rest'
  BY StepRowSent DEF AgreementInv
<1>0. TypeOK /\ Rest
  BY DEF AgreementInv, StampsInv
<1> USE DEF RegistrationApplied, NothingSkipped, BatchPresent
<1> USE DEF accountVars, brokerVars, projectionVars, copyVars, rebuildVars
<1>1. CASE Register
  BY <1>0, <1>1 DEF Register, Write
<1>2. CASE AskEmailChange
  BY <1>0, <1>2 DEF AskEmailChange
<1>3. ASSUME NEW row \in asked, ChangeEmail(row)
      PROVE  Rest'
  BY <1>0, <1>3 DEF ChangeEmail, Write
<1>4. ASSUME NEW e \in Event, Quiet(e)
      PROVE  Rest'
  BY <1>0, <1>4 DEF Quiet, Publish, Take, LookUpPending, Fail
<1>9. ASSUME NEW t \in 1..MaxTime, ResetPassword(t)
      PROVE  Rest'
  BY <1>0, <1>9 DEF ResetPassword
<1>5. ASSUME NEW e \in Event, Apply(e)
      PROVE  Rest'
  <2>1. /\ e \in taken /\ taken' = taken \ {e}
        /\ queue \subseteq queue'
        /\ processed' = processed \cup {e}
        /\ UNCHANGED <<user, outbox, tombstone, rebuild>>
    BY <1>5 DEF Apply
  <2>2. /\ owner.at \in Int /\ owner.at >= 0 /\ owner'.at \in Int
        /\ pending.at \in Int /\ pending'.at \in Int
        /\ \A f \in processed' : f.at \in Int
    <3>1. TypeOK'
      BY StepType DEF StampsInv
    <3> QED
      BY <1>0, <3>1, ConstantsAssumption DEF TypeOK, Row, Event
  <2>3. RegistrationApplied'
    BY <1>0, <1>5, <2>1, <2>2, ApplyEffect
  <2>4. NothingSkipped'
    BY <1>0, <1>5, <2>1, <2>2, ApplyEffect DEF copyVars
  <2>5. BatchPresent'
    BY <1>0, <2>1
  <2> QED
    BY <2>3, <2>4, <2>5
<1>6. CASE Rebuild
  <2> SUFFICES /\ UNCHANGED <<user, outbox, queue, taken, processed, tombstone,
                              pending, stranded>>
               /\ BatchPresent'
               /\ Present(owner) => Present(owner')
               /\ owner.at <= owner'.at /\ owner'.at \in Int
    BY <1>0, ConstantsAssumption DEF TypeOK, Row, Event
  <2>0. /\ owner.at \in Int /\ rebuild.batch.at \in Int
    BY <1>0, ConstantsAssumption DEF TypeOK, Row
  <2>1. CASE StartRebuild
    BY <1>0, <2>0, <2>1 DEF StartRebuild
  <2>2. CASE ReadUsers
    BY <1>0, <2>0, <2>2 DEF ReadUsers, TypeOK
  <2>3. CASE ApplyRebuildBatch
    BY <1>0, <2>0, <2>3 DEF ApplyRebuildBatch, TypeOK
  <2>4. CASE CompleteRebuild
    BY <1>0, <2>0, <2>4 DEF CompleteRebuild, TypeOK
  <2>5. CASE AbandonRebuild
    BY <1>0, <2>0, <2>5 DEF AbandonRebuild, TypeOK
  <2> QED
    BY <1>6, <2>1, <2>2, <2>3, <2>4, <2>5 DEF Rebuild
<1>7. CASE Deletion
  <2>1. CASE EraseAccountData
    BY <1>0, <2>1 DEF EraseAccountData, TypeOK
  <2>2. CASE tombstone /\ PurgeQueue
    BY <1>0, <2>2 DEF PurgeQueue
  <2>3. CASE tombstone /\ DeleteUser
    BY <1>0, <2>3 DEF DeleteUser
  <2> QED
    BY <1>7, <2>1, <2>2, <2>3 DEF Deletion
<1>8. CASE UNCHANGED ownerVars
  BY <1>0, <1>8 DEF ownerVars
<1> QED
  BY <1>1, <1>2, <1>3, <1>4, <1>5, <1>6, <1>7, <1>8, <1>9
     DEF Next, Account, Delivery, Quiet

\* Once every event of the account has been handled, Todo Service has the
\* address Account Service has, in whatever order, and however often, the
\* registration, the changes and the rebuild's batches came, or a registration
\* that had looked for it before it was written has left it in the pending
\* change; unless a change or a reset committed with a stamp not later than
\* the row's.
THEOREM ProjectionsAgree == Spec => []ProjectionAgrees
<1>1. Init => StampsInv /\ AgreementInv
  BY InitStamps DEF Init, AgreementInv, RowSent, RegistrationApplied,
       NothingSkipped, BatchPresent, Sent, Absent
<1>2. StampsInv /\ AgreementInv /\ [Next]_ownerVars
        => (StampsInv /\ AgreementInv)'
  BY StepStamps, StepAgreement DEF StampsInv
<1>3. StampsInv /\ AgreementInv => ProjectionAgrees
  <2> SUFFICES ASSUME StampsInv, AgreementInv, Present(user), ~tombstone,
                      ~skewed, outbox \cup queue \cup taken = {}
               PROVE  /\ Present(owner)
                      /\ \/ owner.mail = user.mail
                         \/ stranded /\ pending.mail = user.mail
    BY DEF ProjectionAgrees
  <2>1. \E e \in processed : e.mail = 0
    BY DEF AgreementInv, RowSent, Sent
  <2>2. Present(owner) /\ (Present(pending) => stranded)
    BY <2>1 DEF AgreementInv, RegistrationApplied
  <2>3. PICK e \in processed :
               \A c \in Copies : c.at >= e.at => c.mail = user.mail
    BY DEF AgreementInv, RowSent, Sent
  <2>4. owner.at >= e.at \/ (Present(pending) /\ pending.at >= e.at)
    BY <2>3, ConstantsAssumption
       DEF AgreementInv, NothingSkipped, StampsInv, TypeOK, Row, Event
  <2>5. owner \in Copies /\ pending \in Copies
    BY DEF Copies
  <2> QED
    BY <2>2, <2>3, <2>4, <2>5
<1> QED
  BY <1>1, <1>2, <1>3, PTL DEF Spec

-----------------------------------------------------------------------------
(* Deactivation *)

\* A rebuild that has listed the users without finding the account.
ListedWithout ==
  ~tombstone /\ rebuild.phase = "listed" /\ ~rebuild.member => missed

\* An owner later than the batch that was read was written since.
LaterThanBatch ==
  rebuild.phase = "read" /\ ~tombstone /\ ~skewed
    /\ owner.at > rebuild.batch.at => active

ActivityInv == InactiveForCause /\ ListedWithout /\ LaterThanBatch

LEMMA StepActivity ==
  ASSUME StampsInv, ActivityInv, [Next]_ownerVars
  PROVE  ActivityInv'
<1> USE DEF ActivityInv, InactiveForCause, ListedWithout, LaterThanBatch
<1> USE DEF accountVars, brokerVars, projectionVars, copyVars, rebuildVars
<1>0. /\ skewed \in BOOLEAN /\ skewed' \in BOOLEAN
      /\ tombstone \in BOOLEAN /\ tombstone' \in BOOLEAN
      /\ active \in BOOLEAN /\ active' \in BOOLEAN
      /\ missed \in BOOLEAN /\ missed' \in BOOLEAN
      /\ rebuild.member \in BOOLEAN /\ rebuild'.member \in BOOLEAN
  BY StepType DEF StampsInv, TypeOK
<1>1. CASE Register
  <2>1. owner = Absent
    BY <1>1 DEF Register, StampsInv, NothingBefore, Copies
  <2> QED
    BY <1>1, <2>1 DEF Register, Absent
<1>2. CASE AskEmailChange
  BY <1>2 DEF AskEmailChange
<1>3. ASSUME NEW row \in asked, ChangeEmail(row)
      PROVE  ActivityInv'
  <2>1. skewed => skewed'
    BY <1>3, Zenon DEF ChangeEmail, Stamped
  <2>2. Present(user') => Present(user)
    BY <1>3 DEF ChangeEmail
  <2>3. UNCHANGED <<owner, active, tombstone, rebuild, missed>>
    BY <1>3 DEF ChangeEmail
  <2> QED
    BY <1>0, <2>1, <2>2, <2>3
<1>4. ASSUME NEW e \in Event, Quiet(e)
      PROVE  ActivityInv'
  BY <1>4 DEF Quiet, Publish, Take, LookUpPending, Fail
<1>9. ASSUME NEW t \in 1..MaxTime, ResetPassword(t)
      PROVE  ActivityInv'
  <2>1. skewed => skewed'
    BY <1>9, Zenon DEF ResetPassword, Stamped
  <2>2. Present(user)
    BY <1>9 DEF ResetPassword
  <2>3. UNCHANGED <<owner, active, tombstone, rebuild, missed>>
    BY <1>9 DEF ResetPassword
  <2> QED
    BY <1>0, <2>1, <2>2, <2>3
<1>5. ASSUME NEW e \in Event, Apply(e)
      PROVE  ActivityInv'
  <2>1. UNCHANGED <<user, skewed, tombstone, rebuildVars>>
    BY <1>5 DEF Apply
  <2>2. owner' = owner \/ active'
    BY <1>5, ApplyEffect DEF StampsInv
  <2>3. active => active'
    BY <1>5, ApplyEffect DEF StampsInv
  <2> QED
    BY <2>1, <2>2, <2>3
<1>6. CASE Rebuild
  <2>1. CASE StartRebuild
    BY <2>1 DEF StartRebuild
  <2>2. CASE ReadUsers
    <3>1. Present(user) /\ ~skewed => ~(owner.at > user.at)
      BY CopiesAreRows, ConstantsAssumption
         DEF StampsInv, UserIsLatest, Copies, TypeOK, Row
    <3>2. /\ rebuild'.phase = IF Present(user) THEN "read" ELSE "listed"
          /\ rebuild'.batch = user
          /\ missed' = (missed \/ ~Present(user))
          /\ UNCHANGED <<user, owner, active, tombstone, skewed>>
      BY <2>2 DEF ReadUsers, StampsInv, TypeOK
    <3>3. missed => missed'
      BY <3>2, Zenon
    <3>4. CASE Present(user)
      BY <3>1, <3>2, <3>3, <3>4
    <3>5. CASE ~Present(user)
      <4>1. missed'
        BY <3>2, <3>5, Zenon
      <4> QED
        BY <1>0, <3>2, <3>5, <4>1
    <3> QED
      BY <3>4, <3>5
  <2>3. CASE ApplyRebuildBatch
    <3>1. rebuild'.phase = "listed" /\ rebuild'.member
      BY <2>3 DEF ApplyRebuildBatch, StampsInv, TypeOK
    <3>2. ~tombstone /\ ~skewed => active'
      <4>1. owner.at \in Int /\ rebuild.batch.at \in Int
        BY ConstantsAssumption DEF StampsInv, TypeOK, Row
      <4> QED
        BY <2>3, <4>1 DEF ApplyRebuildBatch
    <3>3. UNCHANGED <<tombstone, skewed>>
      BY <2>3 DEF ApplyRebuildBatch
    <3> QED
      BY <1>0, <3>1, <3>2, <3>3
  <2>4. CASE CompleteRebuild
    <3>1. /\ rebuild.phase = "listed" /\ rebuild'.phase = "idle"
          /\ UNCHANGED <<user, owner, tombstone, skewed, missed>>
      BY <2>4 DEF CompleteRebuild, StampsInv, TypeOK
    <3>2. ~active' => ~active \/ ~rebuild.member
      BY <2>4, Zenon DEF CompleteRebuild
    <3> QED
      BY <1>0, <3>1, <3>2
  <2>5. CASE AbandonRebuild
    BY <1>0, <2>5 DEF AbandonRebuild, StampsInv, TypeOK
  <2> QED
    BY <1>6, <2>1, <2>2, <2>3, <2>4, <2>5 DEF Rebuild
<1>7. CASE Deletion
  <2>1. CASE EraseAccountData
    BY <1>0, <2>1 DEF EraseAccountData
  <2>2. CASE tombstone /\ PurgeQueue
    BY <2>2 DEF PurgeQueue
  <2>3. CASE tombstone /\ DeleteUser
    BY <2>3 DEF DeleteUser
  <2> QED
    BY <1>7, <2>1, <2>2, <2>3 DEF Deletion
<1>8. CASE UNCHANGED ownerVars
  BY <1>8 DEF ownerVars
<1> QED
  BY <1>1, <1>2, <1>3, <1>4, <1>5, <1>6, <1>7, <1>8, <1>9
     DEF Next, Account, Delivery, Quiet

\* An owner whose account exists is deactivated only if the account was not
\* there when the last rebuild listed the users.
THEOREM DeactivatedForCause == Spec => []InactiveForCause
<1>1. ASSUME Init PROVE ActivityInv
  <2>1. ~Present(user) /\ rebuild.phase = "idle"
    BY <1>1 DEF Init, Absent
  <2> QED
    BY <2>1 DEF ActivityInv, InactiveForCause, ListedWithout, LaterThanBatch
<1>2. StampsInv /\ ActivityInv /\ [Next]_ownerVars
        => (StampsInv /\ ActivityInv)'
  BY StepStamps, StepActivity
<1>3. ActivityInv => InactiveForCause
  BY DEF ActivityInv
<1> QED
  BY <1>1, <1>2, <1>3, InitStamps, PTL DEF Spec

-----------------------------------------------------------------------------
(* Steps of the projection and of the rest *)

TiesStep ==
  CreateWorkspace \/ JoinWorkspace \/ LeaveWorkspace \/ LeftWorkspaceEnds

LEMMA InitDeletionType == DeletionInit => DeletionTypeOK
<1> SUFFICES ASSUME DeletionInit PROVE DeletionTypeOK
  OBVIOUS
<1>1. TypeOK
  BY InitType DEF DeletionInit
<1>2. pc \in [Worker -> Position]
  BY DEF DeletionInit, Position
<1>3. /\ 0 \in 0..MaxMishaps /\ 0 \in 0..MaxOthers
  BY WorkersAssumption
<1> QED
  BY <1>1, <1>2, <1>3 DEF DeletionInit, DeletionTypeOK, Status, Step

\* What the deletion does to the variables of the projection is a step of the
\* projection; what is not listed leaves them alone.
LEMMA ProjectionStep ==
  ASSUME [DeletionNext]_vars
  PROVE  \/ OwnerStep /\ [Account \/ Delivery \/ Rebuild]_ownerVars
         \/ NewPassword /\ \E t \in 1..MaxTime : ResetPassword(t)
         \/ StrayLands /\ EraseAccountData
         \/ \E w \in Worker : /\ EraseTodoCopies(w) \/ EraseAnswerLost(w)
                              /\ EraseAccountData
         \/ \E w \in Worker : Purge(w) /\ PurgeQueue
         \/ \E w \in Worker : Complete(w) /\ DeleteUser
         \/ UNCHANGED ownerVars
<1>1. CASE OwnerStep
  BY <1>1 DEF OwnerStep, Account
<1>2. CASE \/ PublishNotices \/ TiesStep \/ RequestDeletion
           \/ BackoffElapses \/ LeaseExpires \/ LeaseOverrun
  BY <1>2 DEF PublishNotices, TiesStep, CreateWorkspace, JoinWorkspace,
       LeaveWorkspace, LeftWorkspaceEnds, RequestDeletion, BackoffElapses,
       LeaseExpires, LeaseOverrun
<1>3. CASE StrayLands \/ NewPassword
  BY <1>3 DEF StrayLands, NewPassword
<1>4. ASSUME NEW w \in Worker,
             \/ ClaimNext(w) \/ CallFails(w) \/ EraseTimesOut(w) \/ Stop(w)
             \/ PrepareWorkspaceDeletion(w)
             \/ Advance(w) \/ CheckEvents(w) \/ LockAccount(w) \/ Retry(w)
      PROVE  UNCHANGED ownerVars
  BY <1>4 DEF ClaimNext, CallFails, EraseTimesOut, Stop,
       PrepareWorkspaceDeletion, Advance, CheckEvents, LockAccount, Retry
<1>5. ASSUME NEW w \in Worker, EraseTodoCopies(w) \/ EraseAnswerLost(w)
      PROVE  EraseAccountData \/ UNCHANGED ownerVars
  BY <1>5 DEF EraseTodoCopies, EraseAnswerLost
<1>6. ASSUME NEW w \in Worker, Purge(w)
      PROVE  PurgeQueue
  BY <1>6 DEF Purge
<1>7. ASSUME NEW w \in Worker, Complete(w)
      PROVE  DeleteUser \/ UNCHANGED ownerVars
  BY <1>7 DEF Complete
<1>8. CASE UNCHANGED vars
  BY <1>8 DEF vars
<1> QED
  BY <1>1, <1>2, <1>3, <1>4, <1>5, <1>6, <1>7, <1>8
     DEF DeletionNext, RunStep, Fault, TiesStep

\* The actions that leave the variables of the request alone, and the others.
LEMMA StepRequestType ==
  ASSUME DeletionTypeOK, [DeletionNext]_vars
  PROVE  /\ status' \in Status /\ step' \in Step
         /\ lease' \in Worker \cup {NoWorker} /\ due' \in BOOLEAN
         /\ ties' \subseteq Tie /\ notices' \in BOOLEAN /\ stray' \in BOOLEAN
         /\ pc' \in [Worker -> Position]
         /\ mishaps' \in 0..MaxMishaps /\ others' \in 0..MaxOthers
<1> USE WorkersAssumption
<1> USE DEF DeletionTypeOK, rowVars, boundVars
<1>1. CASE OwnerStep \/ UNCHANGED vars
  BY <1>1 DEF OwnerStep, vars, requestVars
<1>2. CASE PublishNotices
  BY <1>2 DEF PublishNotices
<1>3. CASE CreateWorkspace \/ JoinWorkspace
  <2>1. /\ others' = others + 1 /\ others < MaxOthers /\ notices' = TRUE
        /\ UNCHANGED <<rowVars, pc, stray, mishaps>>
    BY <1>3 DEF CreateWorkspace, JoinWorkspace, MoreOthers
  <2>2. ties' \subseteq Tie
    BY <1>3 DEF CreateWorkspace, JoinWorkspace, Tie
  <2> QED
    BY <2>1, <2>2
<1>11. CASE NewPassword
  <2>1. /\ others' = others + 1 /\ others < MaxOthers /\ notices' = TRUE
        /\ UNCHANGED <<status, step, lease, due, ties, pc, stray, mishaps>>
    BY <1>11 DEF NewPassword, MoreOthers
  <2> QED
    BY <2>1
<1>4. CASE LeaveWorkspace \/ LeftWorkspaceEnds
  <2>1. ties' \subseteq Tie
    BY <1>4 DEF LeaveWorkspace, LeftWorkspaceEnds, Tie
  <2> QED
    BY <1>4, <2>1 DEF LeaveWorkspace, LeftWorkspaceEnds
<1>5. CASE RequestDeletion
  BY <1>5 DEF RequestDeletion, Status
<1>6. CASE StrayLands
  BY <1>6 DEF StrayLands
<1>7. CASE BackoffElapses
  BY <1>7 DEF BackoffElapses
<1>8. CASE LeaseExpires
  BY <1>8 DEF LeaseExpires
<1>9. CASE LeaseOverrun
  BY <1>9 DEF LeaseOverrun
<1>10. ASSUME NEW w \in Worker, ClaimNext(w) \/ RunStep(w) \/ Fault(w)
       PROVE  /\ status' \in Status /\ step' \in Step
              /\ lease' \in Worker \cup {NoWorker} /\ due' \in BOOLEAN
              /\ ties' \subseteq Tie /\ notices' \in BOOLEAN
              /\ stray' \in BOOLEAN
              /\ pc' \in [Worker -> Position]
              /\ mishaps' \in 0..MaxMishaps /\ others' \in 0..MaxOthers
  <2> USE DEF Goto
  <2>1. CASE ClaimNext(w)
    <3>1. pc' \in [Worker -> Position]
      BY <2>1 DEF ClaimNext, Step, Position
    <3> QED
      BY <2>1, <3>1 DEF ClaimNext, Status
  <2>2. CASE CallFails(w)
    BY <2>2 DEF CallFails, Position
  <2>3. CASE EraseTimesOut(w)
    BY <2>3 DEF EraseTimesOut, Position
  <2>4. CASE Stop(w)
    BY <2>4 DEF Stop, Position
  <2>5. CASE EraseAnswerLost(w)
    BY <2>5 DEF EraseAnswerLost, Position
  <2>6. CASE EraseTodoCopies(w)
    BY <2>6 DEF EraseTodoCopies, Position
  <2>7. CASE PrepareWorkspaceDeletion(w)
    <3>1. pc' \in [Worker -> Position]
      BY <2>7 DEF PrepareWorkspaceDeletion, Position
    <3> QED
      BY <2>7, <3>1 DEF PrepareWorkspaceDeletion, Step
  <2>9. CASE Advance(w)
    BY <2>9 DEF Advance, Step, Position
  <2>10. CASE CheckEvents(w)
    BY <2>10 DEF CheckEvents, Position
  <2>11. CASE Purge(w)
    BY <2>11 DEF Purge, Position
  <2>12. CASE Complete(w)
    <3>1. pc' \in [Worker -> Position]
      BY <2>12 DEF Complete, Position
    <3> QED
      BY <2>12, <3>1 DEF Complete, Status, Step
  <2>14. CASE LockAccount(w)
    <3>1. pc' \in [Worker -> Position]
      BY <2>14 DEF LockAccount, Position
    <3> QED
      BY <2>14, <3>1 DEF LockAccount, Step
  <2>13. CASE Retry(w)
    BY <2>13 DEF Retry, Status, Position
  <2> QED
    BY <1>10, <2>1, <2>2, <2>3, <2>4, <2>5, <2>6, <2>7, <2>9, <2>10,
       <2>11, <2>12, <2>13, <2>14 DEF RunStep, Fault
<1> QED
  BY <1>1, <1>2, <1>3, <1>4, <1>5, <1>6, <1>7, <1>8, <1>9, <1>10, <1>11
     DEF DeletionNext

-----------------------------------------------------------------------------
(* The deletion keeps what the projection relies on *)

\* Who works on the request: a worker, or a request of theirs under way, has
\* seen it.
RequestSeen ==
  /\ \A w \in Worker : pc[w] # "idle" => status # "none"
  /\ stray => status # "none"

\* Nobody gets past the erasure without it.
ErasedBefore ==
  /\ step = "account-cleanup" => tombstone
  /\ \A w \in Worker :
       pc[w] \in {"advance", "check", "purge", "complete", "delete"}
         => tombstone

\* The locks of complete() keep out other workers and changes of the address.
AccountHeld ==
  \A w \in Worker : pc[w] = "delete" =>
    /\ status # "completed" /\ outbox = {}
    /\ \A v \in Worker : pc[v] = "delete" => v = w

NothingLeft ==
  status = "completed" =>
    /\ step = "account-cleanup"
    /\ ~Present(user) /\ ties = {} /\ outbox = {}

DeletionInv ==
  /\ DeletionTypeOK /\ RequestSeen /\ ErasedBefore /\ AccountHeld
  /\ DeletedOnlyWhenCompleted /\ NothingLeft

LEMMA StepIsProjectionStep ==
  ASSUME DeletionInv, [DeletionNext]_vars
  PROVE  [Next]_ownerVars
<1> USE DEF DeletionInv
<1>1. status # "none" => Present(user) \/ tombstone
  BY DEF DeletionTypeOK, Status, DeletedOnlyWhenCompleted, NothingLeft,
     ErasedBefore
<1>2. CASE StrayLands /\ EraseAccountData
  BY <1>1, <1>2 DEF StrayLands, RequestSeen, Next, Deletion
<1>3. ASSUME NEW w \in Worker, EraseTodoCopies(w) \/ EraseAnswerLost(w),
             EraseAccountData
      PROVE  Next
  BY <1>1, <1>3 DEF EraseTodoCopies, EraseAnswerLost, RequestSeen, Next,
       Deletion
<1>4. ASSUME NEW w \in Worker, Purge(w), PurgeQueue
      PROVE  Next
  BY <1>4 DEF Purge, ErasedBefore, Next, Deletion
<1>5. ASSUME NEW w \in Worker, Complete(w), DeleteUser
      PROVE  [Next]_ownerVars
  <2>1. tombstone
    BY <1>5 DEF Complete, ErasedBefore
  <2>2. outbox = {} \/ UNCHANGED ownerVars
    BY <1>5 DEF Complete, AccountHeld
  <2> QED
    BY <1>5, <2>1, <2>2 DEF Next, Deletion
<1> QED
  BY <1>2, <1>3, <1>4, <1>5, ProjectionStep DEF Next, Account

\* While the request exists, the projection's own steps neither register nor
\* delete the account, and send nothing for an account that is gone.
LEMMA OwnerStepEffect ==
  ASSUME TypeOK, OwnerStep, status # "none"
  PROVE  /\ UNCHANGED requestVars
         /\ tombstone' = tombstone
         /\ Present(user') <=> Present(user)
         /\ ~Present(user) \/ Completing => outbox' \subseteq outbox
<1>1. UNCHANGED requestVars
  BY DEF OwnerStep
<1> USE DEF accountVars, projectionVars, copyVars
<1>2. ASSUME NEW row \in asked, ChangeEmail(row), ~Completing
      PROVE  /\ tombstone' = tombstone
             /\ Present(user') <=> Present(user)
             /\ ~Present(user) => outbox' \subseteq outbox
  <2>1. row.at > 0
    BY ConstantsAssumption DEF TypeOK, Event
  <2>2. tombstone' = tombstone
    BY <1>2 DEF ChangeEmail
  <2>3. CASE Present(user) /\ Write(row)
    BY <2>1, <2>2, <2>3 DEF Write
  <2>4. CASE UNCHANGED <<user, outbox, skewed>>
    BY <2>2, <2>4
  <2> QED
    BY <1>2, <2>3, <2>4 DEF ChangeEmail
<1>3. CASE Delivery
  <2> SUFFICES UNCHANGED <<user, tombstone>> /\ outbox' \subseteq outbox
    BY <1>1
  <2>1. ASSUME NEW e \in Event, Quiet(e)
        PROVE  UNCHANGED <<user, tombstone>> /\ outbox' \subseteq outbox
    BY <2>1 DEF Quiet, Publish, Take, LookUpPending, Fail
  <2>2. ASSUME NEW e \in Event, Apply(e)
        PROVE  UNCHANGED <<user, tombstone>> /\ outbox' \subseteq outbox
    BY <2>2 DEF Apply
  <2> QED
    BY <1>3, <2>1, <2>2 DEF Delivery, Quiet
<1>4. CASE Rebuild
  <2> SUFFICES UNCHANGED <<user, tombstone, outbox>>
    BY <1>1
  <2> QED
    BY <1>4 DEF Rebuild, StartRebuild, ReadUsers, ApplyRebuildBatch,
         CompleteRebuild, AbandonRebuild
<1> QED
  BY <1>1, <1>2, <1>3, <1>4 DEF OwnerStep

LEMMA StepDeletion ==
  ASSUME DeletionInv, [DeletionNext]_vars
  PROVE  DeletionInv'
<1> USE DEF DeletionInv
<1>1. DeletionTypeOK'
  <2>1. TypeOK'
    BY StepIsProjectionStep, StepType DEF DeletionTypeOK
  <2> QED
    BY <2>1, StepRequestType DEF DeletionTypeOK
<1> DEFINE Rest == /\ RequestSeen /\ ErasedBefore /\ AccountHeld
                   /\ DeletedOnlyWhenCompleted /\ NothingLeft
<1> SUFFICES Rest'
  BY <1>1
<1> USE DEF RequestSeen, ErasedBefore, AccountHeld, Completing,
            DeletedOnlyWhenCompleted, NothingLeft
<1> USE DEF rowVars, boundVars, accountVars, projectionVars, copyVars
<1>2. pc \in [Worker -> Position]
  BY DEF DeletionTypeOK
<1>3. CASE OwnerStep
  <2>1. CASE status = "none"
    <3>1. /\ UNCHANGED requestVars
      BY <1>3 DEF OwnerStep
    <3>2. tombstone' = tombstone
      BY <1>3 DEF OwnerStep, Register, AskEmailChange, ChangeEmail, Delivery,
           Publish, Take, LookUpPending, Apply, Fail, Rebuild, StartRebuild,
           ReadUsers, ApplyRebuildBatch, CompleteRebuild, AbandonRebuild
    <3> QED
      BY <2>1, <3>1, <3>2 DEF requestVars
  <2>2. CASE status # "none"
    BY <1>3, <2>2, OwnerStepEffect DEF requestVars, DeletionTypeOK
  <2> QED
    BY <2>1, <2>2
<1>4. CASE PublishNotices
  BY <1>4 DEF PublishNotices, ownerVars
<1>5. CASE CreateWorkspace \/ JoinWorkspace
  BY <1>5 DEF CreateWorkspace, JoinWorkspace, ownerVars, DeletionTypeOK, Status
<1>12. CASE NewPassword
  <2>1. /\ UNCHANGED <<rowVars, ties, pc, stray>>
        /\ UNCHANGED <<outbox, tombstone>>
    BY <1>12 DEF NewPassword, ResetPassword
  <2>2. Present(user) /\ Present(user')
    BY <1>12, ConstantsAssumption
       DEF NewPassword, ResetPassword, DeletionTypeOK, TypeOK, Row
  <2> QED
    BY <2>1, <2>2 DEF DeletionTypeOK, Status
<1>6. CASE LeaveWorkspace \/ LeftWorkspaceEnds
  BY <1>6 DEF LeaveWorkspace, LeftWorkspaceEnds, ownerVars
<1>7. CASE RequestDeletion
  BY <1>7 DEF RequestDeletion, ownerVars
<1>8. CASE StrayLands
  BY <1>8 DEF StrayLands, EraseAccountData
<1>9. CASE BackoffElapses \/ LeaseExpires \/ LeaseOverrun
  BY <1>9 DEF BackoffElapses, LeaseExpires, LeaseOverrun, ownerVars
<1>10. CASE UNCHANGED vars
  BY <1>10 DEF vars, ownerVars, requestVars
<1>11. ASSUME NEW w \in Worker, ClaimNext(w) \/ RunStep(w) \/ Fault(w)
       PROVE  Rest'
  <2> USE DEF Goto
  <2>1. CASE ClaimNext(w)
    BY <1>2, <2>1 DEF ClaimNext, ownerVars, DeletionTypeOK, Step
  <2>2. CASE CallFails(w)
    BY <1>2, <2>2 DEF CallFails, ownerVars
  <2>3. CASE EraseTimesOut(w)
    BY <1>2, <2>3 DEF EraseTimesOut, ownerVars
  <2>4. CASE Stop(w)
    BY <1>2, <2>4 DEF Stop, ownerVars
  <2>5. CASE EraseAnswerLost(w)
    BY <1>2, <2>5 DEF EraseAnswerLost, EraseAccountData
  <2>6. CASE EraseTodoCopies(w)
    <3>1. CASE EraseAccountData /\ pc' = [pc EXCEPT ![w] = "advance"]
      BY <1>2, <2>6, <3>1 DEF EraseTodoCopies, EraseAccountData
    <3>2. CASE UNCHANGED ownerVars /\ pc' = [pc EXCEPT ![w] = "retry"]
      BY <1>2, <2>6, <3>2 DEF EraseTodoCopies, ownerVars
    <3> QED
      BY <2>6, <3>1, <3>2 DEF EraseTodoCopies
  <2>7. CASE PrepareWorkspaceDeletion(w)
    BY <1>2, <2>7 DEF PrepareWorkspaceDeletion, ownerVars
  <2>9. CASE Advance(w)
    BY <1>2, <2>9 DEF Advance, ownerVars
  <2>10. CASE CheckEvents(w)
    BY <1>2, <2>10 DEF CheckEvents, ownerVars, DeletionTypeOK
  <2>11. CASE Purge(w)
    BY <1>2, <2>11 DEF Purge, PurgeQueue
  <2>12. CASE Complete(w)
    <3>1. pc[w] = "delete" /\ (pc' = [pc EXCEPT ![w] = "idle"]
                                 \/ pc' = [pc EXCEPT ![w] = "retry"])
      BY <2>12 DEF Complete
    <3>2. \A v \in Worker : /\ pc'[v] # "delete"
                            /\ pc'[v] \in {pc[v], "idle", "retry"}
      BY <1>2, <3>1
    <3>3. UNCHANGED <<tombstone, outbox, stray, ties>> /\ status # "none"
      BY <2>12, <3>1 DEF Complete, DeleteUser, ownerVars
    <3>4. \/ UNCHANGED <<status, step, user>>
          \/ /\ ties = {} /\ user' = Absent /\ status' = "completed"
             /\ step' = "account-cleanup"
      BY <2>12 DEF Complete, DeleteUser, ownerVars
    <3> QED
      BY <3>1, <3>2, <3>3, <3>4 DEF Absent
  <2>14. CASE LockAccount(w)
    BY <1>2, <2>14 DEF LockAccount, ownerVars, UnpublishedIdentityEvents
  <2>13. CASE Retry(w)
    BY <1>2, <2>13 DEF Retry, ownerVars
  <2> QED
    BY <1>11, <2>1, <2>2, <2>3, <2>4, <2>5, <2>6, <2>7, <2>9, <2>10,
       <2>11, <2>12, <2>13, <2>14 DEF RunStep, Fault
<1> QED
  BY <1>3, <1>4, <1>5, <1>6, <1>7, <1>8, <1>9, <1>10, <1>11, <1>12
     DEF DeletionNext

LEMMA DeletionInvariant == DeletionSpec => []DeletionInv
<1>1. ASSUME DeletionInit PROVE DeletionInv
  <2>1. ~Present(user) /\ \A w \in Worker : pc[w] = "idle"
    BY <1>1 DEF DeletionInit, Init, Absent
  <2> QED
    BY <1>1, <2>1, InitDeletionType
       DEF DeletionInit, DeletionInv, RequestSeen, ErasedBefore,
           AccountHeld, DeletedOnlyWhenCompleted, NothingLeft
<1>2. DeletionInv /\ [DeletionNext]_vars => DeletionInv'
  BY StepDeletion
<1> QED
  BY <1>1, <1>2, PTL DEF DeletionSpec

\* Every variable keeps its type.
THEOREM DeletionTypeCorrect == DeletionSpec => []DeletionTypeOK
<1>1. DeletionInv => DeletionTypeOK
  BY DEF DeletionInv
<1> QED
  BY <1>1, DeletionInvariant, PTL

\* A request that is completed has left nothing to delete, whichever workers
\* carried the steps out and whichever answers they missed.
THEOREM CompletionErases == DeletionSpec => []CompletedMeansErased
<1>1. DeletionInv => CompletedMeansErased
  BY DEF DeletionInv, NothingLeft, ErasedBefore, CompletedMeansErased
<1> QED
  BY <1>1, DeletionInvariant, PTL

\* The account is deleted only with its request.
THEOREM DeletionIsLast == DeletionSpec => []DeletedOnlyWhenCompleted
<1>1. DeletionInv => DeletedOnlyWhenCompleted
  BY DEF DeletionInv
<1> QED
  BY <1>1, DeletionInvariant, PTL

\* The deletion is a refinement of the projection's specification: it erases
\* accounts that exist or were erased before, and deletes them only after the
\* erasure and after all their events were published.
THEOREM DeletionKeepsProjection == DeletionSpec => KeepsProjection
<1>1. DeletionInit => Init
  BY DEF DeletionInit
<1>2. DeletionInv /\ [DeletionNext]_vars => [Next]_ownerVars
  BY StepIsProjectionStep
<1> QED
  BY <1>1, <1>2, DeletionInvariant, PTL DEF DeletionSpec, KeepsProjection, Spec

\* What holds of the projection holds under the deletion.
THEOREM DeletionErasesForGood == DeletionSpec => []ErasedStaysErased
BY DeletionKeepsProjection, ErasedForGood, PTL DEF KeepsProjection

\* No worker, with or without its lease, reopens a completed request or takes
\* a step back.
THEOREM CompletionIsFinal == DeletionSpec => NeverReopened
<1>0. /\ Rank("prepare-workspaces") = 0 /\ Rank("todo-cleanup") = 1
      /\ Rank("account-cleanup") = 2
  BY DEF Rank
<1>1. ASSUME DeletionTypeOK, [DeletionNext]_vars
      PROVE  /\ status = "completed" => status' = "completed"
             /\ Rank(step') >= Rank(step)
  <2> USE DEF rowVars
  <2>1. step \in Step
    BY <1>1 DEF DeletionTypeOK
  <2>2. Rank(step) \in 0..2
    BY <1>0, <2>1 DEF Step
  <2>3. CASE UNCHANGED <<status, step>>
    BY <2>2, <2>3
  <2>4. CASE RequestDeletion
    BY <2>2, <2>4 DEF RequestDeletion
  <2>5. ASSUME NEW w \in Worker,
               \/ ClaimNext(w) \/ PrepareWorkspaceDeletion(w) \/ Advance(w)
               \/ LockAccount(w) \/ Complete(w) \/ Retry(w)
        PROVE  /\ status = "completed" => status' = "completed"
               /\ Rank(step') >= Rank(step)
    <3>1. CASE ClaimNext(w)
      BY <1>0, <2>2, <3>1 DEF ClaimNext
    <3>2. CASE PrepareWorkspaceDeletion(w)
      BY <1>0, <2>2, <3>2 DEF PrepareWorkspaceDeletion
    <3>3. CASE Advance(w)
      BY <1>0, <2>1, <2>2, <3>3 DEF Advance, Step
    <3>4. CASE Complete(w)
      <4>1. \/ UNCHANGED <<status, step>>
            \/ status' = "completed" /\ step' = "account-cleanup"
        BY <3>4 DEF Complete
      <4> QED
        BY <1>0, <2>1, <2>2, <4>1 DEF Step
    <3>5. CASE Retry(w)
      BY <1>0, <2>2, <3>5 DEF Retry
    <3>6. CASE LockAccount(w)
      <4>1. status' = status /\ step' \in {step, "account-cleanup"}
        BY <3>6 DEF LockAccount
      <4> QED
        BY <1>0, <2>1, <2>2, <4>1 DEF Step
    <3> QED
      BY <2>5, <3>1, <3>2, <3>3, <3>4, <3>5, <3>6
  <2>6. ASSUME NEW w \in Worker,
               \/ CallFails(w) \/ EraseTimesOut(w) \/ Stop(w)
               \/ EraseAnswerLost(w) \/ EraseTodoCopies(w)
               \/ CheckEvents(w) \/ Purge(w)
        PROVE  UNCHANGED <<status, step>>
    BY <2>6 DEF CallFails, EraseTimesOut, Stop, EraseAnswerLost,
         EraseTodoCopies, CheckEvents, Purge
  <2>7. CASE \/ OwnerStep \/ NewPassword \/ PublishNotices
             \/ TiesStep \/ StrayLands
             \/ BackoffElapses \/ LeaseExpires \/ LeaseOverrun
             \/ UNCHANGED vars
    BY <2>3, <2>7 DEF OwnerStep, NewPassword, requestVars, PublishNotices,
         TiesStep, CreateWorkspace, JoinWorkspace, LeaveWorkspace,
         LeftWorkspaceEnds, StrayLands, BackoffElapses, LeaseExpires,
         LeaseOverrun, vars
  <2> QED
    BY <1>1, <2>3, <2>4, <2>5, <2>6, <2>7
       DEF DeletionNext, RunStep, Fault, TiesStep
<1>2. DeletionTypeOK /\ [DeletionNext]_vars
        => [/\ status = "completed" => status' = "completed"
            /\ Rank(step') >= Rank(step)]_vars
  BY <1>1
<1> QED
  BY <1>2, DeletionTypeCorrect, PTL DEF DeletionSpec, NeverReopened
=============================================================================
