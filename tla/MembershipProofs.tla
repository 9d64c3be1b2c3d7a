-------------------------- MODULE MembershipProofs --------------------------
(***************************************************************************)
(* Proofs about Membership, for any set of users, any clock and any number *)
(* of requests, departures, repeated deliveries, skews and expiries.       *)
(***************************************************************************)
EXTENDS Membership, TLAPS

(***************************************************************************)
(* Types.                                                                  *)
(***************************************************************************)

LEMMA RecordType ==
  ASSUME TypeOK, NEW changed \in SUBSET User, NEW at \in Nat,
         role' \in [User -> Role \cup {NoRole}], Record(changed, at)
  PROVE  /\ events' \subseteq Event
         /\ latest' \in [User -> Stamp]
         /\ skews' \in Nat
<1>1. \A u \in changed : [user |-> u, role |-> role'[u], at |-> at] \in Event
  BY DEF Event
<1>2. events' \subseteq Event
  BY <1>1 DEF Record, TypeOK
<1>3. latest' \in [User -> Stamp]
  BY DEF Record, TypeOK, Stamp
<1>4. skews' \in Nat
  BY DEF Record, TypeOK
<1> QED BY <1>2, <1>3, <1>4

LEMMA SecondType == ASSUME NEW t \in Nat PROVE Second(t) \in Nat
  BY MembershipAssumption DEF Second

\* A later moment is in no earlier second.
LEMMA SecondMonotone ==
  ASSUME NEW s \in Nat, NEW t \in Nat, s <= t
  PROVE  Second(s) <= Second(t)
  BY MembershipAssumption DEF Second

\* The type invariant: roles, requests, events, keys and marks keep their type.
THEOREM TypeCorrect == Spec => []TypeOK
<1> USE DEF account, projection, counters
<1>1. Init => TypeOK
  BY DEF Init, TypeOK, Stamp
<1>2. ASSUME TypeOK, [Next]_vars PROVE TypeOK'
  <2> USE <1>2
  <2>1. CASE Tick \/ UNCHANGED vars
    BY <2>1 DEF Tick, vars, TypeOK
  <2>2. CASE Receive
    <3>1. pending' \subseteq Request
      BY <2>2, MembershipAssumption DEF Receive, TypeOK, Request, Role
    <3> QED BY <2>2, <3>1 DEF Receive, TypeOK
  <2>3. ASSUME NEW q \in pending, Execute(q) PROVE TypeOK'
    <3>1. q.target \in User /\ q.role \in Role \cup {NoRole} /\ q.at \in Nat
      BY DEF TypeOK, Request
    <3>2. role' \in [User -> Role \cup {NoRole}]
      BY <2>3, <3>1 DEF Execute, TypeOK
    <3>3. CASE Authorised(q) /\ Applicable(q)
      <4>1. Record({q.target}, q.at)
        BY <2>3, <3>3 DEF Execute
      <4>2. /\ events' \subseteq Event
            /\ latest' \in [User -> Stamp]
            /\ skews' \in Nat
        BY <3>1, <3>2, <4>1, RecordType
      <4> QED BY <2>3, <3>2, <4>2 DEF Execute, TypeOK
    <3>4. CASE ~(Authorised(q) /\ Applicable(q))
      BY <2>3, <3>4 DEF Execute, TypeOK
    <3> QED BY <3>3, <3>4
  <2>4. ASSUME NEW e \in events, Deliver(e) PROVE TypeOK'
    <3>1. /\ e.user \in User /\ e.role \in Role \cup {NoRole} /\ e.at \in Nat
          /\ Second(e.at) \in Nat
      BY SecondType DEF TypeOK, Event
    <3>2. /\ shown' \in [User -> Role \cup {NoRole}]
          /\ version' \in [User -> Stamp]
          /\ revoked' \in [User -> Stamp]
          /\ barred' \in [User -> Stamp]
      BY <2>4, <3>1 DEF Deliver, Apply, TypeOK, Stamp
    <3> QED BY <2>4, <3>2 DEF Deliver, TypeOK
  <2>5. ASSUME NEW u \in User, CreateWorkspace(u) PROVE TypeOK'
    <3>1. role' \in [User -> Role \cup {NoRole}]
      BY <2>5 DEF CreateWorkspace, TypeOK, Role
    <3>2. /\ events' \subseteq Event
          /\ latest' \in [User -> Stamp]
          /\ skews' \in Nat
      BY <2>5, <3>1, RecordType DEF CreateWorkspace, TypeOK
    <3> QED BY <2>5, <3>1, <3>2 DEF CreateWorkspace, TypeOK
  <2>6. ASSUME NEW u \in User, Depart(u) PROVE TypeOK'
    <3>1. role' \in [User -> Role \cup {NoRole}]
      BY <2>6 DEF Depart, Succession, TypeOK, Role
    <3>2. /\ UNCHANGED <<now, pending, shown, version, revoked, barred,
                        requests, repeats, expiries>>
          /\ departures' = departures + 1
          /\ workspace' \in {"new", "live", "deleted"}
      BY <2>6 DEF Depart, TypeOK
    <3>3. ASSUME NEW changed \in SUBSET User, Record(changed, now)
          PROVE  TypeOK'
      <4>1. /\ events' \subseteq Event
            /\ latest' \in [User -> Stamp]
            /\ skews' \in Nat
        BY <3>1, <3>3, RecordType DEF TypeOK
      <4> QED BY <3>1, <3>2, <4>1 DEF TypeOK
    <3>4. CASE UNCHANGED <<events, latest, skews>>
      BY <3>1, <3>2, <3>4 DEF TypeOK
    <3>5. \/ UNCHANGED <<events, latest, skews>>
          \/ \E v \in User :
               Record(IF HasAnotherAdministrator(u) THEN {u} ELSE {u, v}, now)
      BY <2>6 DEF Depart
    <3>6. ASSUME NEW v \in User
          PROVE  (IF HasAnotherAdministrator(u) THEN {u} ELSE {u, v})
                    \in SUBSET User
      OBVIOUS
    <3> QED BY <3>3, <3>4, <3>5, <3>6
  <2>7. ASSUME NEW u \in User, ExpireRole(u) \/ ExpireMark(u) PROVE TypeOK'
    BY <2>7 DEF ExpireRole, ExpireMark, TypeOK, Stamp
  <2> QED BY <2>1, <2>2, <2>3, <2>4, <2>5, <2>6, <2>7 DEF Next
<1> QED BY <1>1, <1>2, PTL DEF Spec

-----------------------------------------------------------------------------
(***************************************************************************)
(* The last administrator.  AlwaysAdministered is inductive: every change  *)
(* is decided under the lock on the workspace, on the rows it changes.     *)
(***************************************************************************)

LEMMA ExecuteKeepsAdministrator ==
  ASSUME TypeOK, AlwaysAdministered, NEW q \in pending, Execute(q)
  PROVE  AlwaysAdministered'
<1>1. q.target \in User /\ q.role \in Role \cup {NoRole}
  BY DEF TypeOK, Request
<1>2. CASE UNCHANGED role
  BY <1>2 DEF Execute, AlwaysAdministered
<1>3. CASE Authorised(q) /\ Applicable(q)
  <2>1. role' = [role EXCEPT ![q.target] = q.role]
    BY <1>3 DEF Execute
  <2>2. CASE role[q.target] = "administrator" /\ q.role # "administrator"
    <3>1. PICK v \in User : v # q.target /\ role[v] = "administrator"
      BY <1>3, <2>2 DEF Applicable, HasAnotherAdministrator, NoRole
    <3>2. role'[v] = "administrator"
      BY <2>1, <3>1 DEF TypeOK
    <3> QED BY <3>2 DEF AlwaysAdministered
  <2>3. CASE q.role = "administrator"
    <3>1. role'[q.target] = "administrator"
      BY <1>1, <2>1, <2>3 DEF TypeOK
    <3> QED BY <1>1, <3>1 DEF AlwaysAdministered
  <2>4. CASE role[q.target] # "administrator"
    <3>1. PICK v \in User : role[v] = "administrator"
      BY <1>3 DEF AlwaysAdministered, Authorised
    <3>2. role'[v] = "administrator"
      BY <2>1, <2>4, <3>1 DEF TypeOK
    <3> QED BY <3>2 DEF AlwaysAdministered
  <2> QED BY <2>2, <2>3, <2>4
<1> QED BY <1>2, <1>3 DEF Execute

LEMMA DepartKeepsAdministrator ==
  ASSUME TypeOK, AlwaysAdministered, NEW u \in User, Depart(u)
  PROVE  AlwaysAdministered'
<1>1. CASE workspace' = "deleted"
  BY <1>1 DEF AlwaysAdministered
<1>2. ASSUME NEW v \in User, v # u,
             role' = [Succession(u, v) EXCEPT ![u] = NoRole]
      PROVE  AlwaysAdministered'
  <2>1. CASE HasAnotherAdministrator(u)
    <3>1. PICK w \in User : w # u /\ role[w] = "administrator"
      BY <2>1 DEF HasAnotherAdministrator
    <3>2. role'[w] = "administrator"
      BY <1>2, <2>1, <3>1 DEF Succession, TypeOK
    <3> QED BY <3>2 DEF AlwaysAdministered
  <2>2. CASE ~HasAnotherAdministrator(u)
    <3>1. role'[v] = "administrator"
      BY <1>2, <2>2 DEF Succession, TypeOK
    <3> QED BY <3>1 DEF AlwaysAdministered
  <2> QED BY <2>1, <2>2
<1> QED BY <1>1, <1>2 DEF Depart

\* No order of additions, demotions, removals and account deletions leaves
\* a workspace without an administrator.
THEOREM AlwaysAdministeredHolds == Spec => []AlwaysAdministered
<1> USE DEF account
<1>1. Init => AlwaysAdministered
  BY DEF Init, AlwaysAdministered
<1>2. ASSUME TypeOK, AlwaysAdministered, [Next]_vars PROVE AlwaysAdministered'
  <2> USE <1>2
  <2>1. CASE Tick \/ Receive \/ UNCHANGED vars
    BY <2>1 DEF Tick, Receive, vars, AlwaysAdministered
  <2>2. ASSUME NEW e \in events, Deliver(e) PROVE AlwaysAdministered'
    BY <2>2 DEF Deliver, AlwaysAdministered
  <2>3. ASSUME NEW u \in User, ExpireRole(u) \/ ExpireMark(u)
        PROVE  AlwaysAdministered'
    BY <2>3 DEF ExpireRole, ExpireMark, AlwaysAdministered
  <2>4. ASSUME NEW u \in User, CreateWorkspace(u) PROVE AlwaysAdministered'
    <3>1. role'[u] = "administrator"
      BY <2>4 DEF CreateWorkspace, TypeOK
    <3> QED BY <3>1 DEF AlwaysAdministered
  <2> QED
    BY <2>1, <2>2, <2>3, <2>4, ExecuteKeepsAdministrator,
       DepartKeepsAdministrator
    DEF Next
<1> QED BY <1>1, <1>2, TypeCorrect, PTL DEF Spec

-----------------------------------------------------------------------------
(***************************************************************************)
(* The projection lags behind the database and never runs ahead of it.     *)
(* LagInv is the strengthening of ProjectionAgrees: a projection at the    *)
(* version of the last commit shows the role of that commit, and one at an *)
(* earlier version still has the event of the last commit before it.       *)
(***************************************************************************)

LastChange(u) == [user |-> u, role |-> role[u], at |-> latest[u]]

LagInv ==
  skews = 0 /\ expiries = 0 =>
    /\ \A e \in events : e.at <= latest[e.user]
    /\ \A u \in User : version[u] <= latest[u]
    /\ workspace # "deleted" =>
         /\ \A e \in events : e.at = latest[e.user] => e.role = role[e.user]
         /\ \A u \in User : version[u] = latest[u] => shown[u] = role[u]
         /\ \A u \in User : version[u] < latest[u] => LastChange(u) \in events

LEMMA RecordLag ==
  ASSUME TypeOK, LagInv, NEW changed \in SUBSET User, NEW at \in Nat,
         Record(changed, at), UNCHANGED <<shown, version, expiries>>,
         workspace # "deleted", role' \in [User -> Role \cup {NoRole}],
         \A u \in User \ changed : role'[u] = role[u]
  PROVE  LagInv'
<1> SUFFICES ASSUME skews' = 0, expiries = 0 PROVE LagInv'
  BY DEF LagInv
<1>1. skews = 0 /\ \A u \in changed : latest[u] < at
  BY DEF Record, TypeOK
<1>2. \A u \in User : latest'[u] = IF u \in changed THEN at ELSE latest[u]
  BY DEF Record
<1>3. \A u \in User : latest[u] \in Int /\ version[u] \in Int
  BY DEF TypeOK, Stamp, Never
<1>4. \A e \in events : e.user \in User /\ e.at \in Nat /\ e.at <= latest[e.user]
  BY <1>1 DEF LagInv, TypeOK, Event
<1>5. events' = events \cup {[user |-> u, role |-> role'[u], at |-> at] :
                             u \in changed}
  BY DEF Record
<1>6. \A e \in events' : e.at <= latest'[e.user]
  BY <1>1, <1>2, <1>3, <1>4, <1>5
<1>7. \A u \in User : version'[u] <= latest'[u]
  BY <1>1, <1>2, <1>3 DEF LagInv
<1>8. \A e \in events' : e.at = latest'[e.user] => e.role = role'[e.user]
  <2>1. ASSUME NEW e \in events, e.at = latest'[e.user]
        PROVE  e.role = role'[e.user]
    <3>1. e.user \notin changed
      BY <1>1, <1>2, <1>3, <1>4, <2>1
    <3>2. e.at = latest[e.user]
      BY <1>2, <1>4, <2>1, <3>1
    <3> QED BY <1>1, <1>4, <3>1, <3>2 DEF LagInv
  <2> QED BY <1>5, <2>1
<1>9. ASSUME NEW u \in User, version'[u] = latest'[u]
      PROVE  shown'[u] = role'[u]
  <2>1. version[u] <= latest[u]
    BY <1>1 DEF LagInv
  <2>2. u \notin changed
    BY <1>1, <1>2, <1>3, <1>9, <2>1
  <2> QED BY <1>1, <1>2, <1>9, <2>2 DEF LagInv
<1>10. ASSUME NEW u \in User, version'[u] < latest'[u]
       PROVE  LastChange(u)' \in events'
  <2>1. CASE u \in changed
    BY <1>2, <1>5, <2>1 DEF LastChange
  <2>2. CASE u \notin changed
    BY <1>1, <1>2, <1>5, <1>10, <2>2 DEF LagInv, LastChange
  <2> QED BY <2>1, <2>2
<1> QED BY <1>6, <1>7, <1>8, <1>9, <1>10 DEF LagInv

LEMMA DeliverLag ==
  ASSUME TypeOK, LagInv, NEW e \in events, Deliver(e)
  PROVE  LagInv'
<1> SUFFICES ASSUME skews = 0, expiries = 0 PROVE LagInv'
  BY DEF Deliver, LagInv
<1> USE DEF account
<1>1. /\ UNCHANGED <<workspace, role, latest, skews, expiries>>
      /\ events \ {e} \subseteq events' /\ events' \subseteq events
  BY DEF Deliver
<1>2. e.user \in User /\ e.at \in Nat /\ e.at <= latest[e.user]
  BY DEF LagInv, TypeOK, Event
<1>3. \A u \in User : /\ latest[u] \in Int /\ version[u] \in Int
                      /\ version[u] <= latest[u]
  <2>1. \A u \in User : version[u] <= latest[u]
    BY DEF LagInv
  <2>2. ASSUME NEW u \in User PROVE latest[u] \in Int /\ version[u] \in Int
    BY DEF TypeOK, Stamp, Never
  <2> QED BY <2>1, <2>2
<1>4. ASSUME NEW u \in User, u # e.user
      PROVE  version'[u] = version[u] /\ shown'[u] = shown[u]
  BY <1>4 DEF Deliver, Apply, projection, TypeOK
<1>5. \/ /\ version[e.user] <= e.at
         /\ version'[e.user] = e.at /\ shown'[e.user] = e.role
      \/ /\ e.at < version[e.user]
         /\ version'[e.user] = version[e.user] /\ shown'[e.user] = shown[e.user]
  BY <1>2, <1>3 DEF Deliver, Current, Apply, projection, TypeOK
<1>6. \A u \in User : version'[u] <= latest'[u]
  BY <1>1, <1>2, <1>3, <1>4, <1>5
<1>7. ASSUME workspace # "deleted", NEW u \in User, version'[u] = latest'[u]
      PROVE  shown'[u] = role'[u]
  <2>1. CASE u # e.user
    BY <1>1, <1>4, <1>7, <2>1 DEF LagInv
  <2>2. CASE u = e.user
    BY <1>1, <1>2, <1>3, <1>5, <1>7, <2>2 DEF LagInv
  <2> QED BY <2>1, <2>2
<1>8. ASSUME workspace # "deleted", NEW u \in User, version'[u] < latest'[u]
      PROVE  LastChange(u)' \in events'
  <2>1. version[u] < latest[u] /\ e # LastChange(u)
    <3>1. CASE u # e.user
      BY <1>1, <1>4, <1>8, <3>1 DEF LastChange
    <3>2. CASE u = e.user
      BY <1>1, <1>2, <1>3, <1>5, <1>8, <3>2 DEF LastChange
    <3> QED BY <3>1, <3>2
  <2>2. LastChange(u) \in events
    BY <1>8, <2>1 DEF LagInv
  <2> QED BY <1>1, <2>1, <2>2 DEF LastChange
<1> QED BY <1>1, <1>6, <1>7, <1>8 DEF LagInv

LEMMA LagCorrect == Spec => []LagInv
<1> USE DEF account, projection, counters
<1>1. Init => LagInv
  BY DEF Init, LagInv, Never
<1>2. ASSUME TypeOK, LagInv, [Next]_vars PROVE LagInv'
  <2> USE <1>2
  <2>1. CASE Tick \/ Receive \/ UNCHANGED vars
    <3>1. UNCHANGED <<workspace, role, events, shown, version, latest, skews,
                      expiries>>
      BY <2>1 DEF Tick, Receive, vars
    <3> QED BY <3>1 DEF LagInv, LastChange
  <2>2. ASSUME NEW q \in pending, Execute(q) PROVE LagInv'
    <3>1. q.target \in User /\ q.role \in Role \cup {NoRole} /\ q.at \in Nat
      BY DEF TypeOK, Request
    <3>2. CASE Authorised(q) /\ Applicable(q)
      <4>1. /\ role' = [role EXCEPT ![q.target] = q.role]
            /\ Record({q.target}, q.at)
            /\ UNCHANGED <<shown, version, expiries>>
            /\ workspace # "deleted"
        BY <2>2, <3>2 DEF Execute, Authorised
      <4>2. /\ role' \in [User -> Role \cup {NoRole}]
            /\ \A u \in User \ {q.target} : role'[u] = role[u]
        BY <3>1, <4>1 DEF TypeOK
      <4> QED BY <3>1, <4>1, <4>2, RecordLag
    <3>3. CASE ~(Authorised(q) /\ Applicable(q))
      BY <2>2, <3>3 DEF Execute, LagInv, LastChange
    <3> QED BY <3>2, <3>3
  <2>3. ASSUME NEW u \in User, CreateWorkspace(u) PROVE LagInv'
    <3>1. /\ role' \in [User -> Role \cup {NoRole}]
          /\ \A v \in User \ {u} : role'[v] = role[v]
      BY <2>3 DEF CreateWorkspace, TypeOK, Role
    <3>2. /\ Record({u}, now) /\ now \in Nat /\ workspace # "deleted"
          /\ UNCHANGED <<shown, version, expiries>>
      BY <2>3 DEF CreateWorkspace, TypeOK
    <3> QED BY <3>1, <3>2, RecordLag
  <2>4. ASSUME NEW u \in User, Depart(u) PROVE LagInv'
    <3>1. CASE workspace' = "deleted" /\ UNCHANGED <<events, latest, skews>>
      BY <2>4, <3>1 DEF Depart, LagInv
    <3>2. ASSUME NEW v \in User,
                 role' = [Succession(u, v) EXCEPT ![u] = NoRole],
                 Record(IF HasAnotherAdministrator(u) THEN {u} ELSE {u, v},
                        now)
          PROVE  LagInv'
      <4> DEFINE changed == IF HasAnotherAdministrator(u) THEN {u} ELSE {u, v}
      <4>1. /\ role' \in [User -> Role \cup {NoRole}]
            /\ \A w \in User \ changed : role'[w] = role[w]
        BY <3>2 DEF Succession, TypeOK, Role
      <4>2. /\ changed \in SUBSET User /\ now \in Nat
            /\ workspace # "deleted"
            /\ UNCHANGED <<shown, version, expiries>>
        BY <2>4 DEF Depart, TypeOK
      <4>3. Record(changed, now)
        BY <3>2
      <4> HIDE DEF changed
      <4> QED BY <4>1, <4>2, <4>3, RecordLag
    <3> QED BY <2>4, <3>1, <3>2 DEF Depart
  <2>5. ASSUME NEW u \in User, ExpireRole(u) PROVE LagInv'
    BY <2>5 DEF ExpireRole, LagInv, TypeOK
  <2>6. ASSUME NEW u \in User, ExpireMark(u) PROVE LagInv'
    BY <2>6 DEF ExpireMark, LagInv, LastChange
  <2> QED
    BY <2>1, <2>2, <2>3, <2>4, <2>5, <2>6, DeliverLag DEF Next
<1> QED BY <1>1, <1>2, TypeCorrect, PTL DEF Spec

\* With every event applied, in any order and any number of times, the
\* projection shows what the database holds.
THEOREM ProjectionAgreesHolds == Spec => []ProjectionAgrees
<1>1. TypeOK /\ LagInv => ProjectionAgrees
  <2> SUFFICES ASSUME TypeOK, LagInv, skews = 0, expiries = 0, events = {},
                      workspace = "live", NEW u \in User
               PROVE  shown[u] = role[u]
    BY DEF ProjectionAgrees
  <2>1. version[u] <= latest[u] /\ version[u] \in Int /\ latest[u] \in Int
    BY DEF LagInv, TypeOK, Stamp, Never
  <2>2. version[u] = latest[u]
    BY <2>1 DEF LagInv
  <2> QED BY <2>2 DEF LagInv
<1> QED BY <1>1, TypeCorrect, LagCorrect, PTL

\* A projection that has heard of a user's removal keeps the user out, no
\* matter which of the user's events are still to come.
THEOREM RemovedStaysOutHolds == Spec => []RemovedStaysOut
<1>1. ASSUME TypeOK, LagInv PROVE RemovedStaysOut
  <2>1. SUFFICES ASSUME skews = 0, expiries = 0, workspace = "live",
                        NEW u \in User, role[u] = NoRole,
                        LastChange(u) \notin events
                 PROVE  shown[u] = NoRole
    BY DEF RemovedStaysOut, LastChange, Accepts, CanPerform
  <2>2. version[u] <= latest[u] /\ version[u] \in Int /\ latest[u] \in Int
    BY <1>1, <2>1 DEF LagInv, TypeOK, Stamp, Never
  <2>3. version[u] = latest[u]
    BY <1>1, <2>1, <2>2 DEF LagInv
  <2> QED BY <1>1, <2>1, <2>3 DEF LagInv
<1> QED BY <1>1, TypeCorrect, LagCorrect, PTL

-----------------------------------------------------------------------------
(***************************************************************************)
(* The revoked-before key outlives every token it is there to refuse, and  *)
(* no later script lowers it: an event that could is older than the        *)
(* version key, or finds the tokens dead.                                  *)
(***************************************************************************)

Barred(u) ==
  barred[u] # Never =>
    \/ Second(now) >= barred[u] + Ttl
    \/ /\ revoked[u] >= barred[u]
       /\ version[u] # Never /\ Second(version[u]) >= barred[u]

BarInv == \A u \in User : Barred(u)

LEMMA DeliverBar ==
  ASSUME TypeOK, BarInv, NEW e \in events, Deliver(e)
  PROVE  BarInv'
<1> USE DEF account, projection
<1>1. e.user \in User /\ e.at \in Nat /\ Second(e.at) \in Nat
  BY SecondType DEF TypeOK, Event
<1>2. CASE ~Current(e)
  BY <1>2 DEF Deliver, BarInv, Barred
<1>3. CASE Current(e)
  <2>1. ASSUME NEW u \in User, u # e.user PROVE Barred(u)'
    BY <1>3, <2>1 DEF Deliver, Apply, BarInv, Barred, TypeOK
  <2>2. /\ version'[e.user] = e.at /\ now' = now
        /\ revoked'[e.user] = IF e.role = NoRole THEN Second(e.at)
                                                ELSE revoked[e.user]
        /\ barred'[e.user] = IF e.role = NoRole /\ barred[e.user] < Second(e.at)
                             THEN Second(e.at) ELSE barred[e.user]
    BY <1>1, <1>3 DEF Deliver, Apply, TypeOK
  <2>3. /\ version[e.user] \in Stamp /\ barred[e.user] \in Stamp
        /\ revoked[e.user] \in Stamp /\ Second(now) \in Nat
    BY <1>1, SecondType DEF TypeOK
  <2>4. version[e.user] # Never =>
          /\ Second(version[e.user]) <= Second(e.at)
          /\ Second(version[e.user]) \in Nat
    BY <1>1, <1>3, <2>3, SecondMonotone, SecondType DEF Current, Stamp, Never
  <2>5. Barred(e.user) /\ e.at # Never /\ Ttl \in Nat
    BY <1>1, MembershipAssumption DEF BarInv, Never
  <2>6. Barred(e.user)'
    BY <1>1, <2>2, <2>3, <2>4, <2>5 DEF Barred, Stamp, Never
  <2> QED BY <2>1, <2>6 DEF BarInv
<1> QED BY <1>2, <1>3

LEMMA BarCorrect == Spec => []BarInv
<1> USE DEF account, projection, counters
<1>1. Init => BarInv
  BY DEF Init, BarInv, Barred
<1>2. ASSUME TypeOK, BarInv, [Next]_vars PROVE BarInv'
  <2> USE <1>2
  <2>1. CASE Tick
    <3>1. Second(now) <= Second(now') /\ Second(now) \in Nat /\ Second(now') \in Nat
      BY <2>1, SecondMonotone, SecondType DEF Tick, TypeOK
    <3> QED
      BY <2>1, <3>1, MembershipAssumption
      DEF Tick, BarInv, Barred, TypeOK, Stamp
  <2>2. CASE Receive \/ UNCHANGED vars
    BY <2>2 DEF Receive, vars, BarInv, Barred
  <2>3. ASSUME NEW q \in pending, Execute(q) PROVE BarInv'
    BY <2>3 DEF Execute, BarInv, Barred
  <2>4. ASSUME NEW u \in User, CreateWorkspace(u) \/ Depart(u) PROVE BarInv'
    BY <2>4 DEF CreateWorkspace, Depart, BarInv, Barred
  <2>5. ASSUME NEW u \in User, ExpireRole(u) PROVE BarInv'
    <3>1. ASSUME NEW v \in User PROVE Barred(v)'
      <4>1. CASE v # u
        BY <2>5, <4>1 DEF ExpireRole, BarInv, Barred, TypeOK
      <4>2. CASE v = u
        <5>1. /\ version[u] \in Nat /\ Second(version[u]) \in Nat
              /\ Second(now) \in Nat /\ Second(now) >= Second(version[u]) + Ttl
          BY <2>5, SecondType DEF ExpireRole, TypeOK, Stamp
        <5>2. barred[u] # Never => Second(now) >= barred[u] + Ttl
          BY <5>1, MembershipAssumption DEF BarInv, Barred, TypeOK, Stamp
        <5> QED BY <2>5, <4>2, <5>2 DEF ExpireRole, Barred
      <4> QED BY <4>1, <4>2
    <3> QED BY <3>1 DEF BarInv
  <2>6. ASSUME NEW u \in User, ExpireMark(u) PROVE BarInv'
    <3>1. ASSUME NEW v \in User PROVE Barred(v)'
      <4>1. CASE v # u
        BY <2>6, <4>1 DEF ExpireMark, BarInv, Barred, TypeOK
      <4>2. CASE v = u
        <5>1. barred[u] # Never => Second(now) >= barred[u] + Ttl
          BY <2>6, SecondType, MembershipAssumption
          DEF ExpireMark, BarInv, Barred, TypeOK, Stamp, Never
        <5> QED BY <2>6, <4>2, <5>1 DEF ExpireMark, Barred
      <4> QED BY <4>1, <4>2
    <3> QED BY <3>1 DEF BarInv
  <2> QED BY <2>1, <2>2, <2>3, <2>4, <2>5, <2>6, DeliverBar DEF Next
<1> QED BY <1>1, <1>2, TypeCorrect, PTL DEF Spec

\* Removal is final for the tokens a removed member holds, although roles
\* come back and all three keys expire.
THEOREM OldTokensStayOutHolds == Spec => []OldTokensStayOut
<1>1. TypeOK /\ BarInv => OldTokensStayOut
  <2> SUFFICES ASSUME TypeOK, BarInv, NEW u \in User, barred[u] # Never,
                      NEW iat \in 0..barred[u], NEW a \in Action,
                      iat + TokenLife > Second(now)
               PROVE  ~Accepts(u, iat, a)
    BY DEF OldTokensStayOut
  <2>1. /\ barred[u] \in Nat /\ revoked[u] \in Stamp /\ iat \in Nat
        /\ iat <= barred[u] /\ Second(now) \in Nat
    BY SecondType DEF TypeOK, Stamp
  <2>2. ~(Second(now) >= barred[u] + Ttl)
    BY <2>1, MembershipAssumption
  <2>3. revoked[u] >= barred[u]
    BY <2>2 DEF BarInv, Barred
  <2> QED BY <2>1, <2>3 DEF Accepts, Stamp, Never
<1> QED BY <1>1, TypeCorrect, BarCorrect, PTL
=============================================================================
