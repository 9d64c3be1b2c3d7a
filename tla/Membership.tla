----------------------------- MODULE Membership -----------------------------
(***************************************************************************)
(* One workspace: its rows in Account Service's "workspaces" and           *)
(* "workspace_members", the membership operations that lock it, the        *)
(* membership-changed events they write to the outbox, and one Redis       *)
(* projection of them as Gateway and Todo Service each keep it (the two    *)
(* copies of workspace-membership.cache.ts run the same script).           *)
(*                                                                         *)
(* An operation reads the clock in workspace.service.ts when its request   *)
(* arrives and takes the row lock later, in the repository; the            *)
(* transaction under the lock is one action.  The outbox, its publishers   *)
(* and the broker queue are one unordered channel that delivers at least   *)
(* once: claimPendingEvents returns a batch in no order, several           *)
(* publishers and failed publications overtake each other, and an event    *)
(* comes back until its handler has acknowledged it.                       *)
(*                                                                         *)
(* WORKSPACE_PROJECTION_FAIL_OPEN is false, as in a steady state.          *)
(***************************************************************************)
EXTENDS Integers

CONSTANTS
  User,
  Millis,          \* milliseconds, the unit of "now", to a second
  Ttl,             \* WORKSPACE_MEMBERSHIP_CACHE_TTL_SECONDS
  TokenLife,       \* seconds for which an access token is accepted
  Grants,          \* bound: the roles that are asked for
  MaxTime,         \* bound: the clock
  MaxRequests,     \* bound: membership operations requested
  MaxDepartures,   \* bound: accounts deleted
  MaxRepeats,      \* bound: events delivered without being acknowledged
  MaxSkews,        \* bound: commits whose time stamp is not a later one
  Ties,            \* bound: may such a stamp equal the one before ?
  MaxExpiries      \* bound: role keys that reach their TTL

\* env.ts: by default a token is accepted for 900 s and the verifier's
\* tolerance of 5 s, and a key is kept for 3600 s.
ASSUME MembershipAssumption ==
  /\ Millis \in Nat \ {0}
  /\ Ttl \in Nat /\ TokenLife \in Nat /\ TokenLife <= Ttl
  /\ Grants \subseteq {"administrator", "editor", "viewer"}
  /\ Ties \in BOOLEAN
  /\ {MaxTime, MaxRequests, MaxDepartures, MaxRepeats, MaxSkews, MaxExpiries}
       \subseteq Nat

Role   == {"administrator", "editor", "viewer"}
Action == {"read", "write", "manage"}
NoRole == "none"                \* no row, no key, or "role: null"
Never  == -1                    \* a key that does not exist

\* The permission table, its rows that agree in every column taken together.
Permissions ==
  [r \in Role |-> CASE r = "administrator" -> {"manage", "write", "read"}
                    [] r = "editor"        -> {"write", "read"}
                    [] r = "viewer"        -> {"read"}]

CanPerform(r, a) == r # NoRole /\ a \in Permissions[r]

VARIABLES
  workspace,    \* the row: "new" before the INSERT, "live", "deleted"
  role,         \* workspace_members: the role of each user, or NoRole
  now,          \* the clock
  pending,      \* requests that have their time stamp and wait for the lock
  events,       \* membership-changed events not yet acknowledged
  shown,        \* the projection's role key of each user
  version,      \* its version key: changedAt of the last event applied
  revoked,      \* its revoked-before key, in seconds
  latest,       \* (history) changedAt of each user's last committed change
  barred,       \* (history) the latest removal it was told of, in seconds
  requests, departures, repeats, skews, expiries  \* against the bounds

account    == <<workspace, role>>
projection == <<shown, version, revoked>>
counters   == <<requests, departures, repeats, skews, expiries>>
vars == <<account, now, pending, events, projection, latest, barred, counters>>

Stamp   == Nat \cup {Never}
Request == [op : {"add", "change"}, actor : User, target : User, role : Role,
            at : Nat]
           \cup [op : {"remove"}, actor : User, target : User,
                 role : {NoRole}, at : Nat]
Event   == [user : User, role : Role \cup {NoRole}, at : Nat]

TypeOK ==
  /\ workspace \in {"new", "live", "deleted"}
  /\ role \in [User -> Role \cup {NoRole}]
  /\ now \in Nat
  /\ pending \subseteq Request
  /\ events \subseteq Event
  /\ shown \in [User -> Role \cup {NoRole}]
  /\ version \in [User -> Stamp]
  /\ revoked \in [User -> Stamp]
  /\ latest \in [User -> Stamp]
  /\ barred \in [User -> Stamp]
  /\ requests \in Nat /\ departures \in Nat /\ repeats \in Nat
  /\ skews \in Nat /\ expiries \in Nat

Init ==
  /\ workspace = "new"
  /\ role = [u \in User |-> NoRole]
  /\ now = 0
  /\ pending = {}
  /\ events = {}
  /\ shown = [u \in User |-> NoRole]
  /\ version = [u \in User |-> Never]
  /\ revoked = [u \in User |-> Never]
  /\ latest = [u \in User |-> Never]
  /\ barred = [u \in User |-> Never]
  /\ requests = 0 /\ departures = 0 /\ repeats = 0
  /\ skews = 0 /\ expiries = 0

Second(t) == t \div Millis

Tick ==
  /\ now < MaxTime
  /\ now' = now + 1
  /\ UNCHANGED <<account, pending, events, projection, latest, barred,
                 counters>>

-----------------------------------------------------------------------------
(***************************************************************************)
(* The transactions.                                                       *)
(***************************************************************************)

\* Mutant: a removal inserts no event.
RecordGrants(changed, at) ==
  /\ events' = events \cup {[user |-> u, role |-> role'[u], at |-> at] :
                            u \in {v \in changed : role'[v] # NoRole}}
  /\ latest' = [u \in User |-> IF u \in changed THEN at ELSE latest[u]]
  /\ UNCHANGED skews

\* The transaction that changes the roles of some users inserts one event
\* for each of them, with the new role.
Record(changed, at) ==
  /\ events' = events \cup {[user |-> u, role |-> role'[u], at |-> at] :
                            u \in changed}
  /\ latest' = [u \in User |-> IF u \in changed THEN at ELSE latest[u]]
  /\ IF \A u \in changed : latest[u] < at
     THEN UNCHANGED skews
     ELSE /\ skews < MaxSkews
          /\ Ties \/ at \notin {latest[u] : u \in changed}
          /\ skews' = skews + 1

CreateWorkspace(u) ==
  /\ workspace = "new"
  /\ workspace' = "live"
  /\ role' = [role EXCEPT ![u] = "administrator"]
  /\ Record({u}, now)
  /\ UNCHANGED <<now, pending, projection, barred, requests, departures,
                 repeats, expiries>>

\* A request for the workspace arrives: changedAt = new Date().
Receive ==
  /\ workspace # "new"
  /\ requests < MaxRequests
  /\ requests' = requests + 1
  /\ \E q \in [op : {"add", "change"}, actor : User, target : User,
               role : Grants, at : {now}]
              \cup [op : {"remove"}, actor : User, target : User,
                    role : {NoRole}, at : {now}] :
        /\ q.actor # q.target
        /\ pending' = pending \cup {q}
  /\ UNCHANGED <<account, now, events, projection, latest, barred,
                 departures, repeats, skews, expiries>>

\* Mutant: the test is made with the target among the administrators.
SomeAdministrator(u) == \E v \in User : role[v] = "administrator"

HasAnotherAdministrator(u) ==
  \E v \in User : v # u /\ role[v] = "administrator"

\* The actor's authority, read under the lock.
Authorised(q) ==
  /\ workspace = "live"
  /\ CanPerform(role[q.actor], "manage")

\* What addMember, changeMemberRole and removeMember require of the target.
Applicable(q) ==
  IF q.op = "add"
  THEN role[q.target] = NoRole
  ELSE /\ role[q.target] # NoRole
       /\ role[q.target] = "administrator" /\ q.role # "administrator"
            => HasAnotherAdministrator(q.target)

\* withLockedWorkspace: forbidden, not-found or last-administrator change
\* nothing, the rest updates the row and inserts the event.
Execute(q) ==
  /\ q \in pending
  /\ pending' = pending \ {q}
  /\ IF Authorised(q) /\ Applicable(q)
     THEN /\ role' = [role EXCEPT ![q.target] = q.role]
          /\ Record({q.target}, q.at)
     ELSE UNCHANGED <<role, events, latest, skews>>
  /\ UNCHANGED <<workspace, now, projection, barred, requests, departures,
                 repeats, expiries>>

\* The oldest other member inherits if no administrator is left.
Succession(u, v) ==
  IF HasAnotherAdministrator(u) THEN role
  ELSE [role EXCEPT ![v] = "administrator"]

\* prepareWorkspaceDeletion, for the account u and this workspace.  Which
\* member is the oldest is left open.
Depart(u) ==
  /\ departures < MaxDepartures
  /\ departures' = departures + 1
  /\ workspace = "live"
  /\ role[u] # NoRole
  /\ LET others == {v \in User \ {u} : role[v] # NoRole}
     IN  IF others = {}
         THEN /\ workspace' = "deleted"
              /\ role' = [role EXCEPT ![u] = NoRole]
              /\ UNCHANGED <<events, latest, skews>>
         ELSE \E v \in others :
                /\ role' = [Succession(u, v) EXCEPT ![u] = NoRole]
                /\ Record(IF HasAnotherAdministrator(u) THEN {u} ELSE {u, v},
                          now)
                /\ UNCHANGED workspace
  /\ UNCHANGED <<now, pending, projection, barred, requests, repeats,
                 expiries>>

-----------------------------------------------------------------------------
(***************************************************************************)
(* The projection.                                                         *)
(***************************************************************************)

\* Mutant: the script compares no versions.
AnyVersion(e) == TRUE

\* A missing version key accepts every event, an equal version is applied.
Current(e) == version[e.user] <= e.at

\* Mutant: a removal stores the empty string instead of deleting the key.
ApplyKeepsKey(e) ==
  /\ version' = [version EXCEPT ![e.user] = e.at]
  /\ shown' = [shown EXCEPT ![e.user] = IF e.role = NoRole THEN "" ELSE e.role]
  /\ revoked' = IF e.role = NoRole
                THEN [revoked EXCEPT ![e.user] = Second(e.at)]
                ELSE revoked

\* Mutant: a grant also deletes the revoked-before key.
ApplyForgiving(e) ==
  /\ version' = [version EXCEPT ![e.user] = e.at]
  /\ shown' = [shown EXCEPT ![e.user] = e.role]
  /\ revoked' = [revoked EXCEPT
                   ![e.user] = IF e.role = NoRole THEN Second(e.at) ELSE Never]

\* applyMembershipEventScript, which runs as one command.
Apply(e) ==
  /\ version' = [version EXCEPT ![e.user] = e.at]
  /\ shown' = [shown EXCEPT ![e.user] = e.role]
  /\ revoked' = IF e.role = NoRole
                THEN [revoked EXCEPT ![e.user] = Second(e.at)]
                ELSE revoked

\* The handler runs the script and acknowledges, or the acknowledgement is
\* lost and the event comes again.
Deliver(e) ==
  /\ e \in events
  /\ IF Current(e)
     THEN /\ Apply(e)
          /\ barred' = IF e.role = NoRole /\ barred[e.user] < Second(e.at)
                       THEN [barred EXCEPT ![e.user] = Second(e.at)]
                       ELSE barred
     ELSE UNCHANGED <<projection, barred>>
  /\ \/ /\ events' = events \ {e}
        /\ UNCHANGED repeats
     \/ /\ repeats < MaxRepeats
        /\ repeats' = repeats + 1
        /\ UNCHANGED events
  /\ UNCHANGED <<account, now, pending, latest, requests, departures, skews,
                 expiries>>

\* The role and version keys were set together and expire together.
ExpireRole(u) ==
  /\ expiries < MaxExpiries
  /\ version[u] # Never
  /\ Second(now) >= Second(version[u]) + Ttl
  /\ expiries' = expiries + 1
  /\ shown' = [shown EXCEPT ![u] = NoRole]
  /\ version' = [version EXCEPT ![u] = Never]
  /\ UNCHANGED <<account, now, pending, events, revoked, latest, barred,
                 requests, departures, repeats, skews>>

ExpireMark(u) ==
  /\ revoked[u] # Never
  /\ Second(now) >= revoked[u] + Ttl
  /\ revoked' = [revoked EXCEPT ![u] = Never]
  /\ UNCHANGED <<account, now, pending, events, shown, version, latest,
                 barred, counters>>

\* authorizeWorkspace, for a token issued at the second iat.
Accepts(u, iat, a) ==
  /\ ~(revoked[u] # Never /\ iat <= revoked[u])
  /\ CanPerform(shown[u], a)

-----------------------------------------------------------------------------
Next ==
  \/ Tick \/ Receive
  \/ \E q \in pending : Execute(q)
  \/ \E e \in events : Deliver(e)
  \/ \E u \in User : \/ CreateWorkspace(u) \/ Depart(u)
                     \/ ExpireRole(u) \/ ExpireMark(u)

Spec == Init /\ [][Next]_vars

-----------------------------------------------------------------------------
(***************************************************************************)
(* Properties.                                                             *)
(***************************************************************************)

\* Two administrators who remove or demote each other, an account that is
\* deleted meanwhile: a workspace is never left without an administrator.
AlwaysAdministered ==
  workspace = "live" => \E u \in User : role[u] = "administrator"

\* With nothing in flight the projection grants what the database grants,
\* in whatever order and however often the events came, provided the time
\* stamps of a user's changes grow in the order of their commits.
ProjectionAgrees ==
  skews = 0 /\ expiries = 0 /\ events = {} /\ workspace = "live"
    => \A u \in User : shown[u] = role[u]

\* Once the event of a user's last removal has been handled, no event that
\* is still under way, or comes again, lets that user in.
RemovedStaysOut ==
  skews = 0 /\ expiries = 0 /\ workspace = "live" =>
    \A u \in User :
      role[u] = NoRole
      /\ [user |-> u, role |-> NoRole, at |-> latest[u]] \notin events
        => \A iat \in 0..Second(now), a \in Action : ~Accepts(u, iat, a)

\* A token issued up to a removal the projection was told of is refused for
\* as long as it lives, also when the user has been added again since.
OldTokensStayOut ==
  \A u \in User : barred[u] # Never =>
    \A iat \in 0..barred[u], a \in Action :
       iat + TokenLife > Second(now) => ~Accepts(u, iat, a)

\* docs/events.md: "timestamp/version checks prevent an older event from
\* overwriting newer membership state".  Once every event has been handled,
\* whoever read the clock first, a removed member is refused.
DeliveredMeansRemoved ==
  events = {} /\ workspace = "live"
    => \A u \in User : role[u] = NoRole => ~CanPerform(shown[u], "read")
=============================================================================
