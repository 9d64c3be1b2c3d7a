------------------------------ MODULE Sessions ------------------------------
(***************************************************************************)
(* One account's sessions: its "sessions", "refresh_tokens" and            *)
(* "password_reset_tokens" rows in Account Service, the operations that    *)
(* open, rotate and revoke them, the session-revoked events of the outbox, *)
(* and Gateway's revocation keys in Redis, from which every access token   *)
(* is judged without asking Account Service.                               *)
(*                                                                         *)
(* An operation takes its time stamp (new Date(), or the CURRENT_TIMESTAMP *)
(* of its transaction's start) before it gets the row locks; what follows  *)
(* under the locks is one action.  An access token's iat is read before    *)
(* the session is committed (login) or after (refresh).  Events are        *)
(* delivered in any order and at least once, as in Membership.             *)
(*                                                                         *)
(* The account is not being deleted, Redis answers, the retention job's    *)
(* deletion of rows is the expiry they have reached already.               *)
(***************************************************************************)
EXTENDS Integers

CONSTANTS
  Session,         \* session ids
  All,             \* "sessionId: null": the whole account
  Millis,          \* milliseconds, the unit of "now", to a second
  Ttl,             \* SESSION_REVOCATION_CACHE_TTL_SECONDS
  TokenLife,       \* seconds for which an access token is accepted
  MaxTime,         \* bound: the clock
  MaxRequests,     \* bound: requests other than those for a reset link
  MaxLinks,        \* bound: reset links sent
  MaxChain,        \* bound: refresh tokens of a session
  MaxRepeats       \* bound: events delivered without being acknowledged

ASSUME SessionsAssumption ==
  /\ All \notin Session
  /\ Millis \in Nat \ {0}
  /\ {Ttl, TokenLife, MaxTime, MaxRequests, MaxLinks, MaxChain, MaxRepeats}
       \subseteq Nat

Never == -1                     \* NULL, or a key that does not exist

VARIABLES
  now,        \* the clock
  password,   \* how often the password has been reset
  link,       \* reset links sent; only the newest has not been consumed
  linkLive,   \* ... unless it has, or has expired
  state,      \* sessions: "none" before the INSERT, "active", "revoked"
  revokedAt,  \* sessions.revoked_at
  chain,      \* refresh tokens of the session: all but the newest are used
  stale,      \* how many of them, from the oldest, have expired
  pending,    \* requests that have their time stamp and wait for the locks
  rotated,    \* rotations committed whose access token is not signed yet
  tokens,     \* access tokens handed out
  events,     \* session-revoked events not yet acknowledged
  sessionKey, \* session-revoked:<session>
  accountKey, \* account-revoked:<user>
  opened,     \* (history) the password a session was opened with
  late,       \* (history) sessions whose login a reset found under way
  lastAll,    \* (history) latest stamp of an account-wide revocation
  lowered,    \* (history) has an event replaced a later account key ?
  requests, repeats   \* against the bounds

clock   == <<now, requests, repeats>>
reset   == <<password, link, linkLive>>
rows    == <<state, revokedAt, chain, stale>>
flight  == <<pending, rotated>>
keys    == <<sessionKey, accountKey, lowered>>
history == <<opened, late>>
vars == <<clock, reset, rows, flight, tokens, events, lastAll, keys, history>>

Stamp   == Nat \cup {Never}
Request ==
  [op : {"verified"}, session : Session, n : Nat, at : {Never}]
  \cup [op : {"signed"}, session : Session, n : Nat, at : Nat]
  \cup [op : {"refresh", "logout"}, session : Session, n : Nat, at : Nat]
  \cup [op : {"logout-all", "reset"}, session : {All}, n : Nat, at : Nat]
Token   == [session : Session, iat : Nat]
Event   == [session : Session \cup {All}, at : Nat]

TypeOK ==
  /\ now \in Nat /\ requests \in Nat /\ repeats \in Nat
  /\ password \in Nat /\ link \in Nat /\ linkLive \in BOOLEAN
  /\ state \in [Session -> {"none", "active", "revoked"}]
  /\ revokedAt \in [Session -> Stamp]
  /\ chain \in [Session -> Nat] /\ stale \in [Session -> Nat]
  /\ pending \subseteq Request
  /\ rotated \subseteq Session \X Nat
  /\ tokens \subseteq Token
  /\ events \subseteq Event
  /\ sessionKey \in [Session -> Stamp]
  /\ accountKey \in Stamp
  /\ opened \in [Session -> Nat]
  /\ late \subseteq Session
  /\ lastAll \in Stamp
  /\ lowered \in BOOLEAN

Init ==
  /\ now = 0 /\ requests = 0 /\ repeats = 0
  /\ password = 0 /\ link = 0 /\ linkLive = FALSE
  /\ state = [s \in Session |-> "none"]
  /\ revokedAt = [s \in Session |-> Never]
  /\ chain = [s \in Session |-> 0]
  /\ stale = [s \in Session |-> 0]
  /\ pending = {} /\ rotated = {} /\ tokens = {} /\ events = {}
  /\ sessionKey = [s \in Session |-> Never]
  /\ accountKey = Never
  /\ opened = [s \in Session |-> 0]
  /\ late = {}
  /\ lastAll = Never
  /\ lowered = FALSE

Second(t) == t \div Millis

Tick ==
  /\ now < MaxTime
  /\ now' = now + 1
  /\ UNCHANGED <<requests, repeats, reset, rows, flight, tokens, events,
                 lastAll, keys, history>>

\* The newest refresh token of a session, and with it the session, expires
\* last: both get the same expires_at, and a rotation moves it on.
Expire(s) ==
  /\ stale[s] < chain[s]
  /\ stale' = [stale EXCEPT ![s] = @ + 1]
  /\ UNCHANGED <<clock, reset, state, revokedAt, chain, flight, tokens, events,
                 lastAll, keys, history>>

-----------------------------------------------------------------------------
(***************************************************************************)
(* Requests arrive and take their time stamp.                              *)
(***************************************************************************)
Ask(q) ==
  /\ requests < MaxRequests
  /\ requests' = requests + 1
  /\ pending' = pending \cup {q}
  /\ UNCHANGED <<now, repeats, reset, rows, rotated, tokens, events, lastAll,
                 keys, history>>

\* login: the password is verified against the hash read just before; a
\* fresh session id is drawn.  n remembers which password that was.
VerifyPassword(s) ==
  /\ state[s] = "none"
  /\ \A q \in pending : q.session # s
  /\ Ask([op |-> "verified", session |-> s, n |-> password, at |-> Never])

\* Mutant: createAccessToken without setIssuedAt().
SignUndated(q) ==
  /\ q \in pending /\ q.op = "verified"
  /\ pending' = (pending \ {q}) \cup
                {[op |-> "signed", session |-> q.session, n |-> q.n, at |-> q.at]}
  /\ UNCHANGED <<clock, reset, rows, rotated, tokens, events, lastAll, keys,
                 history>>

\* login: createAccessToken, before the session exists.
Sign(q) ==
  /\ q \in pending /\ q.op = "verified"
  /\ pending' = (pending \ {q}) \cup
                {[op |-> "signed", session |-> q.session, n |-> q.n, at |-> now]}
  /\ UNCHANGED <<clock, reset, rows, rotated, tokens, events, lastAll, keys,
                 history>>

\* Any refresh token of the session may be presented, also a used one.
AskRefresh(s) ==
  \E n \in 1..chain[s] :
     Ask([op |-> "refresh", session |-> s, n |-> n, at |-> now])

AskLogout(s) ==
  /\ state[s] # "none"
  /\ Ask([op |-> "logout", session |-> s, n |-> 0, at |-> now])

\* logout-all; an email change and the request to delete the account revoke
\* with the same statement.
AskLogoutAll == Ask([op |-> "logout-all", session |-> All, n |-> 0, at |-> now])

\* confirmReset reads the clock before it opens the transaction.
AskReset ==
  \E n \in 1..link : Ask([op |-> "reset", session |-> All, n |-> n, at |-> now])

-----------------------------------------------------------------------------
(***************************************************************************)
(* The transactions.                                                       *)
(***************************************************************************)
Settle(q) == pending' = pending \ {q}

\* createSession and the response of login.
OpenSession(q) ==
  /\ q \in pending /\ q.op = "signed"
  /\ Settle(q)
  /\ state' = [state EXCEPT ![q.session] = "active"]
  /\ chain' = [chain EXCEPT ![q.session] = 1]
  /\ tokens' = tokens \cup {[session |-> q.session, iat |-> Second(q.at)]}
  /\ opened' = [opened EXCEPT ![q.session] = q.n]
  /\ UNCHANGED <<clock, reset, revokedAt, stale, rotated, events, lastAll, keys,
                 late>>

Active == {s \in Session : state[s] = "active"}

\* Mutant: a revocation of all sessions inserts no event.
RevokeAllSilently(at) ==
  /\ state' = [s \in Session |-> IF s \in Active THEN "revoked" ELSE state[s]]
  /\ revokedAt' = [s \in Session |-> IF s \in Active THEN at ELSE revokedAt[s]]
  /\ UNCHANGED <<events, lastAll>>

\* UPDATE sessions SET revoked_at ... WHERE revoked_at IS NULL, and one event
\* for the account if there was a row.
RevokeAll(at) ==
  /\ state' = [s \in Session |-> IF s \in Active THEN "revoked" ELSE state[s]]
  /\ revokedAt' = [s \in Session |-> IF s \in Active THEN at ELSE revokedAt[s]]
  /\ IF Active = {}
     THEN UNCHANGED <<events, lastAll>>
     ELSE /\ events' = events \cup {[session |-> All, at |-> at]}
          /\ lastAll' = IF lastAll < at THEN at ELSE lastAll

\* Mutant: revoked_at is not looked at.
UsableUnlessExpired(q) == q.n > stale[q.session]

\* The presented token and its session are neither revoked nor expired.
Usable(q) == state[q.session] = "active" /\ q.n > stale[q.session]

\* rotateRefreshToken: invalid, reused or rotated.
Rotate(q) ==
  /\ q \in pending /\ q.op = "refresh"
  /\ Settle(q)
  /\ IF ~Usable(q)
     THEN UNCHANGED <<state, revokedAt, chain, rotated, events, lastAll>>
     ELSE IF q.n < chain[q.session]
     THEN RevokeAll(q.at) /\ UNCHANGED <<chain, rotated>>
     ELSE /\ chain[q.session] < MaxChain
          /\ chain' = [chain EXCEPT ![q.session] = @ + 1]
          /\ rotated' = rotated \cup {<<q.session, q.n>>}
          /\ UNCHANGED <<state, revokedAt, events, lastAll>>
  /\ UNCHANGED <<clock, reset, stale, tokens, keys, history>>

\* refresh: createAccessToken, after the rotation has committed.
SignRotated(r) ==
  /\ r \in rotated
  /\ rotated' = rotated \ {r}
  /\ tokens' = tokens \cup {[session |-> r[1], iat |-> Second(now)]}
  /\ UNCHANGED <<clock, reset, rows, pending, events, lastAll, keys, history>>

\* revokeSession: revoked_at is set once, the event is inserted every time.
Logout(q) ==
  /\ q \in pending /\ q.op = "logout"
  /\ Settle(q)
  /\ state' = [state EXCEPT ![q.session] = "revoked"]
  /\ revokedAt' = [revokedAt EXCEPT
                     ![q.session] = IF @ = Never THEN q.at ELSE @]
  /\ events' = events \cup {[session |-> q.session,
                             at |-> revokedAt'[q.session]]}
  /\ UNCHANGED <<clock, reset, chain, stale, rotated, tokens, lastAll, keys,
                 history>>

LogoutAll(q) ==
  /\ q \in pending /\ q.op = "logout-all"
  /\ Settle(q)
  /\ RevokeAll(q.at)
  /\ UNCHANGED <<clock, reset, chain, stale, rotated, tokens, keys, history>>

\* createPasswordReset: the tokens sent before are consumed.
SendLink ==
  /\ link < MaxLinks
  /\ link' = link + 1
  /\ linkLive' = TRUE
  /\ UNCHANGED <<clock, password, rows, flight, tokens, events, lastAll, keys,
                 history>>

LinkExpires ==
  /\ linkLive
  /\ linkLive' = FALSE
  /\ UNCHANGED <<clock, password, link, rows, flight, tokens, events, lastAll,
                 keys, history>>

\* Mutant: the token's used_at is not looked at.
NewestLink(q) == q.n = link

\* lockValidResetToken.
ValidLink(q) == linkLive /\ q.n = link

\* Mutant: the sessions are left alone.
ResetKeepsSessions(q) ==
  /\ q \in pending /\ q.op = "reset"
  /\ Settle(q)
  /\ IF ValidLink(q)
     THEN password' = password + 1 /\ linkLive' = FALSE
     ELSE UNCHANGED <<password, linkLive>>
  /\ UNCHANGED <<clock, link, rows, rotated, tokens, events, lastAll, keys,
                 history>>

\* completePasswordReset: new password, all links consumed, all sessions
\* revoked.
Reset(q) ==
  /\ q \in pending /\ q.op = "reset"
  /\ Settle(q)
  /\ IF ValidLink(q)
     THEN /\ password' = password + 1
          /\ linkLive' = FALSE
          /\ RevokeAll(q.at)
          /\ late' = late \cup {p.session : p \in
                       {r \in pending : r.op \in {"verified", "signed"}}}
     ELSE UNCHANGED <<password, linkLive, state, revokedAt, events, lastAll,
                      late>>
  /\ UNCHANGED <<clock, link, chain, stale, rotated, tokens, keys, opened>>

-----------------------------------------------------------------------------
(***************************************************************************)
(* Gateway.                                                                *)
(***************************************************************************)

\* Mutant: every event is written to the account's key.
CacheForAccount(e) ==
  /\ accountKey' = Second(e.at)
  /\ UNCHANGED <<sessionKey, lowered>>

\* cacheSessionRevoked, cacheAccountRevoked: a plain SET with a TTL.
Cache(e) ==
  IF e.session = All
  THEN /\ accountKey' = Second(e.at)
       /\ lowered' = (lowered \/ Second(e.at) < accountKey)
       /\ UNCHANGED sessionKey
  ELSE /\ sessionKey' = [sessionKey EXCEPT ![e.session] = Second(e.at)]
       /\ UNCHANGED <<accountKey, lowered>>

\* handleMessage; a message that was not acknowledged comes again.
Deliver(e) ==
  /\ e \in events
  /\ Cache(e)
  /\ \/ /\ events' = events \ {e}
        /\ UNCHANGED repeats
     \/ /\ repeats < MaxRepeats
        /\ repeats' = repeats + 1
        /\ UNCHANGED events
  /\ UNCHANGED <<now, requests, reset, rows, flight, tokens, lastAll, history>>

\* A key was set no earlier than the revocation it tells of.
ExpireSessionKey(s) ==
  /\ sessionKey[s] # Never
  /\ Second(now) >= sessionKey[s] + Ttl
  /\ sessionKey' = [sessionKey EXCEPT ![s] = Never]
  /\ UNCHANGED <<clock, reset, rows, flight, tokens, events, lastAll,
                 accountKey, lowered, history>>

ExpireAccountKey ==
  /\ accountKey # Never
  /\ Second(now) >= accountKey + Ttl
  /\ accountKey' = Never
  /\ UNCHANGED <<clock, reset, rows, flight, tokens, events, lastAll,
                 sessionKey, lowered, history>>

\* verifyAccessTokenClaims.
Alive(t) == Second(now) < t.iat + TokenLife

\* isSessionRevoked.
Revoked(t) ==
  \/ sessionKey[t.session] # Never
  \/ accountKey # Never /\ t.iat <= accountKey

\* authenticateRequest.
Accepted(t) == Alive(t) /\ ~Revoked(t)

-----------------------------------------------------------------------------
Next ==
  \/ Tick \/ AskLogoutAll \/ AskReset \/ SendLink \/ LinkExpires
  \/ ExpireAccountKey
  \/ \E s \in Session : \/ Expire(s) \/ VerifyPassword(s) \/ AskRefresh(s)
                        \/ AskLogout(s) \/ ExpireSessionKey(s)
  \/ \E q \in pending : \/ Sign(q) \/ OpenSession(q) \/ Rotate(q)
                        \/ Logout(q) \/ LogoutAll(q) \/ Reset(q)
  \/ \E r \in rotated : SignRotated(r)
  \/ \E e \in events : Deliver(e)

Spec == Init /\ [][Next]_vars

-----------------------------------------------------------------------------
(***************************************************************************)
(* Properties.                                                             *)
(***************************************************************************)

\* Gateway has handled the event of the revocation of s.
Told(s) == events \cap ([session : {s, All}, at : {revokedAt[s]}]) = {}

\* Once Gateway has been told, a token issued up to the revocation of its
\* session is refused until the keys may expire, unless an account-wide
\* event with an older stamp came after a newer one.
RevokedRefused ==
  ~lowered =>
    \A t \in tokens :
      LET at == Second(revokedAt[t.session])
      IN  /\ state[t.session] = "revoked" /\ Told(t.session)
          /\ t.iat <= at /\ Second(now) < at + Ttl
          => ~Accepted(t)

\* A token of an active session is not refused before its time because of
\* somebody else's logout, or of an account-wide one of an earlier second.
ActiveAccepted ==
  \A t \in tokens :
    state[t.session] = "active" /\ Alive(t) /\ Second(lastAll) < t.iat
      => Accepted(t)

\* A revoked session stays so, keeps its time of revocation, and no refresh
\* token of it is rotated any more.
RevokedForGood ==
  [][\A s \in Session : state[s] = "revoked" =>
       /\ state'[s] = "revoked"
       /\ revokedAt'[s] = revokedAt[s]
       /\ chain'[s] = chain[s]]_vars

\* A reset shuts out whoever knew the old password only: a session is active
\* under the current password, except those of the logins that had verified
\* the old one when the reset committed.
OldPasswordOut ==
  \A s \in Session \ late : state[s] = "active" => opened[s] = password

\* Two clients that confirm the same link, or an older one, do not both set
\* the password.
OneResetPerLink == password + (IF linkLive THEN 1 ELSE 0) <= link

\* docs/architecture.md: the access JWT "is accepted only while the Account
\* session remains active"; here, once every event has been handled.
AcceptedWhileActive ==
  events = {} => \A t \in tokens : Accepted(t) => state[t.session] = "active"
=============================================================================
