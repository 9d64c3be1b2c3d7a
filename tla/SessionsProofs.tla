--------------------------- MODULE SessionsProofs ---------------------------
(***************************************************************************)
(* Proofs about Sessions, for any set of sessions, any clock and any       *)
(* number of requests, links, rotations and repeated deliveries.           *)
(***************************************************************************)
EXTENDS Sessions, TLAPS

LoginOp == {"verified", "signed"}

(***************************************************************************)
(* Types.                                                                  *)
(***************************************************************************)
LEMMA SecondType == ASSUME NEW t \in Nat PROVE Second(t) \in Nat
  BY SessionsAssumption DEF Second

\* A later moment is in no earlier second.
LEMMA SecondMonotone ==
  ASSUME NEW s \in Nat, NEW t \in Nat, s <= t
  PROVE  Second(s) <= Second(t)
  BY SessionsAssumption DEF Second

\* What a request is, by its operation.
LEMMA RequestFacts ==
  ASSUME TypeOK, NEW q \in pending
  PROVE  /\ q.n \in Nat
         /\ q.op \in LoginOp \cup {"refresh", "logout"} => q.session \in Session
         /\ q.op \in {"logout-all", "reset"} => q.session = All
         /\ q.op = "verified" \/ q.at \in Nat
         /\ q.op \in {"verified", "signed", "refresh", "logout", "logout-all",
                      "reset"}
  BY DEF TypeOK, Request, LoginOp

LEMMA RevokeAllType ==
  ASSUME TypeOK, NEW at \in Nat, RevokeAll(at)
  PROVE  /\ state' \in [Session -> {"none", "active", "revoked"}]
         /\ revokedAt' \in [Session -> Stamp]
         /\ events' \subseteq Event
         /\ lastAll' \in Stamp
<1>1. [session |-> All, at |-> at] \in Event
  BY DEF Event
<1> QED BY <1>1 DEF RevokeAll, TypeOK, Stamp

LEMMA AskType ==
  ASSUME TypeOK, NEW q \in Request, Ask(q) PROVE TypeOK'
<1>1. pending' \subseteq Request
  BY DEF Ask, TypeOK
<1> QED BY <1>1 DEF Ask, TypeOK, reset, rows, keys, history

\* The type invariant: every row, key, request, event and history variable
\* keeps its type.
THEOREM TypeCorrect == Spec => []TypeOK
<1> USE DEF clock, reset, rows, flight, keys, history
<1>1. ASSUME Init PROVE TypeOK
  <2>1. pending = {} /\ rotated = {} /\ tokens = {} /\ events = {} /\ late = {}
    BY <1>1 DEF Init
  <2>2. /\ now \in Nat /\ requests \in Nat /\ repeats \in Nat
        /\ password \in Nat /\ link \in Nat /\ linkLive \in BOOLEAN
        /\ state \in [Session -> {"none", "active", "revoked"}]
        /\ revokedAt \in [Session -> Stamp]
        /\ chain \in [Session -> Nat] /\ stale \in [Session -> Nat]
        /\ sessionKey \in [Session -> Stamp]
        /\ accountKey \in Stamp
        /\ opened \in [Session -> Nat]
        /\ lastAll \in Stamp
        /\ lowered \in BOOLEAN
    BY <1>1 DEF Init, Stamp
  <2> QED BY <2>1, <2>2 DEF TypeOK
<1>2. ASSUME TypeOK, [Next]_vars PROVE TypeOK'
  <2> USE <1>2
  <2>1. CASE Tick \/ UNCHANGED vars
    BY <2>1 DEF Tick, vars, TypeOK
  <2>18. CASE SendLink \/ LinkExpires
    <3>1. linkLive' \in BOOLEAN
      BY <2>18 DEF SendLink, LinkExpires
    <3>2. link' \in Nat
      BY <2>18 DEF SendLink, LinkExpires, TypeOK
    <3>3. UNCHANGED <<clock, password, rows, flight, tokens, events, lastAll,
                      keys, history>>
      BY <2>18 DEF SendLink, LinkExpires
    <3> QED BY <3>1, <3>2, <3>3 DEF TypeOK
  <2>2. CASE AskLogoutAll
    <3>1. [op |-> "logout-all", session |-> All, n |-> 0, at |-> now] \in Request
      BY DEF Request, TypeOK
    <3> QED BY <2>2, <3>1, AskType DEF AskLogoutAll
  <2>3. CASE AskReset
    <3>1. PICK n \in 1..link :
            Ask([op |-> "reset", session |-> All, n |-> n, at |-> now])
      BY <2>3 DEF AskReset
    <3>2. n \in Nat
      BY DEF TypeOK
    <3>3. [op |-> "reset", session |-> All, n |-> n, at |-> now] \in Request
      BY <3>2 DEF Request, TypeOK
    <3> QED BY <3>1, <3>3, AskType
  <2>4. ASSUME NEW s \in Session, VerifyPassword(s) PROVE TypeOK'
    <3>1. [op |-> "verified", session |-> s, n |-> password, at |-> Never]
            \in Request
      BY DEF Request, TypeOK
    <3> QED BY <2>4, <3>1, AskType DEF VerifyPassword
  <2>5. ASSUME NEW s \in Session, AskRefresh(s) PROVE TypeOK'
    <3>1. PICK n \in 1..chain[s] :
            Ask([op |-> "refresh", session |-> s, n |-> n, at |-> now])
      BY <2>5 DEF AskRefresh
    <3>2. n \in Nat
      BY DEF TypeOK
    <3>3. [op |-> "refresh", session |-> s, n |-> n, at |-> now] \in Request
      BY <3>2 DEF Request, TypeOK
    <3> QED BY <3>1, <3>3, AskType
  <2>6. ASSUME NEW s \in Session, AskLogout(s) PROVE TypeOK'
    <3>1. [op |-> "logout", session |-> s, n |-> 0, at |-> now] \in Request
      BY DEF Request, TypeOK
    <3> QED BY <2>6, <3>1, AskType DEF AskLogout
  <2>7. ASSUME NEW s \in Session, Expire(s) PROVE TypeOK'
    BY <2>7 DEF Expire, TypeOK
  <2>8. ASSUME NEW s \in Session, ExpireSessionKey(s) PROVE TypeOK'
    BY <2>8 DEF ExpireSessionKey, TypeOK, Stamp
  <2>9. CASE ExpireAccountKey
    BY <2>9 DEF ExpireAccountKey, TypeOK, Stamp
  <2>10. ASSUME NEW q \in pending, Sign(q) PROVE TypeOK'
    <3>1. q.session \in Session /\ q.n \in Nat
      BY <2>10, RequestFacts DEF Sign, LoginOp
    <3>3. [op |-> "signed", session |-> q.session, n |-> q.n, at |-> now]
            \in Request
      BY <3>1 DEF Request, TypeOK
    <3>4. pending' \subseteq Request
      BY <2>10, <3>3 DEF Sign, TypeOK
    <3> QED BY <2>10, <3>4 DEF Sign, TypeOK
  <2>11. ASSUME NEW q \in pending, OpenSession(q) PROVE TypeOK'
    <3>1. q.session \in Session /\ q.at \in Nat /\ q.n \in Nat
      BY <2>11, RequestFacts DEF OpenSession, LoginOp
    <3>2. [session |-> q.session, iat |-> Second(q.at)] \in Token
      BY <3>1, SecondType DEF Token
    <3>3. pending' \subseteq Request /\ tokens' \subseteq Token
      BY <2>11, <3>2 DEF OpenSession, Settle, TypeOK
    <3> QED BY <2>11, <3>1, <3>3 DEF OpenSession, TypeOK
  <2>12. ASSUME NEW q \in pending, Rotate(q) PROVE TypeOK'
    <3>1. q.session \in Session /\ q.at \in Nat /\ q.n \in Nat
      BY <2>12, RequestFacts DEF Rotate
    <3>2. pending' \subseteq Request
      BY <2>12 DEF Rotate, Settle, TypeOK
    <3>3. CASE RevokeAll(q.at) /\ UNCHANGED <<chain, rotated>>
      BY <2>12, <3>1, <3>2, <3>3, RevokeAllType DEF Rotate, TypeOK
    <3>4. CASE UNCHANGED <<state, revokedAt, events, lastAll>>
      <4>1. chain' \in [Session -> Nat] /\ rotated' \subseteq Session \X Nat
        BY <2>12, <3>1, <3>4 DEF Rotate, RevokeAll, TypeOK
      <4> QED BY <2>12, <3>2, <3>4, <4>1 DEF Rotate, TypeOK
    <3> QED BY <2>12, <3>3, <3>4 DEF Rotate
  <2>13. ASSUME NEW q \in pending, Logout(q) PROVE TypeOK'
    <3>1. q.session \in Session /\ q.at \in Nat
      BY <2>13, RequestFacts DEF Logout
    <3>2. /\ revokedAt' \in [Session -> Stamp]
          /\ revokedAt'[q.session] \in Nat
      BY <2>13, <3>1 DEF Logout, TypeOK, Stamp, Never
    <3>3. [session |-> q.session, at |-> revokedAt'[q.session]] \in Event
      BY <3>1, <3>2 DEF Event
    <3>4. pending' \subseteq Request /\ events' \subseteq Event
      BY <2>13, <3>3 DEF Logout, Settle, TypeOK
    <3> QED BY <2>13, <3>1, <3>2, <3>4 DEF Logout, TypeOK
  <2>14. ASSUME NEW q \in pending, LogoutAll(q) PROVE TypeOK'
    <3>1. q.at \in Nat /\ pending' \subseteq Request
      BY <2>14, RequestFacts DEF LogoutAll, Settle, TypeOK
    <3> QED BY <2>14, <3>1, RevokeAllType DEF LogoutAll, TypeOK
  <2>15. ASSUME NEW q \in pending, Reset(q) PROVE TypeOK'
    <3>1. q.at \in Nat /\ pending' \subseteq Request
      BY <2>15, RequestFacts DEF Reset, Settle, TypeOK
    <3>2. CASE ValidLink(q)
      <4>1. {p.session : p \in {r \in pending : r.op \in {"verified", "signed"}}}
              \subseteq Session
        BY RequestFacts DEF LoginOp
      <4>2. late' \subseteq Session
        BY <2>15, <3>2, <4>1 DEF Reset, TypeOK
      <4>3. RevokeAll(q.at)
        BY <2>15, <3>2 DEF Reset
      <4>4. /\ state' \in [Session -> {"none", "active", "revoked"}]
            /\ revokedAt' \in [Session -> Stamp]
            /\ events' \subseteq Event
            /\ lastAll' \in Stamp
        BY <3>1, <4>3, RevokeAllType
      <4>5. linkLive' \in BOOLEAN
        BY <2>15, <3>2 DEF Reset
      <4>6. /\ password' \in Nat
            /\ UNCHANGED <<clock, link, chain, stale, rotated, tokens, keys,
                           opened>>
        BY <2>15, <3>2 DEF Reset, TypeOK
      <4> QED BY <3>1, <4>2, <4>4, <4>5, <4>6 DEF TypeOK
    <3>3. CASE ~ValidLink(q)
      BY <2>15, <3>1, <3>3 DEF Reset, TypeOK
    <3> QED BY <3>2, <3>3
  <2>16. ASSUME NEW r \in rotated, SignRotated(r) PROVE TypeOK'
    <3>1. [session |-> r[1], iat |-> Second(now)] \in Token
      BY SecondType DEF TypeOK, Token
    <3>2. tokens' \subseteq Token /\ rotated' \subseteq Session \X Nat
      BY <2>16, <3>1 DEF SignRotated, TypeOK
    <3> QED BY <2>16, <3>2 DEF SignRotated, TypeOK
  <2>17. ASSUME NEW e \in events, Deliver(e) PROVE TypeOK'
    <3>1. /\ e.session \in Session \cup {All} /\ e.at \in Nat
          /\ Second(e.at) \in Nat
      BY SecondType DEF TypeOK, Event
    <3>2. /\ sessionKey' \in [Session -> Stamp]
          /\ accountKey' \in Stamp
          /\ lowered' \in BOOLEAN
      BY <2>17, <3>1 DEF Deliver, Cache, TypeOK, Stamp
    <3> QED BY <2>17, <3>2 DEF Deliver, TypeOK
  <2> QED BY <2>1, <2>2, <2>3, <2>4, <2>5, <2>6, <2>7, <2>8, <2>9, <2>10, <2>11,
             <2>12, <2>13, <2>14, <2>15, <2>16, <2>17, <2>18 DEF Next
<1> QED BY <1>1, <1>2, PTL DEF Spec

-----------------------------------------------------------------------------
(***************************************************************************)
(* Rows and requests.  A login keeps its session id to itself until it     *)
(* opens the session; whoever refreshes or logs out has one that exists.   *)
(***************************************************************************)
LoginsApart ==
  /\ \A q \in pending : q.op \in LoginOp => state[q.session] = "none"
  /\ \A p, q \in pending :
       p.op \in LoginOp /\ q.op \in LoginOp /\ p.session = q.session => p = q

RequestsHaveSession ==
  \A q \in pending : q.op \in {"refresh", "logout"} => state[q.session] # "none"

RowsAgree ==
  \A s \in Session : /\ state[s] = "none" => chain[s] = 0
                     /\ state[s] = "revoked" <=> revokedAt[s] # Never

RowsInv == LoginsApart /\ RequestsHaveSession /\ RowsAgree

\* The steps that touch neither rows nor requests.
Aside ==
  \/ Tick \/ SendLink \/ LinkExpires \/ ExpireAccountKey
  \/ \E s \in Session : Expire(s) \/ ExpireSessionKey(s)
  \/ \E r \in rotated : SignRotated(r)
  \/ \E e \in events : Deliver(e)
  \/ UNCHANGED vars

LEMMA AsideKeepsRows ==
  ASSUME Aside PROVE UNCHANGED <<state, revokedAt, chain, pending>>
  BY DEF Aside, Tick, SendLink, LinkExpires, ExpireAccountKey, Expire,
         ExpireSessionKey, SignRotated, Deliver, vars, clock, reset, rows,
         flight, keys, history

\* The steps that only add a request.
Asks ==
  \/ AskLogoutAll \/ AskReset
  \/ \E s \in Session : VerifyPassword(s) \/ AskRefresh(s) \/ AskLogout(s)

\* What a step that ends a request does to the rows.
LEMMA EndedRevokesAllOrNone ==
  ASSUME TypeOK, NEW q \in pending, Rotate(q) \/ LogoutAll(q) \/ Reset(q)
  PROVE  /\ pending' = pending \ {q}
         /\ \/ RevokeAll(q.at)
            \/ UNCHANGED <<state, revokedAt, events, lastAll>>
         /\ \A s \in Session : state[s] # "active" => chain'[s] = chain[s]
<1>1. CASE Rotate(q)
  <2>1. q.session \in Session
    BY <1>1, RequestFacts DEF Rotate
  <2>2. CASE ~Usable(q)
    BY <1>1, <2>2 DEF Rotate, Settle
  <2>3. CASE Usable(q) /\ q.n < chain[q.session]
    BY <1>1, <2>3 DEF Rotate, Settle
  <2>4. CASE Usable(q) /\ ~(q.n < chain[q.session])
    <3>1. /\ chain' = [chain EXCEPT ![q.session] = @ + 1]
          /\ UNCHANGED <<state, revokedAt, events, lastAll>>
          /\ pending' = pending \ {q}
      BY <1>1, <2>4 DEF Rotate, Settle
    <3>2. state[q.session] = "active"
      BY <2>4 DEF Usable
    <3> QED BY <2>1, <3>1, <3>2 DEF TypeOK
  <2> QED BY <2>2, <2>3, <2>4
<1>2. CASE LogoutAll(q)
  BY <1>2 DEF LogoutAll, Settle
<1>3. CASE Reset(q)
  BY <1>3 DEF Reset, Settle
<1> QED BY <1>1, <1>2, <1>3

LEMMA RevokeAllRows ==
  ASSUME TypeOK, RowsAgree, NEW at \in Nat, RevokeAll(at)
  PROVE  \A s \in Session :
           /\ state[s] = "none" <=> state'[s] = "none"
           /\ state[s] = "revoked" => state'[s] = "revoked"
           /\ state'[s] # "active"
           /\ state'[s] = "revoked" <=> revokedAt'[s] # Never
           /\ state[s] # "active" => revokedAt'[s] = revokedAt[s]
           /\ state[s] = "active" => revokedAt'[s] = at
  BY DEF RevokeAll, Active, TypeOK, RowsAgree, Never

LEMMA RowsStep ==
  ASSUME TypeOK, RowsInv, [Next]_vars PROVE RowsInv'
<1>1. CASE Aside
  <2>1. UNCHANGED <<state, revokedAt, chain, pending>>
    BY <1>1, AsideKeepsRows
  <2> QED BY <2>1 DEF RowsInv, LoginsApart, RequestsHaveSession, RowsAgree
<1>2. CASE Asks
  <2>1. UNCHANGED <<state, revokedAt, chain>>
    BY <1>2 DEF Asks, AskLogoutAll, AskReset, VerifyPassword, AskRefresh,
                AskLogout, Ask, rows
  <2>2. RowsAgree'
    BY <2>1 DEF RowsInv, RowsAgree
  <2>3. ASSUME NEW q, pending' = pending \cup {q}, q.op \notin LoginOp,
               q.op \in {"refresh", "logout"} => state[q.session] # "none"
        PROVE  LoginsApart' /\ RequestsHaveSession'
    BY <2>1, <2>3 DEF RowsInv, LoginsApart, RequestsHaveSession
  <2>4. CASE AskLogoutAll
    BY <2>2, <2>3, <2>4 DEF AskLogoutAll, Ask, LoginOp, RowsInv
  <2>5. CASE AskReset
    BY <2>2, <2>3, <2>5 DEF AskReset, Ask, LoginOp, RowsInv
  <2>6. ASSUME NEW s \in Session, AskRefresh(s) PROVE RowsInv'
    <3>1. PICK n \in 1..chain[s] :
            Ask([op |-> "refresh", session |-> s, n |-> n, at |-> now])
      BY <2>6 DEF AskRefresh
    <3>2. state[s] # "none"
      BY <3>1 DEF RowsInv, RowsAgree, TypeOK
    <3> QED BY <2>2, <2>3, <3>1, <3>2 DEF Ask, LoginOp, RowsInv
  <2>7. ASSUME NEW s \in Session, AskLogout(s) PROVE RowsInv'
    BY <2>2, <2>3, <2>7 DEF AskLogout, Ask, LoginOp, RowsInv
  <2>8. ASSUME NEW s \in Session, VerifyPassword(s) PROVE RowsInv'
    <3> DEFINE new == [op |-> "verified", session |-> s, n |-> password,
                       at |-> Never]
    <3>1. pending' = pending \cup {new} /\ state[s] = "none"
          /\ \A q \in pending : q.session # s
      BY <2>8 DEF VerifyPassword, Ask
    <3>2. new.op = "verified" /\ new.session = s
      OBVIOUS
    <3> HIDE DEF new
    <3>3. RequestsHaveSession'
      BY <2>1, <3>1, <3>2 DEF RowsInv, RequestsHaveSession
    <3>4. LoginsApart'
      BY <2>1, <3>1, <3>2 DEF RowsInv, LoginsApart
    <3> QED BY <2>2, <3>3, <3>4 DEF RowsInv
  <2> QED BY <1>2, <2>4, <2>5, <2>6, <2>7, <2>8 DEF Asks
<1>3. ASSUME NEW q \in pending, Sign(q) PROVE RowsInv'
  <2> DEFINE new == [op |-> "signed", session |-> q.session, n |-> q.n,
                     at |-> now]
  <2>1. /\ pending' = (pending \ {q}) \cup {new}
        /\ UNCHANGED <<state, revokedAt, chain>>
        /\ q.op \in LoginOp
    BY <1>3 DEF Sign, rows, LoginOp
  <2>2. new.op = "signed" /\ new.session = q.session
    OBVIOUS
  <2> HIDE DEF new
  <2>3. RequestsHaveSession' /\ RowsAgree'
    BY <2>1, <2>2 DEF RowsInv, RequestsHaveSession, RowsAgree
  <2>4. LoginsApart'
    BY <2>1, <2>2 DEF RowsInv, LoginsApart, LoginOp
  <2> QED BY <2>3, <2>4 DEF RowsInv
<1>4. ASSUME NEW q \in pending, OpenSession(q) PROVE RowsInv'
  <2>1. /\ pending' = pending \ {q}
        /\ state' = [state EXCEPT ![q.session] = "active"]
        /\ chain' = [chain EXCEPT ![q.session] = 1]
        /\ revokedAt' = revokedAt
        /\ q.op \in LoginOp
    BY <1>4 DEF OpenSession, Settle, LoginOp
  <2>2. q.session \in Session /\ state[q.session] = "none"
    BY <2>1, RequestFacts DEF RowsInv, LoginsApart
  <2>3. \A s \in Session : state'[s] = IF s = q.session THEN "active"
                                                        ELSE state[s]
    BY <2>1, <2>2 DEF TypeOK
  <2>4. \A s \in Session : s # q.session => chain'[s] = chain[s]
    BY <2>1, <2>2 DEF TypeOK
  <2>5. RowsAgree'
    BY <2>1, <2>2, <2>3, <2>4 DEF RowsInv, RowsAgree
  <2>6. \A p \in pending : p.op \in LoginOp => p.session \in Session
    BY RequestFacts
  <2>7. LoginsApart'
    BY <2>1, <2>3, <2>6 DEF RowsInv, LoginsApart
  <2>8. \A p \in pending : p.op \in {"refresh", "logout"} => p.session \in Session
    BY RequestFacts
  <2>9. RequestsHaveSession'
    BY <2>1, <2>3, <2>8 DEF RowsInv, RequestsHaveSession
  <2> QED BY <2>5, <2>7, <2>9 DEF RowsInv
<1>5. ASSUME NEW q \in pending, Rotate(q) \/ LogoutAll(q) \/ Reset(q)
      PROVE  RowsInv'
  <2>1. /\ pending' = pending \ {q}
        /\ RevokeAll(q.at) \/ UNCHANGED <<state, revokedAt, events, lastAll>>
        /\ \A s \in Session : state[s] # "active" => chain'[s] = chain[s]
    BY <1>5, EndedRevokesAllOrNone
  <2>2. q.at \in Nat
    BY <1>5, RequestFacts DEF Rotate, LogoutAll, Reset
  <2>3. \A s \in Session : /\ state[s] = "none" <=> state'[s] = "none"
                           /\ state'[s] = "revoked" <=> revokedAt'[s] # Never
    BY <2>1, <2>2, RevokeAllRows DEF RowsInv, RowsAgree
  <2>4. \A p \in pending : p.op \in LoginOp \cup {"refresh", "logout"}
                             => p.session \in Session
    BY RequestFacts
  <2>5. LoginsApart' /\ RequestsHaveSession'
    BY <2>1, <2>3, <2>4 DEF RowsInv, LoginsApart, RequestsHaveSession
  <2>6. RowsAgree'
    BY <2>1, <2>3 DEF RowsInv, RowsAgree
  <2> QED BY <2>5, <2>6 DEF RowsInv
<1>6. ASSUME NEW q \in pending, Logout(q) PROVE RowsInv'
  <2>1. /\ pending' = pending \ {q}
        /\ state' = [state EXCEPT ![q.session] = "revoked"]
        /\ revokedAt' = [revokedAt EXCEPT
                           ![q.session] = IF @ = Never THEN q.at ELSE @]
        /\ chain' = chain
    BY <1>6 DEF Logout, Settle
  <2>2. q.session \in Session /\ q.at \in Nat /\ state[q.session] # "none"
    BY <1>6, RequestFacts DEF Logout, RowsInv, RequestsHaveSession
  <2>3. \A s \in Session : state'[s] = IF s = q.session THEN "revoked"
                                                        ELSE state[s]
    BY <2>1, <2>2 DEF TypeOK
  <2>4. \A s \in Session : revokedAt'[s] = IF s = q.session /\ revokedAt[s] = Never
                                           THEN q.at ELSE revokedAt[s]
    BY <2>1, <2>2 DEF TypeOK
  <2>5. q.at # Never
    BY <2>2 DEF Never
  <2>6. RowsAgree'
    BY <2>1, <2>2, <2>3, <2>4, <2>5 DEF RowsInv, RowsAgree
  <2>7. \A p \in pending : p.op \in LoginOp \cup {"refresh", "logout"}
                             => p.session \in Session
    BY RequestFacts
  <2>8. LoginsApart' /\ RequestsHaveSession'
    BY <2>1, <2>2, <2>3, <2>7 DEF RowsInv, LoginsApart, RequestsHaveSession
  <2> QED BY <2>6, <2>8 DEF RowsInv
<1> QED BY <1>1, <1>2, <1>3, <1>4, <1>5, <1>6 DEF Next, Aside, Asks

LEMMA RowsCorrect == Spec => []RowsInv
<1>1. Init => RowsInv
  BY DEF Init, RowsInv, LoginsApart, RequestsHaveSession, RowsAgree
<1> QED BY <1>1, RowsStep, TypeCorrect, PTL DEF Spec

\* A revoked session stays revoked at its time, and is rotated no more:
\* rotateRefreshToken reads revoked_at under the row lock, revokeSession
\* keeps it by COALESCE, a login's session id is new.
THEOREM RevokedForGoodHolds == Spec => RevokedForGood
<1> DEFINE Kept(s) == /\ state'[s] = "revoked"
                      /\ revokedAt'[s] = revokedAt[s]
                      /\ chain'[s] = chain[s]
<1>1. ASSUME TypeOK, RowsInv, [Next]_vars, NEW s \in Session,
             state[s] = "revoked"
      PROVE  Kept(s)
  <2> USE <1>1
  <2>1. CASE Aside
    BY <2>1, AsideKeepsRows
  <2>2. CASE Asks \/ \E q \in pending : Sign(q)
    BY <2>2 DEF Asks, AskLogoutAll, AskReset, VerifyPassword, AskRefresh,
                AskLogout, Ask, Sign, rows
  <2>3. ASSUME NEW q \in pending, OpenSession(q) PROVE Kept(s)
    <3>1. q.session \in Session /\ state[q.session] = "none"
      BY <2>3, RequestFacts DEF OpenSession, RowsInv, LoginsApart, LoginOp
    <3> QED BY <2>3, <3>1 DEF OpenSession, TypeOK
  <2>4. ASSUME NEW q \in pending, Rotate(q) \/ LogoutAll(q) \/ Reset(q)
        PROVE  Kept(s)
    <3>1. q.at \in Nat
      BY <2>4, RequestFacts DEF Rotate, LogoutAll, Reset
    <3> QED BY <2>4, <3>1, EndedRevokesAllOrNone, RevokeAllRows DEF RowsInv
  <2>5. ASSUME NEW q \in pending, Logout(q) PROVE Kept(s)
    <3>1. q.session \in Session
      BY <2>5, RequestFacts DEF Logout
    <3>2. revokedAt[s] # Never
      BY DEF RowsInv, RowsAgree
    <3> QED BY <2>5, <3>1, <3>2 DEF Logout, TypeOK
  <2> QED BY <2>1, <2>2, <2>3, <2>4, <2>5 DEF Next, Aside, Asks
<1>2. ASSUME TypeOK, RowsInv, [Next]_vars
      PROVE  [\A s \in Session : state[s] = "revoked" => Kept(s)]_vars
  BY <1>1, <1>2
<1> QED BY <1>2, TypeCorrect, RowsCorrect, PTL DEF Spec, RevokedForGood

-----------------------------------------------------------------------------
(***************************************************************************)
(* Links and passwords.                                                    *)
(***************************************************************************)

\* No link sets the password twice: each reset consumes every link sent so
\* far, under the lock on the user, and only an unused one is accepted.
THEOREM OneResetPerLinkHolds == Spec => []OneResetPerLink
<1>1. Init => OneResetPerLink
  BY DEF Init, OneResetPerLink
<1>2. ASSUME TypeOK, OneResetPerLink, [Next]_vars PROVE OneResetPerLink'
  <2> USE <1>2
  <2>1. CASE SendLink
    BY <2>1 DEF SendLink, OneResetPerLink, TypeOK
  <2>2. CASE LinkExpires
    BY <2>2 DEF LinkExpires, OneResetPerLink, TypeOK
  <2>3. ASSUME NEW q \in pending, Reset(q) PROVE OneResetPerLink'
    <3>1. CASE ValidLink(q)
      <4>1. /\ linkLive /\ ~linkLive'
            /\ password' = password + 1 /\ link' = link
        BY <2>3, <3>1 DEF Reset, ValidLink
      <4> QED BY <4>1 DEF OneResetPerLink, TypeOK
    <3>2. CASE ~ValidLink(q)
      BY <2>3, <3>2 DEF Reset, OneResetPerLink
    <3> QED BY <3>1, <3>2
  <2>4. CASE UNCHANGED reset
    BY <2>4 DEF reset, OneResetPerLink
  <2>5. CASE Tick \/ ExpireAccountKey \/ UNCHANGED vars \/ AskLogoutAll \/ AskReset
    BY <2>4, <2>5 DEF Tick, ExpireAccountKey, vars, AskLogoutAll, AskReset, Ask
  <2>6. ASSUME NEW s \in Session,
               \/ Expire(s) \/ ExpireSessionKey(s) \/ VerifyPassword(s)
               \/ AskRefresh(s) \/ AskLogout(s)
        PROVE  OneResetPerLink'
    BY <2>4, <2>6 DEF Expire, ExpireSessionKey, VerifyPassword, AskRefresh,
                      AskLogout, Ask
  <2>7. ASSUME NEW q \in pending,
               Sign(q) \/ OpenSession(q) \/ Rotate(q) \/ Logout(q) \/ LogoutAll(q)
        PROVE  OneResetPerLink'
    BY <2>4, <2>7 DEF Sign, OpenSession, Rotate, Logout, LogoutAll
  <2>8. CASE \/ \E r \in rotated : SignRotated(r)
             \/ \E e \in events : Deliver(e)
    BY <2>4, <2>8 DEF SignRotated, Deliver
  <2> QED BY <2>1, <2>2, <2>3, <2>5, <2>6, <2>7, <2>8 DEF Next
<1> QED BY <1>1, <1>2, TypeCorrect, PTL DEF Spec

\* A login on its way has verified the current password, or is one of those
\* that a reset found under way.
LoginsCurrent ==
  \A q \in pending : q.op \in LoginOp /\ q.session \notin late => q.n = password

PasswordInv == OldPasswordOut /\ LoginsCurrent

LEMMA PasswordStep ==
  ASSUME TypeOK, RowsInv, PasswordInv, [Next]_vars PROVE PasswordInv'
<1> USE DEF PasswordInv
<1>1. CASE UNCHANGED <<state, opened, late, password, pending>>
  BY <1>1 DEF OldPasswordOut, LoginsCurrent
<1>2. CASE Aside
  BY <1>1, <1>2 DEF Aside, Tick, SendLink, LinkExpires, ExpireAccountKey, Expire,
       ExpireSessionKey, SignRotated, Deliver, vars, clock, reset, rows, flight,
       keys, history
<1>3. CASE Asks
  <2>1. UNCHANGED <<state, opened, late, password>>
    BY <1>3 DEF Asks, AskLogoutAll, AskReset, VerifyPassword, AskRefresh,
                AskLogout, Ask, reset, rows, history
  <2>2. ASSUME NEW q, pending' = pending \cup {q},
               q.op \in LoginOp => q.n = password
        PROVE  PasswordInv'
    BY <2>1, <2>2 DEF OldPasswordOut, LoginsCurrent
  <2>3. CASE AskLogoutAll \/ AskReset
    BY <2>2, <2>3 DEF AskLogoutAll, AskReset, Ask, LoginOp
  <2>4. ASSUME NEW s \in Session,
               VerifyPassword(s) \/ AskRefresh(s) \/ AskLogout(s)
        PROVE  PasswordInv'
    BY <2>2, <2>4 DEF VerifyPassword, AskRefresh, AskLogout, Ask, LoginOp
  <2> QED BY <1>3, <2>3, <2>4 DEF Asks
<1>4. ASSUME NEW q \in pending, Sign(q) PROVE PasswordInv'
  <2> DEFINE new == [op |-> "signed", session |-> q.session, n |-> q.n,
                     at |-> now]
  <2>1. /\ pending' = (pending \ {q}) \cup {new}
        /\ UNCHANGED <<state, opened, late, password>>
        /\ q.op \in LoginOp
    BY <1>4 DEF Sign, reset, rows, history, LoginOp
  <2>2. new.n = q.n /\ new.session = q.session
    OBVIOUS
  <2> HIDE DEF new
  <2> QED BY <2>1, <2>2 DEF OldPasswordOut, LoginsCurrent
<1>5. ASSUME NEW q \in pending, OpenSession(q) PROVE PasswordInv'
  <2>1. /\ pending' = pending \ {q}
        /\ UNCHANGED <<late, password>>
        /\ q.op \in LoginOp
    BY <1>5 DEF OpenSession, Settle, reset, LoginOp
  <2>2. q.session \in Session
    BY <2>1, RequestFacts
  <2>3. \A s \in Session : \/ s = q.session /\ opened'[s] = q.n
                           \/ state'[s] = state[s] /\ opened'[s] = opened[s]
    BY <1>5, <2>2 DEF OpenSession, TypeOK
  <2> QED BY <2>1, <2>3 DEF OldPasswordOut, LoginsCurrent
<1>6. ASSUME NEW q \in pending, Reset(q), ValidLink(q) PROVE PasswordInv'
  <2>1. /\ pending' \subseteq pending
        /\ RevokeAll(q.at)
        /\ late' = late \cup {p.session : p \in
                     {r \in pending : r.op \in {"verified", "signed"}}}
    BY <1>6 DEF Reset, Settle
  <2>2. q.at \in Nat
    BY <1>6, RequestFacts DEF Reset
  <2>3. OldPasswordOut'
    BY <2>1, <2>2, RevokeAllRows DEF OldPasswordOut, RowsInv, TypeOK
  <2>4. LoginsCurrent'
    BY <2>1 DEF LoginsCurrent, LoginOp
  <2> QED BY <2>3, <2>4
<1>7. ASSUME NEW q \in pending,
             \/ Rotate(q) \/ LogoutAll(q) \/ Logout(q)
             \/ Reset(q) /\ ~ValidLink(q)
      PROVE  PasswordInv'
  <2>1. pending' \subseteq pending /\ UNCHANGED <<opened, late, password>>
    BY <1>7 DEF Rotate, LogoutAll, Logout, Reset, Settle, reset, history
  <2>2. q.at \in Nat
    BY <1>7, RequestFacts DEF Rotate, LogoutAll, Logout, Reset
  <2>3. ASSUME NEW s \in Session, state'[s] = "active"
        PROVE  state[s] = "active"
    <3>1. CASE Logout(q)
      BY <2>3, <3>1 DEF Logout, TypeOK
    <3>2. CASE Rotate(q) \/ LogoutAll(q) \/ Reset(q)
      BY <2>2, <2>3, <3>2, EndedRevokesAllOrNone, RevokeAllRows DEF RowsInv
    <3> QED BY <1>7, <3>1, <3>2
  <2> QED BY <2>1, <2>3 DEF OldPasswordOut, LoginsCurrent
<1> QED BY <1>2, <1>3, <1>4, <1>5, <1>6, <1>7 DEF Next, Aside, Asks

\* A password reset shuts out whoever knew the old password only, but for
\* the logins under way when it commits.
THEOREM OldPasswordOutHolds == Spec => []OldPasswordOut
<1>1. Init => PasswordInv
  BY DEF Init, PasswordInv, OldPasswordOut, LoginsCurrent
<1>2. PasswordInv => OldPasswordOut
  BY DEF PasswordInv
<1> QED BY <1>1, <1>2, PasswordStep, TypeCorrect, RowsCorrect, PTL DEF Spec

-----------------------------------------------------------------------------
(***************************************************************************)
(* Events and keys.  An event, and the key written from it, tells of a     *)
(* revocation that has taken place, with its time.                         *)
(***************************************************************************)
SessionEventsTrue ==
  \A e \in events : e.session \in Session =>
     state[e.session] = "revoked" /\ e.at = revokedAt[e.session]

AccountEventsTrue == \A e \in events : e.session = All => e.at <= lastAll

SessionKeysTrue ==
  \A s \in Session : sessionKey[s] # Never =>
     state[s] = "revoked" /\ sessionKey[s] = Second(revokedAt[s])

AccountKeyTrue ==
  accountKey # Never => lastAll # Never /\ accountKey <= Second(lastAll)

EventsInv ==
  SessionEventsTrue /\ AccountEventsTrue /\ SessionKeysTrue /\ AccountKeyTrue

\* The steps of the account that insert no event.
Silent ==
  \/ Tick \/ SendLink \/ LinkExpires \/ Asks
  \/ \E s \in Session : Expire(s)
  \/ \E q \in pending : Sign(q)
  \/ \E r \in rotated : SignRotated(r)
  \/ UNCHANGED vars

LEMMA SilentKeeps ==
  ASSUME Silent
  PROVE  UNCHANGED <<state, revokedAt, events, lastAll, sessionKey, accountKey,
                     lowered>>
  BY DEF Silent, Asks, AskLogoutAll, AskReset, VerifyPassword, AskRefresh,
         AskLogout, Ask, Tick, SendLink, LinkExpires, Expire, Sign, SignRotated,
         vars, clock, reset, rows, flight, keys, history

\* A revocation of every session changes only what is not told yet.
LEMMA RevokeAllEvents ==
  ASSUME TypeOK, RowsInv, EventsInv, NEW at \in Nat, RevokeAll(at),
         UNCHANGED keys
  PROVE  EventsInv'
<1>1. \A s \in Session : state[s] = "revoked" =>
        state'[s] = "revoked" /\ revokedAt'[s] = revokedAt[s]
  BY RevokeAllRows DEF RowsInv
<1>2. /\ lastAll \in Stamp /\ lastAll' \in Stamp
      /\ lastAll <= lastAll'
      /\ events' # events => at <= lastAll'
  BY RevokeAllType DEF RevokeAll, TypeOK, Stamp, Never
<1>3. events' \subseteq events \cup {[session |-> All, at |-> at]}
  BY DEF RevokeAll
<1>4. \A e \in events : e.at \in Nat
  BY DEF TypeOK, Event
<1>5. SessionEventsTrue'
  BY <1>1, <1>3, SessionsAssumption DEF EventsInv, SessionEventsTrue
<1>6. AccountEventsTrue'
  BY <1>2, <1>3, <1>4 DEF EventsInv, AccountEventsTrue, Stamp, Never
<1>7. SessionKeysTrue'
  BY <1>1 DEF EventsInv, SessionKeysTrue, keys
<1>8. AccountKeyTrue'
  <2>1. CASE accountKey = Never
    BY <2>1 DEF AccountKeyTrue, keys
  <2>2. CASE accountKey # Never
    <3>1. /\ lastAll \in Nat /\ lastAll' \in Nat
          /\ accountKey \in Nat /\ accountKey <= Second(lastAll)
      BY <1>2, <2>2 DEF EventsInv, AccountKeyTrue, TypeOK, Stamp, Never
    <3>2. /\ Second(lastAll) \in Nat /\ Second(lastAll') \in Nat
          /\ Second(lastAll) <= Second(lastAll')
      BY <1>2, <3>1, SecondType, SecondMonotone
    <3> QED BY <3>1, <3>2 DEF AccountKeyTrue, keys, Never
  <2> QED BY <2>1, <2>2
<1> QED BY <1>5, <1>6, <1>7, <1>8 DEF EventsInv

LEMMA EventsStep ==
  ASSUME TypeOK, RowsInv, EventsInv, [Next]_vars PROVE EventsInv'
<1>1. CASE Silent
  <2>1. UNCHANGED <<state, revokedAt, events, lastAll, sessionKey, accountKey>>
    BY <1>1, SilentKeeps
  <2> QED BY <2>1 DEF EventsInv, SessionEventsTrue, AccountEventsTrue,
                      SessionKeysTrue, AccountKeyTrue
<1>2. ASSUME NEW q \in pending, OpenSession(q) PROVE EventsInv'
  <2>1. q.session \in Session /\ state[q.session] = "none"
    BY <1>2, RequestFacts DEF OpenSession, RowsInv, LoginsApart, LoginOp
  <2>2. \A s \in Session : state[s] = "revoked" => state'[s] = "revoked"
    BY <1>2, <2>1 DEF OpenSession, TypeOK
  <2>3. UNCHANGED <<revokedAt, events, lastAll, sessionKey, accountKey>>
    BY <1>2 DEF OpenSession, keys
  <2> QED BY <2>2, <2>3 DEF EventsInv, SessionEventsTrue, AccountEventsTrue,
                            SessionKeysTrue, AccountKeyTrue
<1>3. ASSUME NEW q \in pending, Rotate(q) \/ LogoutAll(q) \/ Reset(q)
      PROVE  EventsInv'
  <2>1. q.at \in Nat /\ UNCHANGED keys
    BY <1>3, RequestFacts DEF Rotate, LogoutAll, Reset
  <2>2. CASE RevokeAll(q.at)
    BY <2>1, <2>2, RevokeAllEvents
  <2>3. CASE UNCHANGED <<state, revokedAt, events, lastAll>>
    BY <2>1, <2>3 DEF EventsInv, SessionEventsTrue, AccountEventsTrue,
                      SessionKeysTrue, AccountKeyTrue, keys
  <2> QED BY <1>3, <2>2, <2>3, EndedRevokesAllOrNone
<1>4. ASSUME NEW q \in pending, Logout(q) PROVE EventsInv'
  <2>1. /\ state' = [state EXCEPT ![q.session] = "revoked"]
        /\ revokedAt' = [revokedAt EXCEPT
                           ![q.session] = IF @ = Never THEN q.at ELSE @]
        /\ events' = events \cup {[session |-> q.session,
                                   at |-> revokedAt'[q.session]]}
        /\ UNCHANGED <<lastAll, sessionKey, accountKey>>
    BY <1>4 DEF Logout, keys
  <2>2. q.session \in Session /\ q.session # All
    BY <1>4, RequestFacts, SessionsAssumption DEF Logout
  <2>3. state'[q.session] = "revoked"
    BY <2>1, <2>2 DEF TypeOK
  <2>4. \A s \in Session : state[s] = "revoked" =>
          state'[s] = "revoked" /\ revokedAt'[s] = revokedAt[s]
    BY <2>1, <2>2 DEF TypeOK, RowsInv, RowsAgree
  <2> HIDE DEF RowsInv
  <2>5. SessionEventsTrue' /\ AccountEventsTrue'
    BY <2>1, <2>2, <2>3, <2>4 DEF EventsInv, SessionEventsTrue,
                                  AccountEventsTrue
  <2>6. SessionKeysTrue' /\ AccountKeyTrue'
    BY <2>1, <2>4 DEF EventsInv, SessionKeysTrue, AccountKeyTrue
  <2> QED BY <2>5, <2>6 DEF EventsInv
<1>5. ASSUME NEW e \in events, Deliver(e) PROVE EventsInv'
  <2>1. /\ events' \subseteq events
        /\ UNCHANGED <<state, revokedAt, lastAll>>
    BY <1>5 DEF Deliver, rows
  <2>2. SessionEventsTrue' /\ AccountEventsTrue'
    BY <2>1 DEF EventsInv, SessionEventsTrue, AccountEventsTrue
  <2>3. CASE e.session = All
    <3>1. /\ accountKey' = Second(e.at) /\ UNCHANGED sessionKey
          /\ e.at \in Nat /\ e.at <= lastAll
      BY <1>5, <2>3 DEF Deliver, Cache, EventsInv, AccountEventsTrue, TypeOK,
                        Event
    <3>2. lastAll \in Nat
      BY <3>1 DEF TypeOK, Stamp, Never
    <3>3. AccountKeyTrue'
      BY <2>1, <3>1, <3>2, SecondMonotone DEF AccountKeyTrue, Never
    <3>4. SessionKeysTrue'
      BY <2>1, <3>1 DEF EventsInv, SessionKeysTrue
    <3> QED BY <2>2, <3>3, <3>4 DEF EventsInv
  <2>4. CASE e.session # All
    <3>1. e.session \in Session
      BY <2>4 DEF TypeOK, Event
    <3>2. /\ sessionKey' = [sessionKey EXCEPT ![e.session] = Second(e.at)]
          /\ UNCHANGED accountKey
      BY <1>5, <2>4 DEF Deliver, Cache
    <3>3. state[e.session] = "revoked" /\ e.at = revokedAt[e.session]
      BY <3>1 DEF EventsInv, SessionEventsTrue
    <3>4. SessionKeysTrue'
      BY <2>1, <3>1, <3>2, <3>3 DEF EventsInv, SessionKeysTrue, TypeOK
    <3>5. AccountKeyTrue'
      BY <2>1, <3>2 DEF EventsInv, AccountKeyTrue
    <3> QED BY <2>2, <3>4, <3>5 DEF EventsInv
  <2> QED BY <2>3, <2>4
<1>6. ASSUME NEW s \in Session, ExpireSessionKey(s) PROVE EventsInv'
  <2>1. /\ sessionKey' = [sessionKey EXCEPT ![s] = Never]
        /\ UNCHANGED <<state, revokedAt, events, lastAll, accountKey>>
    BY <1>6 DEF ExpireSessionKey, rows
  <2> QED BY <2>1 DEF EventsInv, SessionEventsTrue, AccountEventsTrue,
                      SessionKeysTrue, AccountKeyTrue, TypeOK
<1>7. CASE ExpireAccountKey
  <2>1. /\ accountKey' = Never
        /\ UNCHANGED <<state, revokedAt, events, lastAll, sessionKey>>
    BY <1>7 DEF ExpireAccountKey, rows
  <2> QED BY <2>1 DEF EventsInv, SessionEventsTrue, AccountEventsTrue,
                      SessionKeysTrue, AccountKeyTrue
<1> QED BY <1>1, <1>2, <1>3, <1>4, <1>5, <1>6, <1>7 DEF Next, Silent, Asks

LEMMA EventsCorrect == Spec => []EventsInv
<1>1. Init => EventsInv
  BY DEF Init, EventsInv, SessionEventsTrue, AccountEventsTrue, SessionKeysTrue,
         AccountKeyTrue
<1> QED BY <1>1, EventsStep, TypeCorrect, RowsCorrect, PTL DEF Spec

\* Gateway refuses no living token of an active session unless it was issued
\* up to the second of the latest account-wide revocation.
THEOREM ActiveAcceptedHolds == Spec => []ActiveAccepted
<1>1. ASSUME TypeOK, EventsInv PROVE ActiveAccepted
  <2>1. SUFFICES ASSUME NEW t \in tokens, state[t.session] = "active",
                        Second(lastAll) < t.iat
                 PROVE  ~Revoked(t)
    BY DEF ActiveAccepted, Accepted
  <2>2. t.session \in Session /\ t.iat \in Nat
    BY <1>1 DEF TypeOK, Token
  <2>3. sessionKey[t.session] = Never
    BY <1>1, <2>1, <2>2 DEF EventsInv, SessionKeysTrue
  <2>4. ASSUME accountKey # Never PROVE ~(t.iat <= accountKey)
    <3>1. /\ accountKey \in Nat /\ lastAll \in Nat
          /\ accountKey <= Second(lastAll)
      BY <1>1, <2>4 DEF TypeOK, EventsInv, AccountKeyTrue, Stamp, Never
    <3> QED BY <2>1, <2>2, <3>1, SecondType
  <2> QED BY <2>3, <2>4 DEF Revoked
<1> QED BY <1>1, TypeCorrect, EventsCorrect, PTL

-----------------------------------------------------------------------------
(***************************************************************************)
(* A revocation that Gateway has been told of is known from a key until    *)
(* the key may expire, as long as no account-wide event has come late.     *)
(***************************************************************************)
Lapsed(s) == Second(now) >= Second(revokedAt[s]) + Ttl

KeyHolds(s) ==
  \/ sessionKey[s] = Second(revokedAt[s])
  \/ accountKey # Never /\ accountKey >= Second(revokedAt[s])

Covered(s) == ~Told(s) \/ KeyHolds(s) \/ Lapsed(s)

RevokedCovered ==
  ~lowered => \A s \in Session : state[s] = "revoked" => Covered(s)

\* An event that Gateway has not handled stays for it to handle.
LEMMA NotToldStays ==
  ASSUME NEW s \in Session, ~Told(s), events \subseteq events',
         revokedAt'[s] = revokedAt[s]
  PROVE  ~Told(s)'
  BY DEF Told

\* The steps that insert an event.
LEMMA RevokingKeepsCovered ==
  ASSUME TypeOK, TypeOK', RowsInv, RevokedCovered,
         events \subseteq events', UNCHANGED <<now, keys>>,
         \A s \in Session : state'[s] = "revoked" =>
            \/ state[s] = "revoked" /\ revokedAt'[s] = revokedAt[s]
            \/ \E e \in events' : /\ e.session = s \/ e.session = All
                                  /\ e.at = revokedAt'[s]
  PROVE  RevokedCovered'
<1> SUFFICES ASSUME ~lowered, NEW s \in Session, state'[s] = "revoked"
             PROVE  Covered(s)'
  BY DEF RevokedCovered, keys
<1>1. CASE state[s] = "revoked" /\ revokedAt'[s] = revokedAt[s]
  <2>1. CASE ~Told(s)
    BY <1>1, <2>1, NotToldStays DEF Covered
  <2>2. CASE KeyHolds(s) \/ Lapsed(s)
    BY <1>1, <2>2 DEF Covered, KeyHolds, Lapsed, keys
  <2> QED BY <1>1, <2>1, <2>2 DEF RevokedCovered, Covered
<1>2. ASSUME NEW e \in events', e.session = s \/ e.session = All,
             e.at = revokedAt'[s]
      PROVE  Covered(s)'
  <2>1. e \in [session : {s, All}, at : {revokedAt'[s]}]
    BY <1>2 DEF TypeOK, Event
  <2> QED BY <2>1 DEF Covered, Told
<1> QED BY <1>1, <1>2

LEMMA CoveredStep ==
  ASSUME TypeOK, TypeOK', RowsInv, EventsInv, RevokedCovered, [Next]_vars
  PROVE  RevokedCovered'
<1>1. CASE Silent
  <2>1. UNCHANGED <<state, revokedAt, events, sessionKey, accountKey, lowered>>
    BY <1>1, SilentKeeps
  <2>2. now \in Nat /\ now' \in Nat /\ now <= now'
    BY <1>1 DEF Silent, Asks, AskLogoutAll, AskReset, VerifyPassword, AskRefresh,
         AskLogout, Ask, Tick, SendLink, LinkExpires, Expire, Sign, SignRotated,
         vars, clock, TypeOK
  <2>3. Second(now) <= Second(now') /\ Second(now) \in Nat /\ Second(now') \in Nat
    BY <2>2, SecondMonotone, SecondType
  <2>4. ASSUME NEW s \in Session, state[s] = "revoked", Lapsed(s)
        PROVE  Lapsed(s)'
    <3>1. revokedAt[s] \in Nat
      BY <2>4 DEF RowsInv, RowsAgree, TypeOK, Stamp
    <3>2. Second(revokedAt[s]) \in Nat /\ Ttl \in Nat
      BY <3>1, SecondType, SessionsAssumption
    <3>3. Second(now') >= Second(revokedAt[s]) + Ttl
      BY <2>3, <2>4, <3>2 DEF Lapsed
    <3> QED BY <2>1, <3>3 DEF Lapsed, Second
  <2>5. ASSUME NEW s \in Session
        PROVE  (Told(s)' <=> Told(s)) /\ (KeyHolds(s)' <=> KeyHolds(s))
    BY <2>1 DEF Told, KeyHolds, Second
  <2> QED BY <2>1, <2>4, <2>5 DEF RevokedCovered, Covered
<1>2. ASSUME NEW q \in pending, OpenSession(q) PROVE RevokedCovered'
  <2>1. q.session \in Session
    BY <1>2, RequestFacts DEF OpenSession, LoginOp
  <2>2. \A s \in Session : state'[s] = "revoked" => state[s] = "revoked"
    BY <1>2, <2>1 DEF OpenSession, TypeOK
  <2>3. UNCHANGED <<revokedAt, events, now, keys>>
    BY <1>2 DEF OpenSession, clock
  <2> QED BY <2>2, <2>3, RevokingKeepsCovered
<1>3. ASSUME NEW q \in pending, Rotate(q) \/ LogoutAll(q) \/ Reset(q)
      PROVE  RevokedCovered'
  <2>1. q.at \in Nat /\ UNCHANGED <<now, keys>>
    BY <1>3, RequestFacts DEF Rotate, LogoutAll, Reset, clock
  <2>2. CASE RevokeAll(q.at)
    <3>1. events \subseteq events'
      BY <2>2 DEF RevokeAll
    <3>2. ASSUME NEW s \in Session, state'[s] = "revoked"
          PROVE  \/ state[s] = "revoked" /\ revokedAt'[s] = revokedAt[s]
                 \/ \E e \in events' : /\ e.session = s \/ e.session = All
                                       /\ e.at = revokedAt'[s]
      <4>1. CASE state[s] = "active"
        <5>1. revokedAt'[s] = q.at
          BY <2>1, <2>2, <4>1, RevokeAllRows DEF RowsInv
        <5>2. [session |-> All, at |-> q.at] \in events'
          BY <2>2, <4>1 DEF RevokeAll, Active
        <5> QED BY <5>1, <5>2
      <4>2. CASE state[s] # "active"
        BY <2>1, <2>2, <3>2, <4>2, RevokeAllRows DEF RowsInv, TypeOK
      <4> QED BY <4>1, <4>2
    <3> QED BY <2>1, <3>1, <3>2, RevokingKeepsCovered
  <2>3. CASE UNCHANGED <<state, revokedAt, events, lastAll>>
    BY <2>1, <2>3, RevokingKeepsCovered
  <2> QED BY <1>3, <2>2, <2>3, EndedRevokesAllOrNone
<1>4. ASSUME NEW q \in pending, Logout(q) PROVE RevokedCovered'
  <2>1. /\ state' = [state EXCEPT ![q.session] = "revoked"]
        /\ revokedAt' = [revokedAt EXCEPT
                           ![q.session] = IF @ = Never THEN q.at ELSE @]
        /\ events' = events \cup {[session |-> q.session,
                                   at |-> revokedAt'[q.session]]}
        /\ UNCHANGED <<now, keys>>
    BY <1>4 DEF Logout, clock
  <2>2. q.session \in Session
    BY <1>4, RequestFacts DEF Logout
  <2>3. \A s \in Session : s # q.session =>
          state'[s] = state[s] /\ revokedAt'[s] = revokedAt[s]
    BY <2>1, <2>2 DEF TypeOK
  <2>4. \E e \in events' : e.session = q.session /\ e.at = revokedAt'[q.session]
    <3> DEFINE e == [session |-> q.session, at |-> revokedAt'[q.session]]
    <3>1. events' = events \cup {e}
      BY <1>4 DEF Logout
    <3>2. e.session = q.session /\ e.at = revokedAt'[q.session]
      OBVIOUS
    <3> HIDE DEF e
    <3> QED BY <3>1, <3>2
  <2> QED BY <2>1, <2>3, <2>4, RevokingKeepsCovered
<1>5. ASSUME NEW e \in events, Deliver(e) PROVE RevokedCovered'
  <2>1. /\ events \ {e} \subseteq events'
        /\ UNCHANGED <<state, revokedAt, now>>
    BY <1>5 DEF Deliver, rows
  <2>2. SUFFICES ASSUME ~lowered', NEW s \in Session, state[s] = "revoked"
                 PROVE  Covered(s)'
    BY <2>1 DEF RevokedCovered
  <2>3. ~lowered
    BY <1>5, <2>2 DEF Deliver, Cache
  <2>4. revokedAt[s] \in Nat /\ Second(revokedAt[s]) \in Nat
    BY <2>2, SecondType DEF RowsInv, RowsAgree, TypeOK, Stamp
  <2>5. e.at \in Nat /\ Second(e.at) \in Nat
    BY SecondType DEF TypeOK, Event
  <2>6. CASE Lapsed(s)
    BY <2>1, <2>6 DEF Covered, Lapsed, Second
  <2>7. CASE e.session = s
    <3>1. e.at = revokedAt[s] /\ e.session # All
      BY <2>7, SessionsAssumption DEF EventsInv, SessionEventsTrue
    <3>2. sessionKey'[s] = Second(e.at)
      BY <1>5, <2>7, <3>1 DEF Deliver, Cache, TypeOK
    <3> QED BY <2>1, <3>1, <3>2 DEF Covered, KeyHolds, Second
  <2>8. CASE e.session = All /\ e.at = revokedAt[s]
    <3>1. accountKey' = Second(e.at)
      BY <1>5, <2>8 DEF Deliver, Cache
    <3> QED BY <2>1, <2>5, <2>8, <3>1 DEF Covered, KeyHolds, Second, Never
  <2>9. CASE /\ e.session # s
             /\ ~(e.session = All /\ e.at = revokedAt[s])
             /\ ~Told(s)
    <3>1. PICK f \in events : f \in [session : {s, All}, at : {revokedAt[s]}]
      BY <2>9 DEF Told
    <3>2. f # e
      BY <2>9, <3>1
    <3> QED BY <2>1, <3>1, <3>2 DEF Covered, Told
  <2>10. CASE e.session # s /\ KeyHolds(s)
    <3>1. CASE e.session = All
      <4>1. /\ accountKey' = Second(e.at) /\ UNCHANGED sessionKey
            /\ ~(Second(e.at) < accountKey)
        BY <1>5, <2>2, <3>1 DEF Deliver, Cache
      <4>2. CASE sessionKey[s] = Second(revokedAt[s])
        BY <2>1, <4>1, <4>2 DEF Covered, KeyHolds, Second
      <4>3. CASE accountKey # Never /\ accountKey >= Second(revokedAt[s])
        <5>1. accountKey \in Nat
          BY <4>3 DEF TypeOK, Stamp
        <5>2. accountKey' # Never /\ accountKey' >= Second(revokedAt[s])
          BY <2>4, <2>5, <4>1, <4>3, <5>1 DEF Never
        <5> QED BY <2>1, <5>2 DEF Covered, KeyHolds, Second
      <4> QED BY <2>10, <4>2, <4>3 DEF KeyHolds
    <3>2. CASE e.session # All
      <4>1. UNCHANGED accountKey /\ sessionKey'[s] = sessionKey[s]
        BY <1>5, <2>10, <3>2 DEF Deliver, Cache, TypeOK
      <4> QED BY <2>1, <2>10, <4>1 DEF Covered, KeyHolds, Second
    <3> QED BY <3>1, <3>2
  <2>11. Covered(s)
    BY <2>2, <2>3 DEF RevokedCovered
  <2> QED BY <2>6, <2>7, <2>8, <2>9, <2>10, <2>11 DEF Covered
<1>6. ASSUME NEW k \in Session, ExpireSessionKey(k) PROVE RevokedCovered'
  <2>1. /\ sessionKey' = [sessionKey EXCEPT ![k] = Never]
        /\ Second(now) >= sessionKey[k] + Ttl
        /\ UNCHANGED <<state, revokedAt, events, now, accountKey, lowered>>
    BY <1>6 DEF ExpireSessionKey, rows, clock
  <2>2. ASSUME NEW s \in Session, Covered(s) PROVE Covered(s)'
    <3>1. CASE s # k
      <4>1. sessionKey'[s] = sessionKey[s]
        BY <2>1, <3>1 DEF TypeOK
      <4> QED BY <2>1, <2>2, <4>1 DEF Covered, Told, KeyHolds, Lapsed, Second
    <3>2. CASE s = k /\ sessionKey[s] = Second(revokedAt[s])
      BY <2>1, <3>2 DEF Covered, Lapsed, Second
    <3>3. CASE ~(sessionKey[s] = Second(revokedAt[s]))
      BY <2>1, <2>2, <3>3 DEF Covered, Told, KeyHolds, Lapsed, Second
    <3> QED BY <3>1, <3>2, <3>3
  <2> QED BY <2>1, <2>2 DEF RevokedCovered
<1>7. CASE ExpireAccountKey
  <2>1. /\ Second(now) >= accountKey + Ttl /\ accountKey \in Nat
        /\ UNCHANGED <<state, revokedAt, events, now, sessionKey, lowered>>
    BY <1>7 DEF ExpireAccountKey, rows, clock, TypeOK, Stamp
  <2>2. ASSUME NEW s \in Session, state[s] = "revoked", Covered(s)
        PROVE  Covered(s)'
    <3>1. revokedAt[s] \in Nat
      BY <2>2 DEF RowsInv, RowsAgree, TypeOK, Stamp
    <3>2. /\ Second(revokedAt[s]) \in Nat /\ Second(now) \in Nat
          /\ Ttl \in Nat
      BY <3>1, SecondType, SessionsAssumption DEF TypeOK
    <3>3. CASE accountKey >= Second(revokedAt[s])
      <4>1. Second(now) >= Second(revokedAt[s]) + Ttl
        BY <2>1, <3>2, <3>3
      <4> QED BY <2>1, <4>1 DEF Covered, Lapsed, Second
    <3>4. CASE ~(accountKey >= Second(revokedAt[s]))
      BY <2>1, <2>2, <3>4 DEF Covered, Told, KeyHolds, Lapsed, Second
    <3> QED BY <3>3, <3>4
  <2> QED BY <2>1, <2>2 DEF RevokedCovered
<1> QED BY <1>1, <1>2, <1>3, <1>4, <1>5, <1>6, <1>7 DEF Next, Silent, Asks

\* Once Gateway has been told of a revocation it refuses the tokens issued up
\* to it, until the keys may expire, if no account-wide event came late.
THEOREM RevokedRefusedHolds == Spec => []RevokedRefused
<1>1. Init => RevokedCovered
  BY DEF Init, RevokedCovered
<1>2. ASSUME TypeOK, RowsInv, RevokedCovered PROVE RevokedRefused
  <2>1. SUFFICES ASSUME ~lowered, NEW t \in tokens,
                        state[t.session] = "revoked", Told(t.session),
                        t.iat <= Second(revokedAt[t.session]),
                        Second(now) < Second(revokedAt[t.session]) + Ttl
                 PROVE  Revoked(t)
    BY DEF RevokedRefused, Accepted
  <2>2. t.session \in Session /\ t.iat \in Nat
    BY <1>2 DEF TypeOK, Token
  <2>3. revokedAt[t.session] \in Nat
    BY <1>2, <2>1, <2>2 DEF RowsInv, RowsAgree, TypeOK, Stamp
  <2>4. /\ Second(revokedAt[t.session]) \in Nat /\ Second(now) \in Nat
        /\ Ttl \in Nat
    BY <1>2, <2>3, SecondType, SessionsAssumption DEF TypeOK
  <2>5. KeyHolds(t.session)
    BY <1>2, <2>1, <2>2, <2>4 DEF RevokedCovered, Covered, Lapsed
  <2>6. CASE sessionKey[t.session] = Second(revokedAt[t.session])
    BY <2>4, <2>6 DEF Revoked, Never
  <2>7. CASE accountKey # Never /\ accountKey >= Second(revokedAt[t.session])
    <3>1. accountKey \in Nat
      BY <1>2, <2>7 DEF TypeOK, Stamp
    <3> QED BY <2>1, <2>2, <2>4, <2>7, <3>1 DEF Revoked
  <2> QED BY <2>5, <2>6, <2>7 DEF KeyHolds
<1>3. TypeOK /\ TypeOK' /\ RowsInv /\ EventsInv /\ RevokedCovered /\ [Next]_vars
        => RevokedCovered'
  BY CoveredStep
<1> QED BY <1>1, <1>2, <1>3, TypeCorrect, RowsCorrect, EventsCorrect, PTL DEF Spec
=============================================================================
