----------------------------- MODULE GatewayProofs -----------------------------
(***************************************************************************)
(* Proofs about Gateway, for any requests, limits, windows, lifetimes and   *)
(* differences between the clocks.                                         *)
(***************************************************************************)
EXTENDS Gateway, TLAPS

(***************************************************************************)
(* Ticks and seconds.                                                      *)
(***************************************************************************)
LEMMA SecondsFacts ==
  ASSUME NEW t \in Int
  PROVE  /\ Seconds(t) \in Int
         /\ Second * Seconds(t) <= t
         /\ t < Second * Seconds(t) + Second
  BY GatewayAssumption DEF Seconds

LEMMA SecondTimes ==
  ASSUME NEW a \in Int, NEW b \in Int
  PROVE  /\ Second * a \in Int
         /\ Second * (a + b) = Second * a + Second * b
         /\ a <= b => Second * a <= Second * b
<1>1. Second \in Nat
  BY GatewayAssumption
<1>2. Second * (a + b) = Second * a + Second * b
  BY <1>1
<1>3. a <= b => Second * a <= Second * b
  BY <1>1
<1> QED BY <1>1, <1>2, <1>3

LEMMA SecondNat == ASSUME NEW n \in Nat PROVE Second * n \in Nat
  BY GatewayAssumption

\* The seconds a refused caller is told to wait are no shorter than the ticks
\* that are left of the window.
LEMMA ResetCovers ==
  ASSUME NEW ticks \in Int
  PROVE  /\ ResetAfterSeconds(ticks) \in Nat
         /\ ticks <= Second * ResetAfterSeconds(ticks)
<1> DEFINE up == (ticks + Second - 1) \div Second
<1>0. Second \in Nat \ {0}
  BY GatewayAssumption
<1>1. up \in Int /\ ticks + Second - 1 < Second * up + Second
  BY <1>0
<1>2. ResetAfterSeconds(ticks) = IF up < 1 THEN 1 ELSE up
  BY DEF ResetAfterSeconds
<1> HIDE DEF up
<1>3. Second * up \in Int
  BY <1>0, <1>1
<1>4. ticks <= Second * up
  BY <1>0, <1>1, <1>3
<1>5. CASE up < 1
  <2>1. Second * up <= Second * 1
    BY <1>0, <1>1, <1>5, SecondTimes
  <2> QED BY <1>0, <1>2, <1>3, <1>4, <1>5, <2>1
<1>6. CASE ~(up < 1)
  BY <1>1, <1>2, <1>4, <1>6
<1> QED BY <1>5, <1>6

(***************************************************************************)
(* Todo Service's look at an identity and Account Service's: the two say    *)
(* the same of every identity (verifyIdentityMetadata,                      *)
(* validateIdentityMetadata), although one is written as what is required   *)
(* and the other as what is refused.                                       *)
(***************************************************************************)
THEOREM VerifiersAgree ==
  \A issued, t \in Int :
    VerifyIdentityMetadata(issued, t) <=> ValidateIdentityMetadata(issued, t)
  BY GatewayAssumption
  DEF VerifyIdentityMetadata, ValidateIdentityMetadata, VerifyIssuedAt,
      VerifyExpiry, VerifyIdentityLifetime

(***************************************************************************)
(* Types.                                                                  *)
(***************************************************************************)
RequestRecord ==
  [at : Position, answer : Verdict, counted : SUBSET Policy, by : Policy,
   key : Nat, retry : Nat, sent : Nat, seen : Nat]

LEMMA OverType ==
  ASSUME NEW verdict \in Verdict
  PROVE  /\ Over(verdict) \in RequestRecord
         /\ Over(verdict).at = "away" /\ Over(verdict).answer = verdict
  BY DEF Over, Fresh, RequestRecord, Position, Verdict, Policy

LEMMA IncrementedType ==
  ASSUME GatewayTypeOK, NEW p \in Policy
  PROVE  /\ Incremented(p) \in [count : Nat, ends : Nat]
         /\ Incremented(p).count > 0
         /\ Incremented(p).count = 1 \/
              (/\ Live(p) /\ Incremented(p).count = key[p].count + 1
               /\ Incremented(p).ends = key[p].ends)
<1>1. /\ now \in Nat /\ Window \in Nat /\ key[p] \in [count : Nat, ends : Nat]
  BY GatewayAssumption DEF GatewayTypeOK
<1>2. CASE Live(p)
  BY <1>1, <1>2 DEF Incremented, Live
<1>3. CASE ~Live(p)
  BY <1>1, <1>3 DEF Incremented
<1> QED BY <1>2, <1>3

LEMMA PassedType ==
  ASSUME GatewayTypeOK, NEW r \in Request, NEW p \in Policy
  PROVE  /\ Passed(r, p) \in RequestRecord
         /\ Passed(r, p).at \in {"authentication", "call"}
         /\ Passed(r, p).answer = request[r].answer
         /\ Passed(r, p).counted = request[r].counted
         /\ Passed(r, p).key = request[r].key /\ Passed(r, p).by = request[r].by
         /\ Passed(r, p).retry = request[r].retry
         /\ Passed(r, p).sent = request[r].sent
         /\ r \in AuthRequest /\ p = "general" => Passed(r, p).at = "authentication"
<1>1. request[r] \in RequestRecord
  BY DEF GatewayTypeOK, RequestRecord
<1> QED BY <1>1 DEF Passed, RequestRecord, Position

LEMMA ConsumeType ==
  ASSUME GatewayTypeOK, NEW r \in Request, NEW p \in Policy,
         Consume(r, p) \/ ConsumeFails(r, p)
  PROVE  GatewayTypeOK'
<1>0. /\ now \in Nat /\ request \in [Request -> RequestRecord]
      /\ Window \in Nat /\ faults \in 0..MaxFaults /\ MaxFaults \in Nat
      /\ key \in [Policy -> [count : Nat, ends : Nat]]
      /\ window \in [Policy -> Nat] /\ through \in [Policy -> Nat]
  BY GatewayAssumption DEF GatewayTypeOK, RequestRecord
<1>1. Incremented(p) \in [count : Nat, ends : Nat]
  BY IncrementedType
<1>2. Passed(r, p) \in RequestRecord
  BY PassedType
<1>3. CASE Consume(r, p)
  <2> DEFINE after == Incremented(p)
             told == now + Second * ResetAfterSeconds(after.ends - now)
  <2>1. after.ends - now \in Int
    BY <1>0, <1>1
  <2>2. told \in Nat
    <3>1. ResetAfterSeconds(after.ends - now) \in Nat
      BY <2>1, ResetCovers
    <3>2. Second * ResetAfterSeconds(after.ends - now) \in Nat
      BY <3>1, SecondNat
    <3> QED BY <3>2, <1>0
  <2>3. window' \in [Policy -> Nat] /\ through' \in [Policy -> Nat]
        /\ key' \in [Policy -> [count : Nat, ends : Nat]]
    BY <1>3, <1>0, <1>1 DEF Consume
  <2>4. [Over("limited") EXCEPT !.by = p, !.key = window'[p], !.retry = told]
          \in RequestRecord
    <3>1. Over("limited") \in RequestRecord
      BY OverType DEF Verdict
    <3> HIDE DEF told
    <3> QED BY <3>1, <2>2, <2>3 DEF RequestRecord
  <2>5. [Passed(r, p) EXCEPT !.counted = @ \cup {p}] \in RequestRecord
    BY <1>2 DEF RequestRecord
  <2>6. request' \in [Request -> RequestRecord]
    BY <1>3, <1>0, <2>4, <2>5 DEF Consume
  <2> QED BY <1>3, <2>3, <2>6 DEF Consume, GatewayTypeOK, RequestRecord
<1>4. CASE ConsumeFails(r, p)
  <2>1. Unlimited(r, p) \in RequestRecord
    BY <1>2, OverType DEF Unlimited, Verdict
  <2>2. request' \in [Request -> RequestRecord]
    BY <1>4, <1>0, <2>1 DEF ConsumeFails
  <2>3. /\ window' \in [Policy -> Nat] /\ through' \in [Policy -> Nat]
        /\ key' \in [Policy -> [count : Nat, ends : Nat]]
        /\ faults' \in 0..MaxFaults
    BY <1>4, <1>0, <1>1 DEF ConsumeFails, Fault
  <2> QED BY <1>4, <2>2, <2>3 DEF ConsumeFails, GatewayTypeOK, RequestRecord
<1> QED BY <1>3, <1>4

LEMMA GatewayTypeStep ==
  ASSUME GatewayTypeOK, [Next]_vars
  PROVE  GatewayTypeOK'
<1>0. /\ now \in Nat /\ now \in 0..MaxTime /\ MaxTime \in Nat
      /\ request \in [Request -> RequestRecord]
      /\ faults \in 0..MaxFaults /\ MaxFaults \in Nat
      /\ key \in [Policy -> [count : Nat, ends : Nat]]
  BY GatewayAssumption DEF GatewayTypeOK, RequestRecord
<1>1. CASE UNCHANGED vars
  BY <1>1 DEF vars, GatewayTypeOK
<1>2. CASE Tick
  BY <1>2, <1>0 DEF Tick, GatewayTypeOK
<1>3. CASE RedisStops
  <2>1. faults' \in 0..MaxFaults
    BY <1>3, <1>0 DEF RedisStops, Fault
  <2>2. redis' \in BOOLEAN
    BY <1>3 DEF RedisStops
  <2>3. UNCHANGED <<now, skew, key, window, request, through>>
    BY <1>3 DEF RedisStops
  <2> QED BY <2>1, <2>2, <2>3 DEF GatewayTypeOK
<1>4. CASE RedisReturns
  BY <1>4, <1>0 DEF RedisReturns, GatewayTypeOK
<1>5. ASSUME NEW r \in Request, RequestStep(r) PROVE GatewayTypeOK'
  <2>0. request[r] \in RequestRecord
    BY <1>0
  <2>1. CASE \E p \in Policy : Consume(r, p) \/ ConsumeFails(r, p)
    BY <2>1, ConsumeType
  <2>2. CASE Call(r) \/ ArriveWithIdentity(r) \/ ArriveWithKey(r)
    <3>1. request' \in [Request -> RequestRecord]
      <4>1. CASE Call(r)
        <5>1. request' = [request EXCEPT ![r].at = "sent", ![r].sent = now]
          BY <4>1 DEF Call
        <5>2. "sent" \in Position
          BY DEF Position
        <5> QED BY <5>1, <5>2, <1>0 DEF RequestRecord
      <4>2. CASE ArriveWithIdentity(r)
        <5>1. PICK at \in Position :
                request' = [request EXCEPT ![r].at = at, ![r].seen = now]
          BY <4>2 DEF ArriveWithIdentity, Position
        <5> QED BY <5>1, <1>0 DEF RequestRecord
      <4>3. CASE ArriveWithKey(r)
        BY <4>3, <1>0 DEF ArriveWithKey, RequestRecord, Position
      <4> QED BY <2>2, <4>1, <4>2, <4>3
    <3> QED BY <2>2, <3>1
            DEF Call, ArriveWithIdentity, ArriveWithKey, GatewayTypeOK, RequestRecord
  <2>3. CASE Answer(r) \/ TimesOut(r) \/ Unreachable(r)
    <3>1. \A v \in Verdict : Over(v) \in RequestRecord
      BY OverType
    <3>2. request' \in [Request -> RequestRecord]
      <4>1. CASE Answer(r)
        BY <4>1, <3>1, <1>0 DEF Answer, Verdict
      <4>2. CASE TimesOut(r)
        BY <4>2, <1>0 DEF TimesOut, RequestRecord, Verdict
      <4>3. CASE Unreachable(r)
        BY <4>3, <3>1, <1>0 DEF Unreachable, Verdict
      <4> QED BY <2>3, <4>1, <4>2, <4>3
    <3>3. faults' \in 0..MaxFaults
      BY <2>3, <1>0 DEF Answer, TimesOut, Unreachable, Fault
    <3> QED BY <2>3, <3>2, <3>3
            DEF Answer, TimesOut, Unreachable, GatewayTypeOK, RequestRecord
  <2> QED BY <1>5, <2>1, <2>2, <2>3 DEF RequestStep
<1> QED BY <1>1, <1>2, <1>3, <1>4, <1>5 DEF Next

LEMMA GatewayInitType == Init => GatewayTypeOK
<1> SUFFICES ASSUME Init PROVE GatewayTypeOK
  OBVIOUS
<1>1. Fresh \in RequestRecord
  BY DEF Fresh, RequestRecord, Position, Verdict, Policy
<1>2. now \in 0..MaxTime /\ faults \in 0..MaxFaults
  BY GatewayAssumption DEF Init
<1> QED BY <1>1, <1>2 DEF Init, GatewayTypeOK, RequestRecord

\* The type invariant.
THEOREM GatewayTypes == Spec => []GatewayTypeOK
  BY GatewayInitType, GatewayTypeStep, PTL DEF Spec

(***************************************************************************)
(* Limits.                                                                 *)
(***************************************************************************)
CountedInv ==
  /\ \A p \in Policy : /\ through[p] <= Limit[p]
                       /\ key[p].count > 0 => through[p] <= key[p].count
  /\ \A r \in AuthRequest : Sent(r) => "authentication" \in request[r].counted

\* A caller that was refused was told the end of the counter's window, or more.
RetryInv ==
  \A r \in Request : request[r].answer = "limited" =>
    LET p == request[r].by
    IN /\ request[r].key <= window[p]
       /\ request[r].key = window[p] /\ key[p].count > 0 =>
            key[p].ends <= request[r].retry

\* What a call to Redis does to the counters.
LEMMA CounterStep ==
  ASSUME GatewayTypeOK, CountedInv, NEW r \in Request, NEW p \in Policy,
         Consume(r, p) \/ ConsumeFails(r, p), NEW q \in Policy
  PROVE  /\ through'[q] <= Limit[q]
         /\ key'[q].count > 0 => through'[q] <= key'[q].count
         /\ \/ /\ key'[q] = key[q] /\ window'[q] = window[q]
            \/ /\ key[q].count > 0 /\ key'[q].count > 0
               /\ key'[q].ends = key[q].ends /\ window'[q] = window[q]
            \/ window'[q] = window[q] + 1
<1>0. /\ key \in [Policy -> [count : Nat, ends : Nat]]
      /\ window \in [Policy -> Nat] /\ through \in [Policy -> Nat]
      /\ Limit \in [Policy -> Nat]
  BY GatewayAssumption DEF GatewayTypeOK
<1>1. /\ Incremented(p) \in [count : Nat, ends : Nat] /\ Incremented(p).count > 0
      /\ Incremented(p).count = 1 \/
           (/\ Live(p) /\ Incremented(p).count = key[p].count + 1
            /\ Incremented(p).ends = key[p].ends)
  BY IncrementedType
<1>2. /\ through[q] <= Limit[q]
      /\ key[q].count > 0 => through[q] <= key[q].count
      /\ through[q] \in Nat /\ Limit[q] \in Nat /\ key[q].count \in Nat
  BY <1>0 DEF CountedInv
<1> DEFINE first == Incremented(p).count = 1
           allowed == Incremented(p).count <= Limit[p]
<1>3. CASE q # p
  <2>1. /\ key'[q] = key[q] /\ window'[q] = window[q] /\ through'[q] = through[q]
    BY <1>3, <1>0 DEF Consume, ConsumeFails
  <2> QED BY <2>1, <1>2
<1>4. CASE q = p /\ UNCHANGED <<key, window, through>>
  BY <1>4, <1>2
<1>5. ASSUME q = p, key' = [key EXCEPT ![p] = Incremented(p)],
             window' = [window EXCEPT ![p] = IF first THEN @ + 1 ELSE @],
             \/ through' = [through EXCEPT
                  ![p] = (IF first THEN 0 ELSE @) + IF allowed THEN 1 ELSE 0]
             \/ through' = [through EXCEPT ![p] = IF first THEN 0 ELSE @]
      PROVE  /\ through'[q] <= Limit[q]
             /\ key'[q].count > 0 => through'[q] <= key'[q].count
             /\ \/ /\ key'[q] = key[q] /\ window'[q] = window[q]
                \/ /\ key[q].count > 0 /\ key'[q].count > 0
                   /\ key'[q].ends = key[q].ends /\ window'[q] = window[q]
                \/ window'[q] = window[q] + 1
  <2>1. /\ key'[p] = Incremented(p)
        /\ window'[p] = IF first THEN window[p] + 1 ELSE window[p]
        /\ \/ through'[p] = (IF first THEN 0 ELSE through[p]) + IF allowed THEN 1 ELSE 0
           \/ through'[p] = IF first THEN 0 ELSE through[p]
    BY <1>5, <1>0
  <2>2. CASE first
    <3>1. through'[p] = 0 \/ (through'[p] = 1 /\ allowed)
      BY <2>1, <2>2
    <3> QED BY <3>1, <2>1, <2>2, <1>1, <1>2, <1>5
  <2>3. CASE ~first
    <3>1. /\ key[p].count > 0 /\ Incremented(p).count = key[p].count + 1
          /\ Incremented(p).ends = key[p].ends
      BY <2>3, <1>1 DEF Live
    <3>2. through'[p] = through[p] \/ (through'[p] = through[p] + 1 /\ allowed)
      BY <2>1, <2>3, <1>0
    <3> QED BY <3>1, <3>2, <2>1, <2>3, <1>1, <1>2, <1>5
  <2> QED BY <2>2, <2>3
<1>6. \/ UNCHANGED <<key, window, through>>
      \/ /\ key' = [key EXCEPT ![p] = Incremented(p)]
         /\ window' = [window EXCEPT ![p] = IF first THEN @ + 1 ELSE @]
         /\ \/ through' = [through EXCEPT
                 ![p] = (IF first THEN 0 ELSE @) + IF allowed THEN 1 ELSE 0]
            \/ through' = [through EXCEPT ![p] = IF first THEN 0 ELSE @]
  BY DEF Consume, ConsumeFails
<1> HIDE DEF first, allowed
<1> QED BY <1>3, <1>4, <1>5, <1>6

LEMMA CountedStep ==
  ASSUME GatewayTypeOK, CountedInv, [Next]_vars
  PROVE  CountedInv'
<1>0. /\ key \in [Policy -> [count : Nat, ends : Nat]]
      /\ request \in [Request -> RequestRecord]
  BY DEF GatewayTypeOK, RequestRecord
<1>1. ASSUME UNCHANGED <<key, through, request>> PROVE CountedInv'
  BY <1>1 DEF CountedInv, Sent
<1>2. CASE UNCHANGED vars \/ Tick \/ RedisStops
  BY <1>2, <1>1 DEF vars, Tick, RedisStops
<1>3. CASE RedisReturns
  <2>1. \A p \in Policy : key'[p].count > 0 => key'[p] = key[p]
    BY <1>3 DEF RedisReturns
  <2> QED BY <2>1, <1>3 DEF RedisReturns, CountedInv, Sent
<1>4. ASSUME NEW r \in Request, NEW p \in Policy, Consume(r, p) \/ ConsumeFails(r, p)
      PROVE  CountedInv'
  <2>1. \A s \in Request : s # r => request'[s] = request[s]
    BY <1>4, <1>0 DEF Consume, ConsumeFails
  <2>2. ASSUME r \in AuthRequest, Sent(r)'
        PROVE  "authentication" \in request'[r].counted
    <3>1. /\ Passed(r, p) \in RequestRecord
          /\ p = "general" => Passed(r, p).at = "authentication"
      BY <2>2, PassedType
    <3>2. Over("limited").at = "away" /\ Over("unavailable").at = "away"
      BY DEF Over, Fresh
    <3>3. CASE Consume(r, p)
      <4>1. \/ request'[r] = [Passed(r, p) EXCEPT !.counted = @ \cup {p}]
            \/ \E k, t : request'[r] = [Over("limited") EXCEPT !.by = p, !.key = k,
                                                               !.retry = t]
        BY <3>3, <1>0 DEF Consume
      <4>2. request'[r] = [Passed(r, p) EXCEPT !.counted = @ \cup {p}]
        BY <4>1, <2>2 DEF Sent, Over, Fresh
      <4>3. p # "general"
        BY <4>2, <3>1, <2>2 DEF Sent, RequestRecord
      <4> QED BY <4>2, <4>3, <3>1 DEF RequestRecord, Policy
    <3>4. CASE ConsumeFails(r, p)
      <4>1. request'[r] = IF p = "authentication" THEN Over("unavailable") ELSE Passed(r, p)
        BY <3>4, <1>0 DEF ConsumeFails, Unlimited, FailClosed
      <4> QED BY <4>1, <3>1, <3>2, <2>2 DEF Sent, Policy
    <3> QED BY <1>4, <3>3, <3>4
  <2>3. \A s \in AuthRequest : Sent(s)' => "authentication" \in request'[s].counted
    BY <2>1, <2>2 DEF CountedInv, Sent, Request
  <2> QED BY <1>4, <2>3, CounterStep DEF CountedInv
<1>5. ASSUME NEW r \in Request, \/ Call(r) \/ ArriveWithIdentity(r) \/ ArriveWithKey(r)
                                \/ Answer(r) \/ TimesOut(r) \/ Unreachable(r)
      PROVE  CountedInv'
  <2>1. UNCHANGED <<key, through>>
    BY <1>5 DEF Call, ArriveWithIdentity, ArriveWithKey, Answer, TimesOut, Unreachable
  <2>2. \A s \in Request : s # r => request'[s] = request[s]
    BY <1>5, <1>0
    DEF Call, ArriveWithIdentity, ArriveWithKey, Answer, TimesOut, Unreachable
  <2>3. Sent(r)' => Sent(r) /\ request'[r].counted = request[r].counted
    <3>0. request[r] \in RequestRecord
      BY <1>0
    <3>1. CASE Answer(r) \/ Unreachable(r)
      BY <3>1, <1>0 DEF Answer, Unreachable, Over, Fresh, Sent
    <3>2. CASE Call(r) \/ ArriveWithKey(r) \/ TimesOut(r)
      BY <3>2, <3>0, <1>0
      DEF Call, ArriveWithKey, TimesOut, Sent, Served, RequestRecord
    <3>3. CASE ArriveWithIdentity(r)
      BY <3>3, <3>0, <1>0 DEF ArriveWithIdentity, Sent, RequestRecord
    <3> QED BY <1>5, <3>1, <3>2, <3>3
  <2> QED BY <2>1, <2>2, <2>3 DEF CountedInv, Sent, Request
<1> QED BY <1>2, <1>3, <1>4, <1>5 DEF Next, RequestStep

LEMMA RetryStep ==
  ASSUME GatewayTypeOK, CountedInv, RetryInv, [Next]_vars
  PROVE  RetryInv'
<1>0. /\ key \in [Policy -> [count : Nat, ends : Nat]] /\ now \in Nat
      /\ request \in [Request -> RequestRecord] /\ window \in [Policy -> Nat]
  BY GatewayAssumption DEF GatewayTypeOK, RequestRecord
<1>1. ASSUME UNCHANGED <<key, window, request>> PROVE RetryInv'
  BY <1>1 DEF RetryInv
<1>2. CASE UNCHANGED vars \/ Tick \/ RedisStops
  BY <1>2, <1>1 DEF vars, Tick, RedisStops
<1>3. CASE RedisReturns
  <2>1. \A p \in Policy : key'[p].count > 0 => key'[p] = key[p]
    BY <1>3 DEF RedisReturns
  <2>2. \A r \in Request : request[r].by \in Policy
    BY <1>0 DEF RequestRecord
  <2> QED BY <2>1, <2>2, <1>3 DEF RedisReturns, RetryInv
<1>4. ASSUME NEW r \in Request, NEW p \in Policy, Consume(r, p) \/ ConsumeFails(r, p)
      PROVE  RetryInv'
  <2>1. \A s \in Request : s # r => request'[s] = request[s]
    BY <1>4, <1>0 DEF Consume, ConsumeFails
  <2>2. ASSUME NEW s \in Request, request'[s].answer = "limited",
               request'[s] = request[s]
               \/ (/\ request'[s].answer = request[s].answer
                   /\ request'[s].by = request[s].by /\ request'[s].key = request[s].key
                   /\ request'[s].retry = request[s].retry)
        PROVE  LET q == request'[s].by
               IN /\ request'[s].key <= window'[q]
                  /\ request'[s].key = window'[q] /\ key'[q].count > 0 =>
                       key'[q].ends <= request'[s].retry
    <3> DEFINE q == request[s].by
               k == request[s].key
    <3>1. q \in Policy /\ k \in Nat
      BY <1>0 DEF RequestRecord
    <3>2. /\ k <= window[q]
          /\ k = window[q] /\ key[q].count > 0 => key[q].ends <= request[s].retry
      BY <2>2 DEF RetryInv
    <3>3. \/ key'[q] = key[q] /\ window'[q] = window[q]
          \/ /\ key[q].count > 0 /\ key'[q].count > 0
             /\ key'[q].ends = key[q].ends /\ window'[q] = window[q]
          \/ window'[q] = window[q] + 1
      BY <1>4, <3>1, CounterStep
    <3>4. window[q] \in Nat
      BY <1>0, <3>1
    <3>5. /\ k <= window'[q]
          /\ k = window'[q] /\ key'[q].count > 0 => key'[q].ends <= request[s].retry
      BY <3>1, <3>2, <3>3, <3>4
    <3> QED BY <3>5, <2>2
  <2>3. ASSUME request'[r].answer = "limited"
        PROVE  LET q == request'[r].by
               IN /\ request'[r].key <= window'[q]
                  /\ request'[r].key = window'[q] /\ key'[q].count > 0 =>
                       key'[q].ends <= request'[r].retry
    <3> DEFINE after == Incremented(p)
               told == now + Second * ResetAfterSeconds(after.ends - now)
    <3>1. /\ Passed(r, p) \in RequestRecord
          /\ Passed(r, p).answer = request[r].answer
          /\ Passed(r, p).key = request[r].key /\ Passed(r, p).by = request[r].by
          /\ Passed(r, p).retry = request[r].retry
      BY PassedType
    <3>2. CASE \/ request'[r] = Passed(r, p)
               \/ request'[r] = [Passed(r, p) EXCEPT !.counted = @ \cup {p}]
      <4>1. /\ request'[r].answer = request[r].answer
            /\ request'[r].by = request[r].by /\ request'[r].key = request[r].key
            /\ request'[r].retry = request[r].retry
        BY <3>1, <3>2 DEF RequestRecord
      <4> QED BY <4>1, <2>2, <2>3
    <3>3. CASE /\ request'[r] = [Over("limited") EXCEPT !.by = p, !.key = window'[p],
                                                       !.retry = told]
               /\ key' = [key EXCEPT ![p] = after]
               /\ window' = [window EXCEPT ![p] = IF after.count = 1 THEN @ + 1 ELSE @]
      <4>1. /\ request'[r].by = p /\ request'[r].key = window'[p]
            /\ request'[r].retry = told
        BY <3>3 DEF Over, Fresh
      <4>2. key'[p] = after /\ window'[p] \in Nat
        BY <3>3, <1>0
      <4>3. after.ends \in Nat
        BY IncrementedType
      <4>4. after.ends - now <= Second * ResetAfterSeconds(after.ends - now)
            /\ ResetAfterSeconds(after.ends - now) \in Nat
        BY <4>3, <1>0, ResetCovers
      <4>5. Second * ResetAfterSeconds(after.ends - now) \in Nat
        BY <4>4, SecondNat
      <4>6. after.ends <= told
        BY <4>3, <4>4, <4>5, <1>0
      <4> QED BY <4>1, <4>2, <4>6
    <3>4. CASE request'[r] = Over("unavailable")
      BY <3>4, <2>3 DEF Over, Fresh
    <3>5. CASE Consume(r, p)
      BY <3>5, <3>2, <3>3, <1>0 DEF Consume
    <3>6. CASE ConsumeFails(r, p)
      BY <3>6, <3>2, <3>4, <1>0 DEF ConsumeFails, Unlimited
    <3> QED BY <1>4, <3>5, <3>6
  <2> QED BY <2>1, <2>2, <2>3 DEF RetryInv
<1>5. ASSUME NEW r \in Request, \/ Call(r) \/ ArriveWithIdentity(r) \/ ArriveWithKey(r)
                                \/ Answer(r) \/ TimesOut(r) \/ Unreachable(r)
      PROVE  RetryInv'
  <2>0. request[r] \in RequestRecord
    BY <1>0
  <2>1. UNCHANGED <<key, window>>
    BY <1>5 DEF Call, ArriveWithIdentity, ArriveWithKey, Answer, TimesOut, Unreachable
  <2>2. \A s \in Request : s # r => request'[s] = request[s]
    BY <1>5, <1>0
    DEF Call, ArriveWithIdentity, ArriveWithKey, Answer, TimesOut, Unreachable
  <2>3. request'[r].answer = "limited" =>
          /\ request[r].answer = "limited" /\ request'[r].by = request[r].by
          /\ request'[r].key = request[r].key /\ request'[r].retry = request[r].retry
    <3>1. CASE Answer(r) \/ Unreachable(r)
      BY <3>1, <1>0 DEF Answer, Unreachable, Over, Fresh
    <3>2. CASE Call(r) \/ ArriveWithKey(r) \/ TimesOut(r)
      BY <3>2, <2>0, <1>0 DEF Call, ArriveWithKey, TimesOut, RequestRecord
    <3>3. CASE ArriveWithIdentity(r)
      BY <3>3, <2>0, <1>0 DEF ArriveWithIdentity, RequestRecord
    <3> QED BY <1>5, <3>1, <3>2, <3>3
  <2> QED BY <2>1, <2>2, <2>3 DEF RetryInv
<1> QED BY <1>2, <1>3, <1>4, <1>5 DEF Next, RequestStep

(***************************************************************************)
(* Identities.                                                             *)
(***************************************************************************)
IdentityInv ==
  /\ \A r \in Request : request[r].sent <= now
  /\ BegunInTime /\ RefusedForCause

\* What Todo Service accepts is alive, in ticks of its clock.
LEMMA GenuineInTime ==
  ASSUME NEW sent \in Nat, NEW seen \in Nat, NEW ahead \in Int,
         VerifyIdentityMetadata(Seconds(sent), Seconds(seen + ahead))
  PROVE  seen < sent + Second * Ttl - ahead
<1> DEFINE issued == Seconds(sent)
           t == Seconds(seen + ahead)
<1>0. Second \in Nat \ {0} /\ Ttl \in Nat
  BY GatewayAssumption
<1>1. /\ issued \in Int /\ Second * issued <= sent
  BY SecondsFacts
<1>2. /\ t \in Int /\ seen + ahead < Second * t + Second
  BY SecondsFacts
<1>3. issued + Ttl > t
  BY DEF VerifyIdentityMetadata, VerifyExpiry
<1> HIDE DEF issued, t
<1>4. t + 1 <= issued + Ttl
  BY <1>0, <1>1, <1>2, <1>3
<1>5. Second * (t + 1) <= Second * (issued + Ttl)
  BY <1>0, <1>1, <1>2, <1>4, SecondTimes
<1>6. Second * (t + 1) = Second * t + Second
  BY <1>0, <1>2
<1>7. Second * (issued + Ttl) = Second * issued + Second * Ttl
  BY <1>0, <1>1, SecondTimes
<1>8. Second * t \in Int /\ Second * issued \in Int /\ Second * Ttl \in Int
  BY <1>0, <1>1, <1>2, SecondTimes
<1> QED BY <1>0, <1>1, <1>2, <1>5, <1>6, <1>7, <1>8

\* What it refuses was sent under a clock too far off, or has come to its last
\* second.
LEMMA RefusedWithCause ==
  ASSUME NEW sent \in Nat, NEW seen \in Nat, NEW ahead \in Int, sent <= seen,
         ~VerifyIdentityMetadata(Seconds(sent), Seconds(seen + ahead))
  PROVE  \/ ahead < -(Second * AllowedSkew)
         \/ seen + ahead > sent + Second * (Ttl - 1)
<1> DEFINE issued == Seconds(sent)
           t == Seconds(seen + ahead)
<1>0. /\ Second \in Nat \ {0} /\ Ttl \in Nat \ {0} /\ MaxAge \in Nat /\ Ttl <= MaxAge
      /\ AllowedSkew \in Nat
  BY GatewayAssumption
<1>1. /\ issued \in Int /\ Second * issued <= sent /\ sent < Second * issued + Second
  BY SecondsFacts
<1>2. /\ t \in Int /\ Second * t <= seen + ahead
      /\ seen + ahead < Second * t + Second
  BY SecondsFacts
<1>3. issued > t + AllowedSkew \/ t - issued > MaxAge \/ ~(issued + Ttl > t)
  BY <1>0, <1>1, <1>2
  DEF VerifyIdentityMetadata, VerifyIssuedAt, VerifyExpiry, VerifyIdentityLifetime
<1> HIDE DEF issued, t
<1>4. /\ Second * t \in Int /\ Second * issued \in Int
      /\ Second * AllowedSkew \in Int /\ Second * Ttl \in Int
  BY <1>0, <1>1, <1>2, SecondTimes
<1>5. CASE issued > t + AllowedSkew
  <2>1. t + AllowedSkew + 1 <= issued
    BY <1>0, <1>1, <1>2, <1>5
  <2>2. Second * (t + AllowedSkew + 1) <= Second * issued
    BY <1>0, <1>1, <1>2, <2>1, SecondTimes
  <2>3. Second * (t + AllowedSkew + 1) = Second * t + Second * AllowedSkew + Second
    BY <1>0, <1>2
  <2> QED BY <1>0, <1>1, <1>2, <1>4, <2>2, <2>3
<1>6. CASE t - issued > MaxAge \/ ~(issued + Ttl > t)
  <2>1. issued + Ttl <= t
    BY <1>0, <1>1, <1>2, <1>6
  <2>2. Second * (issued + Ttl) <= Second * t
    BY <1>0, <1>1, <1>2, <2>1, SecondTimes
  <2>3. Second * (issued + Ttl) = Second * issued + Second * Ttl
    BY <1>0, <1>1, SecondTimes
  <2>4. Second * (Ttl - 1) = Second * Ttl - Second
    BY <1>0
  <2> QED BY <1>0, <1>1, <1>2, <1>4, <2>2, <2>3, <2>4
<1> QED BY <1>3, <1>5, <1>6

LEMMA IdentityStep ==
  ASSUME GatewayTypeOK, IdentityInv, [Next]_vars
  PROVE  IdentityInv'
<1>0. /\ now \in Nat /\ skew \in Int /\ request \in [Request -> RequestRecord]
  BY GatewayAssumption DEF GatewayTypeOK, RequestRecord
<1>00. /\ now' \in Nat /\ now <= now' /\ skew' = skew
       /\ Tick \/ now' = now
  <2>1. CASE Tick
    BY <2>1, <1>0 DEF Tick
  <2>2. CASE UNCHANGED <<now, skew>>
    BY <2>2, <1>0
  <2> QED
    BY <2>1, <2>2 DEF Next, RedisStops, RedisReturns, RequestStep, Consume, ConsumeFails,
       Call, ArriveWithIdentity, ArriveWithKey, Answer, TimesOut, Unreachable, vars
\* It is enough that nothing is known of a request that has just come to the
\* service but what it is to be.
<1>1. ASSUME \A r \in Request :
               /\ \/ request'[r].sent = request[r].sent
                  \/ request'[r].sent = 0
                  \/ request'[r].sent = now
               /\ r \in TodoRequest /\ request'[r].at \in {"begun", "unauthorized"} =>
                    \/ /\ request'[r].at = request[r].at
                       /\ request'[r].sent = request[r].sent
                       /\ request'[r].seen = request[r].seen
                    \/ ArriveWithIdentity(r)
      PROVE  IdentityInv'
  <2>1. \A r \in Request : request'[r].sent <= now'
    <3> TAKE r \in Request
    <3>1. request[r].sent \in Nat /\ request[r].sent <= now
      BY <1>0 DEF RequestRecord, IdentityInv
    <3> QED BY <1>1, <3>1, <1>0, <1>00
  <2>2. ASSUME NEW r \in TodoRequest, request'[r].at \in {"begun", "unauthorized"},
               ArriveWithIdentity(r)
        PROVE  /\ request'[r].at = "begun" =>
                    request'[r].seen < request'[r].sent + Second * Ttl - skew
               /\ request'[r].at = "unauthorized" =>
                    \/ skew < -(Second * AllowedSkew)
                    \/ request'[r].seen + skew > request'[r].sent + Second * (Ttl - 1)
    <3> DEFINE sent == request[r].sent
               genuine == VerifyIdentityMetadata(Seconds(sent), Seconds(now + skew))
    <3>1. r \in Request /\ request[r] \in RequestRecord /\ sent \in Nat /\ sent <= now
      BY <1>0 DEF Request, RequestRecord, IdentityInv
    <3>2. request' = [request EXCEPT ![r].at = IF genuine THEN "begun" ELSE "unauthorized",
                                     ![r].seen = now]
      BY <2>2 DEF ArriveWithIdentity
    <3>3. /\ request'[r].at = IF genuine THEN "begun" ELSE "unauthorized"
          /\ request'[r].seen = now /\ request'[r].sent = sent
      BY <3>1, <3>2, <1>0 DEF RequestRecord
    <3>4. genuine => now < sent + Second * Ttl - skew
      BY <3>1, <1>0, GenuineInTime
    <3>5. ~genuine => \/ skew < -(Second * AllowedSkew)
                      \/ now + skew > sent + Second * (Ttl - 1)
      BY <3>1, <1>0, RefusedWithCause
    <3> HIDE DEF genuine, sent
    <3> QED BY <3>3, <3>4, <3>5
  <2>3. \A r \in TodoRequest : r \in Request
    BY DEF Request
  <2>4. BegunInTime'
    BY <1>1, <1>00, <2>2, <2>3 DEF IdentityInv, BegunInTime
  <2>5. RefusedForCause'
    BY <1>1, <1>00, <2>2, <2>3 DEF IdentityInv, RefusedForCause
  <2> QED BY <2>1, <2>4, <2>5 DEF IdentityInv
<1>2. CASE UNCHANGED request
  BY <1>1, <1>2
<1>3. ASSUME NEW r \in Request, NEW p \in Policy, Consume(r, p) \/ ConsumeFails(r, p)
      PROVE  IdentityInv'
  <2>1. \A s \in Request : s # r => request'[s] = request[s]
    BY <1>3, <1>0 DEF Consume, ConsumeFails
  <2>2. /\ Passed(r, p) \in RequestRecord
        /\ Passed(r, p).at \in {"authentication", "call"}
        /\ Passed(r, p).sent = request[r].sent
    BY PassedType
  <2>3. /\ request'[r].sent = request[r].sent \/ request'[r].sent = 0
        /\ request'[r].at \notin {"begun", "unauthorized"}
    <3>1. CASE \/ request'[r] = Passed(r, p)
               \/ request'[r] = [Passed(r, p) EXCEPT !.counted = @ \cup {p}]
      BY <3>1, <2>2 DEF RequestRecord
    <3>2. CASE request'[r] = Over("unavailable")
               \/ \E k, t : request'[r] = [Over("limited") EXCEPT !.by = p, !.key = k,
                                                                  !.retry = t]
      BY <3>2 DEF Over, Fresh
    <3>3. CASE Consume(r, p)
      BY <3>3, <3>1, <3>2, <1>0 DEF Consume
    <3>4. CASE ConsumeFails(r, p)
      BY <3>4, <3>1, <3>2, <1>0 DEF ConsumeFails, Unlimited
    <3> QED BY <1>3, <3>3, <3>4
  <2> QED BY <2>1, <2>3, <1>1
<1>4. ASSUME NEW r \in Request, \/ Call(r) \/ ArriveWithIdentity(r) \/ ArriveWithKey(r)
                                \/ Answer(r) \/ TimesOut(r) \/ Unreachable(r)
      PROVE  IdentityInv'
  <2>0. request[r] \in RequestRecord
    BY <1>0
  <2>1. \A s \in Request : s # r => request'[s] = request[s]
    BY <1>4, <1>0
    DEF Call, ArriveWithIdentity, ArriveWithKey, Answer, TimesOut, Unreachable
  <2>2. CASE Call(r)
    <3>1. request'[r].sent = now /\ request'[r].at = "sent"
      BY <2>2, <2>0, <1>0 DEF Call, RequestRecord
    <3> QED BY <3>1, <2>1, <1>1
  <2>3. CASE Answer(r) \/ Unreachable(r)
    <3>1. request'[r].sent = 0 /\ request'[r].at = "away"
      BY <2>3, <1>0 DEF Answer, Unreachable, Over, Fresh
    <3> QED BY <3>1, <2>1, <1>1
  <2>4. CASE TimesOut(r)
    <3>1. /\ request'[r].sent = request[r].sent /\ request'[r].at = request[r].at
          /\ request'[r].seen = request[r].seen
      BY <2>4, <2>0, <1>0 DEF TimesOut, RequestRecord
    <3> QED BY <3>1, <2>1, <1>1
  <2>5. CASE ArriveWithKey(r)
    <3>1. /\ request'[r].sent = request[r].sent /\ r \notin TodoRequest
      BY <2>5, <2>0, <1>0, GatewayAssumption DEF ArriveWithKey, RequestRecord
    <3> QED BY <3>1, <2>1, <1>1
  <2>6. CASE ArriveWithIdentity(r)
    <3>1. request'[r].sent = request[r].sent
      BY <2>6, <2>0, <1>0 DEF ArriveWithIdentity, RequestRecord
    <3> QED BY <3>1, <2>1, <2>6, <1>1
  <2> QED BY <1>4, <2>2, <2>3, <2>4, <2>5, <2>6
<1>5. CASE UNCHANGED vars \/ Tick \/ RedisStops \/ RedisReturns
  BY <1>5, <1>2 DEF vars, Tick, RedisStops, RedisReturns
<1> QED BY <1>3, <1>4, <1>5 DEF Next, RequestStep

(***************************************************************************)
(* The inductive invariant, and what follows from it.                      *)
(***************************************************************************)
GatewayIInv == GatewayTypeOK /\ CountedInv /\ RetryInv /\ IdentityInv

LEMMA GatewayInvariant == Spec => []GatewayIInv
<1>1. Init => GatewayIInv
  <2> SUFFICES ASSUME Init PROVE GatewayIInv
    OBVIOUS
  <2>1. /\ \A r \in Request : /\ request[r].at = "general" /\ request[r].answer = "none"
                              /\ request[r].sent = 0
        /\ \A r \in AuthRequest : request[r].at = "general"
        /\ \A r \in TodoRequest : request[r].at = "general"
    BY DEF Init, Fresh, Request
  <2>2. CountedInv
    <3>1. \A p \in Policy : through[p] = 0 /\ key[p].count = 0 /\ Limit[p] \in Nat
      BY GatewayAssumption DEF Init
    <3> QED BY <3>1, <2>1 DEF CountedInv, Sent
  <2>3. RetryInv
    BY <2>1 DEF RetryInv
  <2>4. IdentityInv
    BY <2>1 DEF Init, IdentityInv, BegunInTime, RefusedForCause
  <2> QED BY <2>2, <2>3, <2>4, GatewayInitType DEF GatewayIInv
<1>2. GatewayIInv /\ [Next]_vars => GatewayIInv'
  BY GatewayTypeStep, CountedStep, RetryStep, IdentityStep DEF GatewayIInv
<1> QED BY <1>1, <1>2, PTL DEF Spec

\* No counter lets more through than its limit, and nobody logs in uncounted
\* (RateLimiter.consume and its failure policies).
THEOREM LimitsHold == Spec => []WithinLimit
<1>1. GatewayIInv => WithinLimit
  BY DEF GatewayIInv, CountedInv, WithinLimit
<1> QED BY <1>1, GatewayInvariant, PTL

\* The Retry-After of a refusal outlasts the counter that refused.
THEOREM RetryAfterHonest == Spec => []HonestRetryAfter
<1>1. GatewayIInv => HonestRetryAfter
  <2> SUFFICES ASSUME GatewayIInv, NEW r \in Request, request[r].answer = "limited",
                      now >= request[r].retry, Live(request[r].by),
                      request[r].key = window[request[r].by]
               PROVE  FALSE
    BY DEF HonestRetryAfter
  <2> DEFINE p == request[r].by
  <2>1. /\ p \in Policy /\ request[r].retry \in Nat /\ now \in Nat
        /\ key[p].ends \in Nat
    BY GatewayAssumption DEF GatewayIInv, GatewayTypeOK
  <2>2. key[p].ends <= request[r].retry /\ now < key[p].ends
    BY DEF GatewayIInv, RetryInv, Live
  <2> HIDE DEF p
  <2> QED BY <2>1, <2>2
<1> QED BY <1>1, GatewayInvariant, PTL

\* An operation of Todo Service begins, by the clock of Todo Service, within the
\* life Gateway stamped on its identity, however late the request arrives
\* (verifyIdentityMetadata).
THEOREM BeginsInTime == Spec => []BegunInTime
<1>1. GatewayIInv => BegunInTime
  BY DEF GatewayIInv, IdentityInv
<1> QED BY <1>1, GatewayInvariant, PTL

\* An identity is refused only when the clocks are further apart than allowed or
\* the request has come in its last second or later.
THEOREM RefusalsHaveCause == Spec => []RefusedForCause
<1>1. GatewayIInv => RefusedForCause
  BY DEF GatewayIInv, IdentityInv
<1> QED BY <1>1, GatewayInvariant, PTL
================================================================================
