------------------------------- MODULE Gateway -------------------------------
(***************************************************************************)
(* A request on its way through Gateway: the rate limits it is counted      *)
(* under, the identity it is signed, the call to the service that has a     *)
(* timeout, and the service's own look at the identity.  Time goes in       *)
(* ticks, several of which make a second; Gateway and service each have     *)
(* their clock.                                                             *)
(***************************************************************************)
EXTENDS Integers

CONSTANTS
  AuthRequest,  \* requests below /api/v1/auth: two limits, a service key
  TodoRequest,  \* others: the general limit, a signed identity
  Limit,        \* maximumRequests of a policy
  Window,       \* its windowMilliseconds, in ticks
  Second,       \* ticks
  Ttl,          \* INTERNAL_IDENTITY_TTL_SECONDS
  MaxAge,       \* INTERNAL_IDENTITY_MAX_AGE_SECONDS
  AllowedSkew,  \* ALLOWED_CLOCK_SKEW_SECONDS
  Timeout,      \* DOWNSTREAM_TIMEOUT_MS, in ticks
  Skew,         \* bound: by how many ticks the service's clock may be ahead
  MaxTime,      \* bound: ticks
  MaxFaults     \* bound: outages, lost replies and broken connections

Policy == {"general", "authentication"}
Request == AuthRequest \cup TodoRequest

ASSUME GatewayAssumption ==
  /\ Limit \in [Policy -> Nat] /\ Window \in Nat \ {0}
  /\ Second \in Nat \ {0} /\ Ttl \in Nat \ {0} /\ MaxAge \in Nat /\ Ttl <= MaxAge
  /\ AllowedSkew \in Nat /\ Timeout \in Nat
  /\ Skew \subseteq Int /\ MaxTime \in Nat /\ MaxFaults \in Nat
  /\ AuthRequest \cap TodoRequest = {}

VARIABLES
  now,      \* Gateway's clock
  skew,     \* the service's is so far ahead of it
  redis,    \* Redis answers
  key,      \* the counter of a policy and when it expires
  window,   \* how many counters of a policy there have been
  request,
  through,  \* history: how many requests a counter has let through
  faults

vars == <<now, skew, redis, key, window, request, through, faults>>

Seconds(ticks) == ticks \div Second
Fault == faults < MaxFaults /\ faults' = faults + 1

Position == {"general", "authentication", "call", "sent", "begun", "unauthorized", "away"}
Verdict == {"none", "limited", "unavailable", "ok", "unauthorized", "timeout", "unreachable"}

Fresh == [at |-> "general", answer |-> "none", counted |-> {}, by |-> "general",
          key |-> 0, retry |-> 0, sent |-> 0, seen |-> 0]
Over(verdict) == [Fresh EXCEPT !.at = "away", !.answer = verdict]

GatewayTypeOK ==
  /\ now \in 0..MaxTime /\ skew \in Skew
  /\ redis \in BOOLEAN /\ faults \in 0..MaxFaults
  /\ key \in [Policy -> [count : Nat, ends : Nat]]
  /\ window \in [Policy -> Nat] /\ through \in [Policy -> Nat]
  /\ request \in [Request -> [at : Position, answer : Verdict, counted : SUBSET Policy,
                             by : Policy, key : Nat, retry : Nat, sent : Nat, seen : Nat]]

Init ==
  /\ now = 0 /\ skew \in Skew
  /\ redis = TRUE /\ faults = 0
  /\ key = [p \in Policy |-> [count |-> 0, ends |-> 0]]
  /\ window = [p \in Policy |-> 0] /\ through = [p \in Policy |-> 0]
  /\ request = [r \in Request |-> Fresh]

Tick ==
  /\ now < MaxTime /\ now' = now + 1
  /\ UNCHANGED <<skew, redis, key, window, request, through, faults>>

-----------------------------------------------------------------------------
(* Rate limits *)

FailClosed(p) == p = "authentication"
Live(p) == key[p].count > 0 /\ now < key[p].ends

\* Mutant: every request prolongs the window.
IncrementedSliding(p) ==
  [count |-> IF Live(p) THEN key[p].count + 1 ELSE 1, ends |-> now + Window]

\* What the script leaves of the counter.
Incremented(p) ==
  IF Live(p) THEN [key[p] EXCEPT !.count = @ + 1]
  ELSE [count |-> 1, ends |-> now + Window]

\* The whole seconds a refused caller is told to wait, at least one.
ResetAfterSeconds(ticks) ==
  LET up == (ticks + Second - 1) \div Second IN IF up < 1 THEN 1 ELSE up

\* On to the next policy, or to the call.
Passed(r, p) ==
  [request[r] EXCEPT !.at = IF p = "general" /\ r \in AuthRequest THEN "authentication"
                            ELSE "call"]

\* Mutant: the policy is not asked.
UnlimitedAnyway(r, p) == Passed(r, p)

\* handleUnavailable
Unlimited(r, p) ==
  IF FailClosed(p) THEN Over("unavailable")
  ELSE Passed(r, p)

\* consume, with a reply of Redis
Consume(r, p) ==
  LET after == Incremented(p)
      first == after.count = 1
      allowed == after.count <= Limit[p]
  IN /\ request[r].at = p /\ redis
     /\ key' = [key EXCEPT ![p] = after]
     /\ window' = [window EXCEPT ![p] = IF first THEN @ + 1 ELSE @]
     /\ through' = [through EXCEPT ![p] = (IF first THEN 0 ELSE @) + IF allowed THEN 1 ELSE 0]
     /\ request' = [request EXCEPT ![r] =
          IF allowed THEN [Passed(r, p) EXCEPT !.counted = @ \cup {p}]
          ELSE [Over("limited") EXCEPT !.by = p, !.key = window'[p],
                  !.retry = now + Second * ResetAfterSeconds(after.ends - now)]]
     /\ UNCHANGED <<now, skew, redis, faults>>

\* Redis is not ready, or its reply is lost after the script has run.
ConsumeFails(r, p) ==
  /\ request[r].at = p
  /\ request' = [request EXCEPT ![r] = Unlimited(r, p)]
  /\ \/ ~redis /\ UNCHANGED <<key, window, through, faults>>
     \/ /\ redis /\ Fault
        /\ key' = [key EXCEPT ![p] = Incremented(p)]
        /\ LET first == Incremented(p).count = 1
           IN /\ window' = [window EXCEPT ![p] = IF first THEN @ + 1 ELSE @]
              /\ through' = [through EXCEPT ![p] = IF first THEN 0 ELSE @]
  /\ UNCHANGED <<now, skew, redis>>

\* Redis stops, and comes back with or without its keys.
RedisStops ==
  /\ redis /\ Fault /\ redis' = FALSE
  /\ UNCHANGED <<now, skew, key, window, request, through>>

RedisReturns ==
  /\ ~redis /\ redis' = TRUE
  /\ key' \in {key, [p \in Policy |-> [count |-> 0, ends |-> 0]]}
  /\ UNCHANGED <<now, skew, window, request, through, faults>>

-----------------------------------------------------------------------------
(* The call *)

\* createIdentityHeaders, and fetch
Call(r) ==
  /\ request[r].at = "call"
  /\ request' = [request EXCEPT ![r].at = "sent", ![r].sent = now]
  /\ UNCHANGED <<now, skew, redis, key, window, through, faults>>

\* Mutant: no tolerance for the clocks.
VerifyIssuedBefore(issued, t) == issued <= t /\ t - issued <= MaxAge
\* Mutant: valid in its last second.
VerifyExpiryInclusive(issued, t) == issued + Ttl >= t

\* The identity's time of issue and its end, and how long it may live.
VerifyIssuedAt(issued, t) == issued <= t + AllowedSkew /\ t - issued <= MaxAge
VerifyExpiry(issued, t) == issued + Ttl > t
VerifyIdentityLifetime == Ttl > 0 /\ Ttl <= MaxAge

\* verifyIdentityMetadata of Todo Service, of an identity signed in the second
\* "issued" and looked at in the second t of the service
VerifyIdentityMetadata(issued, t) ==
  VerifyIssuedAt(issued, t) /\ VerifyExpiry(issued, t) /\ VerifyIdentityLifetime

\* Account Service's, which throws
ValidateIdentityMetadata(issued, t) ==
  ~ \/ issued > t + AllowedSkew
    \/ issued + Ttl <= t
    \/ Ttl <= 0 \/ Ttl > MaxAge
    \/ t - issued > MaxAge

\* The request reaches the service, whether Gateway still waits for it or not.
ArriveWithIdentity(r) ==
  LET genuine == VerifyIdentityMetadata(Seconds(request[r].sent), Seconds(now + skew))
  IN /\ request[r].at = "sent" /\ r \in TodoRequest
     /\ request' = [request EXCEPT ![r].at = IF genuine THEN "begun" ELSE "unauthorized",
                                   ![r].seen = now]
     /\ UNCHANGED <<now, skew, redis, key, window, through, faults>>

\* requireInternalServiceKey: there is no time in it.
ArriveWithKey(r) ==
  /\ request[r].at = "sent" /\ r \in AuthRequest
  /\ request' = [request EXCEPT ![r].at = "begun"]
  /\ UNCHANGED <<now, skew, redis, key, window, through, faults>>

Served(r) == request[r].at \in {"begun", "unauthorized"} /\ request[r].answer = "none"

\* The service's answer is there before the timeout.
Answer(r) ==
  /\ Served(r)
  /\ request' = [request EXCEPT ![r] =
       Over(IF request[r].at = "begun" THEN "ok" ELSE "unauthorized")]
  /\ UNCHANGED <<now, skew, redis, key, window, through, faults>>

\* 504; what was sent goes on.
TimesOut(r) ==
  /\ request[r].at = "sent" \/ Served(r)
  /\ request[r].answer = "none" /\ now >= request[r].sent + Timeout
  /\ request' = [request EXCEPT ![r].answer = "timeout"]
  /\ UNCHANGED <<now, skew, redis, key, window, through, faults>>

\* 503: the connection is refused, or breaks while the service is at it.
Unreachable(r) ==
  /\ request[r].at = "sent" \/ Served(r)
  /\ request[r].answer = "none" /\ Fault
  /\ request' = [request EXCEPT ![r] = Over("unreachable")]
  /\ UNCHANGED <<now, skew, redis, key, window, through>>

RequestStep(r) ==
  \/ \E p \in Policy : Consume(r, p) \/ ConsumeFails(r, p)
  \/ Call(r) \/ ArriveWithIdentity(r) \/ ArriveWithKey(r)
  \/ Answer(r) \/ TimesOut(r) \/ Unreachable(r)

Next == Tick \/ RedisStops \/ RedisReturns \/ \E r \in Request : RequestStep(r)
Spec == Init /\ [][Next]_vars

-----------------------------------------------------------------------------
Sent(r) == request[r].at \in {"call", "sent", "begun", "unauthorized"}

\* No counter lets more requests through than its limit, and a request that has
\* to be authenticated goes on only if it was counted, whatever Redis does.
WithinLimit ==
  /\ \A p \in Policy : through[p] <= Limit[p]
  /\ \A r \in AuthRequest : Sent(r) => "authentication" \in request[r].counted

\* A caller that waits as long as it was told meets another counter than the
\* one that refused it.
HonestRetryAfter ==
  \A r \in Request :
    LET p == request[r].by
    IN request[r].answer = "limited" /\ now >= request[r].retry =>
         ~(Live(p) /\ request[r].key = window[p])

\* No operation begins when the service's clock has reached the end that
\* Gateway stamped on its identity: what may still happen after a timeout has
\* an end, on the service's clock and not on Gateway's.
BegunInTime ==
  \A r \in TodoRequest :
    request[r].at = "begun" =>
      request[r].seen < request[r].sent + Second * Ttl - skew

\* Clocks as far apart as is allowed and a call that arrives a second before its
\* identity ends are no reason to refuse it.
RefusedForCause ==
  \A r \in TodoRequest :
    request[r].at = "unauthorized" =>
      \/ skew < -(Second * AllowedSkew)
      \/ request[r].seen + skew > request[r].sent + Second * (Ttl - 1)
=============================================================================
