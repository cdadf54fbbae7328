---------------------------- MODULE RateLimiter ----------------------------
(***************************************************************************)
(* TokenBucketRateLimiter of serving/rate_limit.py: one bucket per         *)
(* authenticated caller, refilled as time passes, in an OrderedDict that   *)
(* drops the caller checked longest ago when it holds too many.  check is  *)
(* synchronous: each call is one step.                                     *)
(*                                                                         *)
(* Time is counted in seconds and a token in Unit parts, so that a refill  *)
(* of a fraction of a token per second is a whole number; the rounding of  *)
(* floating point is left out.                                             *)
(***************************************************************************)
EXTENDS Integers, SequencesExt

CONSTANTS
    Keys,            \* callers (Principal.reviewer_id)
    Capacity,        \* tokens in a full bucket
    Unit,            \* parts in a token
    RefillRates,     \* the settings of refill_rate, in parts per second
    MaxTrackedKeys,
    MaxTime,         \* bound: seconds the clock runs
    MaxGiven,        \* bound: buckets made for one caller
    NoBucket, NoRetry

ASSUME RateAssumption ==
    /\ Capacity \in Nat
    /\ {Unit, MaxTrackedKeys} \subseteq Nat \ {0}
    /\ RefillRates \subseteq Nat
    /\ {MaxTime, MaxGiven} \subseteq Nat
    /\ NoBucket \notin [tokens : Nat, last : Nat]
    /\ NoRetry \notin Nat

VARIABLES
    refillRate,   \* self.refill_rate
    now,          \* time.monotonic()
    bucket,       \* self._buckets: (tokens, last), or NoBucket
    order,        \* the order of its keys, the one checked longest ago first
    given,        \* history: full buckets made for each caller
    spent,        \* history: requests each caller was granted
    retryAt       \* history: when a refused caller was told to come back

rateVars == <<refillRate, now, bucket, order, given, spent, retryAt>>

Full == Capacity * Unit

\* Nothing checks SERVING_RATE_LIMIT_CAPACITY (router.py:45): with zero nobody is
\* ever granted.  Two of the properties below need more.
HoldsAToken == Capacity >= 1

Bucket == [tokens : 0 .. Full, last : Nat]

RateInit ==
    /\ refillRate \in RefillRates
    /\ now = 0
    /\ bucket = [k \in Keys |-> NoBucket]
    /\ order = <<>>
    /\ given = [k \in Keys |-> 0]
    /\ spent = [k \in Keys |-> 0]
    /\ retryAt = [k \in Keys |-> NoRetry]

Tracked(k) == bucket[k] # NoBucket

Popped(k) == IF Tracked(k) THEN bucket[k] ELSE [tokens |-> Full, last |-> now]

\* The tokens of k once refilled up to now.
Refilled(k) ==
    LET sum == Popped(k).tokens + (now - Popped(k).last) * refillRate IN
    IF sum < Full THEN sum ELSE Full

FaultyRetryAfter(tokens) == (Unit - tokens) \div refillRate

\* The Retry-After header: the time to the next token, in whole seconds.
RetryAfter(tokens) == (Unit - tokens) \div refillRate + 1

Others(k) == RemoveFirst(order, k)

Latest(k) == Append(Others(k), k)

\* A caller with no bucket is given a full one, whatever comes of the call.
CountGiven(k) ==
    /\ Tracked(k) \/ given[k] < MaxGiven
    /\ given' = IF Tracked(k) THEN given ELSE [given EXCEPT ![k] = @ + 1]
    /\ UNCHANGED <<refillRate, now>>

FaultyRefuse(k) ==
    /\ CountGiven(k)
    /\ Refilled(k) < Unit
    /\ refillRate > 0
    /\ bucket' = [bucket EXCEPT ![k] = [tokens |-> Refilled(k), last |-> Popped(k).last]]
    /\ order' = Latest(k)
    /\ retryAt' = [retryAt EXCEPT ![k] = now + RetryAfter(Refilled(k))]
    /\ UNCHANGED spent

\* 429: the bucket goes back, refilled.
Refuse(k) ==
    /\ CountGiven(k)
    /\ Refilled(k) < Unit
    /\ refillRate > 0
    /\ bucket' = [bucket EXCEPT ![k] = [tokens |-> Refilled(k), last |-> now]]
    /\ order' = Latest(k)
    /\ retryAt' = [retryAt EXCEPT ![k] = now + RetryAfter(Refilled(k))]
    /\ UNCHANGED spent

\* Without a refill rate the retry-after divides by zero, and the bucket has
\* been popped already.
RefuseFails(k) ==
    /\ CountGiven(k)
    /\ Refilled(k) < Unit
    /\ refillRate = 0
    /\ bucket' = [bucket EXCEPT ![k] = NoBucket]
    /\ order' = Others(k)
    /\ UNCHANGED <<spent, retryAt>>

Paid(k) == [bucket EXCEPT ![k] = [tokens |-> Refilled(k) - Unit, last |-> now]]

FaultyGrant(k) ==
    /\ CountGiven(k)
    /\ Refilled(k) >= Unit
    /\ IF Len(order) > MaxTrackedKeys
       THEN /\ bucket' = [Paid(k) EXCEPT ![Head(Latest(k))] = NoBucket]
            /\ order' = Tail(Latest(k))
       ELSE bucket' = Paid(k) /\ order' = Latest(k)
    /\ spent' = [spent EXCEPT ![k] = @ + 1]
    /\ retryAt' = [retryAt EXCEPT ![k] = NoRetry]

Grant(k) ==
    /\ CountGiven(k)
    /\ Refilled(k) >= Unit
    /\ IF Len(Latest(k)) > MaxTrackedKeys
       THEN /\ bucket' = [Paid(k) EXCEPT ![Head(Latest(k))] = NoBucket]
            /\ order' = Tail(Latest(k))
       ELSE bucket' = Paid(k) /\ order' = Latest(k)
    /\ spent' = [spent EXCEPT ![k] = @ + 1]
    /\ retryAt' = [retryAt EXCEPT ![k] = NoRetry]

Check(k) == Refuse(k) \/ RefuseFails(k) \/ Grant(k)

Tick ==
    /\ now < MaxTime
    /\ now' = now + 1
    /\ UNCHANGED <<refillRate, bucket, order, given, spent, retryAt>>

RateNext == Tick \/ \E k \in Keys : Check(k)

RateSpec == RateInit /\ [][RateNext]_rateVars

-----------------------------------------------------------------------------

RateTypeOK ==
    /\ refillRate \in RefillRates
    /\ now \in Nat
    /\ bucket \in [Keys -> Bucket \cup {NoBucket}]
    /\ order \in Seq(Keys)
    /\ given \in [Keys -> Nat]
    /\ spent \in [Keys -> Nat]
    /\ retryAt \in [Keys -> Nat \cup {NoRetry}]

\* A caller is never granted more than its buckets held and the refill since
\* the start brought, however its requests, refusals and evictions fall: each
\* bucket forgotten costs one Capacity and no more.
SpendingBounded ==
    \A k \in Keys : Unit * spent[k] <= Full * given[k] + refillRate * now

\* The store holds at most max_tracked_keys buckets, each once in the order,
\* although a refused request puts its bucket back without evicting
\* (rate_limit.py:34-37).  This needs HoldsAToken: with a capacity of zero a
\* fresh caller is refused, its bucket is stored, and the store grows with every
\* caller that comes.
StoreBounded ==
    /\ Len(order) <= MaxTrackedKeys
    /\ {k \in Keys : Tracked(k)} = {order[i] : i \in 1 .. Len(order)}
    /\ \A i, j \in 1 .. Len(order) : order[i] = order[j] => i = j

\* A caller refused with a Retry-After and asking again no earlier is granted,
\* whatever it and others asked meanwhile; again if HoldsAToken.
RetryAfterHonest ==
    \A k \in Keys :
        retryAt[k] # NoRetry /\ retryAt[k] <= now => Refilled(k) >= Unit
=============================================================================
