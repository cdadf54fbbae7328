------------------------- MODULE RateLimiterProofs -------------------------
(***************************************************************************)
(* Theorems about RateLimiter, for any callers, capacity, refill rate and  *)
(* store size: what a caller can be granted is bounded by the buckets it   *)
(* was given and the refill since the start, Retry-After is never too      *)
(* short, and the store keeps its bound although a refusal evicts nobody.  *)
(***************************************************************************)
EXTENDS RateLimiter, SequenceTheorems, TLAPS

-----------------------------------------------------------------------------
(* Arithmetic.                                                             *)

\* A refill counted in two parts.
LEMMA RefillSplits ==
    ASSUME NEW r \in Nat, NEW a \in Nat, NEW b \in Nat, a <= b
    PROVE  r * a + (b - a) * r = r * b /\ (b - a) * r \in Nat
<1>1. r * a \in Nat /\ r * b \in Nat /\ b - a \in Nat
  OBVIOUS
<1>2. (b - a) * r \in Nat
  BY <1>1
<1>3. (b - a) * r = b * r - a * r
  OBVIOUS
<1> QED  BY <1>1, <1>2, <1>3

\* The whole seconds of the Retry-After header bring at least what is missing.
LEMMA HeaderSuffices ==
    ASSUME NEW r \in Nat \ {0}, NEW missing \in Nat
    PROVE  /\ missing \div r + 1 \in Nat
           /\ (missing \div r + 1) * r >= missing
<1>1. missing \div r \in Nat /\ missing < r * (missing \div r) + r
  OBVIOUS
<1>2. PICK q \in Nat : q = missing \div r
  BY <1>1
<1>3. (q + 1) * r = r * q + r /\ r * q \in Nat
  OBVIOUS
<1> QED  BY <1>1, <1>2, <1>3

LEMMA FullIsNat == Full \in Nat /\ Unit \in Nat \ {0}
BY RateAssumption DEF Full

\* A full bucket pays for a request, unless it holds nothing at all.
LEMMA FullHoldsAToken ==
    ASSUME HoldsAToken
    PROVE  Full >= Unit
<1>1. Capacity \in Nat /\ Capacity >= 1 /\ Unit \in Nat \ {0}
  BY RateAssumption DEF HoldsAToken
<1>2. PICK c \in Nat : Capacity = c + 1
  <2>1. Capacity - 1 \in Nat /\ Capacity = (Capacity - 1) + 1
    BY <1>1
  <2> QED  BY <2>1
<1>3. (c + 1) * Unit = c * Unit + Unit /\ c * Unit \in Nat
  BY <1>1
<1> QED  BY <1>1, <1>2, <1>3 DEF Full

-----------------------------------------------------------------------------
(* The inductive invariant.  A tracked bucket and what its owner has spent *)
(* are covered by the refill up to the last time the bucket was touched;   *)
(* and at the announced time it will hold a token.                         *)

Solvent(k) ==
    Tracked(k) => /\ bucket[k].last <= now
                  /\ Unit * spent[k] + bucket[k].tokens <= Full * given[k] + refillRate * bucket[k].last

Promised(k) ==
    Tracked(k) /\ retryAt[k] # NoRetry =>
        /\ bucket[k].last <= retryAt[k]
        /\ bucket[k].tokens + (retryAt[k] - bucket[k].last) * refillRate >= Unit

\* The types of all but the order, which no step below reads.
RateTyped ==
    /\ refillRate \in RefillRates
    /\ now \in Nat
    /\ bucket \in [Keys -> Bucket \cup {NoBucket}]
    /\ given \in [Keys -> Nat]
    /\ spent \in [Keys -> Nat]
    /\ retryAt \in [Keys -> Nat \cup {NoRetry}]

RateInv ==
    /\ RateTyped
    /\ SpendingBounded
    /\ \A k \in Keys : Solvent(k) /\ Promised(k)

LEMMA RateInitInv == RateInit => RateInv
<1> SUFFICES ASSUME RateInit PROVE RateInv
  OBVIOUS
<1>1. refillRate \in Nat
  BY RateAssumption DEF RateInit
<1>2. RateTyped
  BY DEF RateInit, RateTyped
<1>3. SpendingBounded
  <2> SUFFICES ASSUME NEW k \in Keys
               PROVE  Unit * 0 <= Full * 0 + refillRate * 0
    BY DEF RateInit, SpendingBounded
  <2> QED  BY <1>1, FullIsNat
<1>4. \A k \in Keys : Solvent(k) /\ Promised(k)
  BY DEF RateInit, Solvent, Promised, Tracked
<1> QED  BY <1>2, <1>3, <1>4 DEF RateInv

\* What a call finds: the refilled bucket, and what it and the spending are
\* covered by once the caller has been given a bucket if it had none.
LEMMA Found ==
    ASSUME RateInv, NEW k \in Keys, CountGiven(k)
    PROVE  /\ Refilled(k) \in 0 .. Full
           /\ given'[k] \in Nat
           /\ Unit * spent[k] + Refilled(k) <= Full * given'[k] + refillRate * now
<1> USE FullIsNat
<1>1. /\ refillRate \in Nat /\ now \in Nat /\ given[k] \in Nat /\ spent[k] \in Nat
      /\ Unit * spent[k] \in Nat /\ Full * given[k] \in Nat /\ refillRate * now \in Nat
  BY RateAssumption DEF RateInv, RateTyped
<1>2. CASE Tracked(k)
  <2>1. bucket[k].tokens \in 0 .. Full /\ bucket[k].last \in Nat /\ bucket[k].last <= now
    BY <1>2 DEF RateInv, RateTyped, Bucket, Solvent, Tracked
  <2> PICK last \in Nat : last = bucket[k].last
    BY <2>1
  <2> PICK more \in Nat : more = (now - last) * refillRate /\ refillRate * last + more = refillRate * now
    BY <1>1, <2>1, RefillSplits
  <2>2. refillRate * last \in Nat
    BY <1>1
  <2>3. Unit * spent[k] + bucket[k].tokens <= Full * given[k] + refillRate * last
    BY <1>2 DEF RateInv, Solvent
  <2>4. Popped(k) = bucket[k] /\ given' = given
    BY <1>2 DEF Popped, CountGiven
  <2>5. Refilled(k) \in 0 .. Full /\ Refilled(k) <= bucket[k].tokens + more
    BY <2>1, <2>2, <2>4 DEF Refilled
  <2> QED  BY <1>1, <2>1, <2>2, <2>3, <2>4, <2>5
<1>3. CASE ~Tracked(k)
  <2>1. Popped(k) = [tokens |-> Full, last |-> now] /\ given'[k] = given[k] + 1
    BY <1>3 DEF Popped, CountGiven, RateInv, RateTyped
  <2>2. Refilled(k) = Full
    BY <1>1, <2>1 DEF Refilled
  <2>3. Full * (given[k] + 1) = Full * given[k] + Full
    BY <1>1
  <2>4. Unit * spent[k] <= Full * given[k] + refillRate * now
    BY DEF RateInv, SpendingBounded
  <2> QED  BY <1>1, <2>1, <2>2, <2>3, <2>4
<1> QED  BY <1>2, <1>3

-----------------------------------------------------------------------------
(* One step at a time.                                                     *)

LEMMA TickKeeps == RateInv /\ Tick => RateInv'
<1> SUFFICES ASSUME RateInv, Tick PROVE RateInv'
  OBVIOUS
<1> USE FullIsNat
<1>1. refillRate \in Nat /\ now \in Nat /\ now' = now + 1
  BY RateAssumption DEF RateInv, RateTyped, Tick
<1>2. RateTyped'
  BY <1>1 DEF RateInv, RateTyped, Tick
<1>3. refillRate * now \in Nat /\ refillRate * (now + 1) = refillRate * now + refillRate
  BY <1>1
<1>4. SpendingBounded'
  <2> SUFFICES ASSUME NEW k \in Keys
               PROVE  Unit * spent[k] <= Full * given[k] + refillRate * (now + 1)
    BY <1>1 DEF SpendingBounded, Tick
  <2>1. Unit * spent[k] \in Nat /\ Full * given[k] \in Nat
    BY DEF RateInv, RateTyped
  <2> QED  BY <1>1, <1>3, <2>1 DEF RateInv, SpendingBounded
<1>5. ASSUME NEW k \in Keys PROVE (Solvent(k) /\ Promised(k))'
  <2>1. Tracked(k) => bucket[k].last \in Nat
    BY DEF RateInv, RateTyped, Bucket, Tracked
  <2> QED  BY <1>1, <2>1 DEF RateInv, Solvent, Promised, Tracked, Tick
<1> QED  BY <1>2, <1>4, <1>5 DEF RateInv

\* The call of k leaves other callers as they are, or forgets their bucket.
OthersKept(k) ==
    \A j \in Keys \ {k} : /\ given'[j] = given[j]
                          /\ spent'[j] = spent[j]
                          /\ retryAt'[j] = retryAt[j]
                          /\ bucket'[j] = bucket[j] \/ bucket'[j] = NoBucket

\* What is left of the invariant when only the bucket of k is written, with
\* its spending covered, and others may be forgotten.
LEMMA CheckKeeps ==
    ASSUME RateInv, RateTyped', NEW k \in Keys,
           refillRate' = refillRate, now' = now,
           OthersKept(k),
           Unit * spent'[k] <= Full * given'[k] + refillRate * now,
           (Solvent(k))', (Promised(k))'
    PROVE  RateInv'
<1>1. SpendingBounded'
  BY DEF RateInv, SpendingBounded, OthersKept
<1>2. ASSUME NEW j \in Keys \ {k} PROVE (Solvent(j) /\ Promised(j))'
  <2>1. CASE bucket'[j] = NoBucket
    BY <2>1 DEF Solvent, Promised, Tracked
  <2>2. CASE bucket'[j] = bucket[j]
    BY <2>2 DEF RateInv, Solvent, Promised, Tracked, OthersKept
  <2> QED  BY <2>1, <2>2 DEF OthersKept
<1> QED  BY <1>1, <1>2 DEF RateInv

LEMMA RefuseKeeps ==
    ASSUME RateInv, NEW k \in Keys, Refuse(k)
    PROVE  RateInv'
<1> USE FullIsNat
<1>1. /\ refillRate \in Nat \ {0} /\ now \in Nat /\ given[k] \in Nat /\ spent[k] \in Nat
      /\ Unit * spent[k] \in Nat
  BY RateAssumption DEF RateInv, RateTyped, Refuse
<1>2. PICK found \in 0 .. Full : found = Refilled(k)
  BY Found DEF Refuse
<1>3. PICK wait \in Nat : wait = RetryAfter(found) /\ wait * refillRate >= Unit - found
  <2>1. Unit - found \in Nat
    BY <1>2 DEF Refuse
  <2> QED  BY <1>1, <2>1, HeaderSuffices DEF RetryAfter
<1>4. /\ bucket' = [bucket EXCEPT ![k] = [tokens |-> found, last |-> now]]
      /\ retryAt' = [retryAt EXCEPT ![k] = now + wait]
      /\ spent' = spent /\ refillRate' = refillRate /\ now' = now
  BY <1>2, <1>3 DEF Refuse, CountGiven
<1>5. RateTyped'
  BY <1>1, <1>4, Found DEF RateInv, RateTyped, Refuse, CountGiven, Bucket
<1>6. /\ bucket'[k] = [tokens |-> found, last |-> now] /\ retryAt'[k] = now + wait
      /\ spent'[k] = spent[k]
  BY <1>4 DEF RateInv, RateTyped
<1>7. Unit * spent[k] + found <= Full * given'[k] + refillRate * now
  BY <1>2, Found DEF Refuse
<1>8. Full * given'[k] \in Nat /\ refillRate * now \in Nat
  BY <1>1, Found DEF Refuse
<1>9. Solvent(k)'
  BY <1>1, <1>2, <1>4, <1>6, <1>7 DEF Solvent
<1>10. Promised(k)'
  <2>1. now + wait - now = wait
    BY <1>1
  <2> QED  BY <1>1, <1>2, <1>3, <1>4, <1>6, <2>1 DEF Promised
<1>11. Unit * spent'[k] <= Full * given'[k] + refillRate * now
  BY <1>1, <1>2, <1>6, <1>7, <1>8
<1>12. OthersKept(k)
  BY <1>4 DEF RateInv, RateTyped, Refuse, CountGiven, OthersKept
<1> QED  BY <1>4, <1>5, <1>9, <1>10, <1>11, <1>12, CheckKeeps

LEMMA RefuseFailsKeeps ==
    ASSUME RateInv, NEW k \in Keys, RefuseFails(k)
    PROVE  RateInv'
<1> USE FullIsNat
<1>1. /\ refillRate \in Nat /\ now \in Nat /\ given[k] \in Nat /\ spent[k] \in Nat
      /\ Unit * spent[k] \in Nat /\ refillRate * now \in Nat
  BY RateAssumption DEF RateInv, RateTyped
<1>2. /\ bucket' = [bucket EXCEPT ![k] = NoBucket]
      /\ retryAt' = retryAt /\ spent' = spent /\ refillRate' = refillRate /\ now' = now
  BY DEF RefuseFails, CountGiven
<1>3. RateTyped'
  BY <1>1, <1>2, Found DEF RateInv, RateTyped, RefuseFails, CountGiven, Bucket
<1>4. ~Tracked(k)'
  BY <1>2 DEF RateInv, RateTyped, Tracked
<1>5. Unit * spent[k] <= Full * given'[k] + refillRate * now
  <2>1. Refilled(k) \in 0 .. Full /\ Unit * spent[k] + Refilled(k) <= Full * given'[k] + refillRate * now
    BY Found DEF RefuseFails
  <2>2. Full * given'[k] \in Nat
    BY Found DEF RefuseFails
  <2> QED  BY <1>1, <2>1, <2>2
<1>6. OthersKept(k)
  BY <1>2 DEF RateInv, RateTyped, RefuseFails, CountGiven, OthersKept
<1>7. Solvent(k)' /\ Promised(k)'
  BY <1>4 DEF Solvent, Promised
<1> QED  BY <1>2, <1>3, <1>5, <1>6, <1>7, CheckKeeps

LEMMA GrantKeeps ==
    ASSUME RateInv, NEW k \in Keys, Grant(k)
    PROVE  RateInv'
<1> USE FullIsNat
<1>1. /\ refillRate \in Nat /\ now \in Nat /\ given[k] \in Nat /\ spent[k] \in Nat
      /\ Unit * spent[k] \in Nat /\ refillRate * now \in Nat
  BY RateAssumption DEF RateInv, RateTyped
<1>2. PICK left \in 0 .. Full : left = Refilled(k) - Unit
  BY Found DEF Grant
<1>3. PICK paid : paid = [bucket EXCEPT ![k] = [tokens |-> left, last |-> now]]
  OBVIOUS
<1>4. paid \in [Keys -> Bucket \cup {NoBucket}] /\ paid[k] = [tokens |-> left, last |-> now]
  BY <1>1, <1>2, <1>3 DEF RateInv, RateTyped, Bucket
<1>5. /\ bucket' = paid \/ \E victim : bucket' = [paid EXCEPT ![victim] = NoBucket]
      /\ spent' = [spent EXCEPT ![k] = spent[k] + 1]
      /\ retryAt' = [retryAt EXCEPT ![k] = NoRetry]
      /\ refillRate' = refillRate /\ now' = now
  BY <1>2, <1>3 DEF Grant, Paid, CountGiven
<1>6. /\ bucket' \in [Keys -> Bucket \cup {NoBucket}]
      /\ \A j \in Keys : bucket'[j] = paid[j] \/ bucket'[j] = NoBucket
  BY <1>4, <1>5
<1>7. RateTyped'
  <2>1. given' \in [Keys -> Nat]
    BY <1>1 DEF RateInv, RateTyped, Grant, CountGiven
  <2>2. spent' \in [Keys -> Nat] /\ retryAt' \in [Keys -> Nat \cup {NoRetry}]
    BY <1>1, <1>5 DEF RateInv, RateTyped
  <2> QED  BY <1>1, <1>5, <1>6, <2>1, <2>2 DEF RateInv, RateTyped
<1>8. spent'[k] = spent[k] + 1 /\ retryAt'[k] = NoRetry
  BY <1>5 DEF RateInv, RateTyped
<1>9. Unit * spent'[k] = Unit * spent[k] + Unit /\ Full * given'[k] \in Nat
  <2>1. given'[k] \in Nat
    BY Found DEF Grant
  <2> PICK total \in Nat, before \in Nat : total = given'[k] /\ before = spent[k]
    BY <1>1, <2>1
  <2>2. Full * total \in Nat
    OBVIOUS
  <2>3. Unit * (before + 1) = Unit * before + Unit
    OBVIOUS
  <2> QED  BY <1>8, <2>2, <2>3
<1>10. Unit * spent[k] + Refilled(k) <= Full * given'[k] + refillRate * now
  BY Found DEF Grant
<1>11. Unit * spent'[k] + left <= Full * given'[k] + refillRate * now
  <2>1. Refilled(k) = left + Unit
    <3>1. Refilled(k) \in Int
      BY Found DEF Grant
    <3> QED  BY <1>2, <3>1
  <2> QED  BY <1>1, <1>2, <1>9, <1>10, <2>1
<1>12. Unit * spent'[k] <= Full * given'[k] + refillRate * now
  BY <1>1, <1>2, <1>9, <1>11
<1>13. Solvent(k)'
  BY <1>1, <1>4, <1>5, <1>6, <1>11 DEF Solvent, Tracked
<1>14. Promised(k)'
  BY <1>8 DEF Promised
<1>15. OthersKept(k)
  BY <1>3, <1>5, <1>6 DEF RateInv, RateTyped, Grant, CountGiven, OthersKept
<1> QED  BY <1>5, <1>7, <1>12, <1>13, <1>14, <1>15, CheckKeeps

LEMMA RateStepInv == RateInv /\ [RateNext]_rateVars => RateInv'
<1> SUFFICES ASSUME RateInv, [RateNext]_rateVars PROVE RateInv'
  OBVIOUS
<1>1. CASE Tick
  BY <1>1, TickKeeps
<1>2. ASSUME NEW k \in Keys, Check(k) PROVE RateInv'
  BY <1>2, RefuseKeeps, RefuseFailsKeeps, GrantKeeps DEF Check
<1>3. CASE UNCHANGED rateVars
  BY <1>3 DEF rateVars, RateInv, RateTyped, SpendingBounded, Solvent, Promised, Tracked
<1> QED  BY <1>1, <1>2, <1>3 DEF RateNext

-----------------------------------------------------------------------------
(* The order of the store.                                                 *)

Members(s) == {s[i] : i \in 1 .. Len(s)}

Distinct(s) == \A i, j \in 1 .. Len(s) : s[i] = s[j] => i = j

\* A caller taken out of the order leaves the others, each once.
LEMMA TakenOut ==
    ASSUME NEW s \in Seq(Keys), NEW k \in Keys, Distinct(s)
    PROVE  LET rest == RemoveFirst(s, k) IN
           /\ rest \in Seq(Keys) /\ Distinct(rest)
           /\ Members(rest) = Members(s) \ {k}
           /\ Len(rest) = IF k \in Members(s) THEN Len(s) - 1 ELSE Len(s)
<1> PICK rest : rest = RemoveFirst(s, k)
  OBVIOUS
<1>1. CASE k \notin Members(s)
  BY <1>1 DEF RemoveFirst, Members
<1>2. CASE k \in Members(s)
  <2> PICK n \in 1 .. Len(s) : s[n] = k
    BY <1>2 DEF Members
  <2>1. \A i \in 1 .. Len(s) : s[i] = k <=> i = n
    BY DEF Distinct
  <2>2. SelectInSeq(s, LAMBDA v : v = k) = n
    BY <2>1 DEF SelectInSeq, Min
  <2>3. rest = SubSeq(s, 1, n - 1) \o SubSeq(s, n + 1, Len(s))
    BY <2>2 DEF RemoveFirst, RemoveAt
  <2>4. /\ rest \in Seq(Keys) /\ Len(rest) = Len(s) - 1
        /\ \A i \in 1 .. Len(rest) : rest[i] = IF i < n THEN s[i] ELSE s[i + 1]
    <3> PICK front, back : front = SubSeq(s, 1, n - 1) /\ back = SubSeq(s, n + 1, Len(s))
      OBVIOUS
    <3>1. /\ front \in Seq(Keys) /\ Len(front) = n - 1
          /\ \A i \in 1 .. n - 1 : front[i] = s[i]
      OBVIOUS
    <3>2. /\ back \in Seq(Keys) /\ Len(back) = Len(s) - n
          /\ \A i \in 1 .. Len(s) - n : back[i] = s[n + i]
      OBVIOUS
    <3>3. rest = front \o back
      BY <2>3
    <3>4. /\ rest \in Seq(Keys) /\ Len(rest) = Len(front) + Len(back)
          /\ \A i \in 1 .. Len(front) + Len(back) :
                rest[i] = IF i <= Len(front) THEN front[i] ELSE back[i - Len(front)]
      <4>1. front \in Seq(Keys)
        BY <3>1
      <4>2. back \in Seq(Keys)
        BY <3>2
      <4>3. /\ front \o back \in Seq(Keys) /\ Len(front \o back) = Len(front) + Len(back)
            /\ \A i \in 1 .. Len(front) + Len(back) :
                  (front \o back)[i] = IF i <= Len(front) THEN front[i] ELSE back[i - Len(front)]
        BY <4>1, <4>2, ConcatProperties
      <4> QED  BY <3>3, <4>3, Zenon
    <3>5. Len(front) + Len(back) = Len(s) - 1
      <4>1. (n - 1) + (Len(s) - n) = Len(s) - 1
        OBVIOUS
      <4>2. Len(front) = n - 1 /\ Len(back) = Len(s) - n
        BY <3>1, <3>2
      <4> QED  BY <4>1, <4>2
    <3>6. ASSUME NEW i \in 1 .. Len(s) - 1 PROVE rest[i] = IF i < n THEN s[i] ELSE s[i + 1]
      <4>1. rest[i] = IF i <= n - 1 THEN front[i] ELSE back[i - (n - 1)]
        <5>1. Len(front) = n - 1
          BY <3>1
        <5> QED  BY <3>5, <3>4, <5>1, Zenon
      <4>2. CASE i < n
        <5>1. i \in 1 .. n - 1
          BY <4>2
        <5> QED  BY <3>1, <4>1, <4>2, <5>1
      <4>3. CASE i >= n
        <5>1. i - (n - 1) \in 1 .. Len(s) - n /\ n + (i - (n - 1)) = i + 1
          BY <4>3
        <5>2. back[i - (n - 1)] = s[n + (i - (n - 1))]
          BY <3>2, <5>1, Zenon
        <5> QED  BY <4>1, <4>3, <5>1, <5>2
      <4> QED  BY <4>2, <4>3
    <3> QED  BY <3>5, <3>6, <3>4
  <2>5. Distinct(rest)
    BY <2>4 DEF Distinct
  <2>6. ASSUME NEW x \in Members(rest) PROVE x \in Members(s) \ {k}
    BY <2>1, <2>4, <2>6 DEF Members
  <2>7. ASSUME NEW x \in Members(s) \ {k} PROVE x \in Members(rest)
    <3> PICK i \in 1 .. Len(s) : s[i] = x /\ i # n
      BY <2>7 DEF Members
    <3>1. CASE i < n
      BY <2>4, <3>1 DEF Members
    <3>2. CASE i > n
      <4>1. i - 1 \in 1 .. Len(rest) /\ rest[i - 1] = s[i]
        BY <2>4, <3>2
      <4> QED  BY <4>1 DEF Members
    <3> QED  BY <3>1, <3>2
  <2> QED  BY <1>2, <2>4, <2>5, <2>6, <2>7
<1> QED  BY <1>1, <1>2

\* A caller that is not in the order comes last.
LEMMA PutLast ==
    ASSUME NEW s \in Seq(Keys), NEW k \in Keys, Distinct(s), k \notin Members(s)
    PROVE  LET longer == Append(s, k) IN
           /\ longer \in Seq(Keys) /\ Distinct(longer)
           /\ Members(longer) = Members(s) \cup {k}
           /\ Len(longer) = Len(s) + 1
<1> PICK longer : longer = Append(s, k)
  OBVIOUS
<1>1. /\ longer \in Seq(Keys) /\ Len(longer) = Len(s) + 1 /\ longer[Len(s) + 1] = k
      /\ \A i \in 1 .. Len(s) : longer[i] = s[i]
  OBVIOUS
<1>2. Distinct(longer)
  BY <1>1 DEF Distinct, Members
<1>3. Members(longer) = Members(s) \cup {k}
  BY <1>1 DEF Members
<1> QED  BY <1>1, <1>2, <1>3

\* The first caller is dropped.
LEMMA Dropped ==
    ASSUME NEW s \in Seq(Keys), Distinct(s), Len(s) > 0
    PROVE  /\ Tail(s) \in Seq(Keys) /\ Distinct(Tail(s))
           /\ Members(Tail(s)) = Members(s) \ {Head(s)}
           /\ Len(Tail(s)) = Len(s) - 1
<1> PICK rest : rest = Tail(s)
  OBVIOUS
<1>1. /\ rest \in Seq(Keys) /\ Len(rest) = Len(s) - 1 /\ Head(s) = s[1]
      /\ \A i \in 1 .. Len(rest) : rest[i] = s[i + 1]
  OBVIOUS
<1>2. Distinct(rest)
  BY <1>1 DEF Distinct
<1>3. ASSUME NEW x \in Members(rest) PROVE x \in Members(s) \ {Head(s)}
  BY <1>1, <1>3 DEF Members, Distinct
<1>4. ASSUME NEW x \in Members(s) \ {Head(s)} PROVE x \in Members(rest)
  <2> PICK i \in 1 .. Len(s) : s[i] = x /\ i # 1
    BY <1>1, <1>4 DEF Members
  <2>1. i - 1 \in 1 .. Len(rest) /\ rest[i - 1] = x
    BY <1>1
  <2> QED  BY <2>1 DEF Members
<1> QED  BY <1>1, <1>2, <1>3, <1>4

\* The order lists the callers with a bucket, each once.
Listed ==
    /\ order \in Seq(Keys)
    /\ {k \in Keys : Tracked(k)} = Members(order)
    /\ Distinct(order)

OrderBounded == Len(order) <= MaxTrackedKeys

\* The order is rebuilt by a call that takes its caller out of it.
LEMMA Reordered ==
    ASSUME Listed, NEW k \in Keys
    PROVE  /\ Others(k) \in Seq(Keys) /\ Distinct(Others(k))
           /\ Members(Others(k)) = {j \in Keys : Tracked(j)} \ {k}
           /\ Latest(k) \in Seq(Keys) /\ Distinct(Latest(k))
           /\ Members(Latest(k)) = {j \in Keys : Tracked(j)} \cup {k}
           /\ Len(Others(k)) = IF Tracked(k) THEN Len(order) - 1 ELSE Len(order)
           /\ Len(Latest(k)) = IF Tracked(k) THEN Len(order) ELSE Len(order) + 1
<1>1. order \in Seq(Keys) /\ Distinct(order) /\ Members(order) = {j \in Keys : Tracked(j)}
  BY DEF Listed
<1>2. /\ Others(k) \in Seq(Keys) /\ Distinct(Others(k))
      /\ Members(Others(k)) = Members(order) \ {k}
      /\ Len(Others(k)) = IF k \in Members(order) THEN Len(order) - 1 ELSE Len(order)
  BY <1>1, TakenOut DEF Others
<1>3. /\ Latest(k) \in Seq(Keys) /\ Distinct(Latest(k))
      /\ Members(Latest(k)) = Members(Others(k)) \cup {k}
      /\ Len(Latest(k)) = Len(Others(k)) + 1
  BY <1>2, PutLast DEF Latest
<1>4. Len(order) \in Nat
  BY <1>1
<1>5. k \in Members(order) <=> Tracked(k)
  BY <1>1
<1> QED  BY <1>1, <1>2, <1>3, <1>4, <1>5

\* Only a caller with a bucket is refused: a new bucket is full, and holds a
\* token, if it holds anything.  This is why a refusal need not evict.
LEMMA RefusedIsTracked ==
    ASSUME RateInv, HoldsAToken, NEW k \in Keys, Refilled(k) < Unit
    PROVE  Tracked(k)
<1>1. refillRate \in Nat /\ now \in Nat
  BY RateAssumption DEF RateInv, RateTyped
<1>2. ~Tracked(k) => Refilled(k) = Full
  BY <1>1, FullIsNat DEF Refilled, Popped
<1> QED  BY <1>2, FullIsNat, FullHoldsAToken

\* The order and the tracked callers of the next state, from what a step makes
\* of them.
LEMMA ListedAgain ==
    ASSUME NEW s \in Seq(Keys), Distinct(s), order' = s,
           \A j \in Keys : Tracked(j)' <=> j \in Members(s)
    PROVE  Listed'
<1>1. Members(s) \subseteq Keys
  BY DEF Members
<1>2. {j \in Keys : Tracked(j)}' = Members(s)
  BY <1>1
<1> QED  BY <1>2 DEF Listed, Distinct, Members

LEMMA ListedKeeps ==
    ASSUME RateInv, Listed, [RateNext]_rateVars
    PROVE  Listed'
<1> USE FullIsNat
<1>0. MaxTrackedKeys \in Nat \ {0} /\ Len(order) \in Nat
  BY RateAssumption DEF Listed
<1>1. CASE UNCHANGED <<bucket, order>>
  BY <1>1 DEF Listed, Tracked, Distinct, Members
<1>2. ASSUME NEW k \in Keys, Refuse(k) PROVE Listed'
  <2>2. PICK kept \in Bucket : bucket' = [bucket EXCEPT ![k] = kept]
    BY <1>2, Found, RateAssumption DEF Refuse, RateInv, RateTyped, Bucket
  <2>3. kept # NoBucket
    BY RateAssumption DEF Bucket
  <2>4. \A j \in Keys : Tracked(j)' <=> Tracked(j) \/ j = k
    BY <2>2, <2>3 DEF Tracked, RateInv, RateTyped
  <2>5. order' = Latest(k)
    BY <1>2 DEF Refuse
  <2> QED  BY <2>4, <2>5, Reordered, ListedAgain
<1>3. ASSUME NEW k \in Keys, RefuseFails(k) PROVE Listed'
  <2>1. bucket' = [bucket EXCEPT ![k] = NoBucket] /\ order' = Others(k)
    BY <1>3 DEF RefuseFails
  <2>2. \A j \in Keys : Tracked(j)' <=> Tracked(j) /\ j # k
    BY <2>1 DEF Tracked, RateInv, RateTyped
  <2> QED  BY <2>1, <2>2, Reordered, ListedAgain
<1>4. ASSUME NEW k \in Keys, Grant(k) PROVE Listed'
  <2>1. PICK left \in Bucket : Paid(k) = [bucket EXCEPT ![k] = left]
    <3>1. Refilled(k) - Unit \in 0 .. Full /\ now \in Nat
      BY <1>4, Found DEF Grant, RateInv, RateTyped
    <3> QED  BY <3>1 DEF Paid, Bucket
  <2>2. left # NoBucket
    BY RateAssumption DEF Bucket
  <2>3. Paid(k) \in [Keys -> Bucket \cup {NoBucket}]
        /\ \A j \in Keys : Paid(k)[j] # NoBucket <=> j \in Members(Latest(k))
    <3>1. Members(Latest(k)) = {j \in Keys : Tracked(j)} \cup {k}
      BY Reordered
    <3>2. Paid(k) \in [Keys -> Bucket \cup {NoBucket}]
      BY <2>1 DEF RateInv, RateTyped
    <3>3. \A j \in Keys : Paid(k)[j] # NoBucket <=> Tracked(j) \/ j = k
      BY <2>1, <2>2 DEF Tracked, RateInv, RateTyped
    <3> QED  BY <3>1, <3>2, <3>3
  <2>6. Len(Latest(k)) \in Nat
    BY Reordered
  <2>4. CASE Len(Latest(k)) > MaxTrackedKeys
    <3>1. bucket' = [Paid(k) EXCEPT ![Head(Latest(k))] = NoBucket] /\ order' = Tail(Latest(k))
      BY <1>4, <2>4 DEF Grant
    <3>2. /\ Tail(Latest(k)) \in Seq(Keys) /\ Distinct(Tail(Latest(k)))
          /\ Members(Tail(Latest(k))) = Members(Latest(k)) \ {Head(Latest(k))}
          /\ Len(Tail(Latest(k))) = Len(Latest(k)) - 1
      <4> PICK latest : latest = Latest(k)
        OBVIOUS
      <4>1. latest \in Seq(Keys) /\ Distinct(latest)
        BY Reordered
      <4>2. Len(latest) > 0
        BY <1>0, <2>4, <2>6
      <4>3. /\ Tail(latest) \in Seq(Keys) /\ Distinct(Tail(latest))
            /\ Members(Tail(latest)) = Members(latest) \ {Head(latest)}
            /\ Len(Tail(latest)) = Len(latest) - 1
        BY <4>1, <4>2, Dropped
      <4> QED  BY <4>3
    <3>3. \A j \in Keys : Tracked(j)' <=> j \in Members(Tail(Latest(k)))
      BY <2>3, <3>1, <3>2 DEF Tracked
    <3> QED  BY <3>1, <3>2, <3>3, ListedAgain
  <2>5. CASE ~(Len(Latest(k)) > MaxTrackedKeys)
    <3>1. bucket' = Paid(k) /\ order' = Latest(k)
      BY <1>4, <2>5 DEF Grant
    <3> QED  BY <2>3, <3>1, Reordered, ListedAgain DEF Tracked
  <2> QED  BY <2>4, <2>5
<1>5. Tick => UNCHANGED <<bucket, order>>
  BY DEF Tick
<1> QED  BY <1>1, <1>2, <1>3, <1>4, <1>5 DEF RateNext, Check, rateVars

\* Only a grant makes the order longer, and it evicts.
LEMMA OrderStaysBounded ==
    ASSUME HoldsAToken, RateInv, Listed, OrderBounded, [RateNext]_rateVars
    PROVE  OrderBounded'
<1>0. MaxTrackedKeys \in Nat \ {0} /\ Len(order) \in Nat /\ Len(order) <= MaxTrackedKeys
  BY RateAssumption DEF Listed, OrderBounded
<1>1. ASSUME NEW k \in Keys
      PROVE  /\ Latest(k) \in Seq(Keys)
             /\ Len(Others(k)) = IF Tracked(k) THEN Len(order) - 1 ELSE Len(order)
             /\ Len(Latest(k)) = IF Tracked(k) THEN Len(order) ELSE Len(order) + 1
  BY Reordered
<1>2. ASSUME NEW k \in Keys, Refuse(k) PROVE OrderBounded'
  <2>1. Tracked(k)
    BY <1>2, RefusedIsTracked DEF Refuse
  <2> QED  BY <1>0, <1>1, <1>2, <2>1 DEF Refuse, OrderBounded
<1>3. ASSUME NEW k \in Keys, RefuseFails(k) PROVE OrderBounded'
  BY <1>0, <1>1, <1>3 DEF RefuseFails, OrderBounded
<1>4. ASSUME NEW k \in Keys, Grant(k) PROVE OrderBounded'
  <2> PICK latest \in Seq(Keys) : latest = Latest(k) /\ Len(latest) <= Len(order) + 1
    BY <1>0, <1>1
  <2>1. CASE Len(latest) > MaxTrackedKeys
    <3>1. order' = Tail(latest)
      BY <1>4, <2>1 DEF Grant
    <3>2. Len(Tail(latest)) = Len(latest) - 1
      BY <1>0, <2>1
    <3> QED  BY <1>0, <3>1, <3>2 DEF OrderBounded
  <2>2. CASE ~(Len(latest) > MaxTrackedKeys)
    BY <1>0, <1>4, <2>2 DEF Grant, OrderBounded
  <2> QED  BY <2>1, <2>2
<1>5. Tick \/ UNCHANGED rateVars => OrderBounded'
  BY DEF Tick, rateVars, OrderBounded
<1> QED  BY <1>2, <1>3, <1>4, <1>5 DEF RateNext, Check

-----------------------------------------------------------------------------

\* Whatever a caller asks and whoever is evicted, it is granted no more
\* requests than its full buckets and the refill of the elapsed time pay for.
THEOREM RateSpendingBounded == RateSpec => []SpendingBounded
<1>1. RateInv => SpendingBounded
  BY DEF RateInv
<1> QED  BY <1>1, RateInitInv, RateStepInv, PTL DEF RateSpec

\* A caller that waits for the Retry-After it was sent is granted, for any
\* refill rate and any capacity but none.
THEOREM RateRetryAfterHonest ==
    ASSUME HoldsAToken
    PROVE  RateSpec => []RetryAfterHonest
<1>1. RateInv => RetryAfterHonest
  <2> SUFFICES ASSUME RateInv, NEW k \in Keys, retryAt[k] # NoRetry, retryAt[k] <= now
               PROVE  Refilled(k) >= Unit
    BY DEF RetryAfterHonest
  <2> USE FullIsNat, FullHoldsAToken
  <2>1. refillRate \in Nat /\ now \in Nat /\ retryAt[k] \in Nat
    BY RateAssumption DEF RateInv, RateTyped
  <2>2. CASE ~Tracked(k)
    BY <2>1, <2>2 DEF Refilled, Popped
  <2>3. CASE Tracked(k)
    <3>1. PICK last \in Nat, tokens \in 0 .. Full :
            last = bucket[k].last /\ tokens = bucket[k].tokens /\ last <= retryAt[k]
      BY <2>3 DEF RateInv, RateTyped, Bucket, Promised, Tracked
    <3>2. tokens + (retryAt[k] - last) * refillRate >= Unit
      BY <2>3, <3>1 DEF RateInv, Promised
    <3>3. refillRate * last + (retryAt[k] - last) * refillRate = refillRate * retryAt[k]
      BY <2>1, <3>1, RefillSplits
    <3>4. refillRate * last + (now - last) * refillRate = refillRate * now
      BY <2>1, <3>1, RefillSplits
    <3>5. refillRate * retryAt[k] + (now - retryAt[k]) * refillRate = refillRate * now
          /\ (now - retryAt[k]) * refillRate \in Nat
      BY <2>1, RefillSplits
    <3>6. PICK more \in Nat : more = (now - last) * refillRate
      BY <2>1, <3>1, RefillSplits
    <3>7. tokens + more >= Unit
      BY <2>1, <3>1, <3>2, <3>3, <3>4, <3>5, <3>6
    <3> QED  BY <2>3, <3>1, <3>6, <3>7 DEF Refilled, Popped
  <2> QED  BY <2>2, <2>3
<1> QED  BY <1>1, RateInitInv, RateStepInv, PTL DEF RateSpec

LEMMA StoreInvariance == RateSpec => [](RateInv /\ Listed)
<1>1. RateInit => RateInv /\ Listed
  <2>1. RateInit => Listed
    BY DEF RateInit, Listed, Distinct, Members, Tracked
  <2> QED  BY <2>1, RateInitInv
<1>2. RateInv /\ Listed /\ [RateNext]_rateVars => (RateInv /\ Listed)'
  BY RateStepInv, ListedKeeps
<1> QED  BY <1>1, <1>2, PTL DEF RateSpec

\* Type correctness, for any callers, rates and bounds.
THEOREM RateTypeCorrect == RateSpec => []RateTypeOK
<1>1. RateInv /\ Listed => RateTypeOK
  BY DEF RateInv, RateTyped, Listed, RateTypeOK
<1> QED  BY <1>1, StoreInvariance, PTL

\* The store never holds more than max_tracked_keys buckets, whatever is
\* refused: a caller that is refused had a bucket already (rate_limit.py:50).
\* That is so only because a new bucket pays for a request: with a capacity of
\* zero every caller is refused and stored, and none is ever evicted.
THEOREM StoreAlwaysBounded ==
    ASSUME HoldsAToken
    PROVE  RateSpec => []StoreBounded
<1>1. RateInit => OrderBounded
  BY RateAssumption DEF RateInit, OrderBounded
<1>2. RateInv /\ Listed /\ OrderBounded /\ [RateNext]_rateVars => OrderBounded'
  BY OrderStaysBounded
<1>3. Listed /\ OrderBounded => StoreBounded
  BY DEF Listed, OrderBounded, StoreBounded, Distinct, Members
<1> QED  BY <1>1, <1>2, <1>3, StoreInvariance, PTL DEF RateSpec
=============================================================================
