--------------------------- MODULE RateLimitProofs ---------------------------
(***************************************************************************)
(* Theorems about RateLimit, for any number of requests and buckets, any   *)
(* limit, window and tick.  Products are dealt with once, in the lemmas of *)
(* the first part; after them Token, Capacity, Cost and Refill are only    *)
(* known by what those lemmas say.                                         *)
(***************************************************************************)
EXTENDS RateLimit, TLAPS

USE RateAssumption

\* A window refills a bucket, and an idle bucket has been so for longer.
LEMMA Amounts ==
    /\ Token \in Nat /\ Token > 0
    /\ Capacity \in Nat /\ Capacity >= Token
    /\ Capacity = Refill(Token)
    /\ Token <= IdleLimit
<1>1. Token \in Nat /\ Token > 0 /\ Token <= IdleLimit
  BY WindowAssumption DEF Token
<1>2. \A k \in Nat : k > 0 => MaxTokens * k \in Nat /\ MaxTokens * k >= k
  OBVIOUS
<1>. QED  BY <1>1, <1>2 DEF Capacity, Refill

\* Refilling is additive ...
LEMMA RefillAdds ==
    /\ Refill(0) = 0
    /\ \A s, t \in Nat : /\ Refill(t) \in Nat
                         /\ Refill(s + t) = Refill(s) + Refill(t)
BY DEF Refill

\* ... and monotonic.
LEMMA RefillGrows ==
    ASSUME NEW s \in Nat, NEW t \in Nat, s <= t
    PROVE  Refill(t) = Refill(s) + Refill(t - s) /\ Refill(s) <= Refill(t)
<1>1. t - s \in Nat /\ t = s + (t - s)
  OBVIOUS
<1>2. Refill(s + (t - s)) = Refill(s) + Refill(t - s)
  BY <1>1, RefillAdds
<1>3. Refill(s) \in Nat /\ Refill(t - s) \in Nat
  BY <1>1, RefillAdds
<1>. QED  BY <1>1, <1>2, <1>3

\* One request costs one token.
LEMMA CostAdds ==
    /\ Cost(0) = 0
    /\ \A n \in Nat : Cost(n) \in Nat /\ Cost(n + 1) = Cost(n) + Token
BY Amounts DEF Cost

\* Who has taken more than all tokens but one has taken them all.
LEMMA CostOfAll ==
    ASSUME NEW n \in Nat, Cost(n) > Capacity - Token
    PROVE  n >= MaxTokens
<1>1. SUFFICES ASSUME n < MaxTokens PROVE FALSE
  OBVIOUS
<1>2. PICK d \in Nat : MaxTokens = n + 1 + d
  <2>1. MaxTokens - (n + 1) \in Nat /\ MaxTokens = n + 1 + (MaxTokens - (n + 1))
    BY <1>1
  <2>. QED  BY <2>1
<1>3. Capacity = n * Token + Token + d * Token
  BY <1>2, Amounts DEF Capacity
<1>4. d * Token >= 0
  BY Amounts
<1>. QED  BY <1>3, <1>4, Amounts DEF Cost

\* Retry-After is long enough for the missing part of a token.
LEMMA RetryAfterRefills ==
    ASSUME NEW t \in Nat, t < Token
    PROVE  /\ RetryAfter(t) * Second \in Nat
           /\ RetryAfter(t) * Second > 0
           /\ t + Refill(RetryAfter(t) * Second) >= Token
<1>. DEFINE k == (Token - t) \div Refill(Second)
            R == Refill(Second)
<1>1. Token - t \in Nat /\ R \in Nat /\ R > 0
  BY Amounts DEF Refill
<1>2. k \in Nat /\ (k + 1) * R > Token - t
  <2>. HIDE DEF R
  <2>1. \A x \in Nat, r \in Nat \ {0} : x \div r \in Nat /\ (x \div r + 1) * r > x
    OBVIOUS
  <2>. QED  BY <1>1, <2>1 DEF k, R
<1>3. RetryAfter(t) = k + 1
  BY DEF RetryAfter
<1>4. Refill((k + 1) * Second) = (k + 1) * R
  <2>. HIDE DEF k
  <2>. QED  BY <1>2 DEF Refill
<1>5. (k + 1) * Second \in Nat /\ (k + 1) * Second > 0
  <2>. HIDE DEF k
  <2>. QED  BY <1>2
<1>6. (k + 1) * R \in Nat
  <2>. HIDE DEF k, R
  <2>. QED  BY <1>1, <1>2
<1>. HIDE DEF k, R
<1>. QED  BY <1>1, <1>2, <1>3, <1>4, <1>5, <1>6, Amounts

-----------------------------------------------------------------------------
(* Types.                                                                  *)

\* What a refill leaves in a bucket; a second refill at once adds nothing.
LEMMA RefilledType ==
    ASSUME TypeOK, NEW b \in Buckets
    PROVE  /\ Elapsed(b) \in Nat
           /\ Refill(Elapsed(b)) \in Nat
           /\ Refilled(b) \in 0 .. Capacity
           /\ Refilled(b) <= tokens[b] + Refill(Elapsed(b))
           /\ \/ Refilled(b) = Capacity
              \/ Refilled(b) = tokens[b] + Refill(Elapsed(b))
<1>1. tokens[b] \in 0 .. Capacity /\ lastRefill[b] \in 0 .. now /\ now \in Nat
  BY DEF TypeOK
<1>2. Elapsed(b) \in Nat
  BY <1>1 DEF Elapsed
<1>3. Refill(Elapsed(b)) \in Nat
  BY <1>2, RefillAdds
<1>. QED  BY <1>1, <1>2, <1>3, Amounts DEF Refilled, Capped

\* What Use does, with the refilled bucket named.
UseOf(q, b, t) ==
    /\ pc[q] = "use" /\ mine[q] = b /\ b \in Buckets /\ t = Refilled(b)
    /\ lastRefill' = [lastRefill EXCEPT ![b] = now]
    /\ pc' = [pc EXCEPT ![q] = "idle"]
    /\ mine' = [mine EXCEPT ![q] = NoBucket]
    /\ late' = late \ {q}
    /\ UNCHANGED <<bucket, cleaning, now, from>>

Allowed(q, b, t) ==
    /\ t >= Token
    /\ tokens' = [tokens EXCEPT ![b] = t - Token]
    /\ answer' = [answer EXCEPT ![q] = "allowed"]
    /\ promised' = [promised EXCEPT ![b] = 0]
    /\ taken' = IF now >= from THEN taken + 1 ELSE taken
    /\ lateTaken' = IF now >= from /\ q \in late THEN lateTaken + 1 ELSE lateTaken

Refused(q, b, t) ==
    /\ t < Token
    /\ tokens' = [tokens EXCEPT ![b] = t]
    /\ answer' = [answer EXCEPT ![q] = "denied"]
    /\ promised' = [promised EXCEPT ![b] = Promise(b, t)]
    /\ UNCHANGED <<taken, lateTaken>>

\* Use is one or the other.
LEMMA UseCases ==
    ASSUME TypeOK, NEW q \in Requests, Use(q)
    PROVE  /\ UseOf(q, mine[q], Refilled(mine[q]))
           /\ \/ Allowed(q, mine[q], Refilled(mine[q]))
              \/ Refused(q, mine[q], Refilled(mine[q]))
BY DEF Use, UseOf, Allowed, Refused, TypeOK

\* The initial state is well typed.
LEMMA TypeInit == Init => TypeOK
<1>. SUFFICES ASSUME Init PROVE TypeOK
  OBVIOUS
<1>1. from \in Nat /\ 0 \in 0 .. Horizon /\ 0 \in 0 .. Capacity
  BY Amounts DEF Init
<1>. QED  BY <1>1 DEF Init, TypeOK

\* A promise is a point in time.
LEMMA PromiseType ==
    ASSUME TypeOK, NEW b \in Buckets, NEW t \in Nat, t < Token
    PROVE  Promise(b, t) \in Nat
<1>1. promised[b] \in Nat /\ now \in Nat
  BY DEF TypeOK
<1>2. RetryAfter(t) * Second \in Nat
  BY RetryAfterRefills
<1>. QED  BY <1>1, <1>2 DEF Promise

\* Every step keeps the types.
LEMMA TypeStep == TypeOK /\ [Next]_vars => TypeOK'
<1>. SUFFICES ASSUME TypeOK, [Next]_vars PROVE TypeOK'
  OBVIOUS
<1>. USE DEF bucketVars, requestVars, ghostVars
<1>1. ASSUME NEW q \in Requests, Lookup(q) PROVE TypeOK'
  BY <1>1 DEF TypeOK, Lookup, Hold
<1>2. ASSUME NEW q \in Requests, LookupAgain(q) PROVE TypeOK'
  BY <1>2 DEF TypeOK, LookupAgain, Hold, StillMissing
<1>3. ASSUME NEW q \in Requests, NEW b \in Buckets, Create(q, b) PROVE TypeOK'
  <2>1. Capacity \in 0 .. Capacity /\ now \in 0 .. now
    BY Amounts DEF TypeOK
  <2>. QED  BY <1>3, <2>1 DEF TypeOK, Create, Hold
<1>4. ASSUME NEW q \in Requests, Use(q) PROVE TypeOK'
  <2>. DEFINE b == mine[q]
              t == Refilled(b)
  <2>1. UseOf(q, b, t) /\ (Allowed(q, b, t) \/ Refused(q, b, t))
    BY <1>4, UseCases
  <2>2. b \in Buckets
    BY <2>1 DEF UseOf
  <2>3. t \in 0 .. Capacity
    BY <2>2, RefilledType
  <2>4. now \in 0 .. now /\ now' = now
    BY <2>1 DEF TypeOK, UseOf
  <2>. HIDE DEF b, t
  <2>5. CASE Allowed(q, b, t)
    <3>1. t - Token \in 0 .. Capacity
      BY <2>3, <2>5, Amounts DEF Allowed
    <3>2. taken' \in Nat /\ lateTaken' \in 0 .. taken'
      BY <2>5 DEF Allowed, TypeOK
    <3>. QED  BY <2>1, <2>2, <2>4, <2>5, <3>1, <3>2 DEF TypeOK, UseOf, Allowed
  <2>6. CASE Refused(q, b, t)
    <3>1. Promise(b, t) \in Nat
      BY <2>2, <2>3, <2>6, PromiseType, Amounts DEF Refused
    <3>. QED  BY <2>1, <2>2, <2>3, <2>4, <2>6, <3>1 DEF TypeOK, UseOf, Refused
  <2>. QED  BY <2>1, <2>5, <2>6
<1>5. CASE CleanupLooks
  BY <1>5 DEF TypeOK, CleanupLooks
<1>6. CASE CleanupEnds
  BY <1>6 DEF TypeOK, CleanupEnds
<1>7. CASE Tick
  <2>1. now' \in 0 .. Horizon /\ \A b \in Buckets : lastRefill[b] \in 0 .. now'
    BY <1>7 DEF TypeOK, Tick
  <2>. QED  BY <1>7, <2>1 DEF TypeOK, Tick
<1>8. CASE UNCHANGED vars
  BY <1>8 DEF TypeOK, vars
<1>. QED
  BY <1>1, <1>2, <1>3, <1>4, <1>5, <1>6, <1>7, <1>8 DEF Next, Allow, Cleanup

\* Type correctness: a bucket never holds more than its capacity, and the
\* clock of no bucket is ahead.
THEOREM TypeCorrect == Spec => []TypeOK
BY TypeInit, TypeStep, PTL DEF Spec

-----------------------------------------------------------------------------
(* What is in a bucket, after each step.                                   *)

\* Using a bucket takes a token out of it, or nothing.
LEMMA RefilledByUse ==
    ASSUME TypeOK, NEW q \in Requests, NEW b \in Buckets, NEW t, UseOf(q, b, t),
           Allowed(q, b, t) \/ Refused(q, b, t)
    PROVE  /\ Allowed(q, b, t) => Refilled(b)' = t - Token
           /\ Refused(q, b, t) => Refilled(b)' = t
           /\ \A c \in Buckets : c # b => Refilled(c)' = Refilled(c)
<1>1. t \in 0 .. Capacity
  BY RefilledType DEF UseOf
<1>2. now \in Nat /\ now' = now
  BY DEF TypeOK, UseOf
<1>3. lastRefill'[b] = now
  BY DEF TypeOK, UseOf
<1>4. Refill(Elapsed(b)') = 0
  BY <1>2, <1>3, RefillAdds DEF Elapsed
<1>5. Refilled(b)' = Capped(tokens'[b] + Refill(Elapsed(b)'))
  BY DEF Refilled, Capped, Refill
<1>6. ASSUME Allowed(q, b, t) PROVE Refilled(b)' = t - Token
  <2>1. tokens'[b] = t - Token /\ t - Token \in 0 .. Capacity
    BY <1>1, <1>6, Amounts DEF Allowed, TypeOK
  <2>. QED  BY <1>4, <1>5, <2>1, Amounts DEF Capped
<1>7. ASSUME Refused(q, b, t) PROVE Refilled(b)' = t
  <2>1. tokens'[b] = t
    BY <1>7 DEF Refused, TypeOK
  <2>. QED  BY <1>1, <1>4, <1>5, <2>1, Amounts DEF Capped
<1>8. ASSUME NEW c \in Buckets, c # b PROVE Refilled(c)' = Refilled(c)
  <2>1. tokens'[c] = tokens[c] /\ lastRefill'[c] = lastRefill[c]
    BY <1>8 DEF TypeOK, UseOf, Allowed, Refused
  <2>. QED  BY <1>2, <2>1 DEF Refilled, Capped, Refill, Elapsed
<1>. QED  BY <1>6, <1>7, <1>8

\* A tick adds the refill of one tick, up to the capacity.
LEMMA RefilledByTick ==
    ASSUME TypeOK, NEW b \in Buckets, Tick
    PROVE  Refilled(b)' = Capped(Refilled(b) + Refill(1))
<1>1. Elapsed(b) \in Nat /\ Elapsed(b)' = Elapsed(b) + 1
  BY DEF TypeOK, Tick, bucketVars, Elapsed
<1>2. /\ Refill(Elapsed(b)') = Refill(Elapsed(b)) + Refill(1)
      /\ Refill(Elapsed(b)) \in Nat /\ Refill(1) \in Nat
  BY <1>1, RefillAdds
<1>3. Refilled(b)' = Capped(tokens[b] + Refill(Elapsed(b)'))
  BY DEF Refilled, Capped, Refill, Tick, bucketVars
<1>4. tokens[b] \in 0 .. Capacity
  BY DEF TypeOK
<1>. QED  BY <1>2, <1>3, <1>4, Amounts DEF Refilled, Capped

\* An idle bucket is full.
LEMMA IdleIsFull ==
    ASSUME TypeOK, NEW b \in Buckets, IsIdle(b)
    PROVE  Refilled(b) = Capacity
<1>1. Elapsed(b) \in Nat /\ Token <= Elapsed(b)
  BY Amounts DEF TypeOK, IsIdle, Elapsed
<1>2. Refill(Elapsed(b)) >= Capacity /\ Refill(Elapsed(b)) \in Nat
  BY <1>1, Amounts, RefillGrows, RefillAdds
<1>. QED  BY <1>2, Amounts DEF Refilled, Capped, TypeOK

\* What is refilled since the window began.
LEMMA RefillSince == TypeOK /\ now >= from => now - from \in Nat /\ Refill(now - from) \in Nat
<1>1. TypeOK /\ now >= from => now - from \in Nat
  BY DEF TypeOK
<1>. QED  BY <1>1, RefillAdds

-----------------------------------------------------------------------------
(* WindowBound.  What is left in the current bucket counts as taken; a     *)
(* bucket that is being pruned was full, and only late requests have it.   *)

Holding ==
    \A q \in Requests : pc[q] = "use" /\ q \notin late =>
        mine[q] = bucket /\ bucket \in Buckets /\ cleaning # "delete"

Gone == bucket = NoBucket \/ cleaning = "delete"

InTime == taken - lateTaken

Bound ==
    /\ now < from => taken = 0
    /\ now >= from =>
          IF Gone THEN Cost(InTime) <= Refill(now - from)
                  ELSE Cost(InTime) + Refilled(bucket) <= Capacity + Refill(now - from)

\* Who is not late has the current bucket.
LEMMA HoldingStep == TypeOK /\ Holding /\ [Next]_vars => Holding'
<1>. SUFFICES ASSUME TypeOK, Holding, [Next]_vars, NEW p \in Requests,
                     pc'[p] = "use", p \notin late'
              PROVE  mine'[p] = bucket' /\ bucket' \in Buckets /\ cleaning' # "delete"
  BY DEF Holding
<1>. USE DEF bucketVars, requestVars, ghostVars, Holding
<1>1. ASSUME NEW q \in Requests, Lookup(q) \/ LookupAgain(q)
      PROVE  mine'[p] = bucket' /\ bucket' \in Buckets /\ cleaning' # "delete"
  BY <1>1 DEF TypeOK, Lookup, LookupAgain, Hold, StillMissing, Unlocked
<1>2. ASSUME NEW q \in Requests, NEW b \in Buckets, Create(q, b)
      PROVE  mine'[p] = bucket' /\ bucket' \in Buckets /\ cleaning' # "delete"
  BY <1>2 DEF TypeOK, Create, Hold, StillMissing, Unlocked
<1>3. ASSUME NEW q \in Requests, Use(q)
      PROVE  mine'[p] = bucket' /\ bucket' \in Buckets /\ cleaning' # "delete"
  BY <1>3 DEF TypeOK, Use
<1>4. CASE CleanupLooks
  BY <1>4 DEF TypeOK, CleanupLooks, Unlocked
<1>5. CASE CleanupEnds
  BY <1>5 DEF TypeOK, CleanupEnds, Unlocked
<1>6. CASE Tick \/ UNCHANGED vars
  BY <1>6 DEF Tick, vars
<1>. QED  BY <1>1, <1>2, <1>3, <1>4, <1>5, <1>6 DEF Next, Allow, Cleanup

\* Steps that leave the bucket and its contents alone.
LEMMA BoundKept ==
    ASSUME Bound, UNCHANGED <<bucketVars, now, from, taken, lateTaken>>,
           bucket' = bucket, Gone' <=> Gone
    PROVE  Bound'
BY DEF Bound, Gone, InTime, Refilled, Capped, Refill, Elapsed, Cost, bucketVars

\* Using a bucket keeps the bound.
LEMMA BoundByUse ==
    ASSUME TypeOK, Holding, Bound, NEW q \in Requests, NEW b \in Buckets, NEW t,
           UseOf(q, b, t), Allowed(q, b, t) \/ Refused(q, b, t)
    PROVE  Bound'
<1>1. t \in 0 .. Capacity /\ t = Refilled(b)
  BY RefilledType DEF UseOf
<1>2. /\ Allowed(q, b, t) => Refilled(b)' = t - Token
      /\ Refused(q, b, t) => Refilled(b)' = t
      /\ \A c \in Buckets : c # b => Refilled(c)' = Refilled(c)
  BY RefilledByUse
<1>3. /\ bucket' = bucket /\ now' = now /\ from' = from /\ (Gone' <=> Gone)
      /\ Refill(now - from)' = Refill(now - from)
  BY DEF UseOf, Gone, Refill
<1>4. /\ taken \in Nat /\ lateTaken \in 0 .. taken /\ InTime \in Nat
      /\ bucket \in Buckets \cup {NoBucket} /\ now \in Nat /\ from \in Nat
  BY DEF TypeOK, InTime
<1>5. ASSUME NEW c, c = bucket PROVE Refilled(bucket)' = Refilled(c)'
  BY <1>3, <1>5 DEF Refilled, Elapsed
<1>6. ASSUME ~Gone
      PROVE  /\ Refilled(bucket)' <= Refilled(bucket)
             /\ Refilled(bucket)' \in Int /\ Refilled(bucket) \in Int
  <2>1. bucket \in Buckets
    BY <1>4, <1>6 DEF Gone
  <2>2. Refilled(bucket) \in 0 .. Capacity
    BY <2>1, RefilledType
  <2>3. CASE bucket = b
    <3>1. Refilled(bucket)' = Refilled(b)' /\ Refilled(bucket) = t
      BY <1>1, <1>5, <2>3
    <3>. QED  BY <1>1, <1>2, <2>3, <3>1, Amounts
  <2>4. CASE bucket # b
    <3>1. PICK c \in Buckets : c = bucket
      BY <2>1
    <3>2. Refilled(bucket)' = Refilled(c)' /\ Refilled(c)' = Refilled(c)
      BY <1>2, <1>5, <2>4, <3>1
    <3>. QED  BY <2>2, <3>1, <3>2, Amounts
  <2>. QED  BY <2>3, <2>4
<1>7. now >= from => Refill(now - from) \in Nat
  BY <1>4, RefillAdds
<1>10. CASE InTime' = InTime /\ (taken' = taken \/ now >= from)
  <2>1. Cost(InTime)' = Cost(InTime) /\ Cost(InTime) \in Nat
    BY <1>4, <1>10, CostAdds DEF Cost
  <2>. QED  BY <1>3, <1>4, <1>6, <1>7, <1>10, <2>1, Amounts DEF Bound
<1>11. CASE Allowed(q, b, t) /\ now >= from /\ q \notin late
  <2>1. InTime' = InTime + 1
    BY <1>4, <1>11 DEF Allowed, InTime
  <2>2. Cost(InTime)' = Cost(InTime) + Token /\ Cost(InTime) \in Nat
    BY <1>4, <2>1, CostAdds DEF Cost
  <2>3. ~Gone /\ bucket = b
    BY <1>11 DEF Holding, Gone, UseOf
  <2>4. Refilled(bucket)' = Refilled(bucket) - Token
    BY <1>1, <1>2, <1>5, <1>11, <2>3
  <2>. QED
    BY <1>3, <1>4, <1>6, <1>7, <1>11, <2>2, <2>3, <2>4, Amounts DEF Bound
<1>12. CASE Refused(q, b, t) \/ (Allowed(q, b, t) /\ (now < from \/ q \in late))
  <2>1. InTime' = InTime /\ (taken' = taken \/ now >= from)
    BY <1>4, <1>12 DEF Allowed, Refused, InTime
  <2>. QED  BY <1>10, <2>1
<1>. QED  BY <1>4, <1>11, <1>12

\* Time passes: as much may be refilled as the window grows by.
LEMMA BoundByTick ==
    ASSUME TypeOK, Bound, Tick
    PROVE  Bound'
<1>1. /\ now' = now + 1 /\ taken' = taken /\ from' = from /\ bucket' = bucket
      /\ (Gone' <=> Gone)
      /\ InTime' = InTime /\ Cost(InTime)' = Cost(InTime)
  BY DEF Tick, Gone, InTime, Cost, ghostVars
<1>2. /\ now \in Nat /\ from \in Nat /\ InTime \in Nat
      /\ bucket \in Buckets \cup {NoBucket}
  BY DEF TypeOK, InTime
<1>3. /\ Cost(InTime) \in Nat /\ Cost(0) = 0
      /\ Refill(0) = 0 /\ Refill(1) \in Nat
  BY <1>2, CostAdds, RefillAdds
<1>4. ASSUME ~Gone
      PROVE  /\ Refilled(bucket) \in 0 .. Capacity
             /\ Refilled(bucket)' \in 0 .. Capacity
             /\ Refilled(bucket)' <= Refilled(bucket) + Refill(1)
  <2>1. PICK c \in Buckets : c = bucket
    BY <1>2, <1>4 DEF Gone
  <2>2. Refilled(bucket)' = Refilled(c)'
    BY <1>1, <2>1 DEF Refilled, Elapsed
  <2>3. Refilled(c)' = Capped(Refilled(c) + Refill(1)) /\ Refilled(c) \in 0 .. Capacity
    BY RefilledByTick, RefilledType
  <2>. QED  BY <1>3, <2>1, <2>2, <2>3, Amounts DEF Capped
<1>5. CASE now >= from
  <2>1. now - from \in Nat /\ (now - from)' = (now - from) + 1
    BY <1>1, <1>2, <1>5
  <2>2. /\ Refill(now - from)' = Refill(now - from) + Refill(1)
        /\ Refill(now - from) \in Nat
    BY <2>1, RefillAdds DEF Refill
  <2>. QED  BY <1>1, <1>2, <1>3, <1>4, <1>5, <2>2, Amounts DEF Bound
<1>6. CASE now' = from
  <2>1. Refill(now - from)' = 0
    BY <1>1, <1>2, <1>3, <1>6 DEF Refill
  <2>2. InTime = 0
    BY <1>1, <1>2, <1>6 DEF Bound, InTime, TypeOK
  <2>. QED  BY <1>1, <1>2, <1>3, <1>4, <1>6, <2>1, <2>2, Amounts DEF Bound
<1>7. CASE now' < from
  BY <1>1, <1>2, <1>7 DEF Bound
<1>. QED  BY <1>1, <1>2, <1>5, <1>6, <1>7

\* Every step keeps the bound.
LEMMA BoundStep == TypeOK /\ Holding /\ Bound /\ [Next]_vars => Bound'
<1>. SUFFICES ASSUME TypeOK, Holding, Bound, [Next]_vars PROVE Bound'
  OBVIOUS
<1>. USE DEF bucketVars, requestVars, ghostVars
<1>1. ASSUME NEW q \in Requests, Lookup(q) \/ LookupAgain(q) PROVE Bound'
  BY <1>1, BoundKept DEF Lookup, LookupAgain, Gone
<1>2. ASSUME NEW q \in Requests, NEW b \in Buckets, Create(q, b) PROVE Bound'
  <2>1. /\ Gone /\ ~Gone' /\ bucket' = b
        /\ UNCHANGED <<now, from, taken, lateTaken>>
    BY <1>2 DEF Create, StillMissing, Unlocked, Gone
  <2>2. Refilled(bucket)' = Capacity
    <3>1. tokens'[b] = Capacity /\ lastRefill'[b] = now /\ now \in Nat
      BY <1>2 DEF Create, TypeOK
    <3>2. Refill(Elapsed(bucket)') = 0
      BY <2>1, <3>1, RefillAdds DEF Elapsed
    <3>. QED  BY <2>1, <3>1, <3>2, Amounts DEF Refilled, Capped, Refill
  <2>3. InTime' = InTime /\ InTime \in Nat /\ Cost(InTime)' = Cost(InTime)
    BY <2>1 DEF InTime, Cost, TypeOK
  <2>4. Cost(InTime) \in Nat
    BY <2>3, CostAdds
  <2>5. now >= from => Refill(now - from) \in Nat
    BY RefillSince
  <2>6. Refill(now - from)' = Refill(now - from)
    BY <2>1 DEF Refill
  <2>. QED  BY <2>1, <2>2, <2>3, <2>4, <2>5, <2>6, Amounts DEF Bound
<1>3. ASSUME NEW q \in Requests, Use(q) PROVE Bound'
  <2>1. PICK b \in Buckets, t \in 0 .. Capacity :
          UseOf(q, b, t) /\ (Allowed(q, b, t) \/ Refused(q, b, t))
    BY <1>3, UseCases, RefilledType DEF UseOf
  <2>. QED  BY <2>1, BoundByUse
<1>4. CASE CleanupLooks
  <2>1. /\ bucket \in Buckets /\ ~Gone
        /\ UNCHANGED <<bucketVars, bucket, now, from, taken, lateTaken>>
    BY <1>4 DEF CleanupLooks, Unlocked, Gone, TypeOK
  <2>2. CASE ~IsIdle(bucket)
    <3>1. Gone' <=> Gone
      BY <1>4, <2>1, <2>2 DEF CleanupLooks, Gone
    <3>. QED  BY <2>1, <3>1, BoundKept
  <2>3. CASE IsIdle(bucket)
    <3>1. Gone'
      BY <1>4, <2>3 DEF CleanupLooks, Gone
    <3>2. Refilled(bucket) = Capacity
      BY <2>1, <2>3, IdleIsFull
    <3>3. /\ InTime' = InTime /\ InTime \in Nat /\ Cost(InTime)' = Cost(InTime)
          /\ Refill(now - from)' = Refill(now - from)
      BY <2>1 DEF InTime, Cost, Refill, TypeOK
    <3>4. Cost(InTime) \in Nat
      BY <3>3, CostAdds
    <3>5. now >= from => Refill(now - from) \in Nat
      BY RefillSince
    <3>. QED  BY <2>1, <3>1, <3>2, <3>3, <3>4, <3>5, Amounts DEF Bound
  <2>. QED  BY <2>2, <2>3
<1>5. CASE CleanupEnds
  <2>1. CASE cleaning = "delete"
    <3>1. /\ Gone /\ Gone' /\ UNCHANGED <<now, from, taken, lateTaken>>
      BY <1>5, <2>1 DEF CleanupEnds, Gone
    <3>2. InTime' = InTime /\ Cost(InTime)' = Cost(InTime)
          /\ Refill(now - from)' = Refill(now - from)
      BY <3>1 DEF InTime, Cost, Refill
    <3>. QED  BY <3>1, <3>2 DEF Bound
  <2>2. CASE cleaning # "delete"
    BY <1>5, <2>2, BoundKept DEF CleanupEnds, Gone
  <2>. QED  BY <2>1, <2>2
<1>6. CASE Tick
  BY <1>6, BoundByTick
<1>7. CASE UNCHANGED vars
  BY <1>7, BoundKept DEF vars, Gone
<1>. QED
  BY <1>1, <1>2, <1>3, <1>4, <1>5, <1>6, <1>7 DEF Next, Allow, Cleanup

\* In every window of time an address gets one burst and what the refill rate
\* allows, however requests, pruning and creation of its bucket interleave;
\* only requests that held the bucket when it was found idle come on top.
THEOREM RateIsLimited == Spec => []WindowBound
<1>1. Init => Holding /\ Bound
  <2>. SUFFICES ASSUME Init PROVE Holding /\ Bound
    OBVIOUS
  <2>1. now = 0 /\ from \in Nat /\ taken = 0 /\ InTime = 0 /\ Gone
    BY DEF Init, InTime, Gone
  <2>2. now >= from => now - from = 0
    BY <2>1
  <2>3. Cost(InTime) = 0 /\ (now >= from => Refill(now - from) = 0)
    BY <2>1, <2>2, CostAdds, RefillAdds
  <2>. QED  BY <2>1, <2>3 DEF Bound, Holding, Init
<1>2. TypeOK /\ Bound => WindowBound
  <2>. SUFFICES ASSUME TypeOK, Bound, now >= from
                PROVE  Cost(InTime) <= Capacity + Refill(now - from)
    BY DEF WindowBound, InTime
  <2>1. InTime \in Nat /\ now - from \in Nat
    BY DEF TypeOK, InTime
  <2>2. Cost(InTime) \in Nat /\ Refill(now - from) \in Nat
    BY <2>1, CostAdds, RefillAdds
  <2>3. ~Gone => Refilled(bucket) \in 0 .. Capacity
    BY RefilledType DEF Gone, TypeOK
  <2>. QED  BY <2>2, <2>3, Amounts DEF Bound
<1>. QED
  BY <1>1, <1>2, TypeInit, TypeStep, HoldingStep, BoundStep, PTL DEF Spec

-----------------------------------------------------------------------------
(* RetryAfterSuffices.                                                     *)

\* At the promised time there will be a token.
Kept(b) ==
    promised[b] # 0 =>
        /\ promised[b] >= lastRefill[b]
        /\ tokens[b] + Refill(promised[b] - lastRefill[b]) >= Token

Promises == \A b \in Buckets : Kept(b)

\* Who comes at the promised time finds it.
LEMMA PromiseDue ==
    ASSUME TypeOK, Promises, NEW b \in Buckets, promised[b] # 0, now >= promised[b]
    PROVE  Refilled(b) >= Token
<1>. DEFINE d == promised[b] - lastRefill[b]
<1>1. /\ promised[b] >= lastRefill[b] /\ tokens[b] + Refill(d) >= Token
      /\ lastRefill[b] \in Nat /\ promised[b] \in Nat /\ now \in Nat
      /\ tokens[b] \in 0 .. Capacity
  BY DEF Promises, Kept, TypeOK
<1>2. d \in Nat /\ Elapsed(b) \in Nat /\ d <= Elapsed(b)
  BY <1>1 DEF Elapsed
<1>3. Refill(d) \in Nat /\ Refill(Elapsed(b)) \in Nat /\ Refill(d) <= Refill(Elapsed(b))
  <2>. HIDE DEF d
  <2>. QED  BY <1>2, RefillAdds, RefillGrows
<1>. HIDE DEF d
<1>. QED  BY <1>1, <1>3, Amounts DEF Refilled, Capped

\* A denial promises no more than it can keep.
LEMMA PromiseMade ==
    ASSUME TypeOK, Promises, NEW q \in Requests, NEW b \in Buckets, NEW t,
           UseOf(q, b, t), Refused(q, b, t)
    PROVE  Kept(b)'
<1>1. /\ t \in 0 .. Capacity /\ t < Token
      /\ now \in Nat /\ promised[b] \in Nat /\ lastRefill[b] \in 0 .. now
      /\ tokens[b] \in 0 .. Capacity
  BY RefilledType DEF UseOf, Refused, TypeOK
<1>2. tokens'[b] = t /\ lastRefill'[b] = now /\ promised'[b] = Promise(b, t)
  BY DEF UseOf, Refused, TypeOK
<1>3. CASE promised[b] = 0
  <2>. DEFINE r == RetryAfter(t) * Second
  <2>1. r \in Nat /\ r > 0 /\ t + Refill(r) >= Token
    BY <1>1, RetryAfterRefills
  <2>2. promised'[b] = now + r
    BY <1>2, <1>3 DEF Promise
  <2>. HIDE DEF r
  <2>3. promised'[b] >= lastRefill'[b] /\ promised'[b] - lastRefill'[b] = r
    BY <1>1, <1>2, <2>1, <2>2
  <2>. QED  BY <1>2, <2>1, <2>3 DEF Kept, Refill
<1>4. CASE promised[b] # 0
  <2>. DEFINE p == promised[b]
              e == now - lastRefill[b]
  <2>1. p > now
    <3>1. t = Refilled(b)
      BY DEF UseOf
    <3>. QED  BY <1>1, <1>4, <3>1, PromiseDue, Amounts
  <2>2. promised'[b] = p
    BY <1>2, <1>4 DEF Promise
  <2>3. tokens[b] + Refill(p - lastRefill[b]) >= Token
    BY <1>4 DEF Promises, Kept
  <2>4. p \in Nat /\ e \in Nat /\ p - now \in Nat /\ p - lastRefill[b] = e + (p - now)
    BY <1>1, <2>1
  <2>5. t = tokens[b] + Refill(e)
    <3>1. \/ Refilled(b) = Capacity
          \/ Refilled(b) = tokens[b] + Refill(Elapsed(b))
      BY RefilledType
    <3>. QED  BY <1>1, <3>1, Amounts DEF Elapsed, UseOf
  <2>. HIDE DEF p, e
  <2>6. /\ Refill(p - lastRefill[b]) = Refill(e) + Refill(p - now)
        /\ Refill(e) \in Nat /\ Refill(p - now) \in Nat
    BY <2>4, RefillAdds
  <2>7. t + Refill(p - now) >= Token
    BY <1>1, <2>3, <2>5, <2>6, Amounts
  <2>8. promised'[b] - lastRefill'[b] = p - now /\ promised'[b] >= lastRefill'[b]
    BY <1>1, <1>2, <2>1, <2>2, <2>4
  <2>. QED  BY <1>2, <2>7, <2>8 DEF Kept, Refill
<1>. QED  BY <1>3, <1>4

\* Every step keeps the promises.
LEMMA PromiseStep == TypeOK /\ Promises /\ [Next]_vars => Promises'
<1>. SUFFICES ASSUME TypeOK, Promises, [Next]_vars, NEW c \in Buckets PROVE Kept(c)'
  BY DEF Promises
<1>. USE DEF bucketVars, requestVars, ghostVars
<1>1. ASSUME promised'[c] = promised[c], tokens'[c] = tokens[c],
             lastRefill'[c] = lastRefill[c]
      PROVE  Kept(c)'
  BY <1>1 DEF Promises, Kept, Refill
<1>2. ASSUME promised'[c] = 0 PROVE Kept(c)'
  BY <1>2 DEF Kept
<1>3. ASSUME NEW q \in Requests, Use(q) PROVE Kept(c)'
  <2>1. PICK b \in Buckets, t \in 0 .. Capacity :
          UseOf(q, b, t) /\ (Allowed(q, b, t) \/ Refused(q, b, t))
    BY <1>3, UseCases, RefilledType DEF UseOf
  <2>2. CASE c # b
    BY <1>1, <2>1, <2>2 DEF UseOf, Allowed, Refused, TypeOK
  <2>3. CASE c = b /\ Allowed(q, b, t)
    BY <1>2, <2>3 DEF Allowed, TypeOK
  <2>4. CASE c = b /\ Refused(q, b, t)
    BY <2>1, <2>4, PromiseMade
  <2>. QED  BY <2>1, <2>2, <2>3, <2>4
<1>4. ASSUME NEW q \in Requests, NEW b \in Buckets, Create(q, b) PROVE Kept(c)'
  BY <1>1, <1>2, <1>4 DEF Create, TypeOK
<1>5. ASSUME NEW q \in Requests, Lookup(q) \/ LookupAgain(q) PROVE Kept(c)'
  BY <1>1, <1>5 DEF Lookup, LookupAgain
<1>6. CASE Cleanup \/ Tick \/ UNCHANGED vars
  BY <1>1, <1>6 DEF Cleanup, CleanupLooks, CleanupEnds, Tick, vars
<1>. QED  BY <1>3, <1>4, <1>5, <1>6 DEF Next, Allow

\* What a denial of q in a step means.
LEMMA DenialIsRefusal ==
    ASSUME TypeOK, [Next]_vars, NEW p \in Requests, Denied(p)
    PROVE  \E b \in Buckets, t \in 0 .. Capacity :
              mine[p] = b /\ UseOf(p, b, t) /\ Refused(p, b, t)
<1>. USE DEF Denied, bucketVars, requestVars, ghostVars
<1>1. ASSUME NEW q \in Requests, Use(q)
      PROVE  \E b \in Buckets, t \in 0 .. Capacity :
                mine[p] = b /\ UseOf(p, b, t) /\ Refused(p, b, t)
  <2>1. q = p
    BY <1>1 DEF Use, TypeOK
  <2>2. PICK b \in Buckets, t \in 0 .. Capacity :
          /\ mine[p] = b /\ UseOf(p, b, t)
          /\ Allowed(p, b, t) \/ Refused(p, b, t)
    BY <1>1, <2>1, UseCases, RefilledType DEF UseOf
  <2>3. ~Allowed(p, b, t)
    BY DEF Allowed, TypeOK
  <2>. QED  BY <2>2, <2>3
<1>2. ASSUME NEW q \in Requests,
             Lookup(q) \/ LookupAgain(q) \/ \E b \in Buckets : Create(q, b)
      PROVE  FALSE
  BY <1>2 DEF Lookup, LookupAgain, Create, Hold, TypeOK
<1>3. CASE Cleanup \/ Tick \/ UNCHANGED vars
  BY <1>3 DEF Cleanup, CleanupLooks, CleanupEnds, Tick, vars
<1>. QED  BY <1>1, <1>2, <1>3 DEF Next, Allow

\* A client that waits as long as Retry-After said finds a token, unless
\* another request of its address took it.
THEOREM RetryAfterIsEnough == Spec => RetryAfterSuffices
<1>1. Init => Promises
  BY DEF Init, Promises, Kept
<1>2. TypeOK /\ Promises /\ [Next]_vars
      => [\A q \in Requests :
            Denied(q) => promised[mine[q]] = 0 \/ now < promised[mine[q]]]_vars
  <2>. SUFFICES ASSUME TypeOK, Promises, [Next]_vars, NEW q \in Requests, Denied(q)
                PROVE  promised[mine[q]] = 0 \/ now < promised[mine[q]]
    OBVIOUS
  <2>1. PICK b \in Buckets, t \in 0 .. Capacity :
          mine[q] = b /\ UseOf(q, b, t) /\ Refused(q, b, t)
    BY DenialIsRefusal
  <2>2. Refilled(b) < Token
    BY <2>1 DEF UseOf, Refused
  <2>3. promised[b] \in Nat /\ now \in Nat /\ Refilled(b) \in 0 .. Capacity
    BY RefilledType DEF TypeOK
  <2>. QED  BY <2>1, <2>2, <2>3, PromiseDue, Amounts
<1>. QED
  BY <1>1, <1>2, TypeInit, TypeStep, PromiseStep, PTL DEF Spec, RetryAfterSuffices

-----------------------------------------------------------------------------
(* DeniedOnlyWhenUsedUp.  What is not left in a bucket was taken.          *)

InUse(b) == b = bucket \/ \E q \in Requests : pc[q] = "use" /\ mine[q] = b

\* What a bucket would hold if nothing had been taken since the window began.
Untouched == IF from = 0 THEN Capacity ELSE Capped(Refill(now - from))

Accounted(b) == now >= from => Refilled(b) + Cost(taken) >= Untouched

Accounts == \A b \in Buckets : InUse(b) => Accounted(b)

\* Untouched is an amount.
LEMMA UntouchedType ==
    ASSUME TypeOK, now >= from
    PROVE  Untouched \in 0 .. Capacity
BY RefillSince, Amounts DEF Untouched, Capped

\* Nothing of a bucket is lost by using it or another one.
LEMMA AccountedByUse ==
    ASSUME TypeOK, NEW q \in Requests, NEW b \in Buckets, NEW t, UseOf(q, b, t),
           Allowed(q, b, t) \/ Refused(q, b, t),
           NEW c \in Buckets, Accounted(c)
    PROVE  Accounted(c)'
<1>1. t \in 0 .. Capacity /\ t = Refilled(b) /\ Refilled(c) \in 0 .. Capacity
  BY RefilledType DEF UseOf
<1>2. /\ Allowed(q, b, t) => Refilled(b)' = t - Token
      /\ Refused(q, b, t) => Refilled(b)' = t
      /\ c # b => Refilled(c)' = Refilled(c)
  BY RefilledByUse
<1>3. /\ now' = now /\ from' = from /\ now \in Nat /\ from \in Nat /\ taken \in Nat
      /\ Untouched' = Untouched
  BY DEF UseOf, TypeOK, Untouched, Capped, Refill
<1>4. SUFFICES ASSUME now >= from
               PROVE  Refilled(c)' + Cost(taken)' >= Untouched
  BY <1>3 DEF Accounted
<1>5. /\ Refilled(c) + Cost(taken) >= Untouched
      /\ Untouched \in 0 .. Capacity /\ Cost(taken) \in Nat
  BY <1>3, <1>4, UntouchedType, CostAdds DEF Accounted
<1>6. CASE Refused(q, b, t)
  <2>1. Cost(taken)' = Cost(taken)
    BY <1>6 DEF Refused, Cost
  <2>2. Refilled(c)' = Refilled(c)
    BY <1>1, <1>2, <1>6
  <2>. QED  BY <1>5, <2>1, <2>2
<1>7. CASE Allowed(q, b, t)
  <2>1. taken' = taken + 1
    BY <1>4, <1>7 DEF Allowed
  <2>2. Cost(taken)' = Cost(taken) + Token
    BY <1>3, <2>1, CostAdds DEF Cost
  <2>3. Refilled(c)' = Refilled(c) \/ Refilled(c)' = Refilled(c) - Token
    BY <1>1, <1>2, <1>7
  <2>. QED  BY <1>1, <1>5, <2>2, <2>3, Amounts
<1>. QED  BY <1>6, <1>7

\* A tick refills a bucket at least as fast as one nothing was taken from.
LEMMA AccountedByTick ==
    ASSUME TypeOK, NEW c \in Buckets, Accounted(c), Tick
    PROVE  Accounted(c)'
<1>1. /\ now' = now + 1 /\ taken' = taken /\ from' = from
      /\ Cost(taken)' = Cost(taken)
  BY DEF Tick, Cost, ghostVars
<1>2. now \in Nat /\ from \in Nat /\ taken \in Nat
  BY DEF TypeOK
<1>3. /\ Cost(taken) \in Nat /\ Refill(0) = 0 /\ Refill(1) \in Nat
      /\ Refilled(c) \in 0 .. Capacity
      /\ Refilled(c)' = Capped(Refilled(c) + Refill(1))
  BY <1>2, CostAdds, RefillAdds, RefilledByTick, RefilledType
<1>4. CASE now >= from
  <2>1. /\ now - from \in Nat /\ (now - from)' = (now - from) + 1
        /\ now' >= from'
    BY <1>1, <1>2, <1>4
  <2>2. /\ Refill((now - from) + 1) = Refill(now - from) + Refill(1)
        /\ Refill(now - from) \in Nat
    BY <2>1, RefillAdds
  <2>3. Untouched' = IF from = 0 THEN Capacity
                     ELSE Capped(Refill(now - from) + Refill(1))
    BY <1>1, <2>1, <2>2 DEF Untouched, Capped, Refill
  <2>4. Refilled(c) + Cost(taken) >= Untouched
    BY <1>4 DEF Accounted
  <2>. QED
    BY <1>1, <1>3, <2>2, <2>3, <2>4, Amounts DEF Accounted, Untouched, Capped
<1>5. CASE now' = from
  <2>1. from # 0 /\ Refill(now - from)' = 0
    BY <1>1, <1>2, <1>3, <1>5 DEF Refill
  <2>2. Untouched' = 0
    BY <1>1, <2>1, Amounts DEF Untouched, Capped
  <2>. QED  BY <1>1, <1>3, <2>2, Amounts DEF Accounted, Capped
<1>6. CASE now' < from
  BY <1>1, <1>2, <1>6 DEF Accounted
<1>. QED  BY <1>1, <1>2, <1>4, <1>5, <1>6

\* Every step keeps the accounts of the buckets in use.
LEMMA AccountsStep == TypeOK /\ Accounts /\ [Next]_vars => Accounts'
<1>. SUFFICES ASSUME TypeOK, Accounts, [Next]_vars, NEW c \in Buckets, InUse(c)'
              PROVE  Accounted(c)'
  BY DEF Accounts
<1>. USE DEF bucketVars, requestVars, ghostVars
<1>1. ASSUME InUse(c), UNCHANGED <<tokens[c], lastRefill[c], now, from, taken>>
      PROVE  Accounted(c)'
  BY <1>1 DEF Accounts, Accounted, Refilled, Capped, Refill, Elapsed, Cost, Untouched
<1>2. ASSUME NEW q \in Requests, Use(q) PROVE Accounted(c)'
  <2>1. PICK b \in Buckets, t \in 0 .. Capacity :
          UseOf(q, b, t) /\ (Allowed(q, b, t) \/ Refused(q, b, t))
    BY <1>2, UseCases, RefilledType DEF UseOf
  <2>2. InUse(c)
    BY <2>1 DEF InUse, UseOf, TypeOK
  <2>. QED  BY <2>1, <2>2, AccountedByUse DEF Accounts
<1>3. ASSUME NEW q \in Requests, NEW b \in Buckets, Create(q, b) PROVE Accounted(c)'
  <2>1. CASE c = b
    <3>1. /\ tokens'[c] = Capacity /\ lastRefill'[c] = now /\ now \in Nat
          /\ UNCHANGED <<now, from, taken>>
      BY <1>3, <2>1 DEF Create, TypeOK
    <3>2. Refill(Elapsed(c)') = 0
      BY <3>1, RefillAdds DEF Elapsed
    <3>3. Refilled(c)' = Capacity
      BY <3>1, <3>2, Amounts DEF Refilled, Capped, Refill
    <3>4. Cost(taken)' \in Nat /\ Untouched' = Untouched
      BY <3>1, CostAdds DEF Cost, Untouched, Capped, Refill, TypeOK
    <3>. QED  BY <3>1, <3>3, <3>4, UntouchedType, Amounts DEF Accounted
  <2>2. CASE c # b
    <3>1. InUse(c)
      BY <1>3, <2>2 DEF Create, Hold, InUse, TypeOK
    <3>. QED  BY <1>1, <1>3, <2>2, <3>1 DEF Create, TypeOK
  <2>. QED  BY <2>1, <2>2
<1>4. ASSUME NEW q \in Requests, Lookup(q) \/ LookupAgain(q) PROVE Accounted(c)'
  <2>1. InUse(c)
    BY <1>4 DEF Lookup, LookupAgain, Hold, InUse, TypeOK
  <2>. QED  BY <1>1, <1>4, <2>1 DEF Lookup, LookupAgain
<1>5. CASE Cleanup \/ UNCHANGED vars
  <2>1. InUse(c)
    BY <1>5 DEF Cleanup, CleanupLooks, CleanupEnds, vars, InUse, TypeOK
  <2>. QED  BY <1>1, <1>5, <2>1 DEF Cleanup, CleanupLooks, CleanupEnds, vars
<1>6. CASE Tick
  <2>1. InUse(c)
    BY <1>6 DEF Tick, InUse
  <2>. QED  BY <1>6, <2>1, AccountedByTick DEF Accounts
<1>. QED  BY <1>2, <1>3, <1>4, <1>5, <1>6 DEF Next, Allow

\* Whoever is denied belongs to an address that was admitted MaxTokens times
\* within the last window: no token is lost by asking, pruning or rounding.
THEOREM DenialsAreEarned == Spec => DeniedOnlyWhenUsedUp
<1>1. Init => Accounts
  BY DEF Init, Accounts, InUse
<1>2. TypeOK /\ Accounts /\ [Next]_vars
      => [\A q \in Requests : Denied(q) /\ (from = 0 \/ now >= from + Token)
                                  => taken >= MaxTokens]_vars
  <2>. SUFFICES ASSUME TypeOK, Accounts, [Next]_vars, NEW q \in Requests, Denied(q),
                       from = 0 \/ now >= from + Token
                PROVE  taken >= MaxTokens
    OBVIOUS
  <2>1. PICK b \in Buckets, t \in 0 .. Capacity : UseOf(q, b, t) /\ Refused(q, b, t)
    BY DenialIsRefusal
  <2>2. now \in Nat /\ from \in Nat /\ taken \in Nat /\ now >= from
    BY Amounts DEF TypeOK
  <2>3. Refilled(b) < Token /\ Refilled(b) \in 0 .. Capacity
    BY <2>1, RefilledType DEF UseOf, Refused
  <2>4. Refilled(b) + Cost(taken) >= Untouched
    BY <2>1, <2>2 DEF Accounts, Accounted, InUse, UseOf
  <2>5. Untouched = Capacity
    <3>1. CASE from = 0
      BY <3>1 DEF Untouched
    <3>2. CASE now >= from + Token
      <4>1. now - from \in Nat /\ Token <= now - from
        BY <2>2, <3>2, Amounts
      <4>2. Refill(now - from) >= Capacity /\ Refill(now - from) \in Nat
        BY <4>1, RefillGrows, RefillAdds, Amounts
      <4>. QED  BY <4>2, Amounts DEF Untouched, Capped
    <3>. QED  BY <3>1, <3>2
  <2>6. Cost(taken) \in Nat /\ Cost(taken) > Capacity - Token
    BY <2>2, <2>3, <2>4, <2>5, CostAdds, Amounts
  <2>. QED  BY <2>2, <2>6, CostOfAll
<1>. QED
  BY <1>1, <1>2, TypeInit, TypeStep, AccountsStep, PTL
  DEF Spec, DeniedOnlyWhenUsedUp

=============================================================================
