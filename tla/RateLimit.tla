----------------------------- MODULE RateLimit -----------------------------
(***************************************************************************)
(* The rate limiter of the HTTP API (middleware/ratelimit.go), for one     *)
(* client address: the entry of rl.buckets, the buckets it pointed to, the *)
(* requests in allow(), and the cleanup goroutine.  Addresses share only   *)
(* rl.mu.                                                                  *)
(*                                                                         *)
(* A request gets its bucket under rl.mu and uses it later under the       *)
(* bucket's own mutex; cleanup holds rl.mu for its whole loop, but only    *)
(* looks at a bucket under the bucket's mutex.  Time advances in ticks,    *)
(* Second of them to a second; tokens are counted in parts, so that a tick *)
(* refills a whole number of them and no rounding is needed.               *)
(***************************************************************************)
EXTENDS Integers

CONSTANTS
    Requests,    \* handler goroutines, each with one request at a time
    Buckets,     \* *bucket values; garbage ones are used again
    MaxTokens,   \* RATE_LIMIT_REQUESTS
    Window,      \* RATE_LIMIT_WINDOW, in seconds
    Second,      \* ticks in a second
    IdleLimit,   \* ticks after which a bucket is pruned (10 minutes in the code)
    Horizon,     \* bound: the clock stops here
    NoBucket

ASSUME RateAssumption ==
    /\ MaxTokens \in Nat \ {0} /\ Window \in Nat \ {0} /\ Second \in Nat \ {0}
    /\ IdleLimit \in Nat /\ Horizon \in Nat
    /\ NoBucket \notin Buckets

\* The defaults are 1 and 10 minutes; a longer window would be cut short.
ASSUME WindowAssumption == Window * Second <= IdleLimit

VARIABLES
    bucket,      \* rl.buckets[ip]
    tokens,      \* b.tokens, in parts
    lastRefill,  \* b.lastRefill
    pc,          \* where a request is in allow()
    mine,        \* its local b
    answer,      \* what its last call of allow() returned
    cleaning,    \* where cleanup is: waiting, or holding rl.mu with its verdict
    now,
    from,        \* ghost: the start of a window of time, any one
    taken,       \* ghost: requests admitted in it
    late,        \* ghost: requests that held a bucket when it was found idle
    lateTaken,   \* ghost: those of them admitted in the window
    promised     \* ghost: when a bucket's Retry-After ends, 0 for no promise

bucketVars  == <<tokens, lastRefill>>
requestVars == <<pc, mine, answer>>
ghostVars   == <<from, taken, late, lateTaken, promised>>
vars == <<bucket, bucketVars, requestVars, cleaning, now, ghostVars>>

-----------------------------------------------------------------------------
Token    == Window * Second          \* parts of a token
Capacity == MaxTokens * Token
Cost(n)  == n * Token                \* parts that n requests take
Refill(ticks) == MaxTokens * ticks   \* parts that come in so many ticks

TypeOK ==
    /\ bucket \in Buckets \cup {NoBucket}
    /\ tokens \in [Buckets -> 0 .. Capacity]
    /\ lastRefill \in [Buckets -> 0 .. now]
    /\ pc \in [Requests -> {"idle", "create", "use"}]
    /\ mine \in [Requests -> Buckets \cup {NoBucket}]
    /\ \A q \in Requests : pc[q] = "use" => mine[q] \in Buckets
    /\ answer \in [Requests -> {"none", "allowed", "denied"}]
    /\ cleaning \in {"waiting", "keep", "delete"}
    /\ now \in 0 .. Horizon
    /\ from \in Nat
    /\ taken \in Nat /\ lateTaken \in 0 .. taken
    /\ late \subseteq Requests
    /\ promised \in [Buckets -> Nat]

Init ==
    /\ bucket = NoBucket
    /\ tokens = [b \in Buckets |-> 0]
    /\ lastRefill = [b \in Buckets |-> 0]
    /\ pc = [q \in Requests |-> "idle"]
    /\ mine = [q \in Requests |-> NoBucket]
    /\ answer = [q \in Requests |-> "none"]
    /\ cleaning = "waiting"
    /\ now = 0
    /\ from \in 0 .. Horizon
    /\ taken = 0 /\ late = {} /\ lateTaken = 0
    /\ promised = [b \in Buckets |-> 0]

-----------------------------------------------------------------------------
(* allow().  A definition named X_Y, here and below, is X with a mistake   *)
(* Y; no action uses it.                                                   *)

\* rl.mu is free.
Unlocked == cleaning = "waiting"

Hold(q, b) ==
    /\ mine' = [mine EXCEPT ![q] = b]
    /\ pc' = [pc EXCEPT ![q] = "use"]

\* The fast path, under the read lock.
Lookup(q) ==
    /\ pc[q] = "idle" /\ Unlocked
    /\ IF bucket # NoBucket
       THEN Hold(q, bucket)
       ELSE pc' = [pc EXCEPT ![q] = "create"] /\ UNCHANGED mine
    /\ UNCHANGED <<bucket, bucketVars, answer, cleaning, now, ghostVars>>

\* The double check under the write lock.
StillMissing_Unchecked == TRUE
StillMissing == bucket = NoBucket

Garbage(b) == b # bucket /\ \A q \in Requests : pc[q] = "use" => mine[q] # b

\* The slow path, under the write lock: somebody else created it ...
LookupAgain(q) ==
    /\ pc[q] = "create" /\ Unlocked /\ ~StillMissing
    /\ Hold(q, bucket)
    /\ UNCHANGED <<bucket, bucketVars, answer, cleaning, now, ghostVars>>

\* ... or create a full bucket.
Create(q, b) ==
    /\ pc[q] = "create" /\ Unlocked /\ StillMissing
    /\ Garbage(b)
    /\ bucket' = b
    /\ tokens' = [tokens EXCEPT ![b] = Capacity]
    /\ lastRefill' = [lastRefill EXCEPT ![b] = now]
    /\ Hold(q, b)
    /\ promised' = [promised EXCEPT ![b] = 0]
    /\ UNCHANGED <<answer, cleaning, now, from, taken, late, lateTaken>>

Elapsed_WholeSeconds(b) == ((now - lastRefill[b]) \div Second) * Second
Elapsed(b) == now - lastRefill[b]

Capped(t) == IF t > Capacity THEN Capacity ELSE t

Refilled(b) == Capped(tokens[b] + Refill(Elapsed(b)))

\* int((1.0-b.tokens)/rl.refillRate) + 1, in seconds
RetryAfter_RoundedDown(t) == (Token - t) \div Refill(Second)
RetryAfter(t) == ((Token - t) \div Refill(Second)) + 1

\* The earliest promise made since the bucket last admitted a request.
Promise(b, t) ==
    IF promised[b] = 0 THEN now + RetryAfter(t) * Second ELSE promised[b]

\* Under b.mu: refill, then take a token or say when to come back.
Use(q) ==
    LET b == mine[q]
        t == Refilled(b)
    IN
    /\ pc[q] = "use"
    /\ lastRefill' = [lastRefill EXCEPT ![b] = now]
    /\ \/ /\ t >= Token
          /\ tokens' = [tokens EXCEPT ![b] = t - Token]
          /\ answer' = [answer EXCEPT ![q] = "allowed"]
          /\ promised' = [promised EXCEPT ![b] = 0]
          /\ taken' = IF now >= from THEN taken + 1 ELSE taken
          /\ lateTaken' = IF now >= from /\ q \in late
                          THEN lateTaken + 1 ELSE lateTaken
       \/ /\ t < Token
          /\ tokens' = [tokens EXCEPT ![b] = t]
          /\ answer' = [answer EXCEPT ![q] = "denied"]
          /\ promised' = [promised EXCEPT ![b] = Promise(b, t)]
          /\ UNCHANGED <<taken, lateTaken>>
    /\ pc' = [pc EXCEPT ![q] = "idle"]
    /\ mine' = [mine EXCEPT ![q] = NoBucket]
    /\ late' = late \ {q}
    /\ UNCHANGED <<bucket, cleaning, now, from>>

-----------------------------------------------------------------------------
(* cleanup().                                                              *)

IsIdle(b) == now - lastRefill[b] > IdleLimit

\* Lock rl.mu and look at the bucket.
CleanupLooks ==
    /\ Unlocked /\ bucket # NoBucket
    /\ cleaning' = IF IsIdle(bucket) THEN "delete" ELSE "keep"
    /\ late' = IF IsIdle(bucket) THEN {q \in Requests : pc[q] = "use"} ELSE late
    /\ UNCHANGED <<bucket, bucketVars, requestVars, now, from, taken, lateTaken,
                   promised>>

\* Delete it if it was idle; unlock rl.mu.
CleanupEnds ==
    /\ ~Unlocked
    /\ bucket' = IF cleaning = "delete" THEN NoBucket ELSE bucket
    /\ cleaning' = "waiting"
    /\ UNCHANGED <<bucketVars, requestVars, now, ghostVars>>

Tick ==
    /\ now < Horizon
    /\ now' = now + 1
    /\ UNCHANGED <<bucket, bucketVars, requestVars, cleaning, ghostVars>>

Allow(q) ==
    \/ Lookup(q)
    \/ LookupAgain(q)
    \/ \E b \in Buckets : Create(q, b)
    \/ Use(q)

Cleanup == CleanupLooks \/ CleanupEnds

Next == (\E q \in Requests : Allow(q)) \/ Cleanup \/ Tick

Spec == Init /\ [][Next]_vars

-----------------------------------------------------------------------------
(* Properties.  from is any time of the run: what holds of the window that *)
(* starts there holds of every window.                                     *)

\* From any time on an address gets at most a burst of MaxTokens requests and
\* what the refill rate allows, also when its bucket is pruned and created
\* again, by several requests at once or under a request that is about to use
\* it.  Only such a request may come on top: it uses up a bucket that is gone.
WindowBound ==
    now >= from =>
        Cost(taken - lateTaken) <= Capacity + Refill(now - from)

Denied(q) == pc[q] = "use" /\ pc'[q] = "idle" /\ answer'[q] = "denied"

\* A request that comes when Retry-After is over is allowed, if no other took
\* the token in between.
RetryAfterSuffices ==
    [][\A q \in Requests :
         Denied(q) => promised[mine[q]] = 0 \/ now < promised[mine[q]]]_vars

\* A request is denied only if MaxTokens requests were allowed within the last
\* Window seconds (or since the server started): asking often, or just after a
\* refill, costs nothing.
DeniedOnlyWhenUsedUp ==
    [][\A q \in Requests :
         Denied(q) /\ (from = 0 \/ now >= from + Token) => taken >= MaxTokens]_vars

=============================================================================
