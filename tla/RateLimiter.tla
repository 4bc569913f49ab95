---------------------------- MODULE RateLimiter ----------------------------
(***************************************************************************)
(* The rate limiter (internal/auth/ratelimit.go) with a bucket per client: *)
(* a request finds or makes the bucket of its client under the limiter's   *)
(* mutex, and takes a token from it later, under the bucket's own.  The    *)
(* cleanup, every five minutes, forgets the buckets that no request has    *)
(* looked at for an hour.  Time goes by in ticks of one token's worth.     *)
(***************************************************************************)
EXTENDS Integers, FiniteSets, FiniteSetsExt

CONSTANTS Hosts,        \* the client addresses
          Requests,     \* the requests that may be in the middleware at a time
          BurstSize, Rate,   \* tokens of a full bucket; tokens per tick
          MaxAge,       \* ticks until a bucket is stale
          NoBucket

\* An idle bucket is full again before it is stale, so that forgetting it gives
\* nothing away.  (The configuration is not checked for this.)
ASSUME RateAssumption ==
  /\ {BurstSize, Rate, MaxAge} \subseteq Nat \ {0}
  /\ BurstSize <= Rate * MaxAge
  /\ IsFiniteSet(Hosts) /\ IsFiniteSet(Requests) /\ NoBucket \notin Nat

VARIABLES buckets,    \* bucket -> its tokens and the ticks since its last refill
          clients,    \* host -> its bucket, or NoBucket
          inside,     \* request -> its host and the bucket it has found, or NoBucket
          allowance   \* host -> what a bucket that is never forgotten would hold

rateVars == <<buckets, clients, inside, allowance>>

\* Every host, and every request, may hold a bucket of its own.
BucketIDs == 1..(Cardinality(Hosts) + Cardinality(Requests))
Full == [tokens |-> BurstSize, age |-> 0]
Held(r) == inside[r] # NoBucket
InUse == {clients[h] : h \in Hosts} \cup {inside[r].bucket : r \in {q \in Requests : Held(q)}}

RateInit ==
  /\ buckets = [b \in BucketIDs |-> Full]
  /\ clients = [h \in Hosts |-> NoBucket]
  /\ inside = [r \in Requests |-> NoBucket]
  /\ allowance = [h \in Hosts |-> BurstSize]

\* The bucket of the client, a full one if it is new.
GetClientBucket(r, h) ==
  LET new == clients[h] = NoBucket
      b == IF new THEN Min(BucketIDs \ InUse) ELSE clients[h] IN
  /\ ~Held(r)
  /\ clients' = [clients EXCEPT ![h] = b]
  /\ buckets' = IF new THEN [buckets EXCEPT ![b] = Full] ELSE buckets
  /\ inside' = [inside EXCEPT ![r] = [host |-> h, bucket |-> b]]
  /\ UNCHANGED allowance

Refilled(bucket) == Min({BurstSize, bucket.tokens + Rate * bucket.age})

\* The cleanup has forgotten the bucket that the request holds.
Stray(r) == inside[r].bucket # clients[inside[r].host]

\* The refill, and the token or 429.
Allow(r) ==
  LET b == inside[r].bucket
      tokens == Refilled(buckets[b])
      granted == tokens >= 1 IN
  /\ Held(r)
  /\ buckets' = [buckets EXCEPT ![b] = [tokens |-> IF granted THEN tokens - 1 ELSE tokens, age |-> 0]]
  /\ allowance' = IF granted /\ ~Stray(r) THEN [allowance EXCEPT ![inside[r].host] = @ - 1] ELSE allowance
  /\ inside' = [inside EXCEPT ![r] = NoBucket]
  /\ UNCHANGED clients

\* Mutant: a bucket is stale as soon as it is idle.
CleanupIdleClients ==
  /\ clients' = [h \in Hosts |-> IF clients[h] # NoBucket /\ buckets[clients[h]].age >= 1 THEN NoBucket ELSE clients[h]]
  /\ UNCHANGED <<buckets, inside, allowance>>

CleanupStaleClients ==
  /\ clients' = [h \in Hosts |-> IF clients[h] # NoBucket /\ buckets[clients[h]].age > MaxAge THEN NoBucket ELSE clients[h]]
  /\ UNCHANGED <<buckets, inside, allowance>>

\* Ages beyond MaxAge + 1 are alike: the bucket is full and stale.
RateTick ==
  /\ buckets' = [b \in BucketIDs |-> [buckets[b] EXCEPT !.age = Min({MaxAge + 1, @ + 1})]]
  /\ allowance' = [h \in Hosts |-> Min({BurstSize, allowance[h] + Rate})]
  /\ UNCHANGED <<clients, inside>>

RateNext ==
  \/ \E r \in Requests, h \in Hosts : GetClientBucket(r, h)
  \/ \E r \in Requests : Allow(r)
  \/ CleanupStaleClients \/ RateTick

-----------------------------------------------------------------------------
\* Type correctness: no bucket holds more than a burst, or owes.
RateTypeOK ==
  /\ buckets \in [BucketIDs -> [tokens : 0..BurstSize, age : 0..(MaxAge + 1)]]
  /\ clients \in [Hosts -> BucketIDs \cup {NoBucket}]

\* The limiter is exact: what a client may take is at every moment what a bucket
\* that is never forgotten would let it take, so that in any stretch of time it
\* is granted a burst and the rate times its length, and is refused nothing
\* below that.  (The allowance is not charged for a request that the cleanup
\* overtook between finding its bucket and using it: it takes a token besides.)
LimitExact ==
  \A h \in Hosts :
    allowance[h] = IF clients[h] = NoBucket THEN BurstSize ELSE Refilled(buckets[clients[h]])
=============================================================================
