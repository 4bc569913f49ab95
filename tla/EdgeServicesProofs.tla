------------------------- MODULE EdgeServicesProofs -------------------------
(***************************************************************************)
(* The services around the registry, proved for every number of sessions,  *)
(* hosts, events, callers and records.  The services share no state: each  *)
(* has its own inductive invariant, and the last section puts them side by *)
(* side.                                                                   *)
(*                                                                         *)
(* MCPInv: a token that let a call through is marked or gone, and stands   *)
(* for the arguments of its dry run.  The call it let through must name an *)
(* issued token, or a later dry run could take that token over.            *)
(*                                                                         *)
(* RateInv: besides LimitExact it needs that a bucket belongs to one host, *)
(* whether in the map or in the hands of a request; that a free bucket can *)
(* always be found is a counting argument (FreeBucket).                    *)
(*                                                                         *)
(* AuditInv: the events lie in the pipeline in the order of their logging  *)
(* (AuditOrder), and a Close that is on time stops the webhook's loop only *)
(* after the drain loop has ended (AuditPlaces); without the second no     *)
(* count of the buffers shows that Close hands everything on.              *)
(*                                                                         *)
(* VaultInv: what each KV call of a write finds established by the earlier *)
(* ones (CallHolds, CallUnique), and that no ID above the counter in Vault *)
(* was ever used (VaultCounters).  It holds of one instance: two instances *)
(* have a counter and a mutex each, and hand out the same ID.              *)
(***************************************************************************)
EXTENDS EdgeServices, FiniteSetTheorems, WellFoundedInduction, TLAPS

-----------------------------------------------------------------------------
(* Facts about the operators.                                              *)

\* The smaller of two numbers.
LEMMA MinOfTwo ==
  ASSUME NEW a \in Int, NEW b \in Int
  PROVE  Min({a, b}) = IF a <= b THEN a ELSE b
<1> DEFINE P(x) == x \in {a, b} /\ \A y \in {a, b} : x =< y
<1>1. CASE a <= b
  <2>1. \A x : P(x) <=> x = a
    BY <1>1
  <2> QED BY <1>1, <2>1 DEF Min
<1>2. CASE ~(a <= b)
  <2>1. \A x : P(x) <=> x = b
    BY <1>2
  <2> QED BY <1>2, <2>1 DEF Min
<1> QED BY <1>1, <1>2

-----------------------------------------------------------------------------
(* Confirmation tokens.                                                    *)

\* A stored token; a call that a session is executing.
TokenType == [hash : {ArgsHash(a) : a \in Calls}, age : 0..(TTL + 1), used : BOOLEAN]
DoingType == [call : Calls, token : 0..MaxToken]

\* A token that was never issued is unused; one that let a call through is marked
\* or gone; and a token stands for the arguments of its dry run.
TokenInv(t) ==
  /\ issued[t] = NoToken => tokens[t] = NoToken /\ uses[t] = 0
  /\ uses[t] # 0 => uses[t] = 1 /\ (tokens[t] # NoToken => tokens[t].used = TRUE)
  /\ tokens[t] # NoToken => tokens[t].hash = ArgsHash(issued[t])

\* The inductive invariant: with it a call under way was let through by a token
\* that is issued, so that no later dry run takes that token over.
MCPInv ==
  /\ tokens \in [TokenIDs -> TokenType \cup {NoToken}]
  /\ issued \in [TokenIDs -> Calls \cup {NoToken}]
  /\ doing \in [Sessions -> DoingType \cup {NoToken}]
  /\ uses \in [TokenIDs -> Nat]
  /\ \A t \in TokenIDs : TokenInv(t)
  /\ ConfirmedAsPreviewed
  /\ \A s \in Sessions :
        doing[s] # NoToken /\ doing[s].token # 0 => issued[doing[s].token] # NoToken

\* At the start no token is issued.
LEMMA MCPInitInv == MCPInit => MCPInv
  BY DEF MCPInit, MCPInv, TokenInv, ConfirmedAsPreviewed

\* A session takes up a call that needs no confirmation, or has been confirmed.
LEMMA TakesUp ==
  ASSUME MCPInv, NEW s \in Sessions, NEW a \in Calls, NEW t \in 0..MaxToken,
         doing' = [doing EXCEPT ![s] = [call |-> a, token |-> t]],
         issued' = issued,
         Confirmable(a) => t # 0 /\ SameOperation(a, issued[t]),
         t # 0 => issued[t] # NoToken
  PROVE  /\ doing' \in [Sessions -> DoingType \cup {NoToken}] /\ ConfirmedAsPreviewed'
         /\ \A r \in Sessions :
              doing'[r] # NoToken /\ doing'[r].token # 0 => issued'[doing'[r].token] # NoToken
<1> DEFINE d == [call |-> a, token |-> t]
<1>1. d \in DoingType /\ d.call = a /\ d.token = t
  BY DEF DoingType
<1> HIDE DEF d
<1>2. /\ doing' \in [Sessions -> DoingType \cup {NoToken}]
      /\ doing'[s] = d
      /\ \A r \in Sessions : r # s => doing'[r] = doing[r]
  BY <1>1 DEF MCPInv, d
<1>3. ASSUME NEW r \in Sessions, doing'[r] # NoToken, Confirmable(doing'[r].call)
      PROVE  doing'[r].token # 0 /\ SameOperation(doing'[r].call, issued'[doing'[r].token])
  <2>1. CASE r = s
    BY <1>1, <1>2, <1>3, <2>1
  <2>2. CASE r # s
    BY <1>2, <1>3, <2>2 DEF MCPInv, ConfirmedAsPreviewed
  <2> QED BY <2>1, <2>2
<1>4. \A r \in Sessions :
        doing'[r] # NoToken /\ doing'[r].token # 0 => issued'[doing'[r].token] # NoToken
  BY <1>1, <1>2 DEF MCPInv
<1> QED BY <1>2, <1>3, <1>4 DEF ConfirmedAsPreviewed

\* Every step of the confirmations keeps the invariant.
LEMMA MCPStep == MCPInv /\ [MCPNext]_mcpVars => MCPInv'
<1> SUFFICES ASSUME MCPInv, [MCPNext]_mcpVars PROVE MCPInv'
  OBVIOUS
<1>0. /\ tokens \in [TokenIDs -> TokenType \cup {NoToken}]
      /\ issued \in [TokenIDs -> Calls \cup {NoToken}]
      /\ doing \in [Sessions -> DoingType \cup {NoToken}]
      /\ uses \in [TokenIDs -> Nat]
      /\ \A t \in TokenIDs : TokenInv(t)
      /\ ConfirmedAsPreviewed
      /\ \A s \in Sessions :
           doing[s] # NoToken /\ doing[s].token # 0 => issued[doing[s].token] # NoToken
  BY DEF MCPInv
<1>00. TokenIDs = 1..MaxToken /\ MaxToken \in Nat
  BY CallAssumption DEF TokenIDs
<1>1. CASE UNCHANGED mcpVars
  <2>1. tokens' = tokens /\ issued' = issued /\ doing' = doing /\ uses' = uses
    BY <1>1 DEF mcpVars
  <2> QED BY <1>0, <2>1 DEF MCPInv, TokenInv, ConfirmedAsPreviewed
<1>2. ASSUME NEW s \in Sessions, NEW a \in Calls, DryRun(s, a) PROVE MCPInv'
  <2>1. CASE ~Confirmable(a)
    <3>1. /\ doing' = [doing EXCEPT ![s] = [call |-> a, token |-> 0]]
          /\ UNCHANGED <<tokens, issued, uses>>
      BY <1>2, <2>1 DEF DryRun
    <3>2. /\ doing' \in [Sessions -> DoingType \cup {NoToken}] /\ ConfirmedAsPreviewed'
          /\ \A r \in Sessions :
               doing'[r] # NoToken /\ doing'[r].token # 0 => issued'[doing'[r].token] # NoToken
      <4>1. 0 \in 0..MaxToken /\ issued' = issued
        BY <1>00, <3>1
      <4> QED BY <2>1, <3>1, <4>1, TakesUp
    <3> QED BY <1>0, <3>1, <3>2 DEF MCPInv, TokenInv
  <2>2. CASE Confirmable(a)
    <3>1. PICK t \in TokenIDs :
            /\ issued[t] = NoToken
            /\ tokens' = [tokens EXCEPT ![t] = [hash |-> ArgsHash(a), age |-> 0, used |-> FALSE]]
            /\ issued' = [issued EXCEPT ![t] = a]
            /\ doing' = doing /\ uses' = uses
      BY <1>2, <2>2 DEF DryRun
    <3> DEFINE e == [hash |-> ArgsHash(a), age |-> 0, used |-> FALSE]
    <3>2. e \in TokenType /\ e.hash = ArgsHash(a)
      BY CallAssumption DEF TokenType
    <3> HIDE DEF e
    <3>3. /\ tokens' \in [TokenIDs -> TokenType \cup {NoToken}]
          /\ issued' \in [TokenIDs -> Calls \cup {NoToken}]
          /\ tokens'[t] = e /\ issued'[t] = a
          /\ \A u \in TokenIDs : u # t => tokens'[u] = tokens[u] /\ issued'[u] = issued[u]
      BY <1>0, <3>1, <3>2 DEF e
    <3>4. \A u \in TokenIDs : TokenInv(u)'
      BY <1>0, <3>1, <3>2, <3>3, CallAssumption DEF TokenInv
    <3>5. ASSUME NEW r \in Sessions, doing[r] # NoToken, doing[r].token # 0
          PROVE  /\ issued'[doing[r].token] = issued[doing[r].token]
                 /\ issued[doing[r].token] # NoToken
      <4>1. doing[r].token \in TokenIDs /\ issued[doing[r].token] # NoToken
        BY <1>0, <1>00, <3>5 DEF DoingType
      <4> QED BY <3>1, <3>3, <4>1
    <3>6. /\ ConfirmedAsPreviewed'
          /\ \A r \in Sessions :
               doing'[r] # NoToken /\ doing'[r].token # 0 => issued'[doing'[r].token] # NoToken
      BY <1>0, <3>1, <3>5 DEF ConfirmedAsPreviewed
    <3> QED BY <1>0, <3>1, <3>3, <3>4, <3>6 DEF MCPInv
  <2> QED BY <2>1, <2>2
<1>3. ASSUME NEW s \in Sessions, NEW a \in Calls, Plain(s, a) PROVE MCPInv'
  <2>1. /\ doing' = [doing EXCEPT ![s] = [call |-> a, token |-> 0]]
        /\ UNCHANGED <<tokens, issued, uses>> /\ ~Confirmable(a)
    BY <1>3 DEF Plain
  <2>2. /\ doing' \in [Sessions -> DoingType \cup {NoToken}] /\ ConfirmedAsPreviewed'
        /\ \A r \in Sessions :
             doing'[r] # NoToken /\ doing'[r].token # 0 => issued'[doing'[r].token] # NoToken
    <3>1. 0 \in 0..MaxToken /\ issued' = issued
      BY <1>00, <2>1
    <3> QED BY <2>1, <3>1, TakesUp
  <2> QED BY <1>0, <2>1, <2>2 DEF MCPInv, TokenInv
<1>4. ASSUME NEW s \in Sessions, NEW a \in Calls, NEW t \in TokenIDs, Validate(s, t, a)
      PROVE  MCPInv'
  <2> DEFINE entry == tokens[t]
             valid == /\ entry # NoToken /\ entry.age <= TTL /\ ~entry.used
                      /\ entry.hash = ArgsHash(a)
  <2>1. issued' = issued /\ issued[t] # NoToken /\ Confirmable(a)
    BY <1>4 DEF Validate
  <2>2. CASE valid
    <3>1. /\ tokens' = [tokens EXCEPT ![t].used = TRUE]
          /\ doing' = [doing EXCEPT ![s] = [call |-> a, token |-> t]]
          /\ uses' = [uses EXCEPT ![t] = @ + 1]
      BY <1>4, <2>2 DEF Validate
    <3>2. entry \in TokenType /\ entry.used = FALSE /\ uses[t] = 0
      BY <1>0, <2>2 DEF TokenInv, TokenType
    <3>3. SameOperation(a, issued[t])
      BY <1>0, <2>2 DEF TokenInv, ArgsHash, SameOperation
    <3>4. /\ doing' \in [Sessions -> DoingType \cup {NoToken}] /\ ConfirmedAsPreviewed'
          /\ \A r \in Sessions :
               doing'[r] # NoToken /\ doing'[r].token # 0 => issued'[doing'[r].token] # NoToken
      <4>1. t \in 0..MaxToken /\ t # 0
        BY <1>00
      <4> QED BY <2>1, <3>1, <3>3, <4>1, TakesUp
    <3>5. /\ tokens' \in [TokenIDs -> TokenType \cup {NoToken}]
          /\ tokens'[t].hash = entry.hash /\ tokens'[t].used = TRUE
          /\ \A u \in TokenIDs : u # t => tokens'[u] = tokens[u]
      BY <1>0, <3>1, <3>2 DEF TokenType
    <3>6. /\ uses' \in [TokenIDs -> Nat] /\ uses'[t] = 1
          /\ \A u \in TokenIDs : u # t => uses'[u] = uses[u]
      BY <1>0, <3>1, <3>2
    <3>7. \A u \in TokenIDs : TokenInv(u)'
      BY <1>0, <2>1, <2>2, <3>5, <3>6 DEF TokenInv
    <3> QED BY <1>0, <2>1, <3>4, <3>5, <3>6, <3>7 DEF MCPInv
  <2>3. CASE ~valid
    <3>1. doing' = doing /\ uses' = uses /\ tokens' \in {tokens, [tokens EXCEPT ![t] = NoToken]}
      BY <1>4, <2>3 DEF Validate
    <3>2. /\ tokens' \in [TokenIDs -> TokenType \cup {NoToken}]
          /\ \A u \in TokenIDs : tokens'[u] \in {tokens[u], NoToken}
      BY <1>0, <3>1
    <3>3. \A u \in TokenIDs : TokenInv(u)'
      BY <1>0, <2>1, <3>1, <3>2 DEF TokenInv
    <3> QED BY <1>0, <2>1, <3>1, <3>2, <3>3 DEF MCPInv, ConfirmedAsPreviewed
  <2> QED BY <2>2, <2>3
<1>5. ASSUME NEW s \in Sessions, Run(s) PROVE MCPInv'
  <2>1. doing' = [doing EXCEPT ![s] = NoToken] /\ UNCHANGED <<tokens, issued, uses>>
    BY <1>5 DEF Run
  <2>2. /\ doing' \in [Sessions -> DoingType \cup {NoToken}]
        /\ \A r \in Sessions : doing'[r] \in {doing[r], NoToken}
    BY <1>0, <2>1
  <2>3. ConfirmedAsPreviewed'
    BY <1>0, <2>1, <2>2 DEF ConfirmedAsPreviewed
  <2> QED BY <1>0, <2>1, <2>2, <2>3 DEF MCPInv, TokenInv
<1>6. CASE Collect
  <2>1. /\ tokens' \in [TokenIDs -> TokenType \cup {NoToken}]
        /\ \A t \in TokenIDs : tokens'[t] \in {tokens[t], NoToken}
        /\ UNCHANGED <<issued, doing, uses>>
    BY <1>0, <1>6 DEF Collect
  <2>2. \A t \in TokenIDs : TokenInv(t)'
    BY <1>0, <2>1 DEF TokenInv
  <2> QED BY <1>0, <2>1, <2>2 DEF MCPInv, ConfirmedAsPreviewed
<1>7. CASE MCPTick
  <2>1. ASSUME NEW t \in TokenIDs, tokens[t] # NoToken
        PROVE  /\ tokens'[t] \in TokenType
               /\ tokens'[t].hash = tokens[t].hash /\ tokens'[t].used = tokens[t].used
    <3>1. tokens[t] \in TokenType
      BY <1>0, <2>1
    <3>2. PICK age \in 0..(TTL + 1) : age = Min({TTL + 1, tokens[t].age + 1})
      BY <3>1, CallAssumption, MinOfTwo DEF TokenType
    <3>3. tokens'[t] = [tokens[t] EXCEPT !.age = age]
      BY <1>7, <2>1, <3>2 DEF MCPTick
    <3> QED BY <3>1, <3>3 DEF TokenType
  <2>2. /\ tokens' \in [TokenIDs -> TokenType \cup {NoToken}]
        /\ \A t \in TokenIDs : tokens[t] = NoToken => tokens'[t] = NoToken
        /\ UNCHANGED <<issued, doing, uses>>
    <3>1. /\ \A t \in TokenIDs : tokens[t] = NoToken => tokens'[t] = NoToken
          /\ UNCHANGED <<issued, doing, uses>> /\ tokens' = [t \in TokenIDs |-> tokens'[t]]
      BY <1>7 DEF MCPTick
    <3> QED BY <2>1, <3>1
  <2>3. \A t \in TokenIDs : TokenInv(t)'
    BY <1>0, <2>1, <2>2 DEF TokenInv
  <2> QED BY <1>0, <2>2, <2>3 DEF MCPInv, ConfirmedAsPreviewed
<1> QED BY <1>1, <1>2, <1>3, <1>4, <1>5, <1>6, <1>7 DEF MCPNext

\* The invariant gives the property.
LEMMA MCPConfirms == MCPInv => ConfirmedOnce
<1> SUFFICES ASSUME MCPInv PROVE ConfirmedOnce
  OBVIOUS
<1>1. MCPTypeOK
  BY DEF MCPInv, MCPTypeOK, TokenType, DoingType, TokenInv
<1>2. SingleUse
  BY DEF MCPInv, TokenInv, SingleUse
<1> QED BY <1>1, <1>2 DEF MCPInv, ConfirmedOnce
-----------------------------------------------------------------------------
(* The rate limiter.                                                       *)

\* A set of numbers that is not empty has a least one, which Min finds.
LEMMA MinInSet ==
  ASSUME NEW S \in SUBSET Nat, S # {}
  PROVE  Min(S) \in S
<1> DEFINE R == OpToRel(<, Nat)
<1>1. IsWellFoundedOn(R, Nat)
  BY NatLessThanWellFounded
<1>2. PICK x \in S : \A y \in S : <<y, x>> \notin R
  <2> HIDE DEF R
  <2> QED BY <1>1, WFMin
<1>3. ASSUME NEW y \in S PROVE x =< y
  <2>1. x \in Nat /\ y \in Nat
    OBVIOUS
  <2>2. ~(y < x)
    BY <1>2, <2>1 DEF OpToRel
  <2> QED BY <2>1, <2>2
<1> QED BY <1>3 DEF Min

\* A function takes at most as many values as it has arguments.
LEMMA ImageBound ==
  ASSUME NEW S, IsFiniteSet(S), NEW f, f = [x \in S |-> f[x]]
  PROVE  /\ IsFiniteSet({f[x] : x \in S}) /\ Cardinality({f[x] : x \in S}) \in Nat
         /\ Cardinality({f[x] : x \in S}) <= Cardinality(S)
<1> DEFINE T == {f[x] : x \in S}
<1>1. f \in Surjection(S, T)
  <2>1. f \in [S -> T] /\ \A t \in T : \E x \in S : f[x] = t
    OBVIOUS
  <2> HIDE DEF T
  <2> QED BY <2>1 DEF Surjection
<1> HIDE DEF T
<1>2. IsFiniteSet(T) /\ Cardinality(T) <= Cardinality(S)
  BY <1>1, FS_Surjection
<1>3. Cardinality(T) \in Nat
  BY <1>2, FS_CardinalityType
<1> QED BY <1>2, <1>3 DEF T

\* A bucket: its tokens, and the time since its last refill.
BucketType == [tokens : 0..BurstSize, age : 0..(MaxAge + 1)]

\* The inductive invariant: a bucket belongs to one host, and a request that holds
\* the bucket of a host is a request of that host.
RateInv ==
  /\ buckets \in [BucketIDs -> BucketType]
  /\ clients \in [Hosts -> BucketIDs \cup {NoBucket}]
  /\ inside \in [Requests -> [host : Hosts, bucket : BucketIDs] \cup {NoBucket}]
  /\ allowance \in [Hosts -> Nat]
  /\ \A g, h \in Hosts : clients[g] = clients[h] /\ clients[g] # NoBucket => g = h
  /\ \A r \in Requests, h \in Hosts :
        Held(r) /\ inside[r].bucket = clients[h] => inside[r].host = h
  /\ LimitExact

\* The constants, one by one.
LEMMA RateConstants ==
  /\ BurstSize \in Nat \ {0} /\ Rate \in Nat \ {0} /\ MaxAge \in Nat \ {0}
  /\ BurstSize <= Rate * MaxAge
  /\ BucketIDs \subseteq Nat \ {0} /\ NoBucket \notin BucketIDs
  /\ Cardinality(Hosts) \in Nat /\ Cardinality(Requests) \in Nat
<1>1. Cardinality(Hosts) \in Nat /\ Cardinality(Requests) \in Nat
  BY RateAssumption, FS_CardinalityType
<1> QED BY <1>1, RateAssumption DEF BucketIDs

\* At the start all buckets are full.
LEMMA RateInitInv == RateInit => RateInv
<1> SUFFICES ASSUME RateInit PROVE RateInv
  OBVIOUS
<1>1. Full \in BucketType
  BY RateConstants DEF Full, BucketType
<1> QED BY <1>1, RateConstants DEF RateInit, RateInv, LimitExact, Held

\* There is a bucket for a host that has none: no more are in use than hosts and
\* requests besides this one.
LEMMA FreeBucket ==
  ASSUME RateInv, NEW r \in Requests, NEW h \in Hosts, ~Held(r), clients[h] = NoBucket
  PROVE  Min(BucketIDs \ InUse) \in BucketIDs \ InUse
<1> DEFINE f == [g \in Hosts \ {h} |-> clients[g]]
           k == [q \in Requests \ {r} |-> inside[q].bucket]
           A == {f[g] : g \in Hosts \ {h}}
           B == {k[q] : q \in Requests \ {r}}
<1>0. /\ IsFiniteSet(Hosts \ {h}) /\ Cardinality(Hosts \ {h}) = Cardinality(Hosts) - 1
      /\ IsFiniteSet(Requests \ {r}) /\ Cardinality(Requests \ {r}) = Cardinality(Requests) - 1
  BY FS_RemoveElement, RateAssumption
<1>1. /\ IsFiniteSet(A) /\ Cardinality(A) \in Nat
      /\ Cardinality(A) <= Cardinality(Hosts \ {h})
  <2>1. f = [g \in Hosts \ {h} |-> f[g]]
    OBVIOUS
  <2> HIDE DEF f
  <2> QED BY <1>0, <2>1, ImageBound
<1>2. /\ IsFiniteSet(B) /\ Cardinality(B) \in Nat
      /\ Cardinality(B) <= Cardinality(Requests \ {r})
  <2>1. k = [q \in Requests \ {r} |-> k[q]]
    OBVIOUS
  <2> HIDE DEF k
  <2> QED BY <1>0, <2>1, ImageBound
<1>3. InUse \subseteq A \cup B \cup {NoBucket}
  <2>1. ASSUME NEW g \in Hosts PROVE clients[g] \in A \cup {NoBucket}
    BY <2>1
  <2>2. ASSUME NEW q \in Requests, Held(q) PROVE inside[q].bucket \in B
    BY <2>2
  <2> HIDE DEF A, B
  <2> QED BY <2>1, <2>2 DEF InUse
<1>4. ~(BucketIDs \subseteq InUse)
  <2> SUFFICES ASSUME BucketIDs \subseteq InUse PROVE FALSE
    OBVIOUS
  <2> HIDE DEF A, B
  <2>1. BucketIDs \in SUBSET (A \cup B)
    BY <1>3, RateConstants
  <2>2. /\ IsFiniteSet(A \cup B) /\ IsFiniteSet(A \cap B)
        /\ Cardinality(A \cup B) = Cardinality(A) + Cardinality(B) - Cardinality(A \cap B)
    <3>1. A \cap B \in SUBSET A
      OBVIOUS
    <3> QED BY <1>1, <1>2, <3>1, FS_Union, FS_Subset
  <2>3. Cardinality(A \cap B) \in Nat /\ Cardinality(BucketIDs) <= Cardinality(A \cup B)
    BY <2>1, <2>2, FS_Subset, FS_CardinalityType
  <2>4. Cardinality(BucketIDs) = Cardinality(Hosts) + Cardinality(Requests)
    <3>1. PICK n \in Nat : n = Cardinality(Hosts) + Cardinality(Requests)
      BY RateConstants
    <3>2. 1 \in Int /\ n \in Int /\ BucketIDs = 1..n
      BY <3>1 DEF BucketIDs
    <3>3. Cardinality(1..n) = IF 1 > n THEN 0 ELSE n - 1 + 1
      BY <3>2, FS_Interval
    <3>4. Cardinality(1..n) = n
      BY <3>3
    <3> QED BY <3>1, <3>2, <3>4
  <2> QED BY <1>0, <1>1, <1>2, <2>2, <2>3, <2>4, RateConstants
<1>5. BucketIDs \ InUse \in SUBSET Nat /\ BucketIDs \ InUse # {}
  BY <1>4, RateConstants
<1> QED BY <1>5, MinInSet

\* What a bucket holds when it is refilled: by the definition of Min; after a tick
\* by one rate more, up to the burst; and a burst when it is stale.
LEMMA RefilledBucket ==
  ASSUME NEW b \in BucketType
  PROVE  /\ Refilled(b) = IF BurstSize <= b.tokens + Rate * b.age THEN BurstSize
                          ELSE b.tokens + Rate * b.age
         /\ Refilled(b) \in 0..BurstSize
         /\ b.age = 0 => Refilled(b) = b.tokens
         /\ b.age > MaxAge => Refilled(b) = BurstSize
<1>1. b.tokens \in 0..BurstSize /\ b.age \in 0..(MaxAge + 1) /\ b.tokens \in Nat /\ b.age \in Nat
  BY RateConstants DEF BucketType
<1>2. Rate * b.age \in Nat
  BY <1>1, RateConstants
<1>3. Refilled(b) = IF BurstSize <= b.tokens + Rate * b.age THEN BurstSize
                    ELSE b.tokens + Rate * b.age
  BY <1>1, <1>2, RateConstants, MinOfTwo DEF Refilled
<1>4. b.age = 0 => Rate * b.age = 0
  BY RateConstants
<1>5. b.age > MaxAge => Rate * b.age >= Rate * MaxAge
  BY <1>1, RateConstants
<1>6. PICK p \in Nat, m \in Nat : p = Rate * b.age /\ m = Rate * MaxAge
  BY <1>2, RateConstants
<1>7. /\ Refilled(b) = IF BurstSize <= b.tokens + p THEN BurstSize ELSE b.tokens + p
      /\ b.age = 0 => p = 0
      /\ b.age > MaxAge => p >= BurstSize
      /\ BurstSize \in Nat
  <2>1. b.age > MaxAge => p >= m
    BY <1>5, <1>6
  <2>2. m >= BurstSize
    BY <1>6, RateConstants
  <2>3. b.age = 0 => p = 0
    BY <1>4, <1>6
  <2>4. b.age > MaxAge => p >= BurstSize
    BY <2>1, <2>2, <1>6, RateConstants
  <2> QED BY <1>3, <1>6, <2>3, <2>4, RateConstants
<1>8. /\ Refilled(b) \in 0..BurstSize
      /\ b.age = 0 => Refilled(b) = b.tokens
      /\ b.age > MaxAge => Refilled(b) = BurstSize
  BY <1>1, <1>7
<1> QED BY <1>3, <1>8

\* The age of a bucket after a tick.
LEMMA TickedAge ==
  ASSUME NEW m \in Nat, NEW x \in Nat
  PROVE  /\ Min({m + 1, x + 1}) \in 0..(m + 1)
         /\ x <= m => Min({m + 1, x + 1}) = x + 1
         /\ x > m => Min({m + 1, x + 1}) = m + 1
<1>1. Min({m + 1, x + 1}) = IF m + 1 <= x + 1 THEN m + 1 ELSE x + 1
  BY MinOfTwo
<1> QED BY <1>1

\* A tick adds one rate to what a bucket may give.
LEMMA TickedBucket ==
  ASSUME NEW b \in BucketType, NEW a, a = Min({MaxAge + 1, b.age + 1}),
         NEW c \in BucketType, c.tokens = b.tokens, c.age = a
  PROVE  Refilled(c) = Min({BurstSize, Refilled(b) + Rate})
<1>1. b.tokens \in 0..BurstSize /\ b.age \in 0..(MaxAge + 1) /\ b.tokens \in Nat /\ b.age \in Nat
  BY RateConstants DEF BucketType
<1>3. a \in Nat /\ (b.age <= MaxAge => a = b.age + 1) /\ (b.age > MaxAge => a = MaxAge + 1)
  BY <1>1, TickedAge, RateConstants
<1>5. PICK p \in Nat : p = Rate * b.age
  BY <1>1, RateConstants
<1>6. PICK q \in Nat : q = Rate * a
  BY <1>3, RateConstants
<1>7. /\ Refilled(b) = IF BurstSize <= b.tokens + p THEN BurstSize ELSE b.tokens + p
      /\ Refilled(b) \in 0..BurstSize
      /\ Refilled(c) = IF BurstSize <= b.tokens + q THEN BurstSize ELSE b.tokens + q
      /\ b.age > MaxAge => Refilled(b) = BurstSize
      /\ a > MaxAge => Refilled(c) = BurstSize
  BY <1>5, <1>6, RefilledBucket
<1>8. b.age <= MaxAge => q = p + Rate
  <2> SUFFICES ASSUME b.age <= MaxAge PROVE q = p + Rate
    OBVIOUS
  <2>1. a = b.age + 1
    BY <1>3
  <2>2. Rate * (b.age + 1) = Rate * b.age + Rate
    BY <1>1, RateConstants
  <2> QED BY <1>5, <1>6, <2>1, <2>2
<1>9. b.age > MaxAge => a > MaxAge
  BY <1>3, RateConstants
<1>10. Min({BurstSize, Refilled(b) + Rate}) =
         IF BurstSize <= Refilled(b) + Rate THEN BurstSize ELSE Refilled(b) + Rate
  BY <1>7, RateConstants, MinOfTwo
<1>11. CASE b.age > MaxAge
  BY <1>7, <1>9, <1>10, <1>11, RateConstants
<1>12. CASE b.age <= MaxAge
  BY <1>1, <1>7, <1>8, <1>10, <1>12, RateConstants
<1> QED BY <1>1, <1>11, <1>12, RateConstants

\* Every step of the limiter keeps the invariant.
LEMMA RateStep == RateInv /\ [RateNext]_rateVars => RateInv'
<1> SUFFICES ASSUME RateInv, [RateNext]_rateVars PROVE RateInv'
  OBVIOUS
<1>0. /\ buckets \in [BucketIDs -> BucketType]
      /\ clients \in [Hosts -> BucketIDs \cup {NoBucket}]
      /\ inside \in [Requests -> [host : Hosts, bucket : BucketIDs] \cup {NoBucket}]
      /\ allowance \in [Hosts -> Nat]
      /\ \A g, h \in Hosts : clients[g] = clients[h] /\ clients[g] # NoBucket => g = h
      /\ \A r \in Requests, h \in Hosts :
            Held(r) /\ inside[r].bucket = clients[h] => inside[r].host = h
      /\ \A h \in Hosts : allowance[h] = IF clients[h] = NoBucket THEN BurstSize
                                         ELSE Refilled(buckets[clients[h]])
  BY DEF RateInv, LimitExact
<1>1. CASE UNCHANGED rateVars
  <2>1. buckets' = buckets /\ clients' = clients /\ inside' = inside /\ allowance' = allowance
    BY <1>1 DEF rateVars
  <2> QED BY <1>0, <2>1 DEF RateInv, LimitExact, Held
<1>2. ASSUME NEW r \in Requests, NEW h \in Hosts, GetClientBucket(r, h) PROVE RateInv'
  <2>1. PICK b : /\ b = IF clients[h] = NoBucket THEN Min(BucketIDs \ InUse) ELSE clients[h]
                 /\ clients' = [clients EXCEPT ![h] = b]
                 /\ buckets' = IF clients[h] = NoBucket THEN [buckets EXCEPT ![b] = Full] ELSE buckets
                 /\ inside' = [inside EXCEPT ![r] = [host |-> h, bucket |-> b]]
                 /\ allowance' = allowance /\ ~Held(r)
    BY <1>2 DEF GetClientBucket
  <2>2. /\ b \in BucketIDs /\ b # NoBucket
        /\ clients[h] = NoBucket => b \notin InUse
    <3>1. CASE clients[h] = NoBucket
      BY <2>1, <3>1, FreeBucket, RateConstants
    <3>2. CASE clients[h] # NoBucket
      BY <1>0, <2>1, <3>2
    <3> QED BY <3>1, <3>2
  <2>3. Full \in BucketType /\ Refilled(Full) = BurstSize
    <3>1. Full \in BucketType /\ Full.age = 0 /\ Full.tokens = BurstSize
      BY RateConstants DEF Full, BucketType
    <3> QED BY <3>1, RefilledBucket
  <2> DEFINE n == [host |-> h, bucket |-> b]
  <2>4. n \in [host : Hosts, bucket : BucketIDs] /\ n.host = h /\ n.bucket = b
    BY <2>2
  <2> HIDE DEF n
  <2>5. /\ clients' \in [Hosts -> BucketIDs \cup {NoBucket}]
        /\ clients'[h] = b /\ \A g \in Hosts : g # h => clients'[g] = clients[g]
        /\ inside' \in [Requests -> [host : Hosts, bucket : BucketIDs] \cup {NoBucket}]
        /\ inside'[r] = n /\ \A q \in Requests : q # r => inside'[q] = inside[q]
    BY <1>0, <2>1, <2>2, <2>4 DEF n
  <2>6. /\ buckets' \in [BucketIDs -> BucketType]
        /\ \A c \in BucketIDs : c # b => buckets'[c] = buckets[c]
        /\ clients[h] = NoBucket => buckets'[b] = Full
        /\ clients[h] # NoBucket => buckets'[b] = buckets[b]
    BY <1>0, <2>1, <2>2, <2>3
  <2>7. \A g \in Hosts : g # h => clients[g] # b
    <3>1. CASE clients[h] = NoBucket
      BY <2>2, <3>1 DEF InUse
    <3>2. CASE clients[h] # NoBucket
      BY <1>0, <2>1, <3>2
    <3> QED BY <3>1, <3>2
  <2>8. \A q \in Requests : Held(q) /\ inside[q].bucket = b => inside[q].host = h
    <3>1. CASE clients[h] = NoBucket
      BY <2>2, <3>1 DEF InUse
    <3>2. CASE clients[h] # NoBucket
      BY <1>0, <2>1, <3>2
    <3> QED BY <3>1, <3>2
  <2>9. \A g, k \in Hosts : clients'[g] = clients'[k] /\ clients'[g] # NoBucket => g = k
    BY <1>0, <2>5, <2>7
  <2>10. \A q \in Requests, g \in Hosts :
           Held(q)' /\ inside'[q].bucket = clients'[g] => inside'[q].host = g
    <3> SUFFICES ASSUME NEW q \in Requests, NEW g \in Hosts, inside'[q] # NoBucket,
                        inside'[q].bucket = clients'[g]
                 PROVE  inside'[q].host = g
      BY DEF Held
    <3>1. CASE q = r
      BY <2>4, <2>5, <2>7, <3>1
    <3>2. CASE q # r /\ g = h
      BY <2>5, <2>8, <3>2 DEF Held
    <3>3. CASE q # r /\ g # h
      BY <1>0, <2>5, <3>3 DEF Held
    <3> QED BY <3>1, <3>2, <3>3
  <2>11. ASSUME NEW g \in Hosts
         PROVE  allowance'[g] = IF clients'[g] = NoBucket THEN BurstSize
                                ELSE Refilled(buckets'[clients'[g]])
    <3>1. CASE g = h
      BY <1>0, <2>1, <2>2, <2>3, <2>5, <2>6, <3>1
    <3>2. CASE g # h /\ clients[g] = NoBucket
      BY <1>0, <2>1, <2>5, <3>2
    <3>3. CASE g # h /\ clients[g] # NoBucket
      <4>1. clients[g] \in BucketIDs /\ clients[g] # b
        BY <1>0, <2>7, <3>3
      <4> QED BY <1>0, <2>1, <2>5, <2>6, <3>3, <4>1
    <3> QED BY <3>1, <3>2, <3>3
  <2> QED BY <1>0, <2>1, <2>5, <2>6, <2>9, <2>10, <2>11 DEF RateInv, LimitExact, Refilled
<1>3. ASSUME NEW r \in Requests, Allow(r) PROVE RateInv'
  <2>0. inside[r] \in [host : Hosts, bucket : BucketIDs] /\ Held(r)
    BY <1>0, <1>3 DEF Allow, Held
  <2>1. PICK b \in BucketIDs, h \in Hosts : b = inside[r].bucket /\ h = inside[r].host
    BY <2>0
  <2>2. buckets[b] \in BucketType
    BY <1>0
  <2>3. PICK t \in 0..BurstSize : t = Refilled(buckets[b])
    BY <2>2, RefilledBucket
  <2>4. PICK u \in 0..BurstSize : u = IF t >= 1 THEN t - 1 ELSE t
    BY <2>3, RateConstants
  <2> DEFINE k == [tokens |-> u, age |-> 0]
  <2>5. /\ buckets' = [buckets EXCEPT ![b] = k]
        /\ allowance' = IF t >= 1 /\ b = clients[h] THEN [allowance EXCEPT ![h] = @ - 1]
                        ELSE allowance
        /\ inside' = [inside EXCEPT ![r] = NoBucket]
        /\ clients' = clients
    BY <1>3, <2>1, <2>3, <2>4 DEF Allow, Stray
  <2>6. k \in BucketType /\ Refilled(k) = u
    <3>1. k \in BucketType /\ k.tokens = u /\ k.age = 0
      BY RateConstants DEF BucketType
    <3> QED BY <3>1, RefilledBucket
  <2> HIDE DEF k
  <2>7. /\ buckets' \in [BucketIDs -> BucketType] /\ buckets'[b] = k
        /\ \A c \in BucketIDs : c # b => buckets'[c] = buckets[c]
    BY <1>0, <2>5, <2>6
  <2>8. /\ inside' \in [Requests -> [host : Hosts, bucket : BucketIDs] \cup {NoBucket}]
        /\ \A q \in Requests : inside'[q] \in {inside[q], NoBucket}
    BY <1>0, <2>5
  <2>9. \A g \in Hosts : clients[g] = b => g = h
    BY <1>0, <2>0, <2>1
  <2>10. ASSUME NEW g \in Hosts
         PROVE  /\ allowance'[g] = IF clients'[g] = NoBucket THEN BurstSize
                                   ELSE Refilled(buckets'[clients'[g]])
                /\ allowance'[g] \in Nat
    <3>1. CASE clients[g] = b
      <4>1. g = h /\ allowance[h] = t /\ b # NoBucket
        BY <1>0, <2>3, <2>9, <3>1, RateConstants
      <4>2. allowance'[h] = u
        BY <1>0, <2>3, <2>4, <2>5, <3>1, <4>1, RateConstants
      <4> QED BY <2>4, <2>5, <2>6, <2>7, <3>1, <4>1, <4>2, RateConstants
    <3>2. CASE clients[g] # b
      <4>1. allowance'[g] = allowance[g]
        BY <1>0, <2>5, <3>2
      <4>2. clients[g] # NoBucket => buckets'[clients[g]] = buckets[clients[g]]
        BY <1>0, <2>7, <3>2
      <4> QED BY <1>0, <2>5, <4>1, <4>2
    <3> QED BY <3>1, <3>2
  <2>11. allowance' \in [Hosts -> Nat]
    <3>1. allowance' = [g \in Hosts |-> allowance'[g]]
      BY <1>0, <2>5
    <3> QED BY <2>10, <3>1
  <2>12. \A q \in Requests, g \in Hosts :
           Held(q)' /\ inside'[q].bucket = clients'[g] => inside'[q].host = g
    BY <1>0, <2>5, <2>8 DEF Held
  <2>13. LimitExact'
    BY <2>10 DEF LimitExact, Refilled
  <2> QED BY <1>0, <2>5, <2>7, <2>8, <2>11, <2>12, <2>13 DEF RateInv
<1>4. CASE CleanupStaleClients
  <2>1. /\ UNCHANGED <<buckets, inside, allowance>>
        /\ clients' \in [Hosts -> BucketIDs \cup {NoBucket}]
        /\ \A h \in Hosts : \/ clients'[h] = clients[h]
                            \/ /\ clients'[h] = NoBucket /\ clients[h] # NoBucket
                               /\ buckets[clients[h]].age > MaxAge
    BY <1>0, <1>4 DEF CleanupStaleClients
  <2>2. ASSUME NEW h \in Hosts
        PROVE  allowance[h] = IF clients'[h] = NoBucket THEN BurstSize
                              ELSE Refilled(buckets[clients'[h]])
    <3>1. CASE clients'[h] = clients[h]
      BY <1>0, <3>1
    <3>2. CASE /\ clients'[h] = NoBucket /\ clients[h] # NoBucket
               /\ buckets[clients[h]].age > MaxAge
      <4>1. buckets[clients[h]] \in BucketType
        BY <1>0, <3>2
      <4> QED BY <1>0, <3>2, <4>1, RefilledBucket
    <3> QED BY <2>1, <3>1, <3>2
  <2>3. LimitExact'
    BY <2>1, <2>2 DEF LimitExact, Refilled
  <2>4. \A q \in Requests, g \in Hosts :
           Held(q)' /\ inside'[q].bucket = clients'[g] => inside'[q].host = g
    <3> SUFFICES ASSUME NEW q \in Requests, NEW g \in Hosts, inside[q] # NoBucket,
                        inside[q].bucket = clients'[g]
                 PROVE  inside[q].host = g
      BY <2>1 DEF Held
    <3>1. inside[q].bucket \in BucketIDs
      BY <1>0
    <3> QED BY <1>0, <2>1, <3>1, RateConstants DEF Held
  <2> QED BY <1>0, <2>1, <2>3, <2>4 DEF RateInv
<1>5. CASE RateTick
  <2>1. /\ \A b \in BucketIDs :
             buckets'[b] = [buckets[b] EXCEPT !.age = Min({MaxAge + 1, buckets[b].age + 1})]
        /\ buckets' = [b \in BucketIDs |-> buckets'[b]]
        /\ allowance' = [h \in Hosts |-> Min({BurstSize, allowance[h] + Rate})]
        /\ UNCHANGED <<clients, inside>>
    BY <1>5 DEF RateTick
  <2>2. ASSUME NEW b \in BucketIDs
        PROVE  /\ buckets'[b] \in BucketType
               /\ Refilled(buckets'[b]) = Min({BurstSize, Refilled(buckets[b]) + Rate})
    <3>1. buckets[b] \in BucketType
      BY <1>0
    <3>2. PICK a : a = Min({MaxAge + 1, buckets[b].age + 1})
      OBVIOUS
    <3>3. buckets'[b] = [buckets[b] EXCEPT !.age = a]
      BY <2>1, <3>2
    <3>4. a \in 0..(MaxAge + 1)
      <4>1. MaxAge \in Nat /\ buckets[b].age \in Nat
        BY <3>1, RateConstants DEF BucketType
      <4> QED BY <3>2, <4>1, TickedAge
    <3>5. PICK c \in BucketType : c = buckets'[b] /\ c.tokens = buckets[b].tokens /\ c.age = a
      <4>1. [buckets[b] EXCEPT !.age = a] \in BucketType
        BY <3>1, <3>4 DEF BucketType
      <4>2. /\ buckets'[b].tokens = buckets[b].tokens /\ buckets'[b].age = a
            /\ buckets'[b] \in BucketType
        BY <3>1, <3>3, <4>1 DEF BucketType
      <4> QED BY <4>2
    <3>6. Refilled(c) = Min({BurstSize, Refilled(buckets[b]) + Rate})
      BY <3>1, <3>2, <3>5, TickedBucket
    <3> QED BY <3>5, <3>6
  <2>3. ASSUME NEW h \in Hosts
        PROVE  /\ allowance'[h] = IF clients[h] = NoBucket THEN BurstSize
                                  ELSE Refilled(buckets'[clients[h]])
               /\ allowance'[h] \in Nat
    <3>1. CASE clients[h] = NoBucket
      <4>1. BurstSize <= BurstSize + Rate /\ BurstSize + Rate \in Int
        BY RateConstants
      <4>2. Min({BurstSize, BurstSize + Rate}) = BurstSize
        BY <4>1, MinOfTwo, RateConstants
      <4> QED BY <1>0, <2>1, <3>1, <4>2, RateConstants
    <3>2. CASE clients[h] # NoBucket
      <4>1. clients[h] \in BucketIDs
        BY <1>0, <3>2
      <4>2. Refilled(buckets'[clients[h]]) \in Nat
        <5>1. Refilled(buckets'[clients[h]]) \in 0..BurstSize
          BY <2>2, <4>1, RefilledBucket
        <5> QED BY <5>1, RateConstants
      <4> QED BY <1>0, <2>1, <2>2, <3>2, <4>1, <4>2
    <3> QED BY <3>1, <3>2
  <2>4. LimitExact'
    BY <2>1, <2>3 DEF LimitExact, Refilled
  <2>5. buckets' \in [BucketIDs -> BucketType] /\ allowance' \in [Hosts -> Nat]
    BY <2>1, <2>2, <2>3
  <2> QED BY <1>0, <2>1, <2>4, <2>5 DEF RateInv, Held
<1> QED BY <1>1, <1>2, <1>3, <1>4, <1>5 DEF RateNext

\* The invariant gives the property.
LEMMA RateLimits == RateInv => LimiterExact
  BY DEF RateInv, LimiterExact, RateTypeOK, BucketType

-----------------------------------------------------------------------------
(* The audit pipeline.                                                     *)

\* The events, and where the two loops can be.
Events == 1..MaxEvent
DrainPlaces == {"select", "drain", "file", "drainFile", "hook", "drainHook", "ended"}
FlushPlaces == {"select", "drain", "send", "drainSend", "ended"}

\* What the variables hold; a batch is sent when it has reached its size.
AuditShape ==
  /\ logged \in 0..MaxEvent /\ file \in 0..MaxEvent /\ settled \subseteq Events
  /\ ch \in Seq(Events) /\ hookCh \in Seq(Events)
  /\ Len(ch) <= BufferSize /\ Len(hookCh) <= HookBuffer
  /\ drain \in [at : DrainPlaces, event : 0..MaxEvent]
  /\ flush \in [at : FlushPlaces, batch : Seq(Events), attempt : Nat, last : BOOLEAN]
  /\ Len(flush.batch) <= BatchSize
  /\ flush.at \in {"select", "drain"} => Len(flush.batch) < BatchSize
  /\ received \in [batch : Seq(Events), copies : Nat]
  /\ closing \in {"no", "drain", "flush", "done"} /\ late \in BOOLEAN

\* Where the loops and Close are, relative to each other: a Close that is on time
\* has waited for the drain loop before it stops the flush loop, so that nothing
\* comes into the webhook's buffer after the flush loop has found it empty.
AuditPlaces ==
  /\ drain.at \in {"select", "drain", "ended"} <=> drain.event = 0
  /\ flush.at \in {"send", "drainSend"} => flush.batch # <<>> /\ flush.attempt < MaxRetries
  /\ flush.at = "ended" => flush.batch = <<>>
  /\ flush.last => flush.at = "drainSend"
  /\ flush.at \in {"drain", "drainSend", "ended"} => closing \in {"flush", "done"}
  /\ closing \in {"flush", "done"} /\ ~late => drain.at = "ended"
  /\ closing = "done" /\ ~late => flush.at = "ended"
  /\ ~late /\ (flush.last \/ flush.at = "ended") => hookCh = <<>>

\* Order of events; those the drain loop holds, the flush loop holds, the endpoint got last.
Before(S, T) == \A x \in S, y \in T : x < y
Increasing(s) == \A i, j \in 1..Len(s) : i < j => s[i] < s[j]
InHand == {drain.event} \ {0}
InFlush == ToSet(flush.batch)
Got == ToSet(received.batch)

\* The events lie in the pipeline in the order in which they were logged, the
\* ones the endpoint and the file have got before those that are still to come.
\* The batch that the endpoint has got last may be the one in the flush loop, and
\* then it has got it no more often than it was sent.
AuditOrder ==
  /\ Increasing(ch) /\ Increasing(hookCh) /\ Increasing(flush.batch)
  /\ ToSet(ch) \cup InHand \cup ToSet(hookCh) \cup InFlush \cup Got \subseteq 1..logged
  /\ Before(InHand, ToSet(ch)) /\ Before(ToSet(hookCh), ToSet(ch)) /\ Before(InFlush, ToSet(ch))
  /\ Before(ToSet(hookCh), InHand) /\ Before(InFlush, InHand) /\ Before(InFlush, ToSet(hookCh))
  /\ Before(Got, ToSet(ch)) /\ Before(Got, InHand) /\ Before(Got, ToSet(hookCh))
  /\ \/ Before(Got, InFlush)
     \/ /\ flush.at \in {"send", "drainSend"} /\ flush.batch = received.batch
        /\ received.copies <= flush.attempt
  /\ received.copies = 0 <=> received.batch = <<>>
  /\ file <= logged /\ \A e \in ToSet(ch) : file < e
  /\ drain.at \in {"file", "drainFile"} => file < drain.event

\* Every event that was logged is in a buffer, in hand, or settled.
InPipeline == ToSet(ch) \cup {drain.event} \cup ToSet(hookCh) \cup ToSet(flush.batch)
AuditTracked == 1..logged \subseteq InPipeline \cup settled

\* The pipeline's part of the inductive invariant.
AuditInv == AuditShape /\ AuditPlaces /\ AuditTracked /\ AuditOrder

\* The elements of a sequence that grows at its end, and their order.
LEMMA AppendFacts ==
  ASSUME NEW s \in Seq(Events), NEW x \in Events
  PROVE  /\ Append(s, x) \in Seq(Events) /\ Append(s, x) # <<>>
         /\ Len(Append(s, x)) = Len(s) + 1 /\ Len(s) \in Nat
         /\ ToSet(Append(s, x)) = ToSet(s) \cup {x}
         /\ Increasing(s) /\ Before(ToSet(s), {x}) => Increasing(Append(s, x))
<1> DEFINE t == Append(s, x)
<1>1. /\ t \in Seq(Events) /\ Len(t) = Len(s) + 1 /\ Len(s) \in Nat
      /\ DOMAIN t = 1..(Len(s) + 1) /\ DOMAIN s = 1..Len(s)
      /\ \A i \in 1..Len(s) : t[i] = s[i]
      /\ t[Len(s) + 1] = x
  OBVIOUS
<1>2. t # <<>>
  BY <1>1
<1> HIDE DEF t
<1>3. ToSet(t) = ToSet(s) \cup {x}
  <2>1. ASSUME NEW i \in DOMAIN t PROVE t[i] \in ToSet(s) \cup {x}
    <3>1. i \in 1..Len(s) \/ i = Len(s) + 1
      BY <1>1
    <3> QED BY <1>1, <3>1 DEF ToSet
  <2>2. ASSUME NEW i \in DOMAIN s PROVE s[i] \in ToSet(t)
    <3>1. i \in DOMAIN t /\ t[i] = s[i]
      BY <1>1
    <3> QED BY <3>1 DEF ToSet
  <2>3. x \in ToSet(t)
    <3>1. Len(s) + 1 \in DOMAIN t
      BY <1>1
    <3> QED BY <1>1, <3>1 DEF ToSet
  <2> QED BY <2>1, <2>2, <2>3 DEF ToSet
<1>4. ASSUME Increasing(s), Before(ToSet(s), {x}) PROVE Increasing(t)
  <2> SUFFICES ASSUME NEW i \in 1..(Len(s) + 1), NEW j \in 1..(Len(s) + 1), i < j
               PROVE  t[i] < t[j]
    BY <1>1 DEF Increasing
  <2>1. i \in 1..Len(s) /\ s[i] \in ToSet(s)
    BY <1>1 DEF ToSet
  <2>2. CASE j \in 1..Len(s)
    BY <1>1, <1>4, <2>1, <2>2 DEF Increasing
  <2>3. CASE j = Len(s) + 1
    BY <1>1, <1>4, <2>1, <2>3 DEF Before
  <2> QED BY <1>1, <2>2, <2>3
<1> QED BY <1>1, <1>2, <1>3, <1>4 DEF t

\* The elements of a sequence that loses its head, and their order.
LEMMA TailFacts ==
  ASSUME NEW s \in Seq(Events), s # <<>>
  PROVE  /\ Head(s) \in Events /\ Tail(s) \in Seq(Events)
         /\ Len(Tail(s)) = Len(s) - 1 /\ Len(s) \in Nat
         /\ ToSet(s) = {Head(s)} \cup ToSet(Tail(s))
         /\ Increasing(s) => Increasing(Tail(s)) /\ Before({Head(s)}, ToSet(Tail(s)))
<1> DEFINE t == Tail(s)
<1>1. /\ t \in Seq(Events) /\ Len(t) = Len(s) - 1 /\ Len(s) \in Nat /\ Len(s) # 0
      /\ DOMAIN s = 1..Len(s) /\ DOMAIN t = 1..(Len(s) - 1)
      /\ \A i \in 1..(Len(s) - 1) : t[i] = s[i + 1]
      /\ Head(s) = s[1] /\ Head(s) \in Events
  OBVIOUS
<1> HIDE DEF t
<1>2. ToSet(s) = {Head(s)} \cup ToSet(t)
  <2>1. ASSUME NEW i \in DOMAIN s PROVE s[i] \in {Head(s)} \cup ToSet(t)
    <3>1. CASE i = 1
      BY <1>1, <3>1
    <3>2. CASE i # 1
      <4>1. i - 1 \in DOMAIN t /\ t[i - 1] = s[i]
        BY <1>1, <3>2
      <4> QED BY <4>1 DEF ToSet
    <3> QED BY <3>1, <3>2
  <2>2. ASSUME NEW i \in DOMAIN t PROVE t[i] \in ToSet(s)
    <3>1. i + 1 \in DOMAIN s /\ t[i] = s[i + 1]
      BY <1>1
    <3> QED BY <3>1 DEF ToSet
  <2>3. Head(s) \in ToSet(s)
    <3>1. 1 \in DOMAIN s
      BY <1>1
    <3> QED BY <1>1, <3>1 DEF ToSet
  <2> QED BY <2>1, <2>2, <2>3 DEF ToSet
<1>3. ASSUME Increasing(s) PROVE Increasing(t) /\ Before({Head(s)}, ToSet(t))
  <2>1. ASSUME NEW i \in 1..Len(t), NEW j \in 1..Len(t), i < j PROVE t[i] < t[j]
    <3>1. /\ i + 1 \in 1..Len(s) /\ j + 1 \in 1..Len(s) /\ i + 1 < j + 1
          /\ t[i] = s[i + 1] /\ t[j] = s[j + 1]
      BY <1>1, <2>1
    <3> QED BY <1>3, <3>1 DEF Increasing
  <2>2. ASSUME NEW i \in DOMAIN t PROVE Head(s) < t[i]
    <3>1. i + 1 \in 1..Len(s) /\ 1 \in 1..Len(s) /\ 1 < i + 1 /\ t[i] = s[i + 1]
      BY <1>1
    <3> QED BY <1>1, <1>3, <3>1 DEF Increasing
  <2> QED BY <2>1, <2>2 DEF Increasing, Before, ToSet
<1> QED BY <1>1, <1>2, <1>3 DEF t

\* No element, no order.
LEMMA EmptyFacts ==
  <<>> \in Seq(Events) /\ ToSet(<<>>) = {} /\ Increasing(<<>>) /\ Len(<<>>) = 0
  BY DEF ToSet, Increasing

\* An empty pipeline satisfies the invariant.
LEMMA AuditInitInv == AuditInit => AuditInv
<1> SUFFICES ASSUME AuditInit PROVE AuditInv
  OBVIOUS
<1>1. /\ logged = 0 /\ ch = <<>> /\ hookCh = <<>> /\ file = 0 /\ settled = {}
      /\ drain \in [at : DrainPlaces, event : 0..MaxEvent]
      /\ drain.at = "select" /\ drain.event = 0
      /\ flush \in [at : FlushPlaces, batch : Seq(Events), attempt : Nat, last : BOOLEAN]
      /\ flush.at = "select" /\ flush.batch = <<>> /\ flush.attempt = 0 /\ flush.last = FALSE
      /\ received \in [batch : Seq(Events), copies : Nat]
      /\ received.batch = <<>> /\ received.copies = 0
      /\ closing = "no" /\ late = FALSE
  BY AuditAssumption DEF AuditInit, DrainPlaces, FlushPlaces
<1>2. AuditShape
  <2>1. /\ MaxEvent \in Nat /\ BufferSize \in Nat /\ HookBuffer \in Nat
        /\ BatchSize \in Nat \ {0}
    BY AuditAssumption
  <2>2. /\ Len(ch) = 0 /\ Len(hookCh) = 0 /\ Len(flush.batch) = 0
        /\ ch \in Seq(Events) /\ hookCh \in Seq(Events)
    BY <1>1, EmptyFacts
  <2>3. logged \in 0..MaxEvent /\ file \in 0..MaxEvent /\ settled \subseteq Events
    BY <1>1, <2>1
  <2>4. /\ Len(ch) <= BufferSize /\ Len(hookCh) <= HookBuffer
        /\ Len(flush.batch) <= BatchSize /\ Len(flush.batch) < BatchSize
    BY <2>1, <2>2
  <2>5. closing \in {"no", "drain", "flush", "done"} /\ late \in BOOLEAN
    BY <1>1
  <2>6. /\ drain \in [at : DrainPlaces, event : 0..MaxEvent]
        /\ flush \in [at : FlushPlaces, batch : Seq(Events), attempt : Nat, last : BOOLEAN]
        /\ received \in [batch : Seq(Events), copies : Nat]
    BY <1>1
  <2> QED BY <2>2, <2>3, <2>4, <2>5, <2>6 DEF AuditShape
<1>3. AuditPlaces
  BY <1>1 DEF AuditPlaces
<1>4. AuditTracked
  <2>1. 1..logged = {}
    BY <1>1
  <2> QED BY <2>1 DEF AuditTracked
<1>5. AuditOrder
  BY <1>1, EmptyFacts DEF AuditOrder, Before, InHand, InFlush, Got
<1> QED BY <1>2, <1>3, <1>4, <1>5 DEF AuditInv

\* What the invariant says of the fields of the two loops.
LEMMA AuditFields ==
  ASSUME AuditInv
  PROVE  /\ drain.at \in DrainPlaces /\ drain.event \in 0..MaxEvent
         /\ drain = [at |-> drain.at, event |-> drain.event]
         /\ flush.at \in FlushPlaces /\ flush.batch \in Seq(Events)
         /\ flush.attempt \in Nat /\ flush.last \in BOOLEAN
         /\ received.batch \in Seq(Events) /\ received.copies \in Nat
         /\ MaxEvent \in Nat /\ BufferSize \in Nat /\ HookBuffer \in Nat
         /\ BatchSize \in Nat \ {0} /\ MaxRetries \in Nat \ {0}
         /\ logged \in Nat /\ ToSet(ch) \subseteq Nat /\ ToSet(hookCh) \subseteq Nat
         /\ InFlush \subseteq Nat /\ Got \subseteq Nat /\ InHand \subseteq Nat
<1>1. /\ drain \in [at : DrainPlaces, event : 0..MaxEvent]
      /\ flush \in [at : FlushPlaces, batch : Seq(Events), attempt : Nat, last : BOOLEAN]
      /\ received \in [batch : Seq(Events), copies : Nat]
      /\ ch \in Seq(Events) /\ hookCh \in Seq(Events) /\ logged \in 0..MaxEvent
  BY DEF AuditInv, AuditShape
<1>2. /\ MaxEvent \in Nat /\ BufferSize \in Nat /\ HookBuffer \in Nat
      /\ BatchSize \in Nat \ {0} /\ MaxRetries \in Nat \ {0}
  BY AuditAssumption
<1>3. \A s \in Seq(Events) : ToSet(s) \subseteq Nat
  <2> SUFFICES ASSUME NEW s \in Seq(Events), NEW i \in DOMAIN s PROVE s[i] \in Nat
    BY DEF ToSet
  <2>1. s[i] \in Events
    OBVIOUS
  <2> QED BY <2>1 DEF Events
<1>4. /\ drain.at \in DrainPlaces /\ drain.event \in 0..MaxEvent
      /\ drain = [at |-> drain.at, event |-> drain.event]
      /\ flush.at \in FlushPlaces /\ flush.batch \in Seq(Events)
      /\ flush.attempt \in Nat /\ flush.last \in BOOLEAN
      /\ received.batch \in Seq(Events) /\ received.copies \in Nat
  BY <1>1
<1> QED BY <1>1, <1>2, <1>3, <1>4 DEF InFlush, Got, InHand

\* Close and its timeouts leave the pipeline alone.
LEMMA AuditAside ==
  ASSUME AuditInv, UNCHANGED <<logged, ch, drain, file, hookCh, flush, received, settled>>
  PROVE  AuditTracked' /\ AuditOrder'
<1>1. /\ logged' = logged /\ ch' = ch /\ drain' = drain /\ file' = file /\ hookCh' = hookCh
      /\ flush' = flush /\ received' = received /\ settled' = settled
  OBVIOUS
<1>2. AuditTracked'
  BY <1>1 DEF AuditInv, AuditTracked, InPipeline
<1>3. AuditOrder'
  BY <1>1 DEF AuditInv, AuditOrder, InHand, InFlush, Got
<1> QED BY <1>2, <1>3

\* The steps of Close.
LEMMA CloseKeeps ==
  ASSUME AuditInv, Close \/ CloseOutputs \/ CloseEnd \/ TimeOut \/ UNCHANGED auditVars
  PROVE  AuditInv'
<1>1. UNCHANGED <<logged, ch, drain, file, hookCh, flush, received, settled>>
  BY DEF Close, CloseOutputs, CloseEnd, TimeOut, auditVars
<1>2. AuditShape /\ AuditPlaces
  BY DEF AuditInv
<1>3. /\ late \in BOOLEAN /\ drain.at \in DrainPlaces /\ flush.at \in FlushPlaces
      /\ closing \in {"no", "drain", "flush", "done"}
  BY <1>2, AuditFields DEF AuditShape
<1>4. /\ closing' \in {"no", "drain", "flush", "done"} /\ late' \in BOOLEAN
      /\ closing \in {"flush", "done"} => closing' \in {"flush", "done"}
      /\ closing' \in {"flush", "done"} /\ ~late' =>
           ~late /\ (closing \in {"flush", "done"} \/ drain.at = "ended")
      /\ closing' = "done" /\ ~late' => ~late /\ (closing = "done" \/ flush.at = "ended")
      /\ ~late' => ~late
  BY <1>3 DEF Close, CloseOutputs, CloseEnd, TimeOut, auditVars
<1>5. AuditShape'
  BY <1>1, <1>2, <1>4 DEF AuditShape
<1>6. AuditPlaces'
  BY <1>1, <1>2, <1>4 DEF AuditPlaces
<1> QED BY <1>1, <1>5, <1>6, AuditAside DEF AuditInv

\* An event is logged, or its loss is counted.
LEMMA LogKeeps ==
  ASSUME AuditInv, Log
  PROVE  AuditInv'
<1>0. AuditShape /\ AuditPlaces /\ AuditTracked /\ AuditOrder
  BY DEF AuditInv
<1>1. /\ logged' = logged + 1 /\ logged' \in 0..MaxEvent /\ logged' \in Events
      /\ UNCHANGED <<drain, file, hookCh, flush, received, closing, late>>
  BY <1>0, AuditFields DEF Log, AuditShape, Events
<1>2. \A e \in 1..logged : e < logged'
  BY <1>1, AuditFields
<1>3. /\ ch' \in Seq(Events) /\ Len(ch') <= BufferSize /\ Increasing(ch')
      /\ \/ ToSet(ch') = ToSet(ch) \cup {logged'} /\ settled' = settled
         \/ ch' = ch /\ settled' = settled \cup {logged'}
  <2>0. ch \in Seq(Events) /\ Increasing(ch) /\ Len(ch) <= BufferSize /\ Len(ch) \in Nat
    BY <1>0 DEF AuditShape, AuditOrder
  <2>1. CASE Len(ch) < BufferSize
    <3>1. ch' = Append(ch, logged') /\ settled' = settled
      BY <2>1 DEF Log
    <3>2. Before(ToSet(ch), {logged'})
      BY <1>0, <1>2 DEF AuditOrder, Before
    <3>3. /\ ch' \in Seq(Events) /\ Len(ch') = Len(ch) + 1
          /\ ToSet(ch') = ToSet(ch) \cup {logged'} /\ Increasing(ch')
      BY <1>1, <2>0, <3>1, <3>2, AppendFacts
    <3> QED BY <2>0, <2>1, <3>1, <3>3, AuditFields
  <2>2. CASE ~(Len(ch) < BufferSize)
    BY <2>0, <2>2 DEF Log, Settle
  <2> QED BY <2>1, <2>2
<1>4. AuditShape'
  BY <1>0, <1>1, <1>3 DEF AuditShape
<1>5. AuditPlaces'
  BY <1>0, <1>1 DEF AuditPlaces
<1>6. AuditTracked'
  <2>1. 1..logged' = (1..logged) \cup {logged'}
    BY <1>1, AuditFields
  <2> QED BY <1>0, <1>1, <1>3, <2>1 DEF AuditTracked, InPipeline
<1>7. AuditOrder'
  <2>1. /\ InHand' = InHand /\ InFlush' = InFlush /\ Got' = Got
        /\ ToSet(ch') \subseteq ToSet(ch) \cup {logged'}
        /\ 1..logged \subseteq 1..logged' /\ logged' \in 1..logged'
    BY <1>1, <1>3, AuditFields DEF InHand, InFlush, Got
  <2>2. ASSUME NEW S \in SUBSET (1..logged), Before(S, ToSet(ch)) PROVE Before(S, ToSet(ch'))
    BY <1>2, <2>1, <2>2 DEF Before
  <2>3. /\ InHand \in SUBSET (1..logged) /\ InFlush \in SUBSET (1..logged)
        /\ Got \in SUBSET (1..logged) /\ ToSet(hookCh) \in SUBSET (1..logged)
        /\ ToSet(ch') \subseteq 1..logged'
    BY <1>0, <2>1 DEF AuditOrder
  <2>4. /\ Before(InHand, ToSet(ch')) /\ Before(ToSet(hookCh), ToSet(ch'))
        /\ Before(InFlush, ToSet(ch')) /\ Before(Got, ToSet(ch'))
    BY <1>0, <2>2, <2>3 DEF AuditOrder
  <2>5. file <= logged' /\ \A e \in ToSet(ch') : file < e
    <3>1. file \in Nat /\ file <= logged
      BY <1>0, AuditFields DEF AuditShape, AuditOrder
    <3> QED BY <1>0, <1>1, <2>1, <3>1, AuditFields DEF AuditOrder
  <2> QED BY <1>0, <1>1, <1>3, <2>1, <2>3, <2>4, <2>5 DEF AuditOrder
<1> QED BY <1>4, <1>5, <1>6, <1>7 DEF AuditInv

\* The drain loop takes an event from the buffer.
LEMMA DrainTakeKeeps ==
  ASSUME AuditInv, DrainTake
  PROVE  AuditInv'
<1>0. AuditShape /\ AuditPlaces /\ AuditTracked /\ AuditOrder
  BY DEF AuditInv
<1>1. /\ drain.at \in {"select", "drain"} /\ ch # <<>> /\ ch' = Tail(ch)
      /\ UNCHANGED <<logged, file, hookCh, flush, received, settled, closing, late>>
  BY DEF DrainTake
<1>2. drain.event = 0 /\ InHand = {} /\ ~(closing \in {"flush", "done"} /\ ~late)
  BY <1>0, <1>1 DEF AuditPlaces, InHand
<1>3. PICK h : h = Head(ch)
  OBVIOUS
<1>4. /\ h \in Events /\ h # 0 /\ ch' \in Seq(Events) /\ Len(ch') <= BufferSize
      /\ ToSet(ch) = {h} \cup ToSet(ch')
      /\ Increasing(ch') /\ Before({h}, ToSet(ch'))
  <2>1. ch \in Seq(Events) /\ Increasing(ch) /\ Len(ch) <= BufferSize
    BY <1>0 DEF AuditShape, AuditOrder
  <2>2. /\ h \in Events /\ ch' \in Seq(Events) /\ Len(ch') = Len(ch) - 1 /\ Len(ch) \in Nat
        /\ ToSet(ch) = {h} \cup ToSet(ch')
        /\ Increasing(ch') /\ Before({h}, ToSet(ch'))
    BY <1>1, <1>3, <2>1, TailFacts
  <2>3. h # 0
    BY <2>2 DEF Events
  <2> QED BY <2>1, <2>2, <2>3, AuditFields
<1>5. /\ drain' \in [at : DrainPlaces, event : 0..MaxEvent]
      /\ drain'.at \in {"file", "drainFile"} /\ drain'.event = h
  BY <1>3, <1>4 DEF DrainTake, DrainPlaces, Events
<1>6. InHand' = {h} /\ InFlush' = InFlush /\ Got' = Got
  BY <1>1, <1>4, <1>5 DEF InHand, InFlush, Got
<1>7. AuditShape'
  BY <1>0, <1>1, <1>4, <1>5 DEF AuditShape
<1>8. AuditPlaces'
  BY <1>0, <1>1, <1>2, <1>4, <1>5 DEF AuditPlaces
<1>9. AuditTracked'
  BY <1>0, <1>1, <1>2, <1>4, <1>5 DEF AuditTracked, InPipeline
<1>10. AuditOrder'
  BY <1>0, <1>1, <1>4, <1>5, <1>6 DEF AuditOrder, Before
<1> QED BY <1>7, <1>8, <1>9, <1>10 DEF AuditInv

\* The drain loop sees the stop, or ends.
LEMMA DrainStopKeeps ==
  ASSUME AuditInv, DrainStop \/ DrainEnd
  PROVE  AuditInv'
<1>0. AuditShape /\ AuditPlaces /\ AuditTracked /\ AuditOrder
  BY DEF AuditInv
<1>1. UNCHANGED <<logged, ch, file, hookCh, flush, received, settled, closing, late>>
  BY DEF DrainStop, DrainEnd
<1>2. /\ drain' \in [at : DrainPlaces, event : 0..MaxEvent]
      /\ drain.at \in {"select", "drain"} /\ drain'.event = drain.event
      /\ drain'.at \in {"drain", "ended"}
  BY <1>0 DEF DrainStop, DrainEnd, AuditShape, DrainPlaces
<1>3. drain.event = 0 /\ ~(closing \in {"flush", "done"} /\ ~late)
  BY <1>0, <1>2 DEF AuditPlaces
<1>4. InHand' = InHand /\ InFlush' = InFlush /\ Got' = Got
  BY <1>1, <1>2 DEF InHand, InFlush, Got
<1>5. AuditShape'
  BY <1>0, <1>1, <1>2 DEF AuditShape
<1>6. AuditPlaces'
  BY <1>0, <1>1, <1>2, <1>3 DEF AuditPlaces
<1>7. AuditTracked'
  BY <1>0, <1>1, <1>2 DEF AuditTracked, InPipeline
<1>8. AuditOrder'
  BY <1>0, <1>1, <1>2, <1>4 DEF AuditOrder
<1> QED BY <1>5, <1>6, <1>7, <1>8 DEF AuditInv

\* The file output writes the event, or fails.
LEMMA FileWriteKeeps ==
  ASSUME AuditInv, FileWrite
  PROVE  AuditInv' /\ file <= file'
<1>0. AuditShape /\ AuditPlaces /\ AuditTracked /\ AuditOrder
  BY DEF AuditInv
<1>1. /\ UNCHANGED <<logged, ch, hookCh, flush, received, settled, closing, late>>
      /\ drain.at \in {"file", "drainFile"} /\ file' \in {file, drain.event}
  BY DEF FileWrite
<1>2. /\ drain' \in [at : DrainPlaces, event : 0..MaxEvent]
      /\ drain'.event = drain.event /\ drain'.at \in {"hook", "drainHook"}
  BY <1>0 DEF FileWrite, AuditShape, DrainPlaces
<1>3. /\ drain.event # 0 /\ drain.event \in InHand /\ drain.event \in 0..MaxEvent
      /\ ~(closing \in {"flush", "done"} /\ ~late)
  BY <1>0, <1>1, AuditFields DEF AuditPlaces, InHand
<1>4. InHand' = InHand /\ InFlush' = InFlush /\ Got' = Got
  BY <1>1, <1>2 DEF InHand, InFlush, Got
<1>5. /\ file' \in 0..MaxEvent /\ file <= file' /\ file' <= logged
      /\ \A e \in ToSet(ch) : file' < e
  <2>1. file \in 0..MaxEvent /\ file < drain.event /\ drain.event \in 1..logged
    BY <1>0, <1>1, <1>3 DEF AuditShape, AuditOrder
  <2>2. \A e \in ToSet(ch) : drain.event < e /\ file < e
    BY <1>0, <1>3 DEF AuditOrder, Before
  <2>3. file <= logged
    BY <1>0 DEF AuditOrder
  <2> QED BY <1>1, <1>3, <2>1, <2>2, <2>3, AuditFields
<1>6. AuditShape'
  BY <1>0, <1>1, <1>2, <1>5 DEF AuditShape
<1>7. AuditPlaces'
  BY <1>0, <1>1, <1>2, <1>3 DEF AuditPlaces
<1>8. AuditTracked'
  BY <1>0, <1>1, <1>2 DEF AuditTracked, InPipeline
<1>9. AuditOrder'
  BY <1>0, <1>1, <1>2, <1>4, <1>5 DEF AuditOrder
<1> QED BY <1>5, <1>6, <1>7, <1>8, <1>9 DEF AuditInv

\* An event that cannot be formatted reaches no output.
LEMMA FormatErrorKeeps ==
  ASSUME AuditInv, FormatError
  PROVE  AuditInv'
<1>0. AuditShape /\ AuditPlaces /\ AuditTracked /\ AuditOrder
  BY DEF AuditInv
<1>1. /\ UNCHANGED <<logged, ch, file, hookCh, flush, received, closing, late>>
      /\ drain.at \in {"file", "drainFile"}
  BY DEF FormatError
<1>2. /\ drain' \in [at : DrainPlaces, event : 0..MaxEvent]
      /\ drain'.event = 0 /\ drain'.at \in {"select", "drain"}
  BY AuditFields DEF FormatError, DrainPlaces
<1>3. PICK h \in Events : h = drain.event /\ InHand = {h}
  BY <1>0, <1>1, AuditFields DEF AuditPlaces, InHand, Events
<1>4. ~(closing \in {"flush", "done"} /\ ~late)
  BY <1>0, <1>1 DEF AuditPlaces
<1>5. InHand' = {} /\ InFlush' = InFlush /\ Got' = Got
  BY <1>1, <1>2 DEF InHand, InFlush, Got
<1>6. settled' = settled \cup {h}
  BY <1>3 DEF FormatError, Settle
<1>7. AuditShape'
  BY <1>0, <1>1, <1>2, <1>6 DEF AuditShape
<1>8. AuditPlaces'
  BY <1>0, <1>1, <1>2, <1>4 DEF AuditPlaces
<1>9. AuditTracked'
  BY <1>0, <1>1, <1>3, <1>6 DEF AuditTracked, InPipeline
<1>10. AuditOrder'
  BY <1>0, <1>1, <1>2, <1>5 DEF AuditOrder, Before
<1> QED BY <1>7, <1>8, <1>9, <1>10 DEF AuditInv

\* The webhook output takes the event into its buffer, or its loss is counted.
LEMMA HookWriteKeeps ==
  ASSUME AuditInv, HookWrite
  PROVE  AuditInv'
<1>0. AuditShape /\ AuditPlaces /\ AuditTracked /\ AuditOrder
  BY DEF AuditInv
<1>1. /\ UNCHANGED <<logged, ch, file, flush, received, closing, late>>
      /\ drain.at \in {"hook", "drainHook"}
  BY DEF HookWrite
<1>2. /\ drain' \in [at : DrainPlaces, event : 0..MaxEvent]
      /\ drain'.event = 0 /\ drain'.at \in {"select", "drain"}
  BY AuditFields DEF HookWrite, DrainPlaces
<1>3. PICK h \in Events : h = drain.event /\ InHand = {h}
  BY <1>0, <1>1, AuditFields DEF AuditPlaces, InHand, Events
<1>4. ~(closing \in {"flush", "done"} /\ ~late)
  BY <1>0, <1>1 DEF AuditPlaces
<1>5. InHand' = {} /\ InFlush' = InFlush /\ Got' = Got
  BY <1>1, <1>2 DEF InHand, InFlush, Got
<1>6. /\ hookCh' \in Seq(Events) /\ Len(hookCh') <= HookBuffer /\ Increasing(hookCh')
      /\ \/ ToSet(hookCh') = ToSet(hookCh) \cup {h} /\ settled' = settled
         \/ hookCh' = hookCh /\ settled' = settled \cup {h}
  <2>0. hookCh \in Seq(Events) /\ Increasing(hookCh) /\ Len(hookCh) <= HookBuffer
    BY <1>0 DEF AuditShape, AuditOrder
  <2>1. CASE Len(hookCh) < HookBuffer
    <3>1. hookCh' = Append(hookCh, h) /\ settled' = settled
      BY <1>3, <2>1 DEF HookWrite
    <3>2. Before(ToSet(hookCh), {h})
      BY <1>0, <1>3 DEF AuditOrder
    <3>3. /\ hookCh' \in Seq(Events) /\ Len(hookCh') = Len(hookCh) + 1 /\ Len(hookCh) \in Nat
          /\ ToSet(hookCh') = ToSet(hookCh) \cup {h} /\ Increasing(hookCh')
      BY <2>0, <3>1, <3>2, AppendFacts
    <3> QED BY <2>0, <2>1, <3>1, <3>3, AuditFields
  <2>2. CASE ~(Len(hookCh) < HookBuffer)
    BY <1>3, <2>0, <2>2 DEF HookWrite, Settle
  <2> QED BY <2>1, <2>2
<1>7. AuditShape'
  BY <1>0, <1>1, <1>2, <1>6 DEF AuditShape
<1>8. AuditPlaces'
  BY <1>0, <1>1, <1>2, <1>4 DEF AuditPlaces
<1>9. AuditTracked'
  BY <1>0, <1>1, <1>3, <1>6 DEF AuditTracked, InPipeline
<1>10. AuditOrder'
  BY <1>0, <1>1, <1>2, <1>3, <1>5, <1>6 DEF AuditOrder, Before
<1> QED BY <1>7, <1>8, <1>9, <1>10 DEF AuditInv

\* The state of the flush loop.
FlushType == [at : FlushPlaces, batch : Seq(Events), attempt : Nat, last : BOOLEAN]

\* The flush loop takes an event into its batch, which goes out when it is full.
LEMMA FlushTakeKeeps ==
  ASSUME AuditInv, FlushTake
  PROVE  AuditInv'
<1>0. AuditShape /\ AuditPlaces /\ AuditTracked /\ AuditOrder
  BY DEF AuditInv
<1>1. /\ UNCHANGED <<logged, ch, drain, file, received, settled, closing, late>>
      /\ flush.at \in {"select", "drain"} /\ hookCh # <<>> /\ hookCh' = Tail(hookCh)
  BY DEF FlushTake
<1>2. PICK h : h = Head(hookCh)
  OBVIOUS
<1>3. /\ h \in Events /\ hookCh' \in Seq(Events) /\ Len(hookCh') <= HookBuffer
      /\ ToSet(hookCh) = {h} \cup ToSet(hookCh')
      /\ Increasing(hookCh') /\ Before({h}, ToSet(hookCh'))
  <2>1. hookCh \in Seq(Events) /\ Increasing(hookCh) /\ Len(hookCh) <= HookBuffer
    BY <1>0 DEF AuditShape, AuditOrder
  <2>2. /\ h \in Events /\ hookCh' \in Seq(Events)
        /\ Len(hookCh') = Len(hookCh) - 1 /\ Len(hookCh) \in Nat
        /\ ToSet(hookCh) = {h} \cup ToSet(hookCh')
        /\ Increasing(hookCh') /\ Before({h}, ToSet(hookCh'))
    BY <1>1, <1>2, <2>1, TailFacts
  <2> QED BY <2>1, <2>2, AuditFields
<1>4. PICK b : b = Append(flush.batch, h)
  OBVIOUS
<1>5. /\ b \in Seq(Events) /\ b # <<>> /\ Len(b) <= BatchSize /\ Len(b) \in Nat
      /\ ToSet(b) = InFlush \cup {h} /\ Increasing(b)
  <2>1. /\ flush.batch \in Seq(Events) /\ Increasing(flush.batch) /\ Len(flush.batch) < BatchSize
        /\ Before(ToSet(flush.batch), {h})
    BY <1>0, <1>1, <1>3, AuditFields DEF AuditShape, AuditOrder, InFlush, Before
  <2>2. /\ b \in Seq(Events) /\ b # <<>> /\ Len(b) = Len(flush.batch) + 1
        /\ Len(flush.batch) \in Nat
        /\ ToSet(b) = ToSet(flush.batch) \cup {h} /\ Increasing(b)
    BY <1>3, <1>4, <2>1, AppendFacts
  <2> QED BY <2>1, <2>2, AuditFields DEF InFlush
<1>6. flush.last = FALSE
  BY <1>0, <1>1, AuditFields DEF AuditPlaces
<1>7. /\ flush' \in FlushType /\ flush'.batch = b /\ flush'.last = FALSE
      /\ \/ /\ Len(b) >= BatchSize /\ flush'.attempt = 0
            /\ flush'.at = IF flush.at = "drain" THEN "drainSend" ELSE "send"
         \/ ~(Len(b) >= BatchSize) /\ flush'.at = flush.at
  <2>1. CASE Len(b) >= BatchSize
    <3>1. flush' = [at |-> IF flush.at = "drain" THEN "drainSend" ELSE "send",
                    batch |-> b, attempt |-> 0, last |-> FALSE]
      BY <1>2, <1>4, <2>1 DEF FlushTake, Send
    <3> QED BY <1>5, <2>1, <3>1 DEF FlushType, FlushPlaces
  <2>2. CASE ~(Len(b) >= BatchSize)
    <3>1. flush' = [flush EXCEPT !.batch = b] /\ flush \in FlushType
      BY <1>0, <1>2, <1>4, <2>2 DEF FlushTake, AuditShape, FlushType
    <3> QED BY <1>5, <1>6, <2>2, <3>1 DEF FlushType
  <2> QED BY <2>1, <2>2
<1>8. InHand' = InHand /\ InFlush' = InFlush \cup {h} /\ Got' = Got
  BY <1>1, <1>5, <1>7 DEF InHand, InFlush, Got
<1>9. AuditShape'
  <2>1. flush'.at \in {"select", "drain"} => Len(b) < BatchSize
    BY <1>1, <1>5, <1>7, AuditFields
  <2> QED BY <1>0, <1>1, <1>3, <1>5, <1>7, <2>1 DEF AuditShape, FlushType
<1>10. AuditPlaces'
  BY <1>0, <1>1, <1>5, <1>7, AuditFields DEF AuditPlaces
<1>11. AuditTracked'
  BY <1>0, <1>1, <1>3, <1>7, <1>8 DEF AuditTracked, InPipeline, InFlush
<1>12. AuditOrder'
  <2>1. Before(Got, InFlush)
    BY <1>0, <1>1 DEF AuditOrder
  <2> QED BY <1>0, <1>1, <1>3, <1>5, <1>7, <1>8, <2>1 DEF AuditOrder, Before
<1> QED BY <1>9, <1>10, <1>11, <1>12 DEF AuditInv

\* The flush loop sends what it has at a tick, sees the stop, or ends, after the
\* batch that it still has.
LEMMA FlushTurnKeeps ==
  ASSUME AuditInv, FlushTick \/ FlushStop \/ FlushEnd
  PROVE  AuditInv'
<1>0. AuditShape /\ AuditPlaces /\ AuditTracked /\ AuditOrder
  BY DEF AuditInv
<1>1. /\ UNCHANGED <<logged, ch, drain, file, hookCh, received, settled, closing, late>>
      /\ flush.at \in {"select", "drain"}
  BY DEF FlushTick, FlushStop, FlushEnd
<1>2. flush.last = FALSE /\ flush \in FlushType
  BY <1>0, <1>1, AuditFields DEF AuditPlaces, AuditShape, FlushType
<1>3. /\ flush' \in FlushType /\ flush'.batch = flush.batch
      /\ \/ /\ flush.at = "select" /\ flush.batch # <<>>
            /\ flush'.at = "send" /\ flush'.last = FALSE /\ flush'.attempt = 0
         \/ /\ flush.at = "select" /\ closing \in {"flush", "done"}
            /\ flush'.at = "drain" /\ flush'.last = FALSE
         \/ /\ flush.at = "drain" /\ hookCh = <<>> /\ flush.batch # <<>>
            /\ flush'.at = "drainSend" /\ flush'.last = TRUE /\ flush'.attempt = 0
         \/ /\ flush.at = "drain" /\ hookCh = <<>> /\ flush.batch = <<>>
            /\ flush'.at = "ended" /\ flush'.last = FALSE
  <2>1. CASE FlushTick
    BY <1>2, <2>1 DEF FlushTick, Send, FlushType, FlushPlaces
  <2>2. CASE FlushStop
    BY <1>2, <2>2 DEF FlushStop, FlushType, FlushPlaces
  <2>3. CASE FlushEnd
    <3>1. CASE flush.batch # <<>>
      <4>1. /\ flush' = [at |-> "drainSend", batch |-> flush.batch, attempt |-> 0, last |-> TRUE]
            /\ flush.at = "drain" /\ hookCh = <<>>
        BY <2>3, <3>1 DEF FlushEnd, Send
      <4>2. flush.batch \in Seq(Events)
        BY <1>2 DEF FlushType
      <4> QED BY <3>1, <4>1, <4>2 DEF FlushType, FlushPlaces
    <3>2. CASE flush.batch = <<>>
      <4>1. flush' = [flush EXCEPT !.at = "ended"] /\ flush.at = "drain" /\ hookCh = <<>>
        BY <2>3, <3>2 DEF FlushEnd
      <4> QED BY <1>2, <3>2, <4>1 DEF FlushType, FlushPlaces
    <3> QED BY <3>1, <3>2
  <2> QED BY <2>1, <2>2, <2>3
<1>4. InHand' = InHand /\ InFlush' = InFlush /\ Got' = Got
  BY <1>1, <1>3 DEF InHand, InFlush, Got
<1>5. AuditShape'
  BY <1>0, <1>1, <1>3 DEF AuditShape, FlushType
<1>6. AuditPlaces'
  BY <1>0, <1>1, <1>3, AuditFields DEF AuditPlaces
<1>7. AuditTracked'
  BY <1>0, <1>1, <1>3 DEF AuditTracked, InPipeline
<1>8. AuditOrder'
  <2>1. Before(Got, InFlush)
    BY <1>0, <1>1 DEF AuditOrder
  <2> QED BY <1>0, <1>1, <1>3, <1>4, <2>1 DEF AuditOrder
<1> QED BY <1>5, <1>6, <1>7, <1>8 DEF AuditInv

\* A batch that the endpoint gets again is the one it got last, and it gets it no
\* more often than it is sent; another batch comes after what it got.
LEMMA ReceiveOrder ==
  ASSUME AuditInv, flush.at \in {"send", "drainSend"}, Receive(flush.batch)
  PROVE  /\ received' \in [batch : Seq(Events), copies : Nat]
         /\ received'.batch = flush.batch /\ received'.copies \in 1..(flush.attempt + 1)
         /\ \/ received.copies = 0
            \/ Last(received.batch) < Head(received'.batch)
            \/ received.batch = received'.batch /\ received'.copies <= MaxRetries
<1>0. AuditShape /\ AuditPlaces /\ AuditOrder
  BY DEF AuditInv
<1>1. flush.batch \in Seq(Events) /\ flush.batch # <<>> /\ flush.attempt < MaxRetries
  BY <1>0, AuditFields DEF AuditPlaces
<1>2. PICK n \in Nat : n = IF flush.batch = received.batch THEN received.copies + 1 ELSE 1
  BY AuditFields
<1>3. /\ received' \in [batch : Seq(Events), copies : Nat]
      /\ received'.batch = flush.batch /\ received'.copies = n
  BY <1>1, <1>2 DEF Receive
<1>4. Head(flush.batch) \in InFlush
  BY <1>1, TailFacts DEF InFlush
<1>5. CASE flush.batch = received.batch
  <2>1. ~Before(Got, InFlush)
    <3>1. Head(flush.batch) \in Got /\ Head(flush.batch) \in Nat
      BY <1>4, <1>5, AuditFields DEF Got, InFlush
    <3> QED BY <1>4, <3>1 DEF Before
  <2>2. received.copies <= flush.attempt
    BY <1>0, <2>1 DEF AuditOrder
  <2> QED BY <1>1, <1>2, <1>3, <1>5, <2>2, AuditFields
<1>6. CASE flush.batch # received.batch
  <2>1. n = 1 /\ n \in 1..(flush.attempt + 1)
    BY <1>2, <1>6, AuditFields
  <2>2. ASSUME received.copies # 0 PROVE Last(received.batch) < Head(flush.batch)
    <3>1. received.batch # <<>> /\ Before(Got, InFlush)
      BY <1>0, <1>6, <2>2 DEF AuditOrder
    <3>2. Last(received.batch) \in Got
      <4>1. received.batch \in Seq(Events)
        BY AuditFields
      <4>2. Len(received.batch) \in DOMAIN received.batch
        BY <3>1, <4>1
      <4> QED BY <4>2 DEF Last, Got, ToSet
    <3> QED BY <1>4, <3>1, <3>2 DEF Before
  <2> QED BY <1>3, <2>1, <2>2
<1> QED BY <1>5, <1>6

\* An attempt to send the batch.
LEMMA SendBatchKeeps ==
  ASSUME AuditInv, NEW answer \in Answers, SendBatch(answer)
  PROVE  AuditInv'
<1>0. AuditShape /\ AuditPlaces /\ AuditTracked /\ AuditOrder
  BY DEF AuditInv
<1>1. /\ UNCHANGED <<logged, ch, drain, file, hookCh, closing, late>>
      /\ flush.at \in {"send", "drainSend"}
      /\ Receive(flush.batch) \/ received' = received
  BY DEF SendBatch
<1>2. /\ flush \in FlushType /\ flush.batch # <<>> /\ flush.attempt < MaxRetries
      /\ flush.last => flush.at = "drainSend"
      /\ flush.at = "drainSend" => closing \in {"flush", "done"}
      /\ flush.last /\ ~late => hookCh = <<>>
  BY <1>0, <1>1 DEF AuditShape, FlushType, AuditPlaces
<1>3. /\ flush' \in FlushType /\ InHand' = InHand
      /\ \/ /\ flush'.at = flush.at /\ flush'.batch = flush.batch /\ flush'.last = flush.last
            /\ flush'.attempt = flush.attempt + 1 /\ flush'.attempt < MaxRetries
            /\ settled' = settled
         \/ /\ flush'.at = AfterBatch /\ flush'.batch = <<>> /\ flush'.last = FALSE
            /\ settled' = settled \cup InFlush
  <2>1. CASE flush' = [flush EXCEPT !.attempt = @ + 1] /\ settled' = settled
             /\ flush.attempt + 1 < MaxRetries
    BY <1>1, <1>2, <2>1 DEF FlushType, InHand
  <2>2. CASE BatchDone /\ Settle(InFlush)
    <3>1. flush' = [at |-> AfterBatch, batch |-> <<>>, attempt |-> 0, last |-> FALSE]
      BY <2>2 DEF BatchDone
    <3>2. AfterBatch \in FlushPlaces /\ <<>> \in Seq(Events)
      BY EmptyFacts DEF AfterBatch, FlushPlaces
    <3> HIDE DEF AfterBatch
    <3> QED BY <1>1, <2>2, <3>1, <3>2 DEF FlushType, InHand, Settle
  <2> QED BY <2>1, <2>2 DEF SendBatch, InFlush
<1>4. /\ received' \in [batch : Seq(Events), copies : Nat]
      /\ \/ received' = received
         \/ received'.batch = flush.batch /\ received'.copies \in 1..(flush.attempt + 1)
  BY <1>0, <1>1, ReceiveOrder DEF AuditShape
<1>5. AuditShape'
  <2>1. settled' \subseteq Events
    <3>1. InFlush \subseteq Events
      <4>1. flush.batch \in Seq(Events)
        BY AuditFields
      <4> QED BY <4>1 DEF InFlush, ToSet
    <3> QED BY <1>0, <1>3, <3>1 DEF AuditShape
  <2>2. /\ Len(flush'.batch) <= BatchSize
        /\ flush'.at \in {"select", "drain"} => Len(flush'.batch) < BatchSize
    <3>1. CASE flush'.at = flush.at /\ flush'.batch = flush.batch
      BY <1>0, <1>1, <3>1 DEF AuditShape
    <3>2. CASE flush'.batch = <<>>
      <4>1. Len(flush'.batch) = 0
        BY <3>2, EmptyFacts
      <4> QED BY <4>1, AuditFields
    <3> QED BY <1>3, <3>1, <3>2
  <2> QED BY <1>0, <1>1, <1>3, <1>4, <2>1, <2>2 DEF AuditShape, FlushType
<1>6. AuditPlaces'
  BY <1>0, <1>1, <1>2, <1>3 DEF AuditPlaces, AfterBatch
<1>7. AuditTracked'
  <2>1. ToSet(flush'.batch) = InFlush \/ InFlush \subseteq settled'
    BY <1>3 DEF InFlush
  <2>2. settled \subseteq settled'
    BY <1>3
  <2> QED BY <1>0, <1>1, <2>1, <2>2 DEF AuditTracked, InPipeline, InFlush
<1>8. AuditOrder'
  <2>1. /\ Got' \in {Got, InFlush} /\ InFlush' \in {InFlush, {}}
        /\ Increasing(flush'.batch)
    BY <1>0, <1>3, <1>4, EmptyFacts DEF AuditOrder, Got, InFlush
  <2>2. \/ Before(Got', InFlush')
        \/ /\ flush'.at \in {"send", "drainSend"} /\ flush'.batch = received'.batch
           /\ received'.copies <= flush'.attempt
    <3>1. CASE flush'.batch = <<>>
      <4>1. InFlush' = {}
        BY <3>1, EmptyFacts DEF InFlush
      <4> QED BY <4>1 DEF Before
    <3>2. CASE /\ flush'.at = flush.at /\ flush'.batch = flush.batch
               /\ flush'.attempt = flush.attempt + 1
      <4>1. CASE received' = received
        <5>1. Got' = Got /\ InFlush' = InFlush
          BY <3>2, <4>1 DEF Got, InFlush
        <5> QED BY <1>0, <3>2, <4>1, <5>1, AuditFields DEF AuditOrder
      <4>2. CASE received'.batch = flush.batch /\ received'.copies \in 1..(flush.attempt + 1)
        BY <1>1, <3>2, <4>2, AuditFields
      <4> QED BY <1>4, <4>1, <4>2
    <3> QED BY <1>3, <3>1, <3>2
  <2>3. received'.copies = 0 <=> received'.batch = <<>>
    <3>1. CASE received' = received
      BY <1>0, <3>1 DEF AuditOrder
    <3>2. CASE received'.batch = flush.batch /\ received'.copies \in 1..(flush.attempt + 1)
      BY <1>2, <3>2, AuditFields
    <3> QED BY <1>4, <3>1, <3>2
  <2>4. /\ Before(Got', ToSet(ch)) /\ Before(Got', InHand) /\ Before(Got', ToSet(hookCh))
        /\ Before(InFlush', ToSet(ch)) /\ Before(InFlush', InHand)
        /\ Before(InFlush', ToSet(hookCh))
    BY <1>0, <2>1 DEF AuditOrder, Before
  <2> QED BY <1>0, <1>1, <1>3, <2>1, <2>2, <2>3, <2>4 DEF AuditOrder
<1> QED BY <1>5, <1>6, <1>7, <1>8 DEF AuditInv

\* Every step of the pipeline keeps its part of the invariant.
LEMMA AuditStep == AuditInv /\ [AuditNext]_auditVars => AuditInv'
<1> SUFFICES ASSUME AuditInv, [AuditNext]_auditVars PROVE AuditInv'
  OBVIOUS
<1> QED BY CloseKeeps, LogKeeps, DrainTakeKeeps, DrainStopKeeps, FormatErrorKeeps,
           FileWriteKeeps, HookWriteKeeps, FlushTakeKeeps, FlushTurnKeeps, SendBatchKeeps
        DEF AuditNext, DrainStep, FlushStep

\* What Close has found: the drain loop sees the stop after Close was called, and
\* when it has ended the buffer holds nothing that was logged before.
AuditShut ==
  /\ before \in 0..logged
  /\ drain.at \in {"drain", "drainFile", "drainHook", "ended"} => closing # "no"
  /\ drain.at = "ended" => \A e \in ToSet(ch) : e > before

\* The inductive invariant.
PipelineInv == AuditInv /\ AuditShut

\* The shutdown part holds at the start.
LEMMA PipelineInit == AuditInit => PipelineInv
  BY AuditInitInv DEF PipelineInv, AuditShut, AuditInit

\* Every step keeps it: the loop ends with its buffer empty, and what is logged
\* later has a greater number.
LEMMA PipelineStep == PipelineInv /\ [AuditNext]_auditVars => PipelineInv'
<1> SUFFICES ASSUME AuditInv, AuditShut, [AuditNext]_auditVars PROVE AuditShut'
  BY AuditStep DEF PipelineInv
<1>0. /\ logged \in Nat /\ drain.at \in DrainPlaces /\ ToSet(ch) \subseteq Nat
      /\ drain = [at |-> drain.at, event |-> drain.event]
  BY AuditFields
<1>1. ASSUME UNCHANGED <<logged, ch, drain, closing, before>> PROVE AuditShut'
  BY <1>1 DEF AuditShut
<1>2. CASE Log
  <2>1. /\ logged' = logged + 1 /\ before' = before /\ drain' = drain /\ closing' = closing
        /\ ch' \in {ch, Append(ch, logged')}
    BY <1>2 DEF Log
  <2>2. ToSet(ch') \subseteq ToSet(ch) \cup {logged'}
    <3>1. ch \in Seq(Events) /\ logged' \in Events
      BY <1>0, <1>2, AuditFields DEF AuditInv, AuditShape, Events, Log
    <3> QED BY <2>1, <3>1, AppendFacts
  <2>3. before' \in 0..logged' /\ logged' > before'
    BY <1>0, <2>1 DEF AuditShut
  <2> QED BY <2>1, <2>2, <2>3 DEF AuditShut
<1>3. CASE Close \/ CloseOutputs \/ CloseEnd \/ TimeOut
  <2>1. /\ logged' = logged /\ ch' = ch /\ drain' = drain /\ closing' # "no"
        /\ before' = before \/ (before' = logged /\ closing = "no")
    BY <1>3 DEF Close, CloseOutputs, CloseEnd, TimeOut
  <2> QED BY <1>0, <2>1 DEF AuditShut
<1>4. CASE DrainTake \/ DrainStop \/ DrainEnd \/ FormatError \/ FileWrite \/ HookWrite
  <2>1. logged' = logged /\ before' = before /\ closing' = closing
    BY <1>4 DEF DrainTake, DrainStop, DrainEnd, FormatError, FileWrite, HookWrite
  <2>2. /\ drain'.at \in {"drain", "drainFile", "drainHook", "ended"} =>
             drain.at \in {"drain", "drainFile", "drainHook"} \/ closing # "no"
        /\ drain'.at = "ended" => ch' = <<>>
    <3>1. CASE DrainTake \/ FormatError \/ HookWrite
      BY <1>0, <3>1 DEF DrainTake, FormatError, HookWrite
    <3>2. CASE DrainStop \/ DrainEnd \/ FileWrite
      BY <1>0, <3>2 DEF DrainStop, DrainEnd, FileWrite
    <3> QED BY <1>4, <3>1, <3>2
  <2> QED BY <2>1, <2>2, EmptyFacts DEF AuditShut
<1>5. CASE FlushTake \/ FlushTick \/ FlushStop \/ FlushEnd
  BY <1>1, <1>5 DEF FlushTake, FlushTick, FlushStop, FlushEnd
<1>6. ASSUME NEW answer \in Answers, SendBatch(answer) PROVE AuditShut'
  BY <1>1, <1>6 DEF SendBatch
<1>7. CASE UNCHANGED auditVars
  BY <1>1, <1>7 DEF auditVars
<1> QED BY <1>2, <1>3, <1>4, <1>5, <1>6, <1>7 DEF AuditNext, DrainStep, FlushStep

\* The invariant gives the property.
LEMMA AuditIsSound == PipelineInv => AuditSound
<1> SUFFICES ASSUME AuditInv, AuditShut PROVE AuditSound
  BY DEF PipelineInv
<1>1. AuditTypeOK
  BY AuditFields DEF AuditInv, AuditShape, AuditTypeOK, Events
<1>2. NothingVanishes
  <2> SUFFICES ASSUME NEW e \in 1..logged, e \notin settled PROVE e \in Waiting
    BY DEF NothingVanishes
  <2>1. \/ e \in ToSet(ch) \/ e = drain.event
        \/ e \in ToSet(hookCh) \/ e \in ToSet(flush.batch)
    BY DEF AuditInv, AuditTracked, InPipeline
  <2>2. CASE e \in ToSet(ch)
    BY <2>2 DEF AuditShut, Waiting
  <2>3. CASE e \in ToSet(hookCh)
    <3>1. flush.at = "ended" => late
      BY <2>3, EmptyFacts DEF AuditInv, AuditPlaces
    <3> QED BY <2>3, <3>1 DEF Waiting
  <2>4. CASE e = drain.event \/ e \in ToSet(flush.batch)
    BY <2>4 DEF Waiting
  <2> QED BY <2>1, <2>2, <2>3, <2>4
<1>3. CloseHandsOn
  <2> SUFFICES ASSUME closing = "done", ~late, NEW e \in 1..before PROVE e \in settled
    BY DEF CloseHandsOn
  <2>1. drain.at = "ended" /\ drain.event = 0 /\ hookCh = <<>> /\ flush.batch = <<>>
    BY DEF AuditInv, AuditPlaces
  <2>2. e \in 1..logged /\ e # 0 /\ e \notin ToSet(ch)
    BY <2>1, AuditFields DEF AuditShut
  <2> QED BY <2>1, <2>2, EmptyFacts DEF AuditInv, AuditTracked, InPipeline
<1> QED BY <1>1, <1>2, <1>3 DEF AuditSound

\* What the file and the endpoint get comes in order: a batch again only in a row,
\* and no more often than it may be tried.
LEMMA AuditInOrder ==
  ASSUME AuditInv, [AuditNext]_auditVars
  PROVE  /\ file' >= file
         /\ received' # received =>
              \/ received.copies = 0 \/ Last(received.batch) < Head(received'.batch)
              \/ received.batch = received'.batch /\ received'.copies <= MaxRetries
<1>0. file \in Nat
  BY AuditFields DEF AuditInv, AuditShape
<1>1. CASE FileWrite
  <2>1. file <= file' /\ AuditInv'
    BY <1>1, FileWriteKeeps
  <2>2. file' \in Nat /\ received' = received
    BY <1>0, <1>1, AuditFields DEF FileWrite
  <2> QED BY <1>0, <2>1, <2>2
<1>2. ASSUME NEW answer \in Answers, SendBatch(answer)
      PROVE  /\ file' >= file
             /\ received' # received =>
                  \/ received.copies = 0 \/ Last(received.batch) < Head(received'.batch)
                  \/ received.batch = received'.batch /\ received'.copies <= MaxRetries
  <2>1. /\ file' = file /\ flush.at \in {"send", "drainSend"}
        /\ Receive(flush.batch) \/ received' = received
    BY <1>2 DEF SendBatch
  <2> QED BY <1>0, <2>1, ReceiveOrder
<1>3. CASE \/ Close \/ CloseOutputs \/ CloseEnd \/ TimeOut \/ UNCHANGED auditVars
           \/ Log \/ DrainTake \/ DrainStop \/ DrainEnd \/ FormatError \/ HookWrite
           \/ FlushTake \/ FlushTick \/ FlushStop \/ FlushEnd
  <2>1. file' = file /\ received' = received
    BY <1>3 DEF Close, CloseOutputs, CloseEnd, TimeOut, auditVars, Log, DrainTake, DrainStop,
                DrainEnd, FormatError, HookWrite, FlushTake, FlushTick, FlushStop, FlushEnd
  <2> QED BY <1>0, <2>1
<1> QED BY <1>1, <1>2, <1>3 DEF AuditNext, DrainStep, FlushStep

-----------------------------------------------------------------------------
(* The Vault store of one instance.                                        *)

\* All callers are served by one instance, whose mutex keeps their writes apart.
OneInstanceOnly == \A c, d \in Callers : Home[c] = Home[d]

\* Where a call is tells what it carries.
CallFits(k) ==
  /\ k \in CallType
  /\ k.at \in {"lookup", "list", "sequence", "index"} => k.op = "create"
  /\ k.at \in {"unindex", "remove"} => k.op = "delete"
  /\ k.at = "put" => k.op # "delete"
  /\ k.at = "get" => k.op # "create" /\ (k.op = "update" => k.row \in Change)
  /\ k.at # "get" => k.row \in RowType
  /\ k.at \notin {"lookup", "list", "sequence"} => k.id \in Rows
  /\ k.op = "touch" => k.table = "apikeys"
  /\ k.at \in {"lookup", "list"} /\ k.table = "apikeys" => k.row.email = NoEmail
  /\ k.at = "list" => k.row.email # NoEmail

\* What the earlier steps of a call have established for the next one.
CallHolds(k) ==
  /\ k.at = "put" /\ k.op = "create" =>
       rows[k.table][k.id] = Absent /\ k.id <= counter[k.table]
  /\ k.at = "put" /\ k.op # "create" =>
       Stored(k.table, k.id) /\ rows[k.table][k.id].name = k.row.name
  /\ k.at = "put" /\ k.op = "touch" => k.row = rows[k.table][k.id]
  /\ k.at \in {"index", "unindex", "remove"} => rows[k.table][k.id] = k.row
  /\ k.at = "remove" => index[k.table][k.row.name] # k.id

\* When nothing fails, a create that is past its checks adds a new name and email.
CallUnique(k) ==
  /\ k.at \in {"list", "sequence"} \/ (k.at = "put" /\ k.op = "create") =>
       \A j \in Rows : Stored(k.table, j) => rows[k.table][j].name # k.row.name
  /\ k.at = "sequence" \/ (k.at = "put" /\ k.op = "create") =>
       \A j \in Rows : Stored(k.table, j) =>
          rows[k.table][j].email # k.row.email \/ k.row.email = NoEmail
  /\ k.at = "index" =>
       \A j \in Rows \ {k.id} : Stored(k.table, j) => rows[k.table][j].name # k.row.name

\* The index entry of a record is yet to be written, or gone before the record.
Pending(t, i) ==
  \E c \in Callers : /\ vcall[c] # NoCall /\ vcall[c].at \in {"index", "remove"}
                     /\ vcall[c].table = t /\ vcall[c].id = i

\* When nothing fails, every record is indexed.
VaultComplete ==
  \A t \in Tables, i \in Rows : Stored(t, i) =>
    index[t][rows[t][i].name] = i \/ Pending(t, i)

\* What the variables hold.
VaultShape ==
  /\ rows \in [Tables -> [Rows -> RowType \cup {Absent, Deleted}]]
  /\ index \in [Tables -> [Names -> 0..MaxRow]]
  /\ counter \in [Tables -> 0..MaxRow]
  /\ idSeq \in [Instances -> [Tables -> 0..MaxRow]]
  /\ vcall \in [Callers -> CallType \cup {NoCall}]
  /\ vload \in VaultLoads

\* No ID above the counter in Vault was ever used, and the instance's is not behind.
VaultCounters ==
  /\ \A t \in Tables, i \in Rows : rows[t][i] # Absent => i <= counter[t]
  /\ \A c \in Callers, t \in Tables : counter[t] <= idSeq[Home[c]][t]

\* The inductive invariant.
VaultInv ==
  /\ VaultShape
  /\ \A c, d \in Callers : vcall[c] # NoCall /\ vcall[d] # NoCall => c = d
  /\ \A c \in Callers : vcall[c] # NoCall => CallFits(vcall[c]) /\ CallHolds(vcall[c])
  /\ VaultCounters
  /\ IndexLeadsHome
  /\ ~vload.faults => /\ VaultComplete
                      /\ \A c \in Callers : vcall[c] # NoCall => CallUnique(vcall[c])

\* An empty store satisfies the invariant.
LEMMA VaultInitInv == VaultInit => VaultInv
<1> SUFFICES ASSUME VaultInit PROVE VaultInv
  OBVIOUS
<1>1. MaxRow \in Nat /\ {Absent, Deleted} \cap RowType = {} /\ Home \in [Callers -> Instances]
  BY VaultAssumption
<1>2. VaultShape
  BY <1>1 DEF VaultInit, VaultShape
<1>3. /\ \A t \in Tables, i \in Rows : rows[t][i] = Absent
      /\ \A t \in Tables, n \in Names : index[t][n] = 0
      /\ \A c \in Callers : vcall[c] = NoCall
  BY DEF VaultInit
<1>4. VaultCounters
  BY <1>1, <1>3 DEF VaultInit, VaultCounters
<1>5. IndexLeadsHome
  BY <1>3 DEF IndexLeadsHome
<1>6. VaultComplete
  BY <1>3 DEF VaultComplete, Stored
<1> QED BY <1>2, <1>3, <1>4, <1>5, <1>6 DEF VaultInv

\* The types of the state, and of the call of a caller.
LEMMA VaultFields ==
  ASSUME VaultInv, NEW c \in Callers
  PROVE  /\ MaxRow \in Nat /\ Rows = 1..MaxRow /\ 0 \notin Rows /\ Rows \subseteq Nat
         /\ Home[c] \in Instances
         /\ vload \in VaultLoads /\ vload.faults \in BOOLEAN /\ vload.tables \subseteq Tables
         /\ Absent \notin RowType /\ Deleted \notin RowType
         /\ rows \in [Tables -> [Rows -> RowType \cup {Absent, Deleted}]]
         /\ index \in [Tables -> [Names -> 0..MaxRow]]
         /\ counter \in [Tables -> 0..MaxRow]
         /\ idSeq \in [Instances -> [Tables -> 0..MaxRow]]
         /\ vcall \in [Callers -> CallType \cup {NoCall}]
         /\ \A t \in Tables, i \in Rows : Stored(t, i) => rows[t][i] \in RowType
         /\ \A t \in Tables, i \in Rows : rows[t][i] \in RowType => Stored(t, i)
         /\ vcall[c] # NoCall => /\ CallFits(vcall[c]) /\ CallHolds(vcall[c])
                                 /\ ~vload.faults => CallUnique(vcall[c])
                                 /\ \A d \in Callers : vcall[d] # NoCall => d = c
                                 /\ vcall[c] \in CallType /\ vcall[c].table \in Tables
<1>1. VaultShape
  BY DEF VaultInv
<1>2. /\ MaxRow \in Nat /\ Rows = 1..MaxRow /\ 0 \notin Rows /\ Rows \subseteq Nat
      /\ Home[c] \in Instances
      /\ vload \in VaultLoads /\ vload.faults \in BOOLEAN /\ vload.tables \subseteq Tables
      /\ Absent \notin RowType /\ Deleted \notin RowType
  BY <1>1, VaultAssumption DEF VaultShape, Rows
<1>3. vcall[c] # NoCall => /\ CallFits(vcall[c]) /\ CallHolds(vcall[c])
                           /\ ~vload.faults => CallUnique(vcall[c])
                           /\ \A d \in Callers : vcall[d] # NoCall => d = c
  BY DEF VaultInv
<1>4. CallFits(vcall[c]) => vcall[c] \in CallType /\ vcall[c].table \in Tables
  BY DEF CallFits, CallType
<1>5. rows \in [Tables -> [Rows -> RowType \cup {Absent, Deleted}]]
  BY <1>1 DEF VaultShape
<1>6. \A t \in Tables, i \in Rows : (Stored(t, i) <=> rows[t][i] \in RowType)
  BY <1>2, <1>5 DEF Stored
<1> QED BY <1>1, <1>2, <1>3, <1>4, <1>5, <1>6 DEF VaultShape

\* The call of a caller becomes k, while no other caller is in one.
Becomes(c, k) ==
  /\ \A d \in Callers : vcall[d] # NoCall => d = c
  /\ k = NoCall \/ CallFits(k)
  /\ vcall' = [vcall EXCEPT ![c] = k]

\* The caller is then alone in a call.
LEMMA CallMoves ==
  ASSUME VaultInv, NEW c \in Callers, NEW k, Becomes(c, k)
  PROVE  /\ vcall' \in [Callers -> CallType \cup {NoCall}] /\ vcall'[c] = k
         /\ \A d \in Callers : d # c => vcall'[d] = NoCall
  BY VaultFields DEF Becomes, CallFits

\* A caller's move keeps the invariant if the tables are sound after it and k finds
\* what it needs.
LEMMA VaultFrame ==
  ASSUME VaultInv, NEW c \in Callers, NEW k, Becomes(c, k), vload' = vload,
         rows' \in [Tables -> [Rows -> RowType \cup {Absent, Deleted}]],
         index' \in [Tables -> [Names -> 0..MaxRow]],
         counter' \in [Tables -> 0..MaxRow],
         idSeq' \in [Instances -> [Tables -> 0..MaxRow]],
         VaultCounters', IndexLeadsHome',
         k # NoCall => CallHolds(k)',
         ~vload.faults => VaultComplete' /\ (k # NoCall => CallUnique(k)')
  PROVE  VaultInv'
<1>1. /\ vcall' \in [Callers -> CallType \cup {NoCall}] /\ vcall'[c] = k
      /\ \A d \in Callers : d # c => vcall'[d] = NoCall
  BY CallMoves
<1>2. VaultShape'
  BY <1>1, VaultFields DEF VaultShape
<1>3. \A d, e \in Callers : vcall'[d] # NoCall /\ vcall'[e] # NoCall => d = e
  BY <1>1
<1>4. ASSUME NEW d \in Callers, vcall'[d] # NoCall
      PROVE  CallFits(vcall'[d]) /\ vcall'[d] = k /\ k # NoCall
  BY <1>1, <1>4 DEF Becomes
<1>5. \A d \in Callers : vcall'[d] # NoCall => (CallFits(vcall[d]) /\ CallHolds(vcall[d]))'
  BY <1>4 DEF CallFits, CallHolds
<1>6. ~vload.faults => \A d \in Callers : vcall'[d] # NoCall => CallUnique(vcall[d])'
  BY <1>4 DEF CallUnique
<1> QED BY <1>2, <1>3, <1>5, <1>6 DEF VaultInv

\* A caller moves and the tables stay.
LEMMA VaultQuiet ==
  ASSUME VaultInv, NEW c \in Callers, NEW k, Becomes(c, k),
         UNCHANGED <<rows, index, counter, idSeq, vload>>,
         k # NoCall => CallHolds(k),
         ~vload.faults => /\ vcall[c] # NoCall => vcall[c].at \notin {"index", "remove"}
                          /\ k # NoCall => CallUnique(k)
  PROVE  VaultInv'
<1>1. /\ rows' = rows /\ index' = index /\ counter' = counter /\ idSeq' = idSeq
      /\ vload' = vload
  OBVIOUS
<1>2. VaultCounters' /\ IndexLeadsHome'
  BY <1>1 DEF VaultInv, VaultCounters, IndexLeadsHome, Stored
<1>3. k # NoCall => CallHolds(k)'
  BY <1>1 DEF CallHolds, Stored
<1>4. ~vload.faults => VaultComplete' /\ (k # NoCall => CallUnique(k)')
  <2> SUFFICES ASSUME ~vload.faults PROVE VaultComplete' /\ (k # NoCall => CallUnique(k)')
    OBVIOUS
  <2>1. \A t \in Tables, i \in Rows : ~Pending(t, i)
    BY DEF Pending, Becomes
  <2>2. VaultComplete
    BY DEF VaultInv
  <2>3. VaultComplete'
    BY <1>1, <2>1, <2>2 DEF VaultComplete, Stored
  <2> QED BY <1>1, <2>3 DEF CallUnique, Stored
<1> QED BY <1>1, <1>2, <1>3, <1>4, VaultFields, VaultFrame

\* A call begins.
LEMMA BeginKeeps ==
  ASSUME OneInstanceOnly, VaultInv, NEW c \in Callers,
         Create(c) \/ Update(c) \/ Touch(c) \/ Delete(c)
  PROVE  VaultInv'
<1>0. Tables = {"users", "apikeys"} /\ vload.tables \subseteq Tables /\ Rows \subseteq 0..MaxRow
      /\ 0 \in 0..MaxRow
  BY VaultFields DEF Tables
<1>1. \E op, t, i, at, row :
        /\ Begin(c, op, t, i, at, row) /\ CallFits(KVCall(op, t, i, at, row))
        /\ at \in {"lookup", "get"}
  <2>1. CASE Create(c)
    <3>1. PICK t \in vload.tables, n \in Names, e \in Emails \cup {NoEmail} :
             (t = "apikeys" => e = NoEmail) /\ Begin(c, "create", t, 0, "lookup", Row(n, e, TRUE))
      BY <2>1 DEF Create
    <3>2. Row(n, e, TRUE) \in RowType /\ Row(n, e, TRUE).email = e
      BY DEF Row, RowType
    <3>3. CallFits(KVCall("create", t, 0, "lookup", Row(n, e, TRUE)))
      BY <1>0, <3>1, <3>2 DEF KVCall, CallFits, CallType, Places
    <3> QED BY <3>1, <3>3
  <2>2. CASE Update(c)
    <3>1. PICK t \in vload.tables, i \in Rows, change \in Change :
             Begin(c, "update", t, i, "get", change)
      BY <2>2 DEF Update, Change
    <3>3. CallFits(KVCall("update", t, i, "get", change))
      BY <1>0, <3>1 DEF KVCall, CallFits, CallType, Places
    <3> QED BY <3>1, <3>3
  <2>3. CASE Touch(c)
    <3>1. PICK t \in vload.tables \cap {"apikeys"}, i \in Rows : Begin(c, "touch", t, i, "get", TRUE)
      BY <2>3 DEF Touch
    <3>3. CallFits(KVCall("touch", t, i, "get", TRUE))
      BY <1>0, <3>1 DEF KVCall, CallFits, CallType, Places
    <3> QED BY <3>1, <3>3
  <2>4. CASE Delete(c)
    <3>1. PICK t \in vload.tables, i \in Rows : Begin(c, "delete", t, i, "get", TRUE)
      BY <2>4 DEF Delete
    <3>3. CallFits(KVCall("delete", t, i, "get", TRUE))
      BY <1>0, <3>1 DEF KVCall, CallFits, CallType, Places
    <3> QED BY <3>1, <3>3
  <2> QED BY <2>1, <2>2, <2>3, <2>4
<1>2. PICK op, t, i, at, row :
        /\ Begin(c, op, t, i, at, row) /\ CallFits(KVCall(op, t, i, at, row))
        /\ at \in {"lookup", "get"}
  BY <1>1
<1>3. PICK k : k = KVCall(op, t, i, at, row)
  OBVIOUS
<1>4. k.at \in {"lookup", "get"} /\ CallFits(k)
  BY <1>2, <1>3 DEF KVCall
<1>5. \A d \in Callers : vcall[d] = NoCall
  BY <1>2 DEF Begin, Mutex, OneInstanceOnly
<1>6. Becomes(c, k) /\ UNCHANGED <<rows, index, counter, idSeq, vload>>
  BY <1>2, <1>3, <1>4, <1>5 DEF Begin, Becomes
<1>7. CallHolds(k) /\ CallUnique(k)
  BY <1>4 DEF CallHolds, CallUnique
<1> QED BY <1>5, <1>6, <1>7, VaultQuiet

\* A call goes on to its next place, or ends.
LEMMA GoesOn ==
  ASSUME VaultInv, NEW c \in Callers, vcall[c] # NoCall
  PROVE  /\ \A at \in Places : Goto(c, at) =>
              \E k \in CallType :
                 /\ vcall' = [vcall EXCEPT ![c] = k] /\ k.at = at
                 /\ k.op = vcall[c].op /\ k.table = vcall[c].table /\ k.id = vcall[c].id
                 /\ k.row = vcall[c].row
         /\ Return(c) => Becomes(c, NoCall)
<1>1. vcall[c] \in CallType /\ \A d \in Callers : vcall[d] # NoCall => d = c
  BY VaultFields
<1>2. ASSUME NEW at \in Places, Goto(c, at)
      PROVE  \E k \in CallType :
                 /\ vcall' = [vcall EXCEPT ![c] = k] /\ k.at = at
                 /\ k.op = vcall[c].op /\ k.table = vcall[c].table /\ k.id = vcall[c].id
                 /\ k.row = vcall[c].row
  <2> DEFINE k == [vcall[c] EXCEPT !.at = at]
  <2>1. vcall' = [vcall EXCEPT ![c] = k]
    BY <1>2 DEF Goto
  <2>2. k \in CallType /\ k.at = at
    BY <1>1 DEF CallType
  <2>3. /\ k.op = vcall[c].op /\ k.table = vcall[c].table /\ k.id = vcall[c].id
        /\ k.row = vcall[c].row
    BY <1>1 DEF CallType
  <2> HIDE DEF k
  <2> QED BY <2>1, <2>2, <2>3
<1>3. Return(c) => Becomes(c, NoCall)
  BY <1>1 DEF Return, Becomes
<1> QED BY <1>2, <1>3

\* The lookup of the name.
LEMMA LookupKeeps ==
  ASSUME VaultInv, NEW c \in Callers, LookupName(c)
  PROVE  VaultInv'
<1>1. /\ vcall[c] # NoCall /\ vcall[c].at = "lookup"
      /\ UNCHANGED <<rows, index, counter, idSeq, vload>>
  BY DEF LookupName, At
<1>2. /\ CallFits(vcall[c]) /\ vcall[c].table \in Tables /\ vcall[c].row \in RowType
      /\ \A d \in Callers : vcall[d] # NoCall => d = c
  BY <1>1, VaultFields DEF CallFits
<1>3. CASE Return(c)
  BY <1>1, <1>3, GoesOn, VaultQuiet
<1>4. CASE \E at \in {"sequence", "list"} :
             /\ Goto(c, at) /\ (at = "list" <=> vcall[c].row.email # NoEmail)
             /\ vload.faults \/ ~Stored(vcall[c].table, index[vcall[c].table][vcall[c].row.name])
  <2>1. PICK at \in {"sequence", "list"} :
             /\ Goto(c, at) /\ (at = "list" <=> vcall[c].row.email # NoEmail)
             /\ vload.faults \/ ~Stored(vcall[c].table, index[vcall[c].table][vcall[c].row.name])
    BY <1>4
  <2>2. PICK k \in CallType :
          /\ vcall' = [vcall EXCEPT ![c] = k] /\ k.at = at
          /\ k.op = vcall[c].op /\ k.table = vcall[c].table /\ k.id = vcall[c].id
          /\ k.row = vcall[c].row
    BY <1>1, <2>1, GoesOn DEF Places
  <2>3. CallFits(k)
    BY <1>1, <1>2, <2>1, <2>2 DEF CallFits
  <2>4. CallHolds(k)
    BY <2>1, <2>2 DEF CallHolds
  <2>5. ASSUME ~vload.faults PROVE CallUnique(k)
    <3>1. \A j \in Rows : Stored(k.table, j) => rows[k.table][j].name # k.row.name
      <4> SUFFICES ASSUME NEW j \in Rows, Stored(k.table, j), rows[k.table][j].name = k.row.name
                   PROVE  FALSE
        OBVIOUS
      <4>1. ~Pending(k.table, j)
        BY <1>1, <1>2 DEF Pending
      <4>2. index[k.table][k.row.name] = j
        BY <1>2, <2>2, <2>5, <4>1 DEF VaultInv, VaultComplete
      <4> QED BY <2>1, <2>2, <2>5, <4>2
    <3>2. k.at = "sequence" => k.row.email = NoEmail
      BY <2>1, <2>2
    <3> QED BY <2>1, <2>2, <3>1, <3>2 DEF CallUnique
  <2>6. Becomes(c, k)
    BY <1>2, <2>2, <2>3 DEF Becomes
  <2> QED BY <1>1, <2>4, <2>5, <2>6, VaultQuiet
<1> QED BY <1>3, <1>4, VaultFields DEF LookupName

\* The lookup of the email.
LEMMA ListKeeps ==
  ASSUME VaultInv, NEW c \in Callers, ListEmails(c)
  PROVE  VaultInv'
<1>1. /\ vcall[c] # NoCall /\ vcall[c].at = "list"
      /\ UNCHANGED <<rows, index, counter, idSeq, vload>>
  BY DEF ListEmails, At
<1>2. /\ CallFits(vcall[c]) /\ vcall[c].row \in RowType
      /\ vcall[c].table = "users"
      /\ \A d \in Callers : vcall[d] # NoCall => d = c
      /\ ~vload.faults => CallUnique(vcall[c])
  BY <1>1, VaultFields DEF CallFits, Tables
<1>3. CASE Return(c)
  BY <1>1, <1>3, GoesOn, VaultQuiet
<1>4. CASE /\ Goto(c, "sequence")
           /\ vload.faults \/ \A i \in Rows : Stored("users", i) =>
                                 rows["users"][i].email # vcall[c].row.email
  <2>2. PICK k \in CallType :
          /\ vcall' = [vcall EXCEPT ![c] = k] /\ k.at = "sequence"
          /\ k.op = vcall[c].op /\ k.table = vcall[c].table /\ k.id = vcall[c].id
          /\ k.row = vcall[c].row
    BY <1>1, <1>4, GoesOn DEF Places
  <2>3. CallFits(k)
    BY <1>1, <1>2, <2>2 DEF CallFits
  <2>4. CallHolds(k)
    BY <2>2 DEF CallHolds
  <2>5. ASSUME ~vload.faults PROVE CallUnique(k)
    BY <1>1, <1>2, <1>4, <2>2, <2>5 DEF CallUnique
  <2>6. Becomes(c, k)
    BY <1>2, <2>2, <2>3 DEF Becomes
  <2> QED BY <1>1, <2>4, <2>5, <2>6, VaultQuiet
<1> QED BY <1>3, <1>4, VaultFields DEF ListEmails

\* The current record is read.
LEMMA GetKeeps ==
  ASSUME VaultInv, NEW c \in Callers, GetRow(c)
  PROVE  VaultInv'
<1>1. /\ vcall[c] # NoCall /\ vcall[c].at = "get"
      /\ UNCHANGED <<rows, index, counter, idSeq, vload>>
  BY DEF GetRow, At
<1>2. /\ CallFits(vcall[c]) /\ vcall[c].table \in Tables /\ vcall[c].id \in Rows
      /\ vcall[c] \in CallType /\ vcall[c].op \in {"update", "touch", "delete"}
      /\ \A d \in Callers : vcall[d] # NoCall => d = c
  BY <1>1, VaultFields DEF CallFits, CallType
<1>3. CASE vcall' = [vcall EXCEPT ![c] = NoCall]
  <2>1. Becomes(c, NoCall)
    BY <1>2, <1>3 DEF Becomes
  <2> QED BY <1>1, <2>1, VaultQuiet
<1>4. ASSUME NEW at, at = IF vcall[c].op = "delete" THEN "unindex" ELSE "put",
             NEW row, row = Updated(vcall[c], rows[vcall[c].table][vcall[c].id]),
             NEW k, k = KVCall(vcall[c].op, vcall[c].table, vcall[c].id, at, row),
             vcall' = [vcall EXCEPT ![c] = k],
             Stored(vcall[c].table, vcall[c].id)
      PROVE  VaultInv'
  <2>1. PICK r \in RowType : r = rows[vcall[c].table][vcall[c].id]
    BY <1>2, <1>4, VaultFields
  <2>2. /\ row \in RowType /\ row.name = r.name
        /\ vcall[c].op # "update" => row = r
    <3>1. CASE vcall[c].op = "update"
      <4>1. PICK change \in Change : change = vcall[c].row
        BY <1>1, <1>2, <3>1 DEF CallFits
      <4>2. row = [name |-> r.name, email |-> change.email, enabled |-> change.enabled]
        BY <1>4, <2>1, <3>1, <4>1 DEF Updated, Row
      <4> QED BY <3>1, <4>2 DEF RowType, Change
    <3>2. CASE vcall[c].op # "update"
      BY <1>4, <2>1, <3>2 DEF Updated
    <3> QED BY <3>1, <3>2
  <2>3. /\ k.op = vcall[c].op /\ k.table = vcall[c].table /\ k.id = vcall[c].id
        /\ k.at = at /\ k.row = row
    BY <1>4 DEF KVCall
  <2>4. k \in CallType
    <3>1. /\ vcall[c].op \in {"create", "update", "touch", "delete"} /\ at \in Places
          /\ vcall[c].id \in 0..MaxRow
      BY <1>2, <1>4 DEF Places, CallType
    <3> QED BY <1>2, <1>4, <2>2, <3>1 DEF KVCall, CallType
  <2>5. CallFits(k)
    BY <1>2, <1>4, <2>2, <2>3, <2>4 DEF CallFits
  <2>6. CallHolds(k)
    BY <1>2, <1>4, <2>1, <2>2, <2>3 DEF CallHolds
  <2>7. CallUnique(k)
    BY <1>2, <1>4, <2>3 DEF CallUnique
  <2>8. Becomes(c, k)
    BY <1>2, <1>4, <2>5 DEF Becomes
  <2> QED BY <1>1, <2>6, <2>7, <2>8, VaultQuiet
<1> QED BY <1>3, <1>4 DEF GetRow

\* A write of a record, and of an index entry.
LEMMA RowWritten ==
  ASSUME VaultInv, NEW c \in Callers, NEW t \in Tables, NEW i \in Rows,
         NEW r \in RowType \cup {Absent, Deleted}, rows' = [rows EXCEPT ![t][i] = r]
  PROVE  /\ rows' \in [Tables -> [Rows -> RowType \cup {Absent, Deleted}]]
         /\ rows'[t][i] = r
         /\ \A u \in Tables, j \in Rows : <<u, j>> # <<t, i>> =>
              rows'[u][j] = rows[u][j] /\ (Stored(u, j)' <=> Stored(u, j))
         /\ Stored(t, i)' <=> r \in RowType
<1>1. rows \in [Tables -> [Rows -> RowType \cup {Absent, Deleted}]]
  BY VaultFields
<1>2. /\ rows' \in [Tables -> [Rows -> RowType \cup {Absent, Deleted}]]
      /\ rows'[t][i] = r
      /\ \A u \in Tables, j \in Rows : u # t \/ j # i => rows'[u][j] = rows[u][j]
  BY <1>1
<1> QED BY <1>2, VaultFields DEF Stored

\* The entry alone changes.
LEMMA IndexWritten ==
  ASSUME VaultInv, NEW c \in Callers, NEW t \in Tables, NEW n \in Names, NEW i \in 0..MaxRow,
         index' = [index EXCEPT ![t][n] = i]
  PROVE  /\ index' \in [Tables -> [Names -> 0..MaxRow]] /\ index'[t][n] = i
         /\ \A u \in Tables, m \in Names : u # t \/ m # n => index'[u][m] = index[u][m]
<1>1. index \in [Tables -> [Names -> 0..MaxRow]]
  BY VaultFields
<1> QED BY <1>1

\* The next ID is taken.
LEMMA NextIDKeeps ==
  ASSUME OneInstanceOnly, VaultInv, NEW c \in Callers, NextID(c)
  PROVE  VaultInv'
<1>1. /\ vcall[c] # NoCall /\ vcall[c].at = "sequence"
      /\ UNCHANGED <<rows, index, vload>>
  BY DEF NextID, At
<1>2. /\ CallFits(vcall[c]) /\ vcall[c] \in CallType
      /\ vcall[c].op = "create" /\ vcall[c].row \in RowType
      /\ \A d \in Callers : vcall[d] # NoCall => d = c
      /\ ~vload.faults => CallUnique(vcall[c])
  BY <1>1, VaultFields DEF CallFits
<1>3. PICK t \in Tables, x \in Instances : t = vcall[c].table /\ x = Home[c]
  BY <1>1, VaultFields
<1>4. PICK id \in Rows : id = idSeq[x][t] + 1
  BY <1>3 DEF NextID
<1>5. /\ idSeq' = [idSeq EXCEPT ![x][t] = id]
      /\ counter' \in {counter, [counter EXCEPT ![t] = id]}
  BY <1>3, <1>4 DEF NextID
<1>6. /\ idSeq' \in [Instances -> [Tables -> 0..MaxRow]] /\ idSeq'[x][t] = id
      /\ \A u \in Tables : u # t => idSeq'[x][u] = idSeq[x][u]
      /\ counter' \in [Tables -> 0..MaxRow]
      /\ \A u \in Tables : u # t => counter'[u] = counter[u]
      /\ counter[t] < id /\ counter'[t] \in {counter[t], id}
  <2>1. counter \in [Tables -> 0..MaxRow] /\ idSeq \in [Instances -> [Tables -> 0..MaxRow]]
    BY VaultFields
  <2>2. counter[t] <= idSeq[x][t] /\ id \in 0..MaxRow
    BY <1>3, VaultFields DEF VaultInv, VaultCounters
  <2>3. counter[t] < id
    BY <1>4, <2>1, <2>2, VaultFields
  <2> QED BY <1>5, <2>1, <2>2, <2>3
<1>7. VaultCounters'
  <2>1. ASSUME NEW u \in Tables, NEW i \in Rows, rows'[u][i] # Absent PROVE i <= counter'[u]
    <3>1. i <= counter[u] /\ counter[u] \in Nat
      BY <1>1, <2>1, VaultFields DEF VaultInv, VaultCounters
    <3> QED BY <1>6, <3>1, VaultFields
  <2>2. ASSUME NEW d \in Callers, NEW u \in Tables PROVE counter'[u] <= idSeq'[Home[d]][u]
    <3>1. Home[d] = x
      BY <1>3 DEF OneInstanceOnly
    <3>2. counter[u] <= idSeq[x][u]
      BY <3>1 DEF VaultInv, VaultCounters
    <3> QED BY <1>6, <3>1, <3>2, VaultFields
  <2> QED BY <2>1, <2>2 DEF VaultCounters
<1>8. IndexLeadsHome'
  BY <1>1 DEF VaultInv, IndexLeadsHome, Stored
<1>9. ~vload.faults => VaultComplete'
  <2> SUFFICES ASSUME ~vload.faults PROVE VaultComplete'
    OBVIOUS
  <2>1. VaultComplete /\ \A u \in Tables, i \in Rows : ~Pending(u, i)
    BY <1>1, <1>2 DEF VaultInv, Pending
  <2> QED BY <1>1, <2>1 DEF VaultComplete, Stored
<1>10. CASE vcall' = [vcall EXCEPT ![c] = NoCall]
  <2>1. Becomes(c, NoCall)
    BY <1>2, <1>10 DEF Becomes
  <2> QED BY <1>1, <1>6, <1>7, <1>8, <1>9, <2>1, VaultFields, VaultFrame
<1>11. ASSUME NEW k, k = KVCall(vcall[c].op, t, id, "put", vcall[c].row),
              vcall' = [vcall EXCEPT ![c] = k], counter'[t] = id
       PROVE  VaultInv'
  <2>1. /\ k.op = "create" /\ k.table = t /\ k.id = id /\ k.at = "put" /\ k.row = vcall[c].row
        /\ k \in CallType
    BY <1>2, <1>11, VaultFields DEF KVCall, CallType, Places
  <2>2. CallFits(k)
    BY <1>1, <1>2, <1>3, <2>1 DEF CallFits
  <2>3. CallHolds(k)'
    <3>1. rows[t][id] = Absent
      <4>1. rows[t][id] # Absent => id <= counter[t]
        BY DEF VaultInv, VaultCounters
      <4> QED BY <1>6, <4>1, VaultFields
    <3>2. rows'[t][id] = Absent /\ id <= counter'[t]
      BY <1>1, <1>11, <3>1, VaultFields
    <3> QED BY <2>1, <3>2 DEF CallHolds
  <2>4. ~vload.faults => CallUnique(k)'
    BY <1>1, <1>2, <1>3, <2>1 DEF CallUnique, Stored
  <2>5. Becomes(c, k)
    BY <1>2, <1>11, <2>2 DEF Becomes
  <2> QED BY <1>1, <1>6, <1>7, <1>8, <1>9, <2>3, <2>4, <2>5, VaultFields, VaultFrame
<1>12. \/ vcall' = [vcall EXCEPT ![c] = NoCall]
       \/ /\ vcall' = [vcall EXCEPT ![c] = KVCall(vcall[c].op, t, id, "put", vcall[c].row)]
          /\ counter' = [counter EXCEPT ![t] = id]
  BY <1>3, <1>4 DEF NextID, Went
<1>13. counter' = [counter EXCEPT ![t] = id] => counter'[t] = id
  BY VaultFields
<1> QED BY <1>10, <1>11, <1>12, <1>13

\* The record is written.
LEMMA PutKeeps ==
  ASSUME VaultInv, NEW c \in Callers, Put(c)
  PROVE  VaultInv'
<1>1. /\ vcall[c] # NoCall /\ vcall[c].at = "put"
      /\ UNCHANGED <<index, counter, idSeq, vload>>
  BY DEF Put, At
<1>2. /\ CallFits(vcall[c]) /\ CallHolds(vcall[c]) /\ vcall[c] \in CallType
      /\ vcall[c].row \in RowType
      /\ \A d \in Callers : vcall[d] # NoCall => d = c
      /\ ~vload.faults => CallUnique(vcall[c])
  BY <1>1, VaultFields DEF CallFits
<1>3. PICK t \in Tables, id \in Rows, row \in RowType :
         t = vcall[c].table /\ id = vcall[c].id /\ row = vcall[c].row
  BY <1>1, <1>2, VaultFields DEF CallFits
<1>4. \A u \in Tables, i \in Rows : ~Pending(u, i)
  BY <1>1, <1>2 DEF Pending
<1>5. CASE rows' = rows /\ Return(c)
  BY <1>1, <1>5, GoesOn, VaultQuiet
<1>6. CASE rows' = [rows EXCEPT ![t][id] = row]
  <2>1. /\ rows' \in [Tables -> [Rows -> RowType \cup {Absent, Deleted}]]
        /\ rows'[t][id] = row
        /\ \A u \in Tables, j \in Rows : <<u, j>> # <<t, id>> =>
             rows'[u][j] = rows[u][j] /\ (Stored(u, j)' <=> Stored(u, j))
        /\ Stored(t, id)'
    BY <1>6, RowWritten
  <2>2. \/ vcall[c].op = "create" /\ rows[t][id] = Absent /\ id <= counter[t] /\ ~Stored(t, id)
        \/ vcall[c].op # "create" /\ Stored(t, id) /\ rows[t][id].name = row.name
    BY <1>1, <1>2, <1>3 DEF CallHolds, Stored
  <2>3. VaultCounters'
    <3>1. id <= counter[t]
      BY <2>2 DEF VaultInv, VaultCounters, Stored
    <3> QED BY <1>1, <2>1, <3>1 DEF VaultInv, VaultCounters
  <2>4. IndexLeadsHome'
    <3> SUFFICES ASSUME NEW u \in Tables, NEW n \in Names, index[u][n] # 0
                 PROVE  Stored(u, index[u][n])' /\ rows'[u][index[u][n]].name = n
      BY <1>1 DEF IndexLeadsHome, Stored
    <3>1. Stored(u, index[u][n]) /\ rows[u][index[u][n]].name = n /\ index[u][n] \in Rows
      BY DEF VaultInv, IndexLeadsHome, Stored
    <3>2. CASE u = t /\ index[u][n] = id
      <4>1. rows[t][id].name = row.name
        BY <2>2, <3>1, <3>2
      <4>2. Stored(u, index[u][n])'
        BY <1>1, <2>1, <3>2 DEF Stored
      <4> QED BY <2>1, <3>1, <3>2, <4>1, <4>2
    <3>3. CASE ~(u = t /\ index[u][n] = id)
      <4>1. PICK j \in Rows : j = index[u][n]
        BY <3>1
      <4>2. rows'[u][j] = rows[u][j]
        BY <2>1, <3>3, <4>1
      <4> QED BY <1>1, <3>1, <4>1, <4>2 DEF Stored
    <3> QED BY <3>2, <3>3
  <2>5. CASE Return(c) /\ (vload.faults \/ vcall[c].op # "create")
    <3>1. ~vload.faults => VaultComplete'
      <4> SUFFICES ASSUME ~vload.faults PROVE VaultComplete'
        OBVIOUS
      <4>1. VaultComplete
        BY DEF VaultInv
      <4>2. ASSUME NEW u \in Tables, NEW j \in Rows
            PROVE  /\ Stored(u, j)' <=> Stored(u, j)
                   /\ Stored(u, j) => rows'[u][j].name = rows[u][j].name
        BY <2>1, <2>2, <2>5
      <4>3. \A u \in Tables, i \in Rows : Stored(u, i) => index[u][rows[u][i].name] = i
        BY <1>4, <4>1 DEF VaultComplete
      <4> QED BY <1>1, <4>1, <4>2, <4>3 DEF VaultComplete
    <3>2. Becomes(c, NoCall)
      BY <1>1, <2>5, GoesOn
    <3> QED BY <1>1, <2>1, <2>3, <2>4, <3>1, <3>2, VaultFields, VaultFrame
  <2>6. CASE Goto(c, "index") /\ vcall[c].op = "create"
    <3>1. PICK k \in CallType :
            /\ vcall' = [vcall EXCEPT ![c] = k] /\ k.at = "index"
            /\ k.op = vcall[c].op /\ k.table = t /\ k.id = id /\ k.row = row
      BY <1>1, <1>3, <2>6, GoesOn DEF Places
    <3>2. CallFits(k)
      BY <1>1, <1>2, <1>3, <2>6, <3>1 DEF CallFits
    <3>3. Becomes(c, k)
      BY <1>2, <3>1, <3>2 DEF Becomes
    <3>4. CallHolds(k)'
      BY <2>1, <3>1 DEF CallHolds
    <3>5. ~vload.faults => CallUnique(k)'
      <4> SUFFICES ASSUME ~vload.faults PROVE CallUnique(k)'
        OBVIOUS
      <4>1. \A j \in Rows : Stored(t, j) => rows[t][j].name # row.name
        BY <1>1, <1>2, <1>3, <2>6 DEF CallUnique
      <4>2. \A j \in Rows \ {id} : Stored(t, j)' => rows'[t][j].name # row.name
        BY <2>1, <4>1
      <4> QED BY <3>1, <4>2 DEF CallUnique
    <3>6. ~vload.faults => VaultComplete'
      <4> SUFFICES ASSUME ~vload.faults PROVE VaultComplete'
        OBVIOUS
      <4>1. VaultComplete
        BY DEF VaultInv
      <4>2. Pending(t, id)' /\ vcall'[c] = k
        <5>1. vcall'[c] = k /\ k # NoCall
          <6>1. vcall'[c] = k
            BY <3>3, CallMoves
          <6>2. k # NoCall
            BY VaultAssumption
          <6> QED BY <6>1, <6>2
        <5> QED BY <3>1, <5>1 DEF Pending
      <4>3. \A u \in Tables, i \in Rows : Stored(u, i) => index[u][rows[u][i].name] = i
        BY <1>4, <4>1 DEF VaultComplete
      <4> SUFFICES ASSUME NEW u \in Tables, NEW i \in Rows, Stored(u, i)'
                   PROVE  index[u][rows'[u][i].name] = i \/ Pending(u, i)'
        BY <1>1 DEF VaultComplete
      <4>4. CASE u = t /\ i = id
        BY <4>2, <4>4
      <4>5. CASE ~(u = t /\ i = id)
        <5>1. Stored(u, i) /\ rows'[u][i] = rows[u][i]
          BY <2>1, <4>5
        <5> QED BY <4>3, <5>1
      <4> QED BY <4>4, <4>5
    <3> QED BY <1>1, <2>1, <2>3, <2>4, <3>3, <3>4, <3>5, <3>6, VaultFields, VaultFrame
  <2> QED BY <1>5, <1>6, <2>5, <2>6, VaultFields DEF Put, After, Outcomes, Went
<1> QED BY <1>3, <1>5, <1>6 DEF Put, After, Went

\* The index entry is written.
LEMMA PutIndexKeeps ==
  ASSUME VaultInv, NEW c \in Callers, PutIndex(c)
  PROVE  VaultInv'
<1>1. /\ vcall[c] # NoCall /\ vcall[c].at = "index" /\ Return(c)
      /\ UNCHANGED <<rows, counter, idSeq, vload>>
  BY DEF PutIndex, At
<1>2. /\ CallFits(vcall[c]) /\ CallHolds(vcall[c])
      /\ \A d \in Callers : vcall[d] # NoCall => d = c
      /\ ~vload.faults => CallUnique(vcall[c])
      /\ Becomes(c, NoCall)
  BY <1>1, VaultFields, GoesOn DEF CallFits
<1>3. PICK t \in Tables, id \in Rows, row \in RowType :
         t = vcall[c].table /\ id = vcall[c].id /\ row = vcall[c].row
  BY <1>1, <1>2, VaultFields DEF CallFits
<1>4. rows[t][id] = row /\ Stored(t, id) /\ row.name \in Names /\ id \in 0..MaxRow
  BY <1>1, <1>2, <1>3, VaultFields DEF CallHolds, RowType
<1>5. CASE index' = index /\ vload.faults
  BY <1>1, <1>2, <1>5, VaultQuiet
<1>6. CASE index' = [index EXCEPT ![t][row.name] = id]
  <2>1. /\ index' \in [Tables -> [Names -> 0..MaxRow]] /\ index'[t][row.name] = id
        /\ \A u \in Tables, m \in Names : u # t \/ m # row.name => index'[u][m] = index[u][m]
    <3>1. PICK n \in Names : n = row.name
      BY <1>4
    <3>2. PICK z \in 0..MaxRow : z = id
      BY <1>4
    <3>3. index' = [index EXCEPT ![t][n] = z]
      BY <1>6, <3>1, <3>2
    <3>4. /\ index' \in [Tables -> [Names -> 0..MaxRow]] /\ index'[t][n] = z
          /\ \A u \in Tables, m \in Names : u # t \/ m # n => index'[u][m] = index[u][m]
      BY <3>3, IndexWritten
    <3> QED BY <3>1, <3>2, <3>4
  <2>2. VaultCounters'
    BY <1>1 DEF VaultInv, VaultCounters
  <2>3. IndexLeadsHome'
    <3> SUFFICES ASSUME NEW u \in Tables, NEW n \in Names, index'[u][n] # 0
                 PROVE  Stored(u, index'[u][n]) /\ rows[u][index'[u][n]].name = n
      BY <1>1 DEF IndexLeadsHome, Stored
    <3>1. CASE u = t /\ n = row.name
      BY <1>4, <2>1, <3>1
    <3>2. CASE ~(u = t /\ n = row.name)
      BY <2>1, <3>2 DEF VaultInv, IndexLeadsHome
    <3> QED BY <3>1, <3>2
  <2>4. ~vload.faults => VaultComplete'
    <3> SUFFICES ASSUME ~vload.faults, NEW u \in Tables, NEW i \in Rows, Stored(u, i)
                 PROVE  index'[u][rows[u][i].name] = i
      BY <1>1 DEF VaultComplete, Stored
    <3>1. VaultComplete
      BY DEF VaultInv
    <3>2. index'[u][rows[u][i].name] = i
      <4>1. CASE u = t /\ i = id
        BY <1>4, <2>1, <4>1
      <4>2. CASE ~(u = t /\ i = id)
        <5>1. ~Pending(u, i)
          BY <1>2, <1>3, <4>2 DEF Pending
        <5>2. index[u][rows[u][i].name] = i /\ rows[u][i].name \in Names
          BY <3>1, <5>1, VaultFields DEF VaultComplete, RowType
        <5>3. u # t \/ rows[u][i].name # row.name
          BY <1>1, <1>2, <1>3, <4>2 DEF CallUnique
        <5> QED BY <2>1, <5>2, <5>3
      <4> QED BY <4>1, <4>2
    <3> QED BY <3>1, <3>2 DEF VaultComplete
  <2> QED BY <1>1, <1>2, <2>1, <2>2, <2>3, <2>4, VaultFields, VaultFrame
<1> QED BY <1>3, <1>5, <1>6, VaultFields DEF PutIndex, Outcomes, Went

\* The index entry is deleted, before the record.
LEMMA RemoveIndexKeeps ==
  ASSUME VaultInv, NEW c \in Callers, RemoveIndex(c)
  PROVE  VaultInv'
<1>1. /\ vcall[c] # NoCall /\ vcall[c].at = "unindex"
      /\ UNCHANGED <<rows, counter, idSeq, vload>>
  BY DEF RemoveIndex, At
<1>2. /\ CallFits(vcall[c]) /\ CallHolds(vcall[c])
      /\ \A d \in Callers : vcall[d] # NoCall => d = c
  BY <1>1, VaultFields
<1>3. PICK t \in Tables, id \in Rows, row \in RowType :
         t = vcall[c].table /\ id = vcall[c].id /\ row = vcall[c].row
  BY <1>1, <1>2, VaultFields DEF CallFits
<1>4. rows[t][id] = row /\ Stored(t, id) /\ row.name \in Names /\ 0 \in 0..MaxRow /\ id # 0
  BY <1>1, <1>2, <1>3, VaultFields DEF CallHolds, RowType
<1>5. CASE index' = index /\ Return(c)
  BY <1>1, <1>5, GoesOn, VaultQuiet
<1>6. CASE index' = [index EXCEPT ![t][row.name] = 0]
  <2>1. /\ index' \in [Tables -> [Names -> 0..MaxRow]] /\ index'[t][row.name] = 0
        /\ \A u \in Tables, m \in Names : u # t \/ m # row.name => index'[u][m] = index[u][m]
    <3>1. PICK n \in Names : n = row.name
      BY <1>4
    <3>2. PICK z \in 0..MaxRow : z = 0
      BY <1>4
    <3>3. index' = [index EXCEPT ![t][n] = z]
      BY <1>6, <3>1, <3>2
    <3>4. /\ index' \in [Tables -> [Names -> 0..MaxRow]] /\ index'[t][n] = z
          /\ \A u \in Tables, m \in Names : u # t \/ m # n => index'[u][m] = index[u][m]
      BY <3>3, IndexWritten
    <3> QED BY <3>1, <3>2, <3>4
  <2>2. VaultCounters'
    BY <1>1 DEF VaultInv, VaultCounters
  <2>3. IndexLeadsHome'
    <3> SUFFICES ASSUME NEW u \in Tables, NEW n \in Names, index'[u][n] # 0
                 PROVE  Stored(u, index'[u][n]) /\ rows[u][index'[u][n]].name = n
      BY <1>1 DEF IndexLeadsHome, Stored
    <3> QED BY <2>1 DEF VaultInv, IndexLeadsHome
  <2>4. CASE Return(c) /\ vload.faults
    <3>1. Becomes(c, NoCall)
      BY <1>1, <2>4, GoesOn
    <3> QED BY <1>1, <2>1, <2>2, <2>3, <2>4, <3>1, VaultFields, VaultFrame
  <2>5. CASE Goto(c, "remove")
    <3>1. PICK k \in CallType :
            /\ vcall' = [vcall EXCEPT ![c] = k] /\ k.at = "remove"
            /\ k.op = vcall[c].op /\ k.table = t /\ k.id = id /\ k.row = row
      BY <1>1, <1>3, <2>5, GoesOn DEF Places
    <3>2. CallFits(k)
      BY <1>1, <1>2, <1>3, <3>1 DEF CallFits
    <3>3. Becomes(c, k) /\ k # NoCall
      BY <1>2, <3>1, <3>2, VaultAssumption DEF Becomes
    <3>4. CallHolds(k)' /\ CallUnique(k)'
      BY <1>1, <1>4, <2>1, <3>1 DEF CallHolds, CallUnique
    <3>5. ~vload.faults => VaultComplete'
      <4>1. Pending(t, id)'
        BY <3>1, <3>3, CallMoves DEF Pending
      <4> SUFFICES ASSUME ~vload.faults, NEW u \in Tables, NEW i \in Rows, Stored(u, i)
                   PROVE  index'[u][rows[u][i].name] = i \/ Pending(u, i)'
        BY <1>1 DEF VaultComplete, Stored
      <4>2. VaultComplete
        BY DEF VaultInv
      <4>3. \A v \in Tables, j \in Rows : Stored(v, j) => index[v][rows[v][j].name] = j
        BY <1>1, <1>2, <4>2 DEF VaultComplete, Pending
      <4>4. CASE u = t /\ i = id
        BY <4>1, <4>2, <4>4 DEF VaultComplete
      <4>5. CASE ~(u = t /\ i = id)
        <5>1. u # t \/ rows[u][i].name # row.name
          BY <1>4, <4>3, <4>5
        <5>2. rows[u][i].name \in Names
          BY VaultFields DEF RowType
        <5>3. index'[u][rows[u][i].name] = i
          BY <2>1, <4>3, <5>1, <5>2
        <5> QED BY <4>2, <5>3 DEF VaultComplete
      <4> QED BY <4>4, <4>5
    <3> QED BY <1>1, <2>1, <2>2, <2>3, <3>3, <3>4, <3>5, VaultFields, VaultFrame
  <2> QED BY <1>5, <1>6, <2>4, <2>5, VaultFields DEF RemoveIndex, After, Outcomes, Went
<1> QED BY <1>3, <1>5, <1>6 DEF RemoveIndex, After, Went

\* The record is deleted.
LEMMA RemoveRowKeeps ==
  ASSUME VaultInv, NEW c \in Callers, RemoveRow(c)
  PROVE  VaultInv'
<1>1. /\ vcall[c] # NoCall /\ vcall[c].at = "remove" /\ Return(c)
      /\ UNCHANGED <<index, counter, idSeq, vload>>
  BY DEF RemoveRow, At
<1>2. /\ CallFits(vcall[c]) /\ CallHolds(vcall[c]) /\ Becomes(c, NoCall)
      /\ \A d \in Callers : vcall[d] # NoCall => d = c
  BY <1>1, VaultFields, GoesOn
<1>3. PICK t \in Tables, id \in Rows, row \in RowType :
         t = vcall[c].table /\ id = vcall[c].id /\ row = vcall[c].row
  BY <1>1, <1>2, VaultFields DEF CallFits
<1>4. rows[t][id] = row /\ Stored(t, id) /\ index[t][row.name] # id
  BY <1>1, <1>2, <1>3, VaultFields DEF CallHolds
<1>5. CASE rows' = rows /\ vload.faults
  BY <1>1, <1>2, <1>5, VaultQuiet
<1>6. CASE rows' = [rows EXCEPT ![t][id] = Deleted]
  <2>1. /\ rows' \in [Tables -> [Rows -> RowType \cup {Absent, Deleted}]]
        /\ rows'[t][id] = Deleted
        /\ \A u \in Tables, j \in Rows : <<u, j>> # <<t, id>> =>
             rows'[u][j] = rows[u][j] /\ (Stored(u, j)' <=> Stored(u, j))
        /\ ~Stored(t, id)'
    <3>1. PICK r \in RowType \cup {Absent, Deleted} : r = Deleted
      OBVIOUS
    <3>2. rows' = [rows EXCEPT ![t][id] = r]
      BY <1>6, <3>1
    <3>3. /\ rows' \in [Tables -> [Rows -> RowType \cup {Absent, Deleted}]]
          /\ rows'[t][id] = r
          /\ \A u \in Tables, j \in Rows : <<u, j>> # <<t, id>> =>
               rows'[u][j] = rows[u][j] /\ (Stored(u, j)' <=> Stored(u, j))
      BY <3>2, RowWritten
    <3> QED BY <3>1, <3>3 DEF Stored
  <2>2. VaultCounters'
    <3>1. id <= counter[t]
      BY <1>4 DEF VaultInv, VaultCounters, Stored
    <3> QED BY <1>1, <2>1, <3>1 DEF VaultInv, VaultCounters
  <2>3. IndexLeadsHome'
    <3> SUFFICES ASSUME NEW u \in Tables, NEW n \in Names, index[u][n] # 0
                 PROVE  Stored(u, index[u][n])' /\ rows'[u][index[u][n]].name = n
      BY <1>1 DEF IndexLeadsHome, Stored
    <3>1. Stored(u, index[u][n]) /\ rows[u][index[u][n]].name = n
      BY DEF VaultInv, IndexLeadsHome
    <3>2. PICK j \in Rows : j = index[u][n]
      BY <3>1 DEF Stored
    <3>3. ~(u = t /\ j = id)
      BY <1>4, <3>1, <3>2
    <3>4. rows'[u][j] = rows[u][j]
      BY <2>1, <3>3
    <3> QED BY <1>1, <3>1, <3>2, <3>4 DEF Stored
  <2>4. ~vload.faults => VaultComplete'
    <3> SUFFICES ASSUME ~vload.faults PROVE VaultComplete'
      OBVIOUS
    <3>1. VaultComplete
      BY DEF VaultInv
    <3>2. ASSUME NEW u \in Tables, NEW j \in Rows, Stored(u, j)'
          PROVE  Stored(u, j) /\ rows'[u][j] = rows[u][j] /\ index[u][rows[u][j].name] = j
      <4>1. ~(u = t /\ j = id)
        BY <2>1, <3>2
      <4>2. Stored(u, j) /\ rows'[u][j] = rows[u][j]
        BY <2>1, <3>2, <4>1
      <4>3. ~Pending(u, j)
        BY <1>2, <1>3, <4>1 DEF Pending
      <4> QED BY <3>1, <4>2, <4>3 DEF VaultComplete
    <3> QED BY <1>1, <3>1, <3>2 DEF VaultComplete
  <2> QED BY <1>1, <1>2, <2>1, <2>2, <2>3, <2>4, VaultFields, VaultFrame
<1> QED BY <1>3, <1>5, <1>6, VaultFields DEF RemoveRow, Outcomes, Went

\* The instance dies and is started again.
LEMMA RestartKeeps ==
  ASSUME OneInstanceOnly, VaultInv, NEW x \in Instances, Restart(x)
  PROVE  VaultInv'
<1>1. /\ vload.faults /\ UNCHANGED <<rows, index, counter, vload>>
      /\ idSeq' = [idSeq EXCEPT ![x] = counter]
      /\ vcall' = [c \in Callers |-> IF Home[c] = x THEN NoCall ELSE vcall[c]]
  BY DEF Restart
<1>2. VaultShape /\ IndexLeadsHome /\ VaultCounters
  BY DEF VaultInv
<1>3. \A c \in Callers : vcall'[c] \in {vcall[c], NoCall}
  BY <1>1
<1>4. /\ idSeq' \in [Instances -> [Tables -> 0..MaxRow]]
      /\ idSeq'[x] = counter /\ \A y \in Instances : y # x => idSeq'[y] = idSeq[y]
  BY <1>1, <1>2 DEF VaultShape
<1>5. VaultShape'
  BY <1>1, <1>2, <1>4 DEF VaultShape
<1>6. VaultCounters'
  <2>1. \A c \in Callers : Home[c] \in Instances
    BY VaultAssumption
  <2>2. \A t \in Tables : counter[t] \in Nat
    BY <1>2, VaultAssumption DEF VaultShape
  <2>3. ASSUME NEW c \in Callers, NEW t \in Tables PROVE counter[t] <= idSeq'[Home[c]][t]
    <3>1. CASE Home[c] = x
      BY <1>4, <2>2, <3>1
    <3>2. CASE Home[c] # x
      BY <1>2, <1>4, <2>1, <3>2 DEF VaultCounters
    <3> QED BY <3>1, <3>2
  <2> QED BY <1>1, <1>2, <2>3 DEF VaultCounters
<1>7. IndexLeadsHome'
  BY <1>1, <1>2 DEF IndexLeadsHome, Stored
<1>8. ASSUME NEW c \in Callers, vcall'[c] # NoCall
      PROVE  (CallFits(vcall[c]) /\ CallHolds(vcall[c]))'
  <2>1. vcall'[c] = vcall[c] /\ CallFits(vcall[c]) /\ CallHolds(vcall[c])
    BY <1>3, <1>8 DEF VaultInv
  <2> QED BY <1>1, <2>1 DEF CallFits, CallHolds, Stored
<1>9. \A c, d \in Callers : vcall'[c] # NoCall /\ vcall'[d] # NoCall => c = d
  BY <1>3 DEF VaultInv
<1>10. vload'.faults
  BY <1>1
<1> QED BY <1>5, <1>6, <1>7, <1>8, <1>9, <1>10 DEF VaultInv

\* Every step of the store keeps the invariant.
LEMMA VaultStepKeeps ==
  ASSUME OneInstanceOnly, VaultInv, [VaultNext]_vaultVars
  PROVE  VaultInv'
<1>1. CASE UNCHANGED vaultVars
  <2>1. /\ rows' = rows /\ index' = index /\ counter' = counter /\ idSeq' = idSeq
        /\ vcall' = vcall /\ vload' = vload
    BY <1>1 DEF vaultVars
  <2>2. VaultShape' /\ VaultCounters' /\ IndexLeadsHome'
    BY <2>1 DEF VaultInv, VaultShape, VaultCounters, IndexLeadsHome, Stored
  <2>3. VaultComplete => VaultComplete'
    BY <2>1 DEF VaultComplete, Stored, Pending
  <2>4. \A c \in Callers : vcall[c] # NoCall =>
          (CallFits(vcall[c]) /\ CallHolds(vcall[c]))' /\ (CallUnique(vcall[c]) => CallUnique(vcall[c])')
    BY <2>1 DEF VaultInv, CallFits, CallHolds, CallUnique, Stored
  <2> QED BY <2>1, <2>2, <2>3, <2>4 DEF VaultInv
<1>2. ASSUME NEW c \in Callers, VaultStep(c) PROVE VaultInv'
  BY <1>2, BeginKeeps, LookupKeeps, ListKeeps, NextIDKeeps, PutKeeps, PutIndexKeeps,
     GetKeeps, RemoveIndexKeeps, RemoveRowKeeps DEF VaultStep
<1> QED BY <1>1, <1>2, RestartKeeps DEF VaultNext

\* The invariant gives the property.
LEMMA VaultIsConsistent == VaultInv => VaultConsistent
<1> SUFFICES ASSUME VaultInv PROVE VaultConsistent
  OBVIOUS
<1>1. VaultTypeOK
  <2>1. \A t \in Tables : counter[t] \in 0..MaxRow /\ \A n \in Names : index[t][n] \in 0..MaxRow
    BY DEF VaultInv, VaultShape
  <2>2. \A c \in Callers : vcall[c] # NoCall => vcall[c].id \in 0..MaxRow /\ vcall[c].table \in Tables
    BY DEF VaultInv, CallFits, CallType
  <2> QED BY <2>1, <2>2 DEF VaultTypeOK
<1>2. IDsFresh
  BY DEF VaultInv, IDsFresh, At, CallHolds
<1>3. TouchIsCurrent
  BY DEF VaultInv, TouchIsCurrent, At, CallHolds, CallFits
<1>4. IndexComplete
  <2> SUFFICES ASSUME ~vload.faults PROVE IndexComplete
    BY DEF IndexComplete
  <2>1. ASSUME NEW c \in Callers, At(c, "put"), vcall[c].op = "create",
               NEW j \in Rows, Stored(vcall[c].table, j)
        PROVE  LET row == rows[vcall[c].table][j] IN
               row.name # vcall[c].row.name /\ (row.email # vcall[c].row.email \/ row.email = NoEmail)
    <3>1. vcall[c] # NoCall /\ vcall[c].at = "put" /\ CallUnique(vcall[c])
      BY <2>1, VaultFields DEF At
    <3> QED BY <2>1, <3>1 DEF CallUnique
  <2>2. ASSUME \A c \in Callers : vcall[c] = NoCall,
               NEW t \in Tables, NEW i \in Rows, Stored(t, i)
        PROVE  index[t][rows[t][i].name] = i
    <3>1. ~Pending(t, i)
      BY <2>2 DEF Pending
    <3> QED BY <2>2, <3>1 DEF VaultInv, VaultComplete
  <2> QED BY <2>1, <2>2 DEF IndexComplete
<1> QED BY <1>1, <1>2, <1>3, <1>4 DEF VaultInv, VaultConsistent

-----------------------------------------------------------------------------
(* The services side by side.                                              *)

\* Each service keeps its invariant, and a step of another one leaves it alone.
LEMMA ServicesStep ==
  ASSUME [Next]_vars
  PROVE  [AuditNext]_auditVars /\ [RateNext]_rateVars /\ [MCPNext]_mcpVars /\ [VaultNext]_vaultVars
  BY DEF Next, vars

\* The audit pipeline keeps its buffers' bounds and loses no event silently before
\* its shutdown, and a Close that is on time has handed on everything that was
\* logged before it: for every size of the buffers and the batches, and every
\* interleaving of Log, the loops, Close and its timeouts.
THEOREM AuditPipelineSound == Spec => []AuditSound
<1>1. Init => PipelineInv
  BY PipelineInit DEF Init
<1>2. PipelineInv /\ [Next]_vars => PipelineInv'
  BY ServicesStep, PipelineStep
<1>3. PipelineInv => AuditSound
  BY AuditIsSound
<1> QED BY <1>1, <1>2, <1>3, PTL DEF Spec

\* The file gets the events in order, and the endpoint the batches, each again
\* only in a row and at most MaxRetries times, whatever the endpoint answers.
THEOREM AuditDeliveredInOrder == Spec => InOrder
<1>1. Init => AuditInv
  BY AuditInitInv DEF Init
<1>2. AuditInv /\ [Next]_vars => AuditInv'
  BY ServicesStep, AuditStep
<1>3. AuditInv /\ [Next]_vars =>
        [/\ file' >= file
         /\ received' # received =>
              \/ received.copies = 0 \/ Last(received.batch) < Head(received'.batch)
              \/ received.batch = received'.batch /\ received'.copies <= MaxRetries]_<<file, received>>
  BY ServicesStep, AuditInOrder
<1> QED BY <1>1, <1>2, <1>3, PTL DEF Spec, InOrder

\* The limiter grants exactly the burst and the rate, however many clients there
\* are and whenever the cleanup forgets their buckets.
THEOREM LimiterIsExact == Spec => []LimiterExact
<1>1. Init => RateInv
  BY RateInitInv DEF Init
<1>2. RateInv /\ [Next]_vars => RateInv'
  BY ServicesStep, RateStep
<1>3. RateInv => LimiterExact
  BY RateLimits
<1> QED BY <1>1, <1>2, <1>3, PTL DEF Spec

\* A confirmation token lets one call through, and only the one it was issued
\* for, for every number of sessions, tokens and calls.
THEOREM ConfirmationsHold == Spec => []ConfirmedOnce
<1>1. Init => MCPInv
  BY MCPInitInv DEF Init
<1>2. MCPInv /\ [Next]_vars => MCPInv'
  BY ServicesStep, MCPStep
<1>3. MCPInv => ConfirmedOnce
  BY MCPConfirms
<1> QED BY <1>1, <1>2, <1>3, PTL DEF Spec

\* Vault's records, indexes and counters agree, whatever KV call fails or is the
\* last before a restart, when one instance serves all callers.
THEOREM VaultStaysConsistent ==
  ASSUME OneInstanceOnly PROVE Spec => []VaultConsistent
<1>1. Init => VaultInv
  BY VaultInitInv DEF Init
<1>2. VaultInv /\ [Next]_vars => VaultInv'
  BY ServicesStep, VaultStepKeeps
<1>3. VaultInv => VaultConsistent
  BY VaultIsConsistent
<1> QED BY <1>1, <1>2, <1>3, PTL DEF Spec
=============================================================================
