------------------------- MODULE IDAllocatorProofs -------------------------
(***************************************************************************)
(* No schema ID is handed out twice, for any number of registry instances  *)
(* and requests, any block size, and any interleaving of reservations,     *)
(* sequence changes, failed queries and restarts.                          *)
(***************************************************************************)
EXTENDS IDAllocator, TLAPS

(* The inductive invariant.  That blocks are disjoint is not inductive by  *)
(* itself: a new block must lie above every old one (BelowNextID), and must *)
(* not replace a block that still has IDs (ReserveUnderLock).  SetAhead    *)
(* says that a SetNextID about to write saw a smaller value.               *)
SetAhead ==
  \A c \in Clients : alloc[c].step = "setCas" => alloc[c].seen < alloc[c].id

AllocInv ==
  /\ AllocTypeOK
  /\ ReserveUnderLock
  /\ SetAhead
  /\ BlocksDisjoint
  /\ BelowNextID

\* One call moves: type correctness, from the type of what is assigned.
LEMMA MoveType ==
  ASSUME AllocTypeOK, NEW c \in Clients,
         NEW s \in Steps, NEW n \in Nat, NEW a \in Nat, NEW id \in Nat,
         Move(c, s, n, a, id),
         nextId' \in Nat, given' \subseteq Nat,
         block' \in [Instances -> [current : Nat, ceiling : Nat]],
         mu' \in [Instances -> Clients \cup {NoClient}]
  PROVE  AllocTypeOK'
BY DEF AllocTypeOK, Move, Call

\* The initial state: no row, no block, no call.
LEMMA AllocInitInv == AllocInit => AllocInv
BY AllocatorAssumption DEF AllocInit, AllocInv, AllocTypeOK, ReserveUnderLock, BlocksDisjoint,
     SetAhead, BelowNextID, Call, NoCall, Steps, EmptyBlock, Left

\* A step that writes no block, gives out no ID, rewinds nothing and keeps the
\* lock discipline preserves the invariant.
LEMMA QuietInv ==
  ASSUME AllocInv, AllocTypeOK', ReserveUnderLock', SetAhead',
         UNCHANGED <<block, given>>, nextId' >= nextId
  PROVE  AllocInv'
BY DEF AllocInv, AllocTypeOK, BlocksDisjoint, BelowNextID, Left

\* Handing out the first ID of a block.
LEMMA TakeInv ==
  ASSUME AllocInv, NEW c \in Clients, TakeID(c)
  PROVE  AllocInv'
<1> DEFINE i == Home[c]
<1>0. i \in Instances
  BY AllocatorAssumption
<1>1. CASE ~Left(i)
  <2>0. /\ Move(c, "read", 0, 0, 0)
        /\ mu' = [mu EXCEPT ![i] = c]
        /\ mu[i] = NoClient
        /\ UNCHANGED <<nextId, block, given>>
    BY <1>1 DEF TakeID
  <2>1. AllocTypeOK'
    <3>1. "read" \in Steps
      BY DEF Steps
    <3>2. QED
      BY <1>0, <2>0, <3>1, MoveType DEF AllocInv, AllocTypeOK
  <2>2. ReserveUnderLock'
    BY <1>0, <1>1, <2>0, AllocatorAssumption DEF AllocInv, AllocTypeOK, ReserveUnderLock, Left, Move
  <2>3. SetAhead'
    BY <2>0 DEF AllocInv, AllocTypeOK, SetAhead, Move
  <2>4. QED
    BY <2>0, <2>1, <2>2, <2>3, QuietInv DEF AllocInv, AllocTypeOK
<1>2. CASE Left(i)
  <2>0. /\ Move(c, "got", 0, 0, block[i].current)
        /\ block' = [block EXCEPT ![i].current = block[i].current + 1]
        /\ given' = given \cup {block[i].current}
        /\ UNCHANGED <<nextId, mu>>
        /\ mu[i] = NoClient
    BY <1>2 DEF TakeID, Return
  <2>1. AllocTypeOK'
    <3>1. block[i].current \in Nat /\ "got" \in Steps
      BY <1>0 DEF AllocInv, AllocTypeOK, Steps
    <3>2. AllocTypeOK /\ nextId' \in Nat /\ given' \subseteq Nat /\ 0 \in Nat
          /\ block' \in [Instances -> [current : Nat, ceiling : Nat]]
          /\ mu' \in [Instances -> Clients \cup {NoClient}]
      BY <1>0, <2>0, <3>1 DEF AllocInv, AllocTypeOK
    <3> HIDE DEF i
    <3>3. QED
      BY <2>0, <3>1, <3>2, MoveType
  <2>2. ReserveUnderLock'
    BY <1>0, <2>0, AllocatorAssumption DEF AllocInv, AllocTypeOK, ReserveUnderLock, Left, Move
  <2>3. BlocksDisjoint'
    BY <1>0, <1>2, <2>0 DEF AllocInv, AllocTypeOK, BlocksDisjoint, Left
  <2>4. BelowNextID'
    BY <1>0, <1>2, <2>0 DEF AllocInv, AllocTypeOK, BelowNextID, Left
  <2>5. SetAhead'
    BY <2>0 DEF AllocInv, AllocTypeOK, SetAhead, Move
  <2>6. QED
    BY <2>1, <2>2, <2>3, <2>4, <2>5 DEF AllocInv
<1>3. QED
  BY <1>1, <1>2

\* A step of one call that hands out nothing: it either keeps the mutex as it
\* is and does not start a reservation, or ends one and releases the mutex.
LEMMA CallInv ==
  ASSUME AllocInv, NEW c \in Clients,
         NEW s \in Steps, NEW n \in Nat, NEW a \in Nat, NEW id \in Nat,
         Move(c, s, n, a, id),
         UNCHANGED <<block, given>>, nextId' \in Nat, nextId' >= nextId,
         s = "setCas" => n < id,
         \/ /\ UNCHANGED mu
            /\ s \in {"read", "cas"} => alloc[c].step \in {"read", "cas"}
         \/ /\ mu[Home[c]] = c /\ mu' = [mu EXCEPT ![Home[c]] = NoClient]
            /\ s \notin {"read", "cas"}
  PROVE  AllocInv'
<1>1. AllocTypeOK'
  <2>1. AllocTypeOK /\ given' \subseteq Nat
        /\ block' \in [Instances -> [current : Nat, ceiling : Nat]]
        /\ mu' \in [Instances -> Clients \cup {NoClient}]
    BY AllocatorAssumption DEF AllocInv, AllocTypeOK
  <2>2. QED
    BY <2>1, MoveType
<1>2. ReserveUnderLock'
  BY AllocatorAssumption DEF AllocInv, AllocTypeOK, ReserveUnderLock, Left, Move
<1>3. SetAhead'
  BY DEF AllocInv, AllocTypeOK, SetAhead, Move
<1>4. QED
  BY <1>1, <1>2, <1>3, QuietInv

\* Reserving a block: it lies above everything given out or held before.
LEMMA ReserveInv ==
  ASSUME AllocInv, NEW c \in Clients, ReserveCAS(c)
  PROVE  AllocInv'
<1> DEFINE i == Home[c]
           base == Base(alloc[c].seen)
<1>0. i \in Instances /\ base \in Nat \ {0} /\ mu[i] = c /\ ~Left(i)
  BY AllocatorAssumption DEF Base, AllocInv, AllocTypeOK, ReserveUnderLock, Call, ReserveCAS, At
<1>1. CASE nextId # alloc[c].seen
  <2>1. Retry(c, "read", Unlock(c))
    BY <1>1 DEF ReserveCAS
  <2>2. alloc[c].id \in Nat /\ alloc[c].attempt + 1 \in Nat /\ alloc[c].step = "cas"
        /\ "read" \in Steps /\ "failed" \in Steps /\ nextId \in Nat
    BY DEF AllocInv, AllocTypeOK, ReserveCAS, At, Call, Steps
  <2>3. CASE alloc[c].attempt + 1 < MaxRetries
    <3>1. /\ Move(c, "read", 0, alloc[c].attempt + 1, alloc[c].id)
          /\ UNCHANGED <<nextId, block, given, mu>>
      BY <2>1, <2>2, <2>3, AllocatorAssumption DEF Retry
    <3>2. nextId' \in Nat /\ nextId' >= nextId
      BY <2>2, <3>1
    <3> HIDE DEF i, base
    <3>3. QED
      BY <2>2, <3>1, <3>2, CallInv
  <2>4. CASE ~(alloc[c].attempt + 1 < MaxRetries)
    <3>1. /\ Move(c, "failed", 0, 0, 0) /\ UNCHANGED <<nextId, block, given>>
          /\ mu' = [mu EXCEPT ![Home[c]] = NoClient]
      BY <2>1, <2>4 DEF Retry, Return, Unlock
    <3>2. nextId' \in Nat /\ nextId' >= nextId /\ mu[Home[c]] = c
      BY <1>0, <2>2, <3>1
    <3> HIDE DEF i, base
    <3>3. QED
      BY <2>2, <3>1, <3>2, CallInv
  <2>5. QED
    BY <2>3, <2>4
<1>2. CASE nextId = alloc[c].seen
  <2>0. /\ Move(c, "got", 0, 0, base)
        /\ block' = [block EXCEPT ![i] = [current |-> base + 1, ceiling |-> base + BlockSize]]
        /\ given' = given \cup {base}
        /\ nextId' = base + BlockSize
        /\ mu' = [mu EXCEPT ![i] = NoClient]
        /\ nextId <= base
    BY <1>2 DEF ReserveCAS, Return, Unlock, Beyond, Base, AllocInv, AllocTypeOK
  <2> HIDE DEF base, i
  <2>1. AllocTypeOK'
    <3>1. "got" \in Steps
      BY DEF Steps
    <3>2. AllocTypeOK /\ nextId' \in Nat /\ given' \subseteq Nat
          /\ block' \in [Instances -> [current : Nat, ceiling : Nat]]
          /\ mu' \in [Instances -> Clients \cup {NoClient}]
      BY <1>0, <2>0, AllocatorAssumption DEF AllocInv, AllocTypeOK
    <3>3. QED
      BY <1>0, <2>0, <3>1, <3>2, MoveType
  <2>2. ReserveUnderLock'
    <3> SUFFICES ASSUME NEW d \in Clients, alloc'[d].step \in {"read", "cas"}
                 PROVE  mu'[Home[d]] = d /\ ~Left(Home[d])'
      BY DEF ReserveUnderLock
    <3>1. d # c /\ alloc[d].step \in {"read", "cas"}
      BY <2>0 DEF AllocInv, AllocTypeOK, Move
    <3>2. mu[Home[d]] = d /\ ~Left(Home[d])
      BY <3>1 DEF AllocInv, ReserveUnderLock
    <3>3. Home[d] # i /\ Home[d] \in Instances
      BY <1>0, <3>1, <3>2, AllocatorAssumption
    <3>4. QED
      BY <1>0, <2>0, <3>2, <3>3 DEF AllocInv, AllocTypeOK, Left
  <2>3. BlocksDisjoint'
    <3> SUFFICES ASSUME NEW j \in Instances, Left(j)'
                 PROVE  /\ \A n \in given' : n < block'[j].current \/ block'[j].ceiling <= n
                        /\ \A k \in Instances : k # j /\ Left(k)' =>
                              \/ block'[j].ceiling <= block'[k].current
                              \/ block'[k].ceiling <= block'[j].current
      BY DEF BlocksDisjoint
    <3>1. \A k \in Instances : k # i => (block'[k] = block[k] /\ (Left(k)' => Left(k)))
      BY <1>0, <2>0 DEF AllocInv, AllocTypeOK, Left
    <3>2. block'[i] = [current |-> base + 1, ceiling |-> base + BlockSize]
      BY <1>0, <2>0 DEF AllocInv, AllocTypeOK
    <3>3. \A n \in given : n < base
      BY <1>0, <2>0 DEF AllocInv, AllocTypeOK, BelowNextID
    <3>4. \A k \in Instances : Left(k) => block[k].ceiling <= base
      BY <1>0, <2>0 DEF AllocInv, AllocTypeOK, BelowNextID
    <3>5. CASE j = i
      BY <1>0, <2>0, <3>1, <3>2, <3>3, <3>4, <3>5, AllocatorAssumption DEF AllocInv, AllocTypeOK
    <3>6. CASE j # i
      <4>1. Left(j) /\ block'[j] = block[j] /\ block[j].ceiling <= base
        BY <3>1, <3>4, <3>6
      <4>2. \A n \in given' : n < block'[j].current \/ block'[j].ceiling <= n
        BY <2>0, <4>1 DEF AllocInv, BlocksDisjoint
      <4>3. ASSUME NEW k \in Instances, k # j, Left(k)'
            PROVE  \/ block'[j].ceiling <= block'[k].current
                   \/ block'[k].ceiling <= block'[j].current
        <5>1. CASE k = i
          BY <1>0, <3>2, <4>1, <5>1, AllocatorAssumption DEF AllocInv, AllocTypeOK
        <5>2. CASE k # i
          BY <3>1, <4>1, <4>3, <5>2 DEF AllocInv, BlocksDisjoint
        <5>3. QED
          BY <5>1, <5>2
      <4>4. QED
        BY <4>2, <4>3
    <3>7. QED
      BY <3>5, <3>6
  <2>4. BelowNextID'
    BY <1>0, <2>0, AllocatorAssumption DEF AllocInv, AllocTypeOK, BelowNextID, Left
  <2>5. SetAhead'
    BY <2>0 DEF AllocInv, AllocTypeOK, SetAhead, Move
  <2>6. QED
    BY <2>1, <2>2, <2>3, <2>4, <2>5 DEF AllocInv
<1>3. QED
  BY <1>1, <1>2

\* Forgetting a block, or restarting an instance.
LEMMA ForgetInv ==
  ASSUME AllocInv, NEW i \in Instances,
         block' = [block EXCEPT ![i] = EmptyBlock],
         UNCHANGED <<nextId, given>>, AllocTypeOK', ReserveUnderLock', SetAhead'
  PROVE  AllocInv'
<1>1. \A j \in Instances : Left(j)' => (Left(j) /\ block'[j] = block[j])
  BY DEF AllocInv, AllocTypeOK, EmptyBlock, Left
<1>2. QED
  BY <1>1 DEF AllocInv, BlocksDisjoint, BelowNextID

LEMMA RestartInv ==
  ASSUME AllocInv, NEW i \in Instances, Restart(i)
  PROVE  AllocInv'
<1>0. NoCall \in Call /\ NoCall.step = "idle"
  BY DEF Call, NoCall, Steps
<1>1. AllocTypeOK'
  BY <1>0 DEF AllocInv, AllocTypeOK, Restart, EmptyBlock
<1>2. ReserveUnderLock'
  BY <1>0, AllocatorAssumption DEF AllocInv, AllocTypeOK, ReserveUnderLock, Restart, EmptyBlock, Left
<1>3. SetAhead'
  BY <1>0 DEF AllocInv, AllocTypeOK, SetAhead, Restart
<1>4. QED
  BY <1>1, <1>2, <1>3, ForgetInv DEF Restart

LEMMA ResetInv ==
  ASSUME AllocInv, NEW c \in Clients, SetReset(c)
  PROVE  AllocInv'
<1>0. Home[c] \in Instances /\ "idle" \in Steps
  BY AllocatorAssumption DEF Steps
<1>1. AllocTypeOK'
  BY <1>0, MoveType DEF AllocInv, AllocTypeOK, SetReset, Return, EmptyBlock
<1>2. ReserveUnderLock'
  BY <1>0, AllocatorAssumption DEF AllocInv, AllocTypeOK, ReserveUnderLock, SetReset, Return, Move, EmptyBlock, Left
<1>3. SetAhead'
  BY <1>0 DEF AllocInv, AllocTypeOK, SetAhead, SetReset, Return, Move
<1>4. QED
  BY <1>0, <1>1, <1>2, <1>3, ForgetInv DEF SetReset

\* The steps of one call that change its own state and next_id only.
LEMMA LocalInv ==
  ASSUME AllocInv, NEW c \in Clients,
         \/ ReserveRead(c) \/ ReserveError(c)
         \/ SetRead(c) \/ SetCAS(c) \/ SetError(c)
         \/ CallNextID(c) \/ Collect(c) \/ \E id \in Targets : CallSetNextID(c, id)
  PROVE  AllocInv'
<1>0. /\ alloc[c].attempt \in Nat /\ alloc[c].seen \in Nat
      /\ alloc[c].id \in Nat /\ nextId \in Nat
  BY DEF AllocInv, AllocTypeOK, Call
<1>a. {"idle", "next", "read", "cas", "got", "failed", "setRead", "setCas", "reset"} \subseteq Steps
  BY DEF Steps
<1>1. CASE ReserveRead(c)
  BY <1>0, <1>1, <1>a, CallInv DEF ReserveRead, At
<1>2. CASE ReserveError(c)
  <2>1. nextId' \in Nat /\ nextId' >= nextId
    BY <1>0, <1>2, AllocatorAssumption DEF ReserveError, Beyond, Base
  <2>2. mu[Home[c]] = c
    BY <1>2 DEF ReserveError, AllocInv, ReserveUnderLock
  <2>3. QED
    BY <1>2, <1>a, <2>1, <2>2, CallInv DEF ReserveError, Return, Unlock
<1>3. CASE SetRead(c)
  BY <1>0, <1>3, <1>a, CallInv DEF SetRead, Return
<1>4. CASE SetCAS(c)
  <2>1. CASE nextId = alloc[c].seen
    <3>1. nextId' \in Nat /\ nextId' >= nextId
      BY <1>0, <1>4, <2>1 DEF SetCAS, AllocInv, SetAhead, At
    <3>2. QED
      BY <1>0, <1>4, <1>a, <2>1, <3>1, CallInv DEF SetCAS
  <2>2. CASE nextId # alloc[c].seen
    <3>1. /\ \/ Move(c, "setRead", 0, alloc[c].attempt + 1, alloc[c].id)
             \/ Move(c, "failed", 0, 0, 0)
          /\ UNCHANGED <<nextId, block, given, mu>>
      BY <1>4, <2>2 DEF SetCAS, Retry, Return
    <3>2. nextId' \in Nat /\ nextId' >= nextId /\ alloc[c].attempt + 1 \in Nat
      BY <1>0, <3>1
    <3>3. CASE Move(c, "setRead", 0, alloc[c].attempt + 1, alloc[c].id)
      BY <1>0, <1>a, <3>1, <3>2, <3>3, CallInv
    <3>4. CASE Move(c, "failed", 0, 0, 0)
      BY <1>a, <3>1, <3>2, <3>4, CallInv
    <3>5. QED
      BY <3>1, <3>3, <3>4
  <2>3. QED
    BY <2>1, <2>2
<1>5. CASE SetError(c)
  <2>1. nextId' \in Nat /\ nextId' >= nextId
    BY <1>0, <1>5 DEF SetError, AllocInv, SetAhead, At
  <2>2. QED
    BY <1>5, <1>a, <2>1, CallInv DEF SetError, Return
<1>6. CASE CallNextID(c) \/ Collect(c)
  BY <1>0, <1>6, <1>a, CallInv DEF CallNextID, Collect, Return
<1>7. CASE \E id \in Targets : CallSetNextID(c, id)
  <2>1. PICK id \in Targets : CallSetNextID(c, id)
    BY <1>7
  <2>2. QED
    BY <1>0, <1>a, <2>1, CallInv, AllocatorAssumption DEF CallSetNextID
<1>8. QED
  BY <1>1, <1>2, <1>3, <1>4, <1>5, <1>6, <1>7

LEMMA AllocStepInv == AllocInv /\ [AllocNext]_allocVars => AllocInv'
<1> SUFFICES ASSUME AllocInv, [AllocNext]_allocVars PROVE AllocInv'
  OBVIOUS
<1>1. CASE UNCHANGED allocVars
  BY <1>1 DEF allocVars, AllocInv, AllocTypeOK, ReserveUnderLock, SetAhead, BlocksDisjoint, BelowNextID, Left
<1>2. CASE AllocNext
  BY <1>2, TakeInv, ReserveInv, LocalInv, ResetInv, RestartInv
     DEF AllocNext, AllocStep, AllocError
<1>3. QED
  BY <1>1, <1>2

-----------------------------------------------------------------------------
\* The allocator's state is consistent in every reachable state.
THEOREM AllocatorIntegrity == AllocSpec => []AllocInv
BY AllocInitInv, AllocStepInv, PTL DEF AllocSpec

\* No two instances hold overlapping blocks and no block holds an ID already
\* given out.
THEOREM BlocksNeverOverlap == AllocSpec => []BlocksDisjoint
BY AllocatorIntegrity, PTL DEF AllocInv

\* idAllocator.next never returns the same ID twice, in any instance of the
\* registry: not after a lost reservation, a SetNextID or a restart.
THEOREM NoIDGivenTwice == AllocSpec => IDsGivenOnce
<1>1. ASSUME AllocInv, AllocNext, NEW c \in Clients, alloc'[c].step = "got", alloc[c].step # "got"
      PROVE  alloc'[c].id \notin given
  <2>1. alloc \in [Clients -> Call]
    BY <1>1 DEF AllocInv, AllocTypeOK
  <2>2. ASSUME NEW d \in Clients, TakeID(d)
        PROVE  alloc'[c].id \notin given
    BY <1>1, <2>1, <2>2, AllocatorAssumption DEF TakeID, Return, Move, AllocInv, AllocTypeOK, BlocksDisjoint, Left
  <2>3. ASSUME NEW d \in Clients, ReserveCAS(d)
        PROVE  alloc'[c].id \notin given
    BY <1>1, <2>1, <2>3 DEF ReserveCAS, Return, Retry, Move, Base, AllocInv, AllocTypeOK, BelowNextID
  <2>4. ASSUME NEW d \in Clients,
               \/ ReserveRead(d) \/ ReserveError(d)
               \/ SetRead(d) \/ SetCAS(d) \/ SetError(d) \/ SetReset(d)
               \/ CallNextID(d) \/ Collect(d) \/ \E id \in Targets : CallSetNextID(d, id)
        PROVE  FALSE
    BY <1>1, <2>1, <2>4 DEF ReserveRead, ReserveError, SetRead, SetCAS, SetError, SetReset,
         CallNextID, Collect, CallSetNextID, Return, Retry, Move
  <2>5. ASSUME NEW i \in Instances, Restart(i)
        PROVE  FALSE
    BY <1>1, <2>5 DEF Restart, NoCall
  <2>6. QED
    BY <1>1, <2>2, <2>3, <2>4, <2>5 DEF AllocNext, AllocStep, AllocError
<1>2. AllocInv /\ [AllocNext]_allocVars
      => [\A c \in Clients : alloc'[c].step = "got" /\ alloc[c].step # "got" =>
             alloc'[c].id \notin given]_allocVars
  BY <1>1
<1>3. QED
  BY <1>2, AllocatorIntegrity, PTL DEF AllocSpec, IDsGivenOnce

\* next_id never moves back, though SetNextID reads and writes it in two steps.
THEOREM NextIDNeverRewinds == AllocSpec => SequenceForward
<1>1. ASSUME AllocInv, AllocNext
      PROVE  nextId' >= nextId
  <2>1. nextId \in Nat /\ alloc \in [Clients -> Call]
    BY <1>1 DEF AllocInv, AllocTypeOK
  <2>2. ASSUME NEW c \in Clients, ReserveCAS(c) \/ ReserveError(c)
        PROVE  nextId' >= nextId
    BY <2>1, <2>2, AllocatorAssumption DEF ReserveCAS, ReserveError, Retry, Beyond, Base
  <2>3. ASSUME NEW c \in Clients, SetCAS(c) \/ SetError(c)
        PROVE  nextId' >= nextId
    BY <1>1, <2>1, <2>3 DEF SetCAS, SetError, Retry, At, AllocInv, SetAhead, Call
  <2>4. ASSUME NEW c \in Clients,
               \/ TakeID(c) \/ ReserveRead(c) \/ SetRead(c) \/ SetReset(c)
               \/ CallNextID(c) \/ Collect(c) \/ \E id \in Targets : CallSetNextID(c, id)
        PROVE  nextId' >= nextId
    BY <2>1, <2>4 DEF TakeID, ReserveRead, SetRead, SetReset, CallNextID, Collect, CallSetNextID
  <2>5. QED
    BY <1>1, <2>1, <2>2, <2>3, <2>4 DEF AllocNext, AllocStep, AllocError, Restart
<1>2. AllocInv /\ [AllocNext]_allocVars => [nextId' >= nextId]_allocVars
  BY <1>1
<1>3. QED
  BY <1>2, AllocatorIntegrity, PTL DEF AllocSpec, SequenceForward
=============================================================================
