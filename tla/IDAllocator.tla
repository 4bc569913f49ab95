---------------------------- MODULE IDAllocator ----------------------------
(***************************************************************************)
(* Schema ID allocation of the Cassandra backend, for one context          *)
(* (internal/storage/cassandra/store.go).  Every registry instance keeps a *)
(* block of IDs in memory and hands them out under a mutex that it holds   *)
(* across the lightweight transactions (LWT) that reserve the next block   *)
(* in the id_alloc table all instances share.                              *)
(***************************************************************************)
EXTENDS Naturals

CONSTANTS Instances,   \* registry processes
          Clients,     \* request goroutines
          Home,        \* the instance a client's request runs in
          NoClient,    \* a mutex nobody holds
          BlockSize,   \* IDBlockSize
          MaxRetries,  \* attempts of a compare-and-set loop
          Targets,     \* the values SetNextID is called with
          MaxNextID    \* bound: no reservation starts above it

ASSUME AllocatorAssumption ==
  /\ Home \in [Clients -> Instances]
  /\ NoClient \notin Clients
  /\ BlockSize \in Nat \ {0}
  /\ MaxRetries \in Nat \ {0}
  /\ Targets \subseteq Nat \ {0}
  /\ MaxNextID \in Nat

VARIABLES nextId,  \* the next_id of the context's id_alloc row, 0: no row
          block,   \* instance -> contextIDBlock
          mu,      \* instance -> the client that holds idAllocator.mu
          alloc,   \* client -> its call of NextID or SetNextID
          given    \* every ID NextID has returned

allocVars == <<nextId, block, mu, alloc, given>>

Steps == {"idle", "next", "read", "cas", "got", "failed", "setRead", "setCas", "reset"}

\* id: the ID NextID returned, or the target of SetNextID.
Call == [step : Steps, seen : Nat, attempt : Nat, id : Nat]
NoCall == [step |-> "idle", seen |-> 0, attempt |-> 0, id |-> 0]

EmptyBlock == [current |-> 0, ceiling |-> 0]

AllocInit ==
  /\ nextId = 0
  /\ block = [i \in Instances |-> EmptyBlock]
  /\ mu = [i \in Instances |-> NoClient]
  /\ alloc = [c \in Clients |-> NoCall]
  /\ given = {}

-----------------------------------------------------------------------------
\* An instance has IDs left in its block.
Left(i) == block[i].current < block[i].ceiling

At(c, step) == alloc[c].step = step

Move(c, step, seen, attempt, id) ==
  alloc' = [alloc EXCEPT ![c] =
              [step |-> step, seen |-> seen, attempt |-> attempt, id |-> id]]

\* A call returns, with an ID or without.
Return(c, step, id) == Move(c, step, 0, 0, id)

Unlock(c) == mu' = [mu EXCEPT ![Home[c]] = NoClient]

\* The next round of a compare-and-set loop, or its end in "too much
\* contention", with what the call does when it gives up.
Retry(c, step, GiveUp) ==
  /\ \/ /\ alloc[c].attempt + 1 < MaxRetries
        /\ Move(c, step, 0, alloc[c].attempt + 1, alloc[c].id)
        /\ UNCHANGED mu
     \/ alloc[c].attempt + 1 >= MaxRetries /\ Return(c, "failed", 0) /\ GiveUp
  /\ UNCHANGED <<nextId, block, given>>

\* The first ID of the block that a reservation which saw `seen` gets, and the
\* next_id it writes.
Base(seen) == IF seen = 0 THEN 1 ELSE seen

Beyond(seen) == Base(seen) + BlockSize

-----------------------------------------------------------------------------
(* NextID                                                                  *)

\* Mutant: the ID handed out stays in the block.
TakeIDKept(c) ==
  /\ At(c, "next") /\ mu[Home[c]] = NoClient
  /\ IF Left(Home[c])
     THEN /\ Return(c, "got", block[Home[c]].current)
          /\ given' = given \cup {block[Home[c]].current}
          /\ UNCHANGED <<nextId, block, mu>>
     ELSE Move(c, "read", 0, 0, 0) /\ mu' = [mu EXCEPT ![Home[c]] = c]
          /\ UNCHANGED <<nextId, block, given>>

\* idAllocator.next takes the mutex; with IDs left it returns one at once.
TakeID(c) ==
  /\ At(c, "next") /\ mu[Home[c]] = NoClient
  /\ LET b == block[Home[c]]
     IN IF Left(Home[c])
        THEN /\ Return(c, "got", b.current)
             /\ block' = [block EXCEPT ![Home[c]].current = @ + 1]
             /\ given' = given \cup {b.current}
             /\ UNCHANGED <<nextId, mu>>
        ELSE /\ Move(c, "read", 0, 0, 0) /\ mu' = [mu EXCEPT ![Home[c]] = c]
             /\ UNCHANGED <<nextId, block, given>>

ReserveRead(c) ==
  /\ At(c, "read")
  /\ Move(c, "cas", nextId, alloc[c].attempt, 0)
  /\ UNCHANGED <<nextId, block, mu, given>>

\* INSERT ... IF NOT EXISTS without a row, UPDATE ... IF next_id = seen with one.
ReserveCAS(c) ==
  /\ At(c, "cas")
  /\ LET base == Base(alloc[c].seen)
     IN \/ /\ nextId = alloc[c].seen
           /\ nextId' = Beyond(alloc[c].seen)
           /\ Return(c, "got", base)
           /\ block' = [block EXCEPT ![Home[c]] =
                          [current |-> base + 1, ceiling |-> base + BlockSize]]
           /\ given' = given \cup {base}
           /\ Unlock(c)
        \/ /\ nextId # alloc[c].seen
           /\ Retry(c, "read", Unlock(c))

\* Mutant: an error return that leaves the mutex locked.
ReserveErrorLocked(c) ==
  /\ alloc[c].step \in {"read", "cas"}
  /\ Return(c, "failed", 0)
  /\ UNCHANGED <<nextId, block, mu, given>>

\* A query of the reservation fails.  A transaction that times out may have
\* been applied all the same: then its block is lost.
ReserveError(c) ==
  /\ alloc[c].step \in {"read", "cas"}
  /\ \/ UNCHANGED nextId
     \/ At(c, "cas") /\ nextId = alloc[c].seen /\ nextId' = Beyond(alloc[c].seen)
  /\ Return(c, "failed", 0) /\ Unlock(c)
  /\ UNCHANGED <<block, given>>

-----------------------------------------------------------------------------
(* SetNextID                                                               *)

\* Mutant: the guard against rewinding is missing.
SetReadUnguarded(c) ==
  /\ At(c, "setRead")
  /\ Move(c, "setCas", nextId, alloc[c].attempt, alloc[c].id)
  /\ UNCHANGED <<nextId, block, mu, given>>

\* Only ever forward: a value at or below the stored one is left alone, and so
\* is the block in memory.
SetRead(c) ==
  /\ At(c, "setRead")
  /\ IF nextId >= alloc[c].id THEN Return(c, "idle", 0)
     ELSE Move(c, "setCas", nextId, alloc[c].attempt, alloc[c].id)
  /\ UNCHANGED <<nextId, block, mu, given>>

SetCAS(c) ==
  /\ At(c, "setCas")
  /\ \/ /\ nextId = alloc[c].seen
        /\ nextId' = alloc[c].id
        /\ Move(c, "reset", 0, 0, 0)
        /\ UNCHANGED <<block, mu, given>>
     \/ /\ nextId # alloc[c].seen
        /\ Retry(c, "setRead", UNCHANGED mu)

\* The caller's own instance forgets its block; the others keep theirs.
SetReset(c) ==
  /\ At(c, "reset") /\ mu[Home[c]] = NoClient
  /\ block' = [block EXCEPT ![Home[c]] = EmptyBlock]
  /\ Return(c, "idle", 0)
  /\ UNCHANGED <<nextId, mu, given>>

SetError(c) ==
  /\ alloc[c].step \in {"setRead", "setCas"}
  /\ \/ UNCHANGED nextId
     \/ At(c, "setCas") /\ nextId = alloc[c].seen /\ nextId' = alloc[c].id
  /\ Return(c, "failed", 0)
  /\ UNCHANGED <<block, mu, given>>

-----------------------------------------------------------------------------
CallNextID(c) ==
  /\ At(c, "idle")
  /\ Move(c, "next", 0, 0, 0)
  /\ UNCHANGED <<nextId, block, mu, given>>

CallSetNextID(c, id) ==
  /\ At(c, "idle")
  /\ Move(c, "setRead", 0, 0, id)
  /\ UNCHANGED <<nextId, block, mu, given>>

\* The caller takes the result.
Collect(c) ==
  /\ alloc[c].step \in {"got", "failed"}
  /\ Return(c, "idle", 0)
  /\ UNCHANGED <<nextId, block, mu, given>>

\* An instance stops and starts again: its block, its mutex and the requests
\* it was serving are gone.
Restart(i) ==
  /\ block' = [block EXCEPT ![i] = EmptyBlock]
  /\ mu' = [mu EXCEPT ![i] = NoClient]
  /\ alloc' = [c \in Clients |-> IF Home[c] = i THEN NoCall ELSE alloc[c]]
  /\ UNCHANGED <<nextId, given>>

AllocStep(c) ==
  \/ TakeID(c) \/ ReserveRead(c) \/ ReserveCAS(c)
  \/ SetRead(c) \/ SetCAS(c) \/ SetReset(c)

AllocError(c) == ReserveError(c) \/ SetError(c)

AllocNext ==
  \/ \E c \in Clients : \/ (nextId <= MaxNextID /\ CallNextID(c)) \/ Collect(c)
                        \/ \E id \in Targets : CallSetNextID(c, id)
                        \/ AllocStep(c) \/ AllocError(c)
  \/ \E i \in Instances : Restart(i)

\* Every query returns, and sync.Mutex hands itself to a waiter that has
\* waited long enough, so nobody waits for it for ever.
AllocFairness ==
  \A c \in Clients : WF_allocVars(AllocStep(c) \/ AllocError(c)) /\ SF_allocVars(TakeID(c))
                     /\ SF_allocVars(SetReset(c))

AllocSpec == AllocInit /\ [][AllocNext]_allocVars /\ AllocFairness

-----------------------------------------------------------------------------
(* Type correctness of the allocator.                                      *)
AllocTypeOK ==
  /\ nextId \in Nat
  /\ block \in [Instances -> [current : Nat, ceiling : Nat]]
  /\ mu \in [Instances -> Clients \cup {NoClient}]
  /\ alloc \in [Clients -> Call]
  /\ given \subseteq Nat

\* Only the client that holds its instance's mutex reserves a block, and the
\* block it is about to replace is used up.
ReserveUnderLock ==
  \A c \in Clients : alloc[c].step \in {"read", "cas"} =>
     /\ mu[Home[c]] = c
     /\ ~Left(Home[c])

\* Blocks that instances hold do not overlap, and none holds an ID already
\* given out, whatever reservations, sequence changes and restarts interleave.
BlocksDisjoint ==
  \A i \in Instances : Left(i) =>
     /\ \A n \in given : n < block[i].current \/ block[i].ceiling <= n
     /\ \A j \in Instances : j # i /\ Left(j) =>
           block[i].ceiling <= block[j].current \/ block[j].ceiling <= block[i].current

\* Every ID given out or held in a block is below the stored next_id.
BelowNextID ==
  /\ \A n \in given : n < nextId
  /\ \A i \in Instances : Left(i) => block[i].ceiling <= nextId

\* NextID never returns the same ID twice, in any instance.
IDsGivenOnce ==
  [][\A c \in Clients : alloc'[c].step = "got" /\ alloc[c].step # "got" =>
        alloc'[c].id \notin given]_allocVars

\* next_id only grows ("Guards against rewinding").
SequenceForward == [][nextId' >= nextId]_allocVars

\* A call of NextID or SetNextID comes to an end, however the instances
\* contend: the retry loops are bounded and the mutex is handed on.
CallsEnd ==
  \A c \in Clients : alloc[c].step # "idle" ~> alloc[c].step \in {"idle", "got", "failed"}
=============================================================================
