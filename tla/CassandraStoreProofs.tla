------------------------ MODULE CassandraStoreProofs ------------------------
(***************************************************************************)
(* Registrations, soft deletes and settings on the Cassandra tables, for   *)
(* any number of instances, clients, contents and retries, with failed     *)
(* queries and restarts between any two of them.                           *)
(*                                                                         *)
(* No table is locked, so the proof rests on what every step preserves:    *)
(* the tables only grow (Grows), and therefore what one client has read    *)
(* another cannot make untrue (OthersKeep).  The invariant carries         *)
(*   - the ID on its way from the allocator to its claim, which nobody     *)
(*     else has (GotApart, on top of the allocator's AllocInv), so that    *)
(*     two contents never get one ID (ClaimsApart);                        *)
(*   - what a client holds at each place (ClientInv): the claim, the       *)
(*     content, the row of subject_latest it saw, which is not ahead of    *)
(*     the table, the version it inserted.                                 *)
(* That the versions have no gap (PublishedVersions) follows from the two  *)
(* conditional writes: a version is inserted only where none is, at most   *)
(* one above the published one, and published only over the row it saw.    *)
(*                                                                         *)
(* Additive is needed: an import's batch overwrites without condition, and *)
(* a permanent delete takes away what others have read.                    *)
(*                                                                         *)
(* The second half is about every request, imports and permanent deletes   *)
(* too: the types of all states (CassandraTypes), and, where callers take  *)
(* turns, the agreement of the tables between the calls                    *)
(* (TablesAgreeTakingTurns, on the invariant TurnInv).                     *)
(***************************************************************************)
EXTENDS CassandraStore, IDAllocatorProofs, WellFoundedInduction

\* Registrations, soft deletes and settings: nothing is imported, and nothing is
\* deleted for good.
Additive ==
  \A r \in Requests : /\ r.op # "import"
                      /\ r.op \in {"deleteVersion", "deleteSubject"} => r.permanent = FALSE

-----------------------------------------------------------------------------
(* The invariant.                                                          *)

\* Where a registration has a fingerprint claimed for its ID; has content stored
\* under it; has a version in hand; and where that version is its own.
Stores == {"find", "latest", "insert", "conflict", "publish", "refs"}
Claims == {"data", "write"} \cup Stores
Inserts == {"insert", "conflict", "publish", "refs"}
Owns == {"publish", "refs"}
Creates == {"fast", "alloc"} \cup Claims
Softs == {"deleteRead", "subjectRead", "mark", "setting"}

\* What the variables hold.
ClientShape ==
  /\ pc \in [Clients -> {"idle"} \cup Creates \cup Softs]
  /\ req \in [Clients -> Requests \cup {NoRequest}]
  /\ loc \in [Clients -> Locals]

TableShape ==
  /\ versions = [s \in Subjects |-> versions[s]]
  /\ \A s \in Subjects : \A v \in DOMAIN versions[s] : v \in Nat \ {0} /\ versions[s][v] \in Row
  /\ latest \in [Subjects -> Latest]

\* A claimed ID was given out by the allocator, and for one content.
ClaimsApart ==
  /\ \A f \in DOMAIN fingerprints : fingerprints[f] \in given
  /\ \A f, g \in DOMAIN fingerprints : fingerprints[f] = fingerprints[g] => f = g

\* An ID on its way from the allocator to its claim is nobody else's.
GotApart ==
  \A c \in Clients : At(c, "got") =>
    /\ alloc[c].id \in given
    /\ \A d \in Clients \ {c} : At(d, "got") => alloc[d].id # alloc[c].id
    /\ \A f \in DOMAIN fingerprints : fingerprints[f] # alloc[c].id

\* A version row names an ID with content.
RowsHaveContent ==
  \A s \in Subjects : \A v \in DOMAIN versions[s] : versions[s][v].id \in DOMAIN schemas

\* What was answered is stored, and the ID has the content it was answered for.
AnswersStored ==
  \A p \in promised :
    /\ p.subject \in Subjects
    /\ p.version \in DOMAIN versions[p.subject]
    /\ versions[p.subject][p.version].id = p.id
    /\ p.id \in DOMAIN schemas /\ schemas[p.id] = p.fp

TableInv == TableShape /\ ClaimsApart /\ OneIDPerContent /\ RowsHaveContent /\ PublishedVersions

\* What a client holds while it is at a place.
ClientInv(c) ==
  /\ pc[c] # "idle" => req[c] \in Requests
  /\ pc[c] \in Creates => req[c].op = "create"
  /\ pc[c] \in Softs => req[c].op \in {"deleteVersion", "deleteSubject", "setting"}
  /\ pc[c] = "deleteRead" => req[c].op = "deleteVersion"
  /\ pc[c] = "subjectRead" => req[c].op = "deleteSubject"
  /\ pc[c] = "setting" => req[c].op = "setting"
  /\ pc[c] \in Claims => /\ req[c].fp \in DOMAIN fingerprints
                         /\ fingerprints[req[c].fp] = loc[c].id
  /\ pc[c] \in Stores => loc[c].id \in DOMAIN schemas
  /\ pc[c] \in Inserts => /\ loc[c].version = loc[c].seen.version + 1
                          /\ loc[c].seen.version <= latest[req[c].subject].version
  /\ pc[c] \in Owns => /\ loc[c].version \in DOMAIN versions[req[c].subject]
                       /\ versions[req[c].subject][loc[c].version].id = loc[c].id
  /\ pc[c] = "mark" =>
       /\ req[c].op \in {"deleteVersion", "deleteSubject"}
       /\ req[c].op = "deleteSubject" => loc[c].todo \subseteq DOMAIN versions[req[c].subject]
       /\ req[c].op = "deleteVersion" => loc[c].version \in DOMAIN versions[req[c].subject]

\* The inductive invariant.
CassandraInv ==
  /\ AllocInv /\ GotApart
  /\ ClientShape /\ TableInv /\ AnswersStored
  /\ \A c \in Clients : ClientInv(c)

\* An empty cluster satisfies the invariant.
LEMMA CassandraInitInv == Init => CassandraInv
<1> SUFFICES ASSUME Init PROVE CassandraInv
  OBVIOUS
<1>1. AllocInv
  BY AllocInitInv DEF Init
<1>2. GotApart
  BY DEF Init, AllocInit, GotApart, At, NoCall
<1>3. ClientShape
  <2>1. NoLocals \in Locals
    BY DEF NoLocals, Locals, NoLatest, Latest
  <2> QED BY <2>1 DEF Init, ClientShape
<1>4. TableShape
  BY DEF Init, TableShape, EmptyTable, NoLatest, Latest
<1>5. ClaimsApart /\ OneIDPerContent /\ RowsHaveContent /\ AnswersStored
  BY DEF Init, ClaimsApart, OneIDPerContent, RowsHaveContent, AnswersStored, EmptyTable
<1>6. PublishedVersions
  BY DEF Init, PublishedVersions, EmptyTable, NoLatest
<1>7. \A c \in Clients : ClientInv(c)
  BY DEF Init, ClientInv, Creates, Softs, Claims, Stores, Inserts, Owns
<1> QED BY <1>1, <1>2, <1>3, <1>4, <1>5, <1>6, <1>7 DEF CassandraInv, TableInv

-----------------------------------------------------------------------------
(* Facts about the requests and the tables.                                *)

\* The fields of the requests in progress.
LEMMA RequestFields ==
  ASSUME Additive, NEW r \in Requests
  PROVE  /\ r # NoRequest /\ r.subject \in Subjects
         /\ r.op \in {"create", "deleteVersion", "deleteSubject", "setting"}
         /\ r.op = "create" => r.fp \in Fingerprints /\ r.meta \in Metas /\ Refs[r.fp] \subseteq SubjectVersion
         /\ r.op = "deleteVersion" => r.permanent = FALSE /\ r.version \in Nat \ {0}
         /\ r.op = "deleteSubject" => r.permanent = FALSE
<1>1. r \in RequestType /\ r.op # "import" /\ r # NoRequest
  BY CassandraAssumption DEF Additive
<1>2. CASE r \in [op : {"create"}, subject : Subjects, fp : Fingerprints, meta : Metas]
  BY <1>1, <1>2, CassandraAssumption
<1>3. CASE r \in [op : {"deleteVersion"}, subject : Subjects, version : Nat \ {0}, permanent : BOOLEAN]
  BY <1>1, <1>3 DEF Additive
<1>4. CASE r \in [op : {"deleteSubject"}, subject : Subjects, permanent : BOOLEAN]
  BY <1>1, <1>4 DEF Additive
<1>5. CASE r \in [op : {"setting"}, subject : Subjects, table : {"subject_configs", "modes"}]
  BY <1>1, <1>5
<1> QED BY <1>1, <1>2, <1>3, <1>4, <1>5 DEF RequestType

\* The parts of a client's locals.
LEMMA LocalFields ==
  ASSUME NEW l \in Locals
  PROVE  /\ l.id \in Nat /\ l.version \in Nat /\ l.seen \in Latest /\ l.attempt \in Nat
         /\ l.todo \subseteq Nat /\ l.fp \in Fingerprints \cup {NoContent}
         /\ l.seen.version \in Nat /\ l.seen.id \in Nat
BY DEF Locals, Latest

\* The ID in hand changes.
LEMMA WithID ==
  ASSUME NEW l \in Locals, NEW n \in Nat
  PROVE  /\ [l EXCEPT !.id = n] \in Locals /\ [l EXCEPT !.id = n].id = n
BY DEF Locals

\* The locals of the next attempt.
LEMMA NextAttempt ==
  ASSUME NEW l \in Locals
  PROVE  /\ [l EXCEPT !.attempt = @ + 1, !.version = 0, !.seen = NoLatest] \in Locals
         /\ [l EXCEPT !.attempt = @ + 1, !.version = 0, !.seen = NoLatest].id = l.id
<1>1. PICK x \in Latest : x = NoLatest
  BY DEF NoLatest, Latest
<1>2. l.attempt + 1 \in Nat
  BY DEF Locals
<1>3. PICK n \in Nat : n = l.attempt + 1
  BY <1>2
<1>4. [l EXCEPT !.attempt = n, !.version = 0, !.seen = x] \in Locals
  BY DEF Locals
<1>5. [l EXCEPT !.attempt = n, !.version = 0, !.seen = x].id = l.id
  BY DEF Locals
<1> QED BY <1>1, <1>3, <1>4, <1>5

\* The tables only grow: claims, contents and the IDs of versions stay.
Grows ==
  /\ \A f \in DOMAIN fingerprints :
       f \in DOMAIN fingerprints' /\ fingerprints'[f] = fingerprints[f]
  /\ \A i \in DOMAIN schemas : i \in DOMAIN schemas' /\ schemas'[i] = schemas[i]
  /\ \A s \in Subjects : \A v \in DOMAIN versions[s] :
       v \in DOMAIN versions'[s] /\ versions'[s][v].id = versions[s][v].id
  /\ \A s \in Subjects : latest[s].version <= latest'[s].version

\* The client stays where it is.
Rests(d) == pc'[d] = pc[d] /\ req'[d] = req[d] /\ loc'[d] = loc[d]

\* What a client holds it keeps while others let the tables grow.
LEMMA OthersKeep ==
  ASSUME Additive, CassandraInv, TableShape', Grows, NEW d \in Clients, Rests(d)
  PROVE  ClientInv(d)'
<1>1. ClientInv(d)
  BY DEF CassandraInv
<1>2. /\ loc[d].seen.version \in Nat
      /\ \A s \in Subjects : latest[s].version \in Nat /\ latest'[s].version \in Nat
  <2>1. loc[d] \in Locals
    BY DEF CassandraInv, ClientShape
  <2> QED BY <2>1, LocalFields DEF CassandraInv, TableInv, TableShape, Latest
<1>3. pc[d] # "idle" => req[d] \in Requests /\ req[d].subject \in Subjects
  BY <1>1, RequestFields DEF ClientInv
<1>4. "idle" \notin Creates \cup Softs /\ Claims \cup Inserts \cup Owns \cup Stores \subseteq Creates
  BY DEF Creates, Softs, Claims, Stores, Inserts, Owns
<1>5. pc[d] \in Inserts => loc[d].seen.version <= latest'[req[d].subject].version
  <2> SUFFICES ASSUME pc[d] \in Inserts
               PROVE  loc[d].seen.version <= latest'[req[d].subject].version
    OBVIOUS
  <2>1. PICK s \in Subjects : s = req[d].subject
    BY <1>3, <1>4
  <2>2. loc[d].seen.version <= latest[s].version /\ latest[s].version <= latest'[s].version
    BY <1>1, <2>1 DEF ClientInv, Grows
  <2> QED BY <1>2, <2>1, <2>2
<1>6. pc[d] \in Owns => /\ loc[d].version \in DOMAIN versions'[req[d].subject]
                        /\ versions'[req[d].subject][loc[d].version].id = loc[d].id
  BY <1>1, <1>3, <1>4 DEF ClientInv, Grows
<1>7. pc[d] = "mark" =>
       /\ req[d].op = "deleteSubject" => loc[d].todo \subseteq DOMAIN versions'[req[d].subject]
       /\ req[d].op = "deleteVersion" => loc[d].version \in DOMAIN versions'[req[d].subject]
  BY <1>1, <1>3 DEF ClientInv, Grows
<1>8. /\ pc[d] \in Claims => /\ req[d].fp \in DOMAIN fingerprints'
                             /\ fingerprints'[req[d].fp] = loc[d].id
      /\ pc[d] \in Stores => loc[d].id \in DOMAIN schemas'
  BY <1>1 DEF ClientInv, Grows
<1> QED BY <1>1, <1>5, <1>6, <1>7, <1>8 DEF ClientInv, Rests

\* Answers stay stored while the tables grow.
LEMMA AnswersKeep ==
  ASSUME CassandraInv, Grows
  PROVE  \A p \in promised :
           /\ p.subject \in Subjects
           /\ p.version \in DOMAIN versions'[p.subject]
           /\ versions'[p.subject][p.version].id = p.id
           /\ p.id \in DOMAIN schemas' /\ schemas'[p.id] = p.fp
BY DEF CassandraInv, AnswersStored, Grows

\* A step of one client keeps the invariant if the tables only grow and are sound,
\* and the client holds what its new place needs.
LEMMA StepFrame ==
  ASSUME Additive, CassandraInv, NEW c \in Clients,
         AllocInv', GotApart', TableInv', Grows,
         ClientShape', \A d \in Clients \ {c} : Rests(d), ClientInv(c)', AnswersStored'
  PROVE  CassandraInv'
<1>1. \A d \in Clients : ClientInv(d)'
  BY OthersKeep DEF TableInv
<1> QED BY <1>1 DEF CassandraInv

\* Tables that do not change are as sound as before, and have grown by nothing.
LEMMA TablesKeep ==
  ASSUME CassandraInv, UNCHANGED <<schemas, fingerprints, versions, latest>>, given \subseteq given'
  PROVE  TableInv' /\ Grows
<1>1. TableInv'
  BY DEF CassandraInv, TableInv, TableShape, ClaimsApart, OneIDPerContent, RowsHaveContent, PublishedVersions
<1>2. \A s \in Subjects : latest[s].version \in Nat
  BY DEF CassandraInv, TableInv, TableShape, Latest
<1> QED BY <1>1, <1>2 DEF Grows

\* A client goes to another place; the rest stays.
LEMMA Kept ==
  ASSUME ClientShape, NEW c \in Clients, NEW label \in {"idle"} \cup Creates \cup Softs, NEW l \in Locals,
         Keep(c, label, l), UNCHANGED req
  PROVE  /\ ClientShape' /\ \A d \in Clients \ {c} : Rests(d)
         /\ pc'[c] = label /\ loc'[c] = l /\ req'[c] = req[c]
BY DEF ClientShape, Keep, Goto, Rests

\* A client goes on with its locals.
LEMMA Continued ==
  ASSUME ClientShape, NEW c \in Clients, NEW label \in {"idle"} \cup Creates \cup Softs,
         Continue(c, label), UNCHANGED req
  PROVE  /\ ClientShape' /\ \A d \in Clients \ {c} : Rests(d)
         /\ pc'[c] = label /\ loc'[c] = loc[c] /\ req'[c] = req[c]
BY DEF ClientShape, Continue, Goto, Rests

\* A client has finished.
LEMMA Finished ==
  ASSUME ClientShape, NEW c \in Clients, Finish(c)
  PROVE  /\ ClientShape' /\ \A d \in Clients \ {c} : Rests(d)
         /\ pc'[c] = "idle" /\ ClientInv(c)'
<1>1. NoLocals \in Locals
  BY DEF NoLocals, Locals, NoLatest, Latest
<1>2. ClientShape' /\ pc'[c] = "idle" /\ \A d \in Clients \ {c} : Rests(d)
  BY <1>1 DEF ClientShape, Finish, Goto, Rests
<1> QED BY <1>2 DEF ClientInv, Creates, Softs, Claims, Stores, Inserts, Owns

-----------------------------------------------------------------------------
(* The allocator.                                                          *)

\* A step of the allocator gives its caller a new ID, or none, and leaves the
\* others' calls alone.
LEMMA AllocGives ==
  ASSUME AllocInv, NEW c \in Clients, AllocStep(c) \/ AllocError(c)
  PROVE  /\ AllocInv' /\ given \subseteq given'
         /\ \A d \in Clients \ {c} : alloc'[d] = alloc[d]
         /\ At(c, "got")' => alloc'[c].id \notin given /\ alloc'[c].id \in given'
<1>1. alloc \in [Clients -> Call]
  BY DEF AllocInv, AllocTypeOK
<1>2. CASE TakeID(c)
  <2>1. /\ given \subseteq given' /\ \A d \in Clients \ {c} : alloc'[d] = alloc[d]
    BY <1>1, <1>2 DEF TakeID, Return, Move
  <2>2. At(c, "got")' => alloc'[c].id \notin given /\ alloc'[c].id \in given'
    <3>1. PICK i \in Instances : i = Home[c]
      BY AllocatorAssumption
    <3>2. CASE Left(i)
      <4>1. alloc'[c].id = block[i].current /\ given' = given \cup {block[i].current}
        BY <1>1, <1>2, <3>1, <3>2 DEF TakeID, Return, Move
      <4>2. \A n \in given : n < block[i].current \/ block[i].ceiling <= n
        BY <3>2 DEF AllocInv, BlocksDisjoint
      <4>3. given \subseteq Nat /\ block[i].current \in Nat /\ block[i].ceiling \in Nat
        BY DEF AllocInv, AllocTypeOK
      <4> QED BY <3>2, <4>1, <4>2, <4>3 DEF Left
    <3>3. CASE ~Left(i)
      BY <1>1, <1>2, <3>1, <3>3 DEF TakeID, At, Move
    <3> QED BY <3>2, <3>3
  <2> QED BY <1>2, <2>1, <2>2, TakeInv
<1>3. CASE ReserveCAS(c)
  <2>1. /\ given \subseteq given' /\ \A d \in Clients \ {c} : alloc'[d] = alloc[d]
    BY <1>1, <1>3 DEF ReserveCAS, Return, Retry, Move
  <2>2. At(c, "got")' => alloc'[c].id \notin given /\ alloc'[c].id \in given'
    BY <1>1, <1>3 DEF ReserveCAS, At, Return, Retry, Move, Base, AllocInv, AllocTypeOK, BelowNextID
  <2> QED BY <1>3, <2>1, <2>2, ReserveInv
<1>4. CASE SetReset(c)
  <2>1. /\ given' = given /\ \A d \in Clients \ {c} : alloc'[d] = alloc[d]
        /\ ~At(c, "got")'
    BY <1>1, <1>4 DEF SetReset, At, Return, Move
  <2> QED BY <1>4, <2>1, ResetInv
<1>5. CASE ReserveRead(c) \/ ReserveError(c) \/ SetRead(c) \/ SetCAS(c) \/ SetError(c)
  <2>1. /\ given' = given /\ \A d \in Clients \ {c} : alloc'[d] = alloc[d]
        /\ ~At(c, "got")'
    BY <1>1, <1>5 DEF ReserveRead, ReserveError, SetRead, SetCAS, SetError, At, Return, Retry, Move
  <2> QED BY <1>5, <2>1, LocalInv
<1> QED BY <1>2, <1>3, <1>4, <1>5 DEF AllocStep, AllocError

\* The allocator works for a client that waits for it.
LEMMA AllocateKeeps ==
  ASSUME Additive, CassandraInv, NEW c \in Clients, AllocStep(c) \/ AllocError(c),
         UNCHANGED <<tableVars, pc, req, loc, promised>>
  PROVE  CassandraInv'
<1>1. /\ AllocInv' /\ given \subseteq given'
      /\ \A d \in Clients \ {c} : alloc'[d] = alloc[d]
      /\ At(c, "got")' => alloc'[c].id \notin given /\ alloc'[c].id \in given'
  BY AllocGives DEF CassandraInv
<1>2. TableInv' /\ Grows
  BY <1>1, TablesKeep DEF tableVars
<1>3. GotApart'
  <2>1. /\ \A f \in DOMAIN fingerprints : fingerprints[f] \in given
        /\ GotApart /\ fingerprints' = fingerprints
    BY DEF CassandraInv, TableInv, ClaimsApart, tableVars
  <2> QED BY <1>1, <2>1 DEF GotApart, At
<1>4. ClientShape' /\ AnswersStored' /\ \A d \in Clients : Rests(d)
  BY DEF CassandraInv, ClientShape, AnswersStored, tableVars, Rests
<1>5. ClientInv(c)'
  BY <1>2, <1>4, OthersKeep DEF TableInv
<1> QED BY <1>1, <1>2, <1>3, <1>4, <1>5, StepFrame

\* A client that starts a call of the allocator, or takes its result, holds no ID
\* in the allocator.
LEMMA AllocCalls ==
  ASSUME AllocInv, GotApart, NEW c \in Clients, CallNextID(c) \/ Collect(c)
  PROVE  /\ AllocInv' /\ given' = given /\ ~At(c, "got")'
         /\ \A d \in Clients \ {c} : alloc'[d] = alloc[d]
<1>1. alloc \in [Clients -> Call]
  BY DEF AllocInv, AllocTypeOK
<1>2. /\ given' = given /\ ~At(c, "got")'
      /\ \A d \in Clients \ {c} : alloc'[d] = alloc[d]
  BY <1>1 DEF CallNextID, Collect, Return, Move, At
<1> QED BY <1>2, LocalInv

-----------------------------------------------------------------------------
(* Steps that leave the tables alone.                                      *)

\* A client moves on, or ends, while the tables and the answers stay.
LEMMA QuietKeeps ==
  ASSUME Additive, CassandraInv, NEW c \in Clients,
         UNCHANGED <<schemas, fingerprints, versions, latest, promised>>,
         AllocInv', GotApart', given \subseteq given',
         ClientShape', \A d \in Clients \ {c} : Rests(d), ClientInv(c)'
  PROVE  CassandraInv'
<1>1. TableInv' /\ Grows
  BY TablesKeep
<1>2. AnswersStored'
  BY DEF CassandraInv, AnswersStored
<1> QED BY <1>1, <1>2, StepFrame

\* The allocator stays as it is.
LEMMA AllocRests ==
  ASSUME CassandraInv, UNCHANGED <<allocVars, fingerprints>>
  PROVE  AllocInv' /\ GotApart' /\ given \subseteq given'
<1>1. AllocInv'
  BY AllocStepInv DEF CassandraInv
<1>2. GotApart'
  BY DEF CassandraInv, GotApart, At, allocVars
<1> QED BY <1>1, <1>2 DEF allocVars

\* A call ends without an answer.
LEMMA EndKeeps ==
  ASSUME Additive, CassandraInv, NEW c \in Clients, End(c),
         UNCHANGED <<schemas, fingerprints, versions, latest>>,
         AllocInv', GotApart', given \subseteq given'
  PROVE  CassandraInv'
<1>1. Finish(c) /\ promised' = promised /\ ClientShape
  BY DEF End, CassandraInv
<1>2. ClientShape' /\ (\A d \in Clients \ {c} : Rests(d)) /\ ClientInv(c)'
  BY <1>1, Finished
<1> QED BY <1>1, <1>2, QuietKeeps

\* A registration answers what is stored.
LEMMA AnswerKeeps ==
  ASSUME Additive, CassandraInv, NEW c \in Clients, NEW v, NEW id, Answer(c, v, id),
         TableInv', Grows, AllocInv', GotApart',
         req[c].subject \in Subjects, v \in DOMAIN versions'[req[c].subject],
         versions'[req[c].subject][v].id = id, id \in DOMAIN schemas', schemas'[id] = req[c].fp
  PROVE  CassandraInv'
<1>1. Finish(c) /\ ClientShape
      /\ promised' = promised \cup {[subject |-> req[c].subject, version |-> v, id |-> id, fp |-> req[c].fp]}
  BY DEF Answer, CassandraInv
<1>2. ClientShape' /\ (\A d \in Clients \ {c} : Rests(d)) /\ ClientInv(c)'
  BY <1>1, Finished
<1>3. AnswersStored'
  <2> SUFFICES ASSUME NEW p \in promised'
               PROVE  /\ p.subject \in Subjects
                      /\ p.version \in DOMAIN versions'[p.subject]
                      /\ versions'[p.subject][p.version].id = p.id
                      /\ p.id \in DOMAIN schemas' /\ schemas'[p.id] = p.fp
    BY DEF AnswersStored
  <2>1. CASE p \in promised
    BY <2>1, AnswersKeep
  <2>2. CASE p = [subject |-> req[c].subject, version |-> v, id |-> id, fp |-> req[c].fp]
    BY <2>2
  <2> QED BY <1>1, <2>1, <2>2
<1> QED BY <1>2, <1>3, StepFrame

\* The places a call can go to, and what it holds in those before its version.
LEMMA PlaceFacts ==
  /\ Creates \cup Softs \subseteq {"idle"} \cup Creates \cup Softs
  /\ {"fast", "alloc", "data", "write", "find", "latest", "insert", "conflict", "publish", "refs"} = Creates
  /\ "idle" \notin Creates \cup Softs
  /\ Creates \cap Softs = {}
BY DEF Creates, Softs, Claims, Stores

\* A call begins.
LEMMA BeginKeeps ==
  ASSUME Additive, CassandraInv, NEW c \in Clients, NEW r \in Requests, Begin(c, r)
  PROVE  CassandraInv'
<1>1. /\ r.op \in {"create", "deleteVersion", "deleteSubject", "setting"}
      /\ r.op = "deleteVersion" => r.version \in Nat \ {0}
  BY RequestFields
<1>2. PICK label \in {"fast", "deleteRead", "subjectRead", "setting"} :
        /\ pc' = [pc EXCEPT ![c] = label]
        /\ label = "fast" => r.op = "create"
        /\ label = "deleteRead" => r.op = "deleteVersion"
        /\ label = "subjectRead" => r.op = "deleteSubject"
        /\ label = "setting" => r.op = "setting"
  BY <1>1 DEF Begin, Goto, FirstStep
<1>3. PICK l \in Locals : loc' = [loc EXCEPT ![c] = l]
  <2>1. loc[c] \in Locals /\ loc \in [Clients -> Locals]
    BY DEF CassandraInv, ClientShape
  <2>2. PICK n \in Nat, m \in Nat :
          loc' = [loc EXCEPT ![c].version = n, ![c].id = m]
    BY <1>1 DEF Begin
  <2> QED BY <2>1, <2>2 DEF Locals
<1>4. ClientShape' /\ (\A d \in Clients \ {c} : Rests(d)) /\ pc'[c] = label /\ req'[c] = r
  <2>1. /\ ClientShape /\ req' = [req EXCEPT ![c] = r]
        /\ label \in {"idle"} \cup Creates \cup Softs
    BY DEF CassandraInv, Begin, Creates, Softs
  <2>2. ClientShape'
    BY <1>2, <1>3, <2>1 DEF ClientShape
  <2> QED BY <1>2, <1>3, <2>1, <2>2 DEF ClientShape, Rests
<1>5. ClientInv(c)'
  BY <1>2, <1>4 DEF ClientInv, Creates, Softs, Claims, Stores, Inserts, Owns
<1>6. AllocInv' /\ GotApart' /\ given \subseteq given'
  BY AllocRests DEF Begin, tableVars
<1> QED BY <1>4, <1>5, <1>6, QuietKeeps DEF Begin, tableVars

\* What is known of a client in a registration.
LEMMA CreateFields ==
  ASSUME Additive, CassandraInv, NEW c \in Clients, pc[c] \in Creates
  PROVE  /\ ClientShape /\ ClientInv(c) /\ req[c] \in Requests /\ req[c].op = "create"
         /\ req[c].subject \in Subjects /\ req[c].fp \in Fingerprints /\ req[c].meta \in Metas
         /\ loc[c] \in Locals /\ loc[c].id \in Nat /\ loc[c].version \in Nat /\ loc[c].attempt \in Nat
         /\ loc[c].seen.version \in Nat
         /\ pc[c] \in Stores => loc[c].id \in DOMAIN schemas /\ schemas[loc[c].id] = req[c].fp
<1>1. ClientShape /\ ClientInv(c) /\ loc[c] \in Locals
  BY DEF CassandraInv, ClientShape
<1>2. req[c] \in Requests /\ req[c].op = "create"
  BY <1>1, PlaceFacts DEF ClientInv
<1>3. pc[c] \in Stores => loc[c].id \in DOMAIN schemas /\ schemas[loc[c].id] = req[c].fp
  <2> SUFFICES ASSUME pc[c] \in Stores
               PROVE  loc[c].id \in DOMAIN schemas /\ schemas[loc[c].id] = req[c].fp
    OBVIOUS
  <2>1. /\ loc[c].id \in DOMAIN schemas
        /\ req[c].fp \in DOMAIN fingerprints /\ fingerprints[req[c].fp] = loc[c].id
    BY <1>1 DEF ClientInv, Claims
  <2> QED BY <2>1 DEF CassandraInv, TableInv, OneIDPerContent, ClaimsApart
<1> QED BY <1>1, <1>2, <1>3, RequestFields, LocalFields

\* ensureGlobalSchema: the claimed ID is taken over, or one is asked for.
LEMMA FastKeeps ==
  ASSUME Additive, CassandraInv, NEW c \in Clients, CreateFast(c)
  PROVE  CassandraInv'
<1>1. /\ pc[c] = "fast" /\ pc[c] \in Creates /\ UNCHANGED <<req, promised, schemas, fingerprints, versions, latest>>
  BY DEF CreateFast, Unmoved, tableVars, Creates
<1>2. ClientShape /\ ClientInv(c) /\ req[c] \in Requests /\ req[c].op = "create" /\ loc[c] \in Locals
  BY <1>1, CreateFields
<1>3. CASE /\ req[c].fp \in DOMAIN fingerprints
           /\ Keep(c, "data", [loc[c] EXCEPT !.id = fingerprints[req[c].fp]])
           /\ UNCHANGED allocVars
  <2>1. fingerprints[req[c].fp] \in Nat
    BY <1>3 DEF CassandraInv, TableInv, ClaimsApart, AllocInv, AllocTypeOK
  <2>2. PICK l \in Locals : l = [loc[c] EXCEPT !.id = fingerprints[req[c].fp]] /\ l.id = fingerprints[req[c].fp]
    <3>1. PICK l0 \in Locals : l0 = loc[c]
      BY <1>2
    <3>2. PICK n \in Nat : n = fingerprints[req[c].fp]
      BY <2>1
    <3>3. [l0 EXCEPT !.id = n] \in Locals /\ [l0 EXCEPT !.id = n].id = n
      BY WithID
    <3> QED BY <3>1, <3>2, <3>3
  <2>3. "data" \in {"idle"} \cup Creates \cup Softs
    BY PlaceFacts
  <2>4. Keep(c, "data", l)
    BY <1>3, <2>2
  <2>5. ClientShape' /\ (\A d \in Clients \ {c} : Rests(d)) /\ pc'[c] = "data" /\ loc'[c] = l /\ req'[c] = req[c]
    BY <1>1, <1>2, <2>3, <2>4, Kept
  <2>6. ClientInv(c)'
    BY <1>1, <1>2, <1>3, <2>2, <2>5 DEF ClientInv, Creates, Softs, Claims, Stores, Inserts, Owns
  <2>7. AllocInv' /\ GotApart' /\ given \subseteq given'
    BY <1>1, <1>3, AllocRests
  <2> QED BY <1>1, <2>5, <2>6, <2>7, QuietKeeps
<1>4. CASE Continue(c, "alloc") /\ CallNextID(c)
  <2>1. "alloc" \in {"idle"} \cup Creates \cup Softs
    BY PlaceFacts
  <2>2. ClientShape' /\ (\A d \in Clients \ {c} : Rests(d)) /\ pc'[c] = "alloc" /\ req'[c] = req[c]
    BY <1>1, <1>2, <1>4, <2>1, Continued
  <2>3. ClientInv(c)'
    BY <1>2, <2>2 DEF ClientInv, Creates, Softs, Claims, Stores, Inserts, Owns
  <2>4. /\ AllocInv' /\ given' = given /\ ~At(c, "got")'
        /\ \A d \in Clients \ {c} : alloc'[d] = alloc[d]
    BY <1>4, AllocCalls DEF CassandraInv
  <2>5. GotApart'
    BY <1>1, <2>4 DEF CassandraInv, GotApart, At
  <2> QED BY <1>1, <2>2, <2>3, <2>4, <2>5, QuietKeeps
<1> QED BY <1>3, <1>4 DEF CreateFast

\* The allocator failed.
LEMMA NoIDKeeps ==
  ASSUME Additive, CassandraInv, NEW c \in Clients, CreateNoID(c)
  PROVE  CassandraInv'
<1>1. End(c) /\ Collect(c) /\ UNCHANGED <<schemas, fingerprints, versions, latest>>
  BY DEF CreateNoID, tableVars
<1>2. /\ AllocInv' /\ given' = given /\ ~At(c, "got")'
      /\ \A d \in Clients \ {c} : alloc'[d] = alloc[d]
  BY <1>1, AllocCalls DEF CassandraInv
<1>3. GotApart'
  BY <1>1, <1>2 DEF CassandraInv, GotApart, At
<1> QED BY <1>1, <1>2, <1>3, EndKeeps

\* claimFingerprint: the content gets the new ID, or has one.
LEMMA ClaimKeeps ==
  ASSUME Additive, CassandraInv, NEW c \in Clients, CreateClaim(c)
  PROVE  CassandraInv'
<1>1. /\ pc[c] = "alloc" /\ pc[c] \in Creates /\ At(c, "got") /\ Collect(c)
      /\ UNCHANGED <<req, promised, schemas, versions, latest>>
  BY DEF CreateClaim, Unmoved, Creates
<1>2. ClientShape /\ ClientInv(c) /\ req[c] \in Requests /\ req[c].op = "create" /\ loc[c] \in Locals
  BY <1>1, CreateFields
<1>3. /\ AllocInv' /\ given' = given /\ ~At(c, "got")'
      /\ \A d \in Clients \ {c} : alloc'[d] = alloc[d]
  BY <1>1, AllocCalls DEF CassandraInv
<1>4. PICK id \in Nat : id = alloc[c].id
  BY DEF CassandraInv, AllocInv, AllocTypeOK, Call
<1>5. /\ id \in given /\ \A f \in DOMAIN fingerprints : fingerprints[f] # id
      /\ \A d \in Clients \ {c} : At(d, "got") => alloc[d].id # id
      /\ OneIDPerContent /\ ClaimsApart /\ TableInv
  BY <1>1, <1>4 DEF CassandraInv, GotApart, TableInv
<1>6. /\ req[c].fp \in DOMAIN fingerprints' /\ fingerprints'[req[c].fp] \in Nat
      /\ Keep(c, "data", [loc[c] EXCEPT !.id = fingerprints'[req[c].fp]])
      /\ \A f \in DOMAIN fingerprints : f \in DOMAIN fingerprints' /\ fingerprints'[f] = fingerprints[f]
      /\ \A f \in DOMAIN fingerprints' \ DOMAIN fingerprints : f = req[c].fp /\ fingerprints'[f] = id
  <2>1. CASE /\ req[c].fp \in DOMAIN fingerprints
             /\ Keep(c, "data", [loc[c] EXCEPT !.id = fingerprints[req[c].fp]])
             /\ UNCHANGED fingerprints
    BY <1>5, <2>1 DEF ClaimsApart, CassandraInv, AllocInv, AllocTypeOK
  <2>2. CASE /\ req[c].fp \notin DOMAIN fingerprints
             /\ Keep(c, "data", [loc[c] EXCEPT !.id = alloc[c].id])
             /\ fingerprints' = Put(fingerprints, req[c].fp, alloc[c].id)
    <3>1. /\ DOMAIN fingerprints' = DOMAIN fingerprints \cup {req[c].fp}
          /\ fingerprints'[req[c].fp] = id
          /\ \A f \in DOMAIN fingerprints : fingerprints'[f] = fingerprints[f]
      BY <1>4, <2>2 DEF Put
    <3> QED BY <1>4, <2>2, <3>1
  <2> QED BY <2>1, <2>2 DEF CreateClaim
<1>7. TableInv' /\ Grows
  <2>1. ClaimsApart'
    BY <1>3, <1>5, <1>6 DEF ClaimsApart
  <2>2. OneIDPerContent'
    BY <1>1, <1>5, <1>6 DEF OneIDPerContent
  <2>3. TableShape' /\ RowsHaveContent' /\ PublishedVersions'
    BY <1>1, <1>5 DEF TableInv, TableShape, RowsHaveContent, PublishedVersions
  <2>4. \A s \in Subjects : latest[s].version \in Nat
    BY <1>5 DEF TableInv, TableShape, Latest
  <2> QED BY <1>1, <1>6, <2>1, <2>2, <2>3, <2>4 DEF TableInv, Grows
<1>8. GotApart'
  <2> SUFFICES ASSUME NEW d \in Clients, At(d, "got")'
               PROVE  /\ alloc'[d].id \in given'
                      /\ \A e \in Clients \ {d} : At(e, "got")' => alloc'[e].id # alloc'[d].id
                      /\ \A f \in DOMAIN fingerprints' : fingerprints'[f] # alloc'[d].id
    BY DEF GotApart
  <2>1. d # c /\ alloc'[d] = alloc[d] /\ At(d, "got")
    BY <1>3 DEF At
  <2>2. /\ alloc[d].id \in given /\ alloc[d].id # id
        /\ \A e \in Clients \ {d} : At(e, "got") => alloc[e].id # alloc[d].id
        /\ \A f \in DOMAIN fingerprints : fingerprints[f] # alloc[d].id
    BY <1>5, <2>1 DEF CassandraInv, GotApart
  <2>3. \A e \in Clients \ {d} : At(e, "got")' => alloc'[e].id # alloc'[d].id
    BY <1>3, <2>1, <2>2 DEF At
  <2> QED BY <1>3, <1>6, <2>1, <2>2, <2>3
<1>9. PICK n \in Nat : n = fingerprints'[req[c].fp]
  BY <1>6
<1>10. PICK l \in Locals : l = [loc[c] EXCEPT !.id = n] /\ l.id = n
  <2>1. PICK l0 \in Locals : l0 = loc[c]
    BY <1>2
  <2>2. [l0 EXCEPT !.id = n] \in Locals /\ [l0 EXCEPT !.id = n].id = n
    BY WithID
  <2> QED BY <2>1, <2>2
<1>11. Keep(c, "data", l) /\ "data" \in {"idle"} \cup Creates \cup Softs
  BY <1>6, <1>9, <1>10, PlaceFacts
<1>12. ClientShape' /\ (\A d \in Clients \ {c} : Rests(d)) /\ pc'[c] = "data" /\ loc'[c] = l /\ req'[c] = req[c]
  BY <1>1, <1>2, <1>11, Kept
<1>13. ClientInv(c)'
  BY <1>2, <1>6, <1>9, <1>10, <1>12 DEF ClientInv, Creates, Softs, Claims, Stores, Inserts, Owns
<1>14. AnswersStored'
  BY <1>1, <1>7, AnswersKeep DEF AnswersStored
<1> QED BY <1>3, <1>7, <1>8, <1>12, <1>13, <1>14, StepFrame

\* A registration goes on to a place for which it has all it needs.
LEMMA GoOnKeeps ==
  ASSUME Additive, CassandraInv, NEW c \in Clients, NEW label \in Creates, pc[c] \in Creates,
         Continue(c, label), UNCHANGED <<req, promised, schemas, fingerprints, versions, latest>>,
         UNCHANGED allocVars,
         label \in Claims => pc[c] \in Claims,
         label \in Stores => loc[c].id \in DOMAIN schemas,
         label \in Inserts => pc[c] \in Inserts,
         label \in Owns => pc[c] \in Owns
  PROVE  CassandraInv'
<1>1. ClientShape /\ ClientInv(c) /\ req[c] \in Requests /\ req[c].op = "create"
  BY CreateFields
<1>2. label \in {"idle"} \cup Creates \cup Softs /\ label \notin Softs /\ label # "idle" /\ label # "mark"
  BY DEF Creates, Softs, Claims, Stores
<1>3. ClientShape' /\ (\A d \in Clients \ {c} : Rests(d)) /\ pc'[c] = label /\ loc'[c] = loc[c] /\ req'[c] = req[c]
  BY <1>1, <1>2, Continued
<1>4. ClientInv(c)'
  BY <1>1, <1>2, <1>3 DEF ClientInv, Softs
<1>5. AllocInv' /\ GotApart' /\ given \subseteq given'
  BY AllocRests
<1> QED BY <1>3, <1>4, <1>5, QuietKeeps

\* ensureSchemaData looks for the content.
LEMMA DataKeeps ==
  ASSUME Additive, CassandraInv, NEW c \in Clients, CreateData(c)
  PROVE  CassandraInv'
<1>1. /\ pc[c] = "data" /\ pc[c] \in Creates /\ pc[c] \in Claims
      /\ UNCHANGED <<req, promised, schemas, fingerprints, versions, latest>> /\ UNCHANGED allocVars
  BY DEF CreateData, Unmoved, Quiet, tableVars, Creates, Claims
<1>2. CASE loc[c].id \in DOMAIN schemas
  <2>1. Continue(c, "find") /\ "find" \in Creates /\ "find" \notin Inserts /\ "find" \notin Owns
    BY <1>2 DEF CreateData, Creates, Claims, Stores, Inserts, Owns
  <2> QED BY <1>1, <1>2, <2>1, GoOnKeeps
<1>3. CASE loc[c].id \notin DOMAIN schemas
  <2>1. /\ Continue(c, "write") /\ "write" \in Creates
        /\ "write" \notin Stores /\ "write" \notin Inserts /\ "write" \notin Owns
    BY <1>3 DEF CreateData, Creates, Claims, Stores, Inserts, Owns
  <2> QED BY <1>1, <1>3, <2>1, GoOnKeeps
<1> QED BY <1>2, <1>3

\* ensureSchemaData writes the content of a claimed ID, perhaps once more.
LEMMA WriteKeeps ==
  ASSUME Additive, CassandraInv, NEW c \in Clients, CreateWrite(c)
  PROVE  CassandraInv'
<1>1. /\ pc[c] = "write" /\ pc[c] \in Creates /\ pc[c] \in Claims
      /\ UNCHANGED <<req, promised, fingerprints, versions, latest>> /\ UNCHANGED allocVars
      /\ Continue(c, "find") /\ schemas' = Put(schemas, loc[c].id, req[c].fp)
  BY DEF CreateWrite, Unmoved, Creates, Claims
<1>2. /\ ClientShape /\ ClientInv(c) /\ req[c] \in Requests /\ req[c].op = "create"
      /\ TableInv /\ OneIDPerContent /\ ClaimsApart
  BY <1>1, CreateFields DEF CassandraInv, TableInv
<1>3. req[c].fp \in DOMAIN fingerprints /\ fingerprints[req[c].fp] = loc[c].id
  BY <1>1, <1>2 DEF ClientInv
<1>4. /\ DOMAIN schemas' = DOMAIN schemas \cup {loc[c].id} /\ schemas'[loc[c].id] = req[c].fp
      /\ \A i \in DOMAIN schemas : i # loc[c].id => schemas'[i] = schemas[i]
  BY <1>1 DEF Put
<1>5. \A i \in DOMAIN schemas : schemas'[i] = schemas[i]
  BY <1>2, <1>3, <1>4 DEF OneIDPerContent, ClaimsApart
<1>6. OneIDPerContent'
  BY <1>1, <1>2, <1>3, <1>4, <1>5 DEF OneIDPerContent
<1>7. TableShape' /\ ClaimsApart' /\ RowsHaveContent' /\ PublishedVersions'
  BY <1>1, <1>2, <1>4 DEF TableInv, TableShape, ClaimsApart, RowsHaveContent, PublishedVersions, allocVars
<1>8. Grows
  <2>1. \A s \in Subjects : latest[s].version \in Nat
    BY <1>2 DEF TableInv, TableShape, Latest
  <2> QED BY <1>1, <1>4, <1>5, <2>1 DEF Grows
<1>9. "find" \in {"idle"} \cup Creates \cup Softs
  BY PlaceFacts
<1>10. ClientShape' /\ (\A d \in Clients \ {c} : Rests(d)) /\ pc'[c] = "find" /\ loc'[c] = loc[c] /\ req'[c] = req[c]
  BY <1>1, <1>2, <1>9, Continued
<1>11. ClientInv(c)'
  BY <1>1, <1>2, <1>3, <1>4, <1>10 DEF ClientInv, Creates, Softs, Claims, Stores, Inserts, Owns
<1>12. AllocInv' /\ GotApart'
  BY <1>1, AllocRests
<1>13. AnswersStored'
  BY <1>1, <1>8, AnswersKeep DEF AnswersStored
<1> QED BY <1>6, <1>7, <1>8, <1>10, <1>11, <1>12, <1>13, StepFrame DEF TableInv

\* A set of numbers that is not empty has a least one, which MinOf finds.
LEMMA MinOfNat ==
  ASSUME NEW V \in SUBSET Nat, V # {}
  PROVE  MinOf(V) \in V /\ \A w \in V : MinOf(V) <= w
<1> DEFINE R == OpToRel(<, Nat)
<1>1. IsWellFoundedOn(R, Nat)
  BY NatLessThanWellFounded
<1>2. PICK x \in V : \A y \in V : <<y, x>> \notin R
  <2> HIDE DEF R
  <2> QED BY <1>1, WFMin
<1>3. \A y \in V : x <= y
  <2> SUFFICES ASSUME NEW y \in V PROVE x <= y
    OBVIOUS
  <2>1. x \in Nat /\ y \in Nat
    OBVIOUS
  <2>2. ~(y < x)
    BY <1>2, <2>1 DEF OpToRel
  <2> QED BY <2>1, <2>2
<1> QED BY <1>3 DEF MinOf

\* The duplicate check answers a version that is there, or finds none.
LEMMA FindKeeps ==
  ASSUME Additive, CassandraInv, NEW c \in Clients, CreateFind(c)
  PROVE  CassandraInv'
<1>1. /\ pc[c] = "find" /\ pc[c] \in Creates /\ pc[c] \in Claims /\ pc[c] \in Stores
      /\ UNCHANGED <<schemas, fingerprints, versions, latest>> /\ UNCHANGED allocVars
  BY DEF CreateFind, Quiet, tableVars, Creates, Claims, Stores
<1>2. /\ ClientInv(c) /\ req[c].subject \in Subjects
      /\ loc[c].id \in DOMAIN schemas /\ schemas[loc[c].id] = req[c].fp
  BY <1>1, CreateFields
<1>3. PICK s \in Subjects : s = req[c].subject
  BY <1>2
<1>4. PICK V \in SUBSET DOMAIN versions[s] :
        V = Found(s, loc[c].id) /\ \A v \in V : versions[s][v].id = loc[c].id
  <2>1. /\ Found(s, loc[c].id) \in SUBSET DOMAIN versions[s]
        /\ \A v \in Found(s, loc[c].id) : versions[s][v].id = loc[c].id
    BY DEF Found, Live
  <2> QED BY <2>1
<1>5. V \subseteq Nat
  BY DEF CassandraInv, TableInv, TableShape
<1>6. CASE V # {} /\ Answer(c, MinOf(V), loc[c].id)
  <2>1. MinOf(V) \in V
    BY <1>5, <1>6, MinOfNat
  <2>2. PICK v \in V : v = MinOf(V)
    BY <2>1
  <2>3. PICK id : id = loc[c].id
    OBVIOUS
  <2>4. Answer(c, v, id)
    BY <1>6, <2>2, <2>3
  <2>5. TableInv' /\ Grows /\ AllocInv' /\ GotApart'
    BY <1>1, TablesKeep, AllocRests
  <2>6. /\ v \in DOMAIN versions'[req[c].subject] /\ versions'[req[c].subject][v].id = id
        /\ id \in DOMAIN schemas' /\ schemas'[id] = req[c].fp
    BY <1>1, <1>2, <1>3, <1>4, <2>3
  <2> QED BY <1>2, <2>4, <2>5, <2>6, AnswerKeeps
<1>7. CASE Continue(c, "latest") /\ Unmoved
  <2>1. /\ "latest" \in Creates /\ "latest" \in Stores /\ "latest" \notin Inserts /\ "latest" \notin Owns
        /\ UNCHANGED <<req, promised>>
    BY <1>7 DEF Unmoved, Creates, Claims, Stores, Inserts, Owns
  <2> QED BY <1>1, <1>2, <1>7, <2>1, GoOnKeeps
<1> QED BY <1>3, <1>4, <1>6, <1>7 DEF CreateFind

\* The row of subject_latest is read.
LEMMA LatestKeeps ==
  ASSUME Additive, CassandraInv, NEW c \in Clients, CreateLatest(c)
  PROVE  CassandraInv'
<1>1. /\ pc[c] = "latest" /\ pc[c] \in Creates /\ pc[c] \in Claims /\ pc[c] \in Stores
      /\ UNCHANGED <<req, promised, schemas, fingerprints, versions, latest>> /\ UNCHANGED allocVars
  BY DEF CreateLatest, Unmoved, Quiet, tableVars, Creates, Claims, Stores
<1>2. /\ ClientShape /\ ClientInv(c) /\ req[c] \in Requests /\ req[c].op = "create"
      /\ req[c].subject \in Subjects /\ loc[c] \in Locals
  BY <1>1, CreateFields
<1>3. PICK x \in Latest : x = latest[req[c].subject] /\ x.version \in Nat
  BY <1>2 DEF CassandraInv, TableInv, TableShape, Latest
<1>4. PICK l \in Locals : /\ Keep(c, "insert", l) /\ l.id = loc[c].id
                          /\ l.seen = x /\ l.version = x.version + 1
  <2>1. PICK l0 \in Locals : l0 = loc[c]
    BY <1>2
  <2>2. PICK n \in Nat : n = x.version + 1
    BY <1>3
  <2>3. Keep(c, "insert", [l0 EXCEPT !.seen = x, !.version = n])
    BY <1>3, <2>1, <2>2 DEF CreateLatest
  <2>4. PICK k : k = [l0 EXCEPT !.seen = x, !.version = n]
    OBVIOUS
  <2>5. k \in Locals /\ k.id = l0.id /\ k.seen = x /\ k.version = n
    <3>1. k \in Locals
      BY <2>4 DEF Locals
    <3>2. k.id = l0.id
      BY <2>4 DEF Locals
    <3>3. k.seen = x
      BY <2>4 DEF Locals
    <3>4. k.version = n
      BY <2>4 DEF Locals
    <3> QED BY <3>1, <3>2, <3>3, <3>4
  <2> QED BY <2>1, <2>2, <2>3, <2>4, <2>5
<1>5. "insert" \in {"idle"} \cup Creates \cup Softs
  BY PlaceFacts
<1>6. ClientShape' /\ (\A d \in Clients \ {c} : Rests(d)) /\ pc'[c] = "insert" /\ loc'[c] = l /\ req'[c] = req[c]
  BY <1>1, <1>2, <1>4, <1>5, Kept
<1>7. l.version = l.seen.version + 1 /\ l.seen.version <= latest'[req[c].subject].version
  BY <1>1, <1>3, <1>4
<1>8. ClientInv(c)'
  <2>1. /\ req[c].fp \in DOMAIN fingerprints' /\ fingerprints'[req[c].fp] = l.id
        /\ l.id \in DOMAIN schemas'
    BY <1>1, <1>2, <1>4 DEF ClientInv
  <2>2. "insert" \notin Softs /\ "insert" \notin Owns
    BY DEF Softs, Owns
  <2> QED BY <1>2, <1>6, <1>7, <2>1, <2>2 DEF ClientInv
<1>9. AllocInv' /\ GotApart' /\ given \subseteq given'
  BY <1>1, AllocRests
<1> QED BY <1>1, <1>6, <1>8, <1>9, QuietKeeps

\* INSERT ... IF NOT EXISTS: the version is new, and the one after the published one.
LEMMA InsertKeeps ==
  ASSUME Additive, CassandraInv, NEW c \in Clients, CreateInsert(c)
  PROVE  CassandraInv'
<1>1. /\ pc[c] = "insert" /\ pc[c] \in Creates /\ pc[c] \in Claims /\ pc[c] \in Stores /\ pc[c] \in Inserts
      /\ UNCHANGED <<req, promised, schemas, fingerprints, latest>> /\ UNCHANGED allocVars
  BY DEF CreateInsert, Unmoved, Creates, Claims, Stores, Inserts
<1>2. /\ ClientShape /\ ClientInv(c) /\ req[c] \in Requests /\ req[c].op = "create" /\ req[c].meta \in Metas
      /\ req[c].subject \in Subjects /\ loc[c].id \in Nat /\ loc[c].version \in Nat /\ loc[c].seen.version \in Nat
      /\ TableInv
  BY <1>1, CreateFields DEF CassandraInv
<1>3. PICK s \in Subjects, v \in Nat \ {0} : s = req[c].subject /\ v = loc[c].version
  BY <1>1, <1>2 DEF ClientInv
<1>4. CASE v \in DOMAIN versions[s]
  <2>1. /\ UNCHANGED versions /\ Continue(c, "conflict")
        /\ "conflict" \in Creates /\ "conflict" \notin Owns
    BY <1>3, <1>4 DEF CreateInsert, Creates, Claims, Stores, Owns
  <2>2. loc[c].id \in DOMAIN schemas
    BY <1>1, <1>2 DEF ClientInv
  <2> QED BY <1>1, <1>2, <2>1, <2>2, GoOnKeeps
<1>5. CASE v \notin DOMAIN versions[s]
  <2>1. PICK row \in Row : row.id = loc[c].id /\ versions' = [versions EXCEPT ![s] = Put(@, v, row)]
    <3>1. [id |-> loc[c].id, deleted |-> FALSE, meta |-> req[c].meta] \in Row
      BY <1>2 DEF Row
    <3> QED BY <1>3, <1>5, <3>1 DEF CreateInsert
  <2>2. Continue(c, "publish")
    BY <1>3, <1>5 DEF CreateInsert
  <2>3. /\ versions' = [t \in Subjects |-> versions'[t]]
        /\ \A t \in Subjects \ {s} : versions'[t] = versions[t]
        /\ versions'[s] = Put(versions[s], v, row)
    BY <1>2, <2>1 DEF TableInv, TableShape
  <2>4. /\ DOMAIN versions'[s] = DOMAIN versions[s] \cup {v} /\ versions'[s][v] = row
        /\ \A w \in DOMAIN versions[s] : versions'[s][w] = versions[s][w]
    BY <1>5, <2>3 DEF Put
  <2>5. \A t \in Subjects : latest[t] \in Latest /\ latest[t].version \in Nat /\ latest'[t] = latest[t]
    BY <1>1, <1>2 DEF TableInv, TableShape, Latest
  <2>6. TableShape'
    BY <1>1, <1>2, <2>3, <2>4 DEF TableInv, TableShape
  <2>7. RowsHaveContent'
    <3>1. row.id \in DOMAIN schemas
      BY <1>1, <1>2, <2>1 DEF ClientInv
    <3> QED BY <1>1, <1>2, <2>3, <2>4, <3>1 DEF TableInv, RowsHaveContent
  <2>8. ClaimsApart' /\ OneIDPerContent'
    BY <1>1, <1>2 DEF TableInv, ClaimsApart, OneIDPerContent, allocVars
  <2>9. PublishedVersions'
    <3>1. v <= latest[s].version + 1
      BY <1>1, <1>2, <1>3, <2>5 DEF ClientInv
    <3>2. latest[s].version # 0 => latest[s].version \in DOMAIN versions[s]
      BY <1>2, <2>5 DEF TableInv, PublishedVersions
    <3> SUFFICES ASSUME NEW t \in Subjects
                 PROVE  /\ \A w \in 1..latest[t].version : w \in DOMAIN versions'[t]
                        /\ latest[t].version # 0 => versions'[t][latest[t].version].id = latest[t].id
                        /\ \A w \in DOMAIN versions'[t] : w <= latest[t].version + 1
      BY <1>1 DEF PublishedVersions
    <3>3. /\ \A w \in 1..latest[t].version : w \in DOMAIN versions[t]
          /\ latest[t].version # 0 => versions[t][latest[t].version].id = latest[t].id
          /\ \A w \in DOMAIN versions[t] : w <= latest[t].version + 1
      BY <1>2 DEF TableInv, PublishedVersions
    <3>4. CASE t = s
      BY <2>4, <3>1, <3>2, <3>3, <3>4
    <3>5. CASE t # s
      BY <2>3, <3>3, <3>5
    <3> QED BY <3>4, <3>5
  <2>10. Grows
    BY <1>1, <2>3, <2>4, <2>5 DEF Grows
  <2>11. "publish" \in {"idle"} \cup Creates \cup Softs
    BY PlaceFacts
  <2>12. ClientShape' /\ (\A d \in Clients \ {c} : Rests(d)) /\ pc'[c] = "publish" /\ loc'[c] = loc[c] /\ req'[c] = req[c]
    BY <1>1, <1>2, <2>2, <2>11, Continued
  <2>13. ClientInv(c)'
    <3>1. /\ req[c].fp \in DOMAIN fingerprints' /\ fingerprints'[req[c].fp] = loc[c].id
          /\ loc[c].id \in DOMAIN schemas'
          /\ loc[c].version = loc[c].seen.version + 1
          /\ loc[c].seen.version <= latest'[req[c].subject].version
      BY <1>1, <1>2 DEF ClientInv
    <3>2. loc[c].version \in DOMAIN versions'[req[c].subject]
          /\ versions'[req[c].subject][loc[c].version].id = loc[c].id
      BY <1>3, <2>1, <2>4
    <3>3. "publish" \notin Softs
      BY DEF Softs
    <3> QED BY <1>2, <2>12, <3>1, <3>2, <3>3 DEF ClientInv
  <2>14. AllocInv' /\ GotApart'
    BY <1>1, AllocRests
  <2>15. AnswersStored'
    BY <1>1, <2>10, AnswersKeep DEF AnswersStored
  <2> QED BY <2>6, <2>7, <2>8, <2>9, <2>10, <2>12, <2>13, <2>14, <2>15, StepFrame DEF TableInv
<1> QED BY <1>4, <1>5

\* The next attempt begins with the duplicate check, or the call gives up.
LEMMA AgainKeeps ==
  ASSUME Additive, CassandraInv, NEW c \in Clients, pc[c] \in Stores, Again(c),
         UNCHANGED <<schemas, fingerprints, versions, latest>>, UNCHANGED allocVars
  PROVE  CassandraInv'
<1>1. pc[c] \in Creates /\ pc[c] \in Claims /\ AllocInv' /\ GotApart' /\ given \subseteq given'
  BY AllocRests DEF Creates, Claims
<1>2. /\ ClientShape /\ ClientInv(c) /\ req[c] \in Requests /\ req[c].op = "create"
      /\ loc[c] \in Locals
  BY <1>1, CreateFields
<1>3. CASE End(c)
  BY <1>1, <1>3, EndKeeps
<1>4. CASE /\ Keep(c, "find", [loc[c] EXCEPT !.attempt = @ + 1, !.version = 0, !.seen = NoLatest])
           /\ Unmoved
  <2>1. PICK l0 \in Locals : l0 = loc[c]
    BY <1>2
  <2>2. /\ [l0 EXCEPT !.attempt = @ + 1, !.version = 0, !.seen = NoLatest] \in Locals
        /\ [l0 EXCEPT !.attempt = @ + 1, !.version = 0, !.seen = NoLatest].id = l0.id
    BY NextAttempt
  <2>3. PICK l \in Locals : Keep(c, "find", l) /\ l.id = loc[c].id
    BY <1>4, <2>1, <2>2
  <2>4. "find" \in {"idle"} \cup Creates \cup Softs /\ UNCHANGED <<req, promised>>
    BY <1>4, PlaceFacts DEF Unmoved
  <2>5. ClientShape' /\ (\A d \in Clients \ {c} : Rests(d)) /\ pc'[c] = "find" /\ loc'[c] = l /\ req'[c] = req[c]
    BY <1>2, <2>3, <2>4, Kept
  <2>6. ClientInv(c)'
    <3>1. /\ req[c].fp \in DOMAIN fingerprints' /\ fingerprints'[req[c].fp] = l.id
          /\ l.id \in DOMAIN schemas'
      BY <1>1, <1>2, <2>3 DEF ClientInv
    <3>2. "find" \notin Softs /\ "find" \notin Owns /\ "find" \notin Inserts
      BY DEF Softs, Owns, Inserts
    <3> QED BY <1>2, <2>5, <3>1, <3>2 DEF ClientInv
  <2> QED BY <1>1, <2>4, <2>5, <2>6, QuietKeeps
<1> QED BY <1>3, <1>4 DEF Again

\* The version is taken: by this very content, which is the answer, or another.
LEMMA ConflictKeeps ==
  ASSUME Additive, CassandraInv, NEW c \in Clients, CreateConflict(c)
  PROVE  CassandraInv'
<1>1. /\ pc[c] = "conflict" /\ pc[c] \in Creates /\ pc[c] \in Stores
      /\ UNCHANGED <<schemas, fingerprints, versions, latest>> /\ UNCHANGED allocVars
  BY DEF CreateConflict, Quiet, tableVars, Creates, Claims, Stores
<1>2. /\ req[c].subject \in Subjects
      /\ loc[c].id \in DOMAIN schemas /\ schemas[loc[c].id] = req[c].fp
  BY <1>1, CreateFields
<1>3. CASE Again(c)
  BY <1>1, <1>3, AgainKeeps
<1>4. CASE /\ loc[c].version \in Live(req[c].subject)
           /\ versions[req[c].subject][loc[c].version].id = loc[c].id
           /\ Answer(c, loc[c].version, loc[c].id)
  <2>1. TableInv' /\ Grows /\ AllocInv' /\ GotApart'
    BY <1>1, TablesKeep, AllocRests
  <2>2. PICK v, id : v = loc[c].version /\ id = loc[c].id
    OBVIOUS
  <2>3. /\ v \in DOMAIN versions'[req[c].subject] /\ versions'[req[c].subject][v].id = id
        /\ id \in DOMAIN schemas' /\ schemas'[id] = req[c].fp /\ Answer(c, v, id)
    BY <1>1, <1>2, <1>4, <2>2 DEF Live
  <2> QED BY <1>2, <2>1, <2>3, AnswerKeeps
<1> QED BY <1>3, <1>4 DEF CreateConflict

\* The compare-and-set of subject_latest: the published version is the next one.
LEMMA PublishKeeps ==
  ASSUME Additive, CassandraInv, NEW c \in Clients, CreatePublish(c)
  PROVE  CassandraInv'
<1>1. /\ pc[c] = "publish" /\ pc[c] \in Creates /\ pc[c] \in Claims /\ pc[c] \in Stores
      /\ pc[c] \in Inserts /\ pc[c] \in Owns
      /\ UNCHANGED <<schemas, fingerprints, versions>> /\ UNCHANGED allocVars
  BY DEF CreatePublish, Creates, Claims, Stores, Inserts, Owns
<1>2. /\ ClientShape /\ ClientInv(c) /\ req[c] \in Requests /\ req[c].op = "create"
      /\ req[c].subject \in Subjects /\ loc[c].id \in Nat /\ loc[c].version \in Nat /\ loc[c].seen.version \in Nat
      /\ loc[c].id \in DOMAIN schemas /\ schemas[loc[c].id] = req[c].fp
      /\ TableInv
  BY <1>1, CreateFields DEF CassandraInv
<1>3. CASE latest[req[c].subject] # loc[c].seen
  BY <1>1, <1>3, AgainKeeps DEF CreatePublish
<1>4. CASE latest[req[c].subject] = loc[c].seen
  <2>1. PICK s \in Subjects, v \in Nat, id \in Nat : s = req[c].subject /\ v = loc[c].version /\ id = loc[c].id
    BY <1>2
  <2>2. /\ v = latest[s].version + 1 /\ v \in DOMAIN versions[s] /\ versions[s][v].id = id
    BY <1>1, <1>2, <1>4, <2>1 DEF ClientInv
  <2>3. latest' = [latest EXCEPT ![s] = [version |-> v, id |-> id]]
    BY <1>4, <2>1 DEF CreatePublish
  <2>4. \A t \in Subjects : latest[t] \in Latest /\ latest[t].version \in Nat
    BY <1>2 DEF TableInv, TableShape, Latest
  <2>5. /\ latest'[s].version = v /\ latest'[s].id = id
        /\ \A t \in Subjects \ {s} : latest'[t] = latest[t]
        /\ latest' \in [Subjects -> Latest]
    BY <1>2, <2>3 DEF TableInv, TableShape, Latest
  <2>6. TableShape' /\ ClaimsApart' /\ OneIDPerContent' /\ RowsHaveContent'
    BY <1>1, <1>2, <2>5 DEF TableInv, TableShape, ClaimsApart, OneIDPerContent, RowsHaveContent, allocVars
  <2>7. PublishedVersions'
    <3> SUFFICES ASSUME NEW t \in Subjects
                 PROVE  /\ \A w \in 1..latest'[t].version : w \in DOMAIN versions[t]
                        /\ latest'[t].version # 0 => versions[t][latest'[t].version].id = latest'[t].id
                        /\ \A w \in DOMAIN versions[t] : w <= latest'[t].version + 1
      BY <1>1 DEF PublishedVersions
    <3>1. /\ \A w \in 1..latest[t].version : w \in DOMAIN versions[t]
          /\ latest[t].version # 0 => versions[t][latest[t].version].id = latest[t].id
          /\ \A w \in DOMAIN versions[t] : w <= latest[t].version + 1 /\ w \in Nat
      BY <1>2 DEF TableInv, TableShape, PublishedVersions
    <3>2. CASE t = s
      <4>1. \A w \in 1..v : w \in DOMAIN versions[s]
        BY <2>2, <2>4, <3>1, <3>2
      <4>2. \A w \in DOMAIN versions[s] : w <= v + 1
        BY <2>2, <2>4, <3>1, <3>2
      <4> QED BY <2>2, <2>5, <3>2, <4>1, <4>2
    <3>3. CASE t # s
      BY <2>5, <3>1, <3>3
    <3> QED BY <3>2, <3>3
  <2>8. Grows
    BY <1>1, <2>2, <2>4, <2>5 DEF Grows
  <2>9. AllocInv' /\ GotApart' /\ TableInv'
    BY <1>1, <2>6, <2>7, AllocRests DEF TableInv
  <2>10. CASE Answer(c, loc[c].version, loc[c].id)
    <3>1. Answer(c, v, id)
      BY <2>1, <2>10
    <3>2. /\ v \in DOMAIN versions'[req[c].subject] /\ versions'[req[c].subject][v].id = id
          /\ id \in DOMAIN schemas' /\ schemas'[id] = req[c].fp
      BY <1>1, <1>2, <2>1, <2>2
    <3> QED BY <1>2, <2>8, <2>9, <3>1, <3>2, AnswerKeeps
  <2>11. CASE Continue(c, "refs") /\ Unmoved
    <3>1. "refs" \in {"idle"} \cup Creates \cup Softs /\ UNCHANGED <<req, promised>>
      BY <2>11, PlaceFacts DEF Unmoved
    <3>2. ClientShape' /\ (\A d \in Clients \ {c} : Rests(d)) /\ pc'[c] = "refs" /\ loc'[c] = loc[c] /\ req'[c] = req[c]
      BY <1>2, <2>11, <3>1, Continued
    <3>3. ClientInv(c)'
      <4>1. /\ req[c].fp \in DOMAIN fingerprints' /\ fingerprints'[req[c].fp] = loc[c].id
            /\ loc[c].id \in DOMAIN schemas'
            /\ loc[c].version = loc[c].seen.version + 1
            /\ loc[c].version \in DOMAIN versions'[req[c].subject]
            /\ versions'[req[c].subject][loc[c].version].id = loc[c].id
        BY <1>1, <1>2 DEF ClientInv
      <4>2. loc[c].seen.version <= latest'[req[c].subject].version
        BY <1>4, <2>1, <2>2, <2>4, <2>5
      <4>3. "refs" \notin Softs
        BY DEF Softs
      <4> QED BY <1>2, <3>2, <4>1, <4>2, <4>3 DEF ClientInv
    <3>4. AnswersStored'
      BY <2>8, <3>1, AnswersKeep DEF AnswersStored
    <3> QED BY <2>8, <2>9, <3>2, <3>3, <3>4, StepFrame
  <2> QED BY <1>4, <2>10, <2>11 DEF CreatePublish
<1> QED BY <1>3, <1>4

\* The references are indexed and the registration answers.
LEMMA RefsKeeps ==
  ASSUME Additive, CassandraInv, NEW c \in Clients, CreateRefs(c)
  PROVE  CassandraInv'
<1>1. /\ pc[c] = "refs" /\ pc[c] \in Creates /\ pc[c] \in Stores /\ pc[c] \in Owns
      /\ UNCHANGED <<schemas, fingerprints, versions, latest>> /\ UNCHANGED allocVars
      /\ Answer(c, loc[c].version, loc[c].id)
  BY DEF CreateRefs, Creates, Claims, Stores, Owns
<1>2. /\ ClientInv(c) /\ req[c].subject \in Subjects
      /\ loc[c].id \in DOMAIN schemas /\ schemas[loc[c].id] = req[c].fp
  BY <1>1, CreateFields
<1>3. TableInv' /\ Grows /\ AllocInv' /\ GotApart'
  BY <1>1, TablesKeep, AllocRests
<1>4. PICK v, id : v = loc[c].version /\ id = loc[c].id
  OBVIOUS
<1>5. /\ v \in DOMAIN versions'[req[c].subject] /\ versions'[req[c].subject][v].id = id
      /\ id \in DOMAIN schemas' /\ schemas'[id] = req[c].fp /\ Answer(c, v, id)
  BY <1>1, <1>2, <1>4 DEF ClientInv
<1> QED BY <1>2, <1>3, <1>5, AnswerKeeps

-----------------------------------------------------------------------------
(* Soft deletes and settings.                                              *)

\* What is known of a client in a delete or a setting.
LEMMA SoftFields ==
  ASSUME Additive, CassandraInv, NEW c \in Clients, pc[c] \in Softs
  PROVE  /\ ClientShape /\ ClientInv(c) /\ req[c] \in Requests /\ req[c].subject \in Subjects
         /\ req[c].op \in {"deleteVersion", "deleteSubject"} => req[c].permanent = FALSE
         /\ loc[c] \in Locals
<1>1. ClientShape /\ ClientInv(c) /\ loc[c] \in Locals
  BY DEF CassandraInv, ClientShape
<1>2. req[c] \in Requests
  BY <1>1, PlaceFacts DEF ClientInv
<1> QED BY <1>1, <1>2, RequestFields

\* DeleteSchema reads the version.
LEMMA DeleteReadKeeps ==
  ASSUME Additive, CassandraInv, NEW c \in Clients, DeleteRead(c)
  PROVE  CassandraInv'
<1>1. /\ pc[c] = "deleteRead" /\ pc[c] \in Softs
      /\ UNCHANGED <<schemas, fingerprints, versions, latest>> /\ UNCHANGED allocVars
  BY DEF DeleteRead, Quiet, tableVars, Softs
<1>2. /\ ClientShape /\ ClientInv(c) /\ req[c] \in Requests /\ req[c].op = "deleteVersion"
      /\ req[c].permanent = FALSE /\ req[c].subject \in Subjects /\ loc[c] \in Locals
  BY <1>1, SoftFields DEF ClientInv
<1>3. AllocInv' /\ GotApart' /\ given \subseteq given'
  BY <1>1, AllocRests
<1>4. PICK s, v : s \in Subjects /\ s = req[c].subject /\ v = loc[c].version
  BY <1>2
<1>5. CASE v \notin DOMAIN versions[s]
  <2>1. End(c)
    BY <1>4, <1>5 DEF DeleteRead
  <2> QED BY <1>1, <1>3, <2>1, EndKeeps
<1>6. CASE v \in DOMAIN versions[s]
  <2>1. versions[s][v].id \in Nat
    BY <1>4, <1>6 DEF CassandraInv, TableInv, TableShape, Row
  <2>2. PICK l0 \in Locals, n \in Nat : l0 = loc[c] /\ n = versions[s][v].id
    BY <1>2, <2>1
  <2>3. Keep(c, "mark", [l0 EXCEPT !.id = n]) /\ UNCHANGED <<req, promised>>
    BY <1>2, <1>4, <1>6, <2>2 DEF DeleteRead, Unmoved
  <2>4. [l0 EXCEPT !.id = n] \in Locals /\ [l0 EXCEPT !.id = n].version = l0.version
    BY DEF Locals
  <2>5. PICK l \in Locals : Keep(c, "mark", l) /\ l.version = v
    BY <1>4, <2>2, <2>3, <2>4
  <2>6. "mark" \in {"idle"} \cup Creates \cup Softs
    BY DEF Softs
  <2>7. ClientShape' /\ (\A d \in Clients \ {c} : Rests(d)) /\ pc'[c] = "mark" /\ loc'[c] = l /\ req'[c] = req[c]
    BY <1>2, <2>3, <2>5, <2>6, Kept
  <2>8. ClientInv(c)'
    BY <1>1, <1>2, <1>4, <1>6, <2>5, <2>7 DEF ClientInv, Creates, Softs, Claims, Stores, Inserts, Owns
  <2> QED BY <1>1, <1>3, <2>3, <2>7, <2>8, QuietKeeps
<1> QED BY <1>5, <1>6

\* DeleteSubject reads the versions.
LEMMA SubjectReadKeeps ==
  ASSUME Additive, CassandraInv, NEW c \in Clients, SubjectRead(c)
  PROVE  CassandraInv'
<1>1. /\ pc[c] = "subjectRead" /\ pc[c] \in Softs
      /\ UNCHANGED <<schemas, fingerprints, versions, latest>> /\ UNCHANGED allocVars
  BY DEF SubjectRead, Quiet, tableVars, Softs
<1>2. /\ ClientShape /\ ClientInv(c) /\ req[c] \in Requests /\ req[c].op = "deleteSubject"
      /\ req[c].permanent = FALSE /\ req[c].subject \in Subjects /\ loc[c] \in Locals
  BY <1>1, SoftFields DEF ClientInv
<1>3. AllocInv' /\ GotApart' /\ given \subseteq given'
  BY <1>1, AllocRests
<1>4. PICK s \in Subjects : s = req[c].subject
  BY <1>2
<1>5. CASE End(c)
  BY <1>1, <1>3, <1>5, EndKeeps
<1>6. CASE /\ Keep(c, "mark", [loc[c] EXCEPT !.todo = Live(s), !.version = 0])
           /\ Unmoved
  <2>1. Live(s) \in SUBSET Nat /\ Live(s) \subseteq DOMAIN versions[s]
    BY DEF CassandraInv, TableInv, TableShape, Live
  <2>2. PICK l0 \in Locals, V \in SUBSET Nat : l0 = loc[c] /\ V = Live(s)
    BY <1>2, <2>1
  <2>3. PICK l : l = [l0 EXCEPT !.todo = V, !.version = 0]
    OBVIOUS
  <2>4. l \in Locals
    BY <2>3 DEF Locals
  <2>5. l.todo = V
    BY <2>3 DEF Locals
  <2>6. Keep(c, "mark", l) /\ UNCHANGED <<req, promised>>
    BY <1>6, <2>2, <2>3 DEF Unmoved
  <2>7. "mark" \in {"idle"} \cup Creates \cup Softs
    BY DEF Softs
  <2>8. ClientShape' /\ (\A d \in Clients \ {c} : Rests(d)) /\ pc'[c] = "mark" /\ loc'[c] = l /\ req'[c] = req[c]
    BY <1>2, <2>4, <2>6, <2>7, Kept
  <2>9. ClientInv(c)'
    BY <1>1, <1>2, <1>4, <2>1, <2>2, <2>5, <2>8 DEF ClientInv, Creates, Softs, Claims, Stores, Inserts, Owns
  <2> QED BY <1>1, <1>3, <2>6, <2>8, <2>9, QuietKeeps
<1> QED BY <1>2, <1>4, <1>5, <1>6 DEF SubjectRead

\* The versions are marked; they keep their IDs, and none is made.
LEMMA MarkKeeps ==
  ASSUME Additive, CassandraInv, NEW c \in Clients, MarkDeleted(c)
  PROVE  CassandraInv'
<1>1. /\ pc[c] = "mark" /\ pc[c] \in Softs /\ End(c)
      /\ UNCHANGED <<schemas, fingerprints, latest>> /\ UNCHANGED allocVars
  BY DEF MarkDeleted, Softs
<1>2. /\ ClientShape /\ ClientInv(c) /\ req[c].subject \in Subjects /\ TableInv
  BY <1>1, SoftFields DEF CassandraInv
<1>3. PICK s, V : /\ s \in Subjects /\ s = req[c].subject /\ V \subseteq DOMAIN versions[s]
                  /\ versions' = [versions EXCEPT ![s] = Marked(s, V)]
  <2>1. CASE req[c].op = "deleteSubject"
    BY <1>1, <1>2, <2>1 DEF MarkDeleted, ClientInv
  <2>2. CASE req[c].op = "deleteVersion"
    BY <1>1, <1>2, <2>2 DEF MarkDeleted, ClientInv
  <2> QED BY <1>1, <1>2, <2>1, <2>2 DEF ClientInv
<1>4. /\ versions' = [t \in Subjects |-> versions'[t]]
      /\ \A t \in Subjects \ {s} : versions'[t] = versions[t]
      /\ versions'[s] = Marked(s, V)
  BY <1>2, <1>3 DEF TableInv, TableShape
<1>5. /\ DOMAIN versions'[s] = DOMAIN versions[s]
      /\ \A v \in DOMAIN versions[s] : versions'[s][v] \in Row /\ versions'[s][v].id = versions[s][v].id
  <2>1. DOMAIN versions'[s] = DOMAIN versions[s]
    BY <1>3, <1>4 DEF Marked
  <2> SUFFICES ASSUME NEW v \in DOMAIN versions[s]
               PROVE  versions'[s][v] \in Row /\ versions'[s][v].id = versions[s][v].id
    BY <2>1
  <2>2. PICK row \in Row : row = versions[s][v]
    BY <1>2, <1>3 DEF TableInv, TableShape
  <2>3. versions'[s][v] = row \/ versions'[s][v] = [row EXCEPT !.deleted = TRUE]
    BY <1>3, <1>4, <2>2 DEF Marked
  <2>4. [row EXCEPT !.deleted = TRUE] \in Row /\ [row EXCEPT !.deleted = TRUE].id = row.id
    BY DEF Row
  <2> QED BY <2>2, <2>3, <2>4
<1>6. /\ \A t \in Subjects : DOMAIN versions'[t] = DOMAIN versions[t]
      /\ \A t \in Subjects : \A v \in DOMAIN versions[t] :
           versions'[t][v].id = versions[t][v].id /\ versions'[t][v] \in Row
  BY <1>2, <1>3, <1>4, <1>5 DEF TableInv, TableShape
<1>7. \A t \in Subjects : latest[t].version \in Nat
  BY <1>2 DEF TableInv, TableShape, Latest
<1>8. Grows
  BY <1>1, <1>6, <1>7 DEF Grows
<1>9. TableShape' /\ RowsHaveContent' /\ ClaimsApart' /\ OneIDPerContent'
  BY <1>1, <1>2, <1>4, <1>6 DEF TableInv, TableShape, RowsHaveContent, ClaimsApart, OneIDPerContent, allocVars
<1>10. PublishedVersions'
  <2> SUFFICES ASSUME NEW t \in Subjects
               PROVE  /\ \A w \in 1..latest[t].version : w \in DOMAIN versions'[t]
                      /\ latest[t].version # 0 => versions'[t][latest[t].version].id = latest[t].id
                      /\ \A w \in DOMAIN versions'[t] : w <= latest[t].version + 1
    BY <1>1 DEF PublishedVersions
  <2>1. /\ \A w \in 1..latest[t].version : w \in DOMAIN versions[t]
        /\ latest[t].version # 0 => versions[t][latest[t].version].id = latest[t].id
        /\ \A w \in DOMAIN versions[t] : w <= latest[t].version + 1
    BY <1>2 DEF TableInv, PublishedVersions
  <2>2. latest[t].version # 0 => latest[t].version \in DOMAIN versions[t]
    BY <1>7, <2>1
  <2> QED BY <1>6, <2>1, <2>2
<1>11. ClientShape' /\ (\A d \in Clients \ {c} : Rests(d)) /\ ClientInv(c)' /\ promised' = promised
  BY <1>1, <1>2, Finished DEF End
<1>12. AnswersStored' /\ AllocInv' /\ GotApart'
  BY <1>1, <1>8, <1>11, AnswersKeep, AllocRests DEF AnswersStored
<1> QED BY <1>8, <1>9, <1>10, <1>11, <1>12, StepFrame DEF TableInv

\* A configuration or a mode is written.
LEMMA SettingKeeps ==
  ASSUME Additive, CassandraInv, NEW c \in Clients, PutSetting(c)
  PROVE  CassandraInv'
<1>1. End(c) /\ UNCHANGED <<schemas, fingerprints, versions, latest>> /\ UNCHANGED allocVars
  BY DEF PutSetting
<1> QED BY <1>1, AllocRests, EndKeeps

-----------------------------------------------------------------------------
(* Every step.                                                             *)

\* Without imports and permanent deletes a client is at none of their places.
LEMMA PlacesOnly ==
  ASSUME CassandraInv, NEW c \in Clients
  PROVE  pc[c] \notin {"importID", "importVersion", "importClaim", "importWrite", "importLatest",
           "importBatch", "advance", "setNext", "unindex", "deleteRow", "orphan", "dropSchema",
           "dropRefs", "others", "dropFingerprint", "dropLatest", "dropConfig", "dropMode"}
BY DEF CassandraInv, ClientShape, Creates, Softs, Claims, Stores

\* A query fails: the call ends, or goes on as if nothing had been found.
LEMMA FaultKeeps ==
  ASSUME Additive, CassandraInv, NEW c \in Clients, Abort(c) \/ Swallow(c)
  PROVE  CassandraInv'
<1>1. /\ UNCHANGED <<schemas, fingerprints, versions, latest>> /\ UNCHANGED allocVars
      /\ AllocInv' /\ GotApart' /\ given \subseteq given'
  BY AllocRests DEF Abort, Swallow, Quiet, tableVars
<1>2. CASE End(c)
  BY <1>1, <1>2, EndKeeps
<1>3. CASE pc[c] = "find" /\ Continue(c, "latest") /\ Unmoved
  <2>1. /\ pc[c] \in Creates /\ pc[c] \in Claims /\ pc[c] \in Stores
        /\ "latest" \in Creates /\ "latest" \in Stores /\ "latest" \notin Inserts /\ "latest" \notin Owns
        /\ UNCHANGED <<req, promised>>
    BY <1>3 DEF Unmoved, Creates, Claims, Stores, Inserts, Owns
  <2>2. loc[c].id \in DOMAIN schemas
    BY <2>1, CreateFields
  <2> QED BY <1>1, <1>3, <2>1, <2>2, GoOnKeeps
<1>4. CASE pc[c] = "conflict" /\ Again(c)
  <2>1. pc[c] \in Stores
    BY <1>4 DEF Stores
  <2> QED BY <1>1, <1>4, <2>1, AgainKeeps
<1> QED BY <1>2, <1>3, <1>4, PlacesOnly DEF Abort, Swallow

\* An instance stops and starts again.
LEMMA RestartInstanceKeeps ==
  ASSUME Additive, CassandraInv, NEW i \in Instances, RestartInstance(i)
  PROVE  CassandraInv'
<1>1. /\ UNCHANGED <<schemas, fingerprints, versions, latest, promised>> /\ Restart(i) /\ given' = given
  BY DEF RestartInstance, tableVars, Restart
<1>2. AllocInv'
  BY <1>1, RestartInv DEF CassandraInv
<1>3. \A c \in Clients : At(c, "got")' => alloc'[c] = alloc[c]
  BY <1>1 DEF Restart, At, NoCall
<1>4. GotApart'
  BY <1>1, <1>3 DEF CassandraInv, GotApart, At
<1>5. TableInv' /\ Grows
  BY <1>1, TablesKeep
<1>6. NoLocals \in Locals
  BY DEF NoLocals, Locals, NoLatest, Latest
<1>7. ClientShape'
  BY <1>6 DEF CassandraInv, ClientShape, RestartInstance
<1>8. ASSUME NEW c \in Clients PROVE ClientInv(c)'
  <2>1. CASE Home[c] = i
    <3>1. pc'[c] = "idle"
      BY <2>1 DEF RestartInstance
    <3> QED BY <3>1 DEF ClientInv, Creates, Softs, Claims, Stores, Inserts, Owns
  <2>2. CASE Home[c] # i
    <3>1. Rests(c)
      BY <2>2 DEF RestartInstance, Rests
    <3> QED BY <1>5, <3>1, OthersKeep DEF TableInv
  <2> QED BY <2>1, <2>2
<1>9. AnswersStored'
  BY <1>1 DEF CassandraInv, AnswersStored
<1> QED BY <1>2, <1>4, <1>5, <1>7, <1>8, <1>9 DEF CassandraInv

\* Every step of every client and instance keeps the invariant.
LEMMA CassandraStep ==
  ASSUME Additive
  PROVE  CassandraInv /\ [Next]_<<vars, turns>> => CassandraInv'
<1> SUFFICES ASSUME CassandraInv, [Next]_<<vars, turns>> PROVE CassandraInv'
  OBVIOUS
<1>1. CASE UNCHANGED <<vars, turns>>
  <2>1. /\ UNCHANGED <<schemas, fingerprints, versions, latest, promised, pc, req, loc>>
        /\ UNCHANGED allocVars
    BY <1>1 DEF vars, tableVars
  <2>2. TableInv' /\ Grows /\ AllocInv' /\ GotApart'
    BY <2>1, TablesKeep, AllocRests
  <2>3. ClientShape' /\ AnswersStored' /\ \A c \in Clients : Rests(c)
    BY <2>1 DEF CassandraInv, ClientShape, AnswersStored, Rests
  <2>4. \A c \in Clients : ClientInv(c)'
    BY <2>2, <2>3, OthersKeep DEF TableInv
  <2> QED BY <2>2, <2>3, <2>4 DEF CassandraInv
<1>2. ASSUME NEW c \in Clients, CreateStep(c) PROVE CassandraInv'
  BY <1>2, FastKeeps, ClaimKeeps, NoIDKeeps, DataKeeps, WriteKeeps, FindKeeps, LatestKeeps,
     InsertKeeps, ConflictKeeps, PublishKeeps, RefsKeeps DEF CreateStep
<1>3. ASSUME NEW c \in Clients, ImportStep(c) PROVE FALSE
  BY <1>3, PlacesOnly DEF ImportStep, ImportID, ImportVersion, ImportClaim, ImportWrite,
     ImportLatest, ImportBatch, ImportAdvance, ImportReturn
<1>4. ASSUME NEW c \in Clients, DeleteStep(c) PROVE CassandraInv'
  <2>1. ~(\/ DeleteUnindex(c) \/ DeleteRow(c) \/ DeleteOrphan(c) \/ DropSchema(c) \/ DropRefs(c)
          \/ DeleteOthers(c) \/ DropFingerprint(c) \/ DropLatest(c) \/ DropSettings(c))
    BY PlacesOnly DEF DeleteUnindex, DeleteRow, DeleteOrphan, DropSchema, DropRefs,
       DeleteOthers, DropFingerprint, DropLatest, DropSettings
  <2> QED BY <1>4, <2>1, DeleteReadKeeps, MarkKeeps, SubjectReadKeeps, SettingKeeps DEF DeleteStep
<1>5. ASSUME NEW c \in Clients, Allocate(c) \/ AllocAbort(c) PROVE CassandraInv'
  BY <1>5, AllocateKeeps DEF Allocate, AllocAbort
<1>6. ASSUME NEW c \in Clients, NEW r \in Requests, Begin(c, r) PROVE CassandraInv'
  BY <1>6, BeginKeeps
<1>7. ASSUME NEW c \in Clients, Abort(c) \/ Swallow(c) PROVE CassandraInv'
  BY <1>7, FaultKeeps
<1>8. ASSUME NEW i \in Instances, RestartInstance(i) PROVE CassandraInv'
  BY <1>8, RestartInstanceKeeps
<1> QED BY <1>1, <1>2, <1>3, <1>4, <1>5, <1>6, <1>7, <1>8 DEF Next, Step

\* The tables and the calls in progress keep the invariant, for any number of
\* instances and clients, whatever queries fail and whichever instance restarts.
THEOREM CassandraIntegrity ==
  ASSUME Additive
  PROVE  Spec => []CassandraInv
BY CassandraInitInv, CassandraStep, PTL DEF Spec

\* Registrations give a content one ID: the claim and the content agree, though
\* claims and writes of several instances interleave and fail half way.
THEOREM ContentHasOneID ==
  ASSUME Additive
  PROVE  Spec => []OneIDPerContent
<1>1. CassandraInv => OneIDPerContent
  BY DEF CassandraInv, TableInv
<1> QED BY <1>1, CassandraIntegrity, PTL

\* Every version that is listed can be read: its ID has content.
THEOREM VersionsCanBeRead ==
  ASSUME Additive
  PROVE  Spec => []NoDanglingVersion
<1>1. CassandraInv => NoDanglingVersion
  BY DEF CassandraInv, TableInv, RowsHaveContent, NoDanglingVersion
<1> QED BY <1>1, CassandraIntegrity, PTL

\* What clients were told stays true: the version is there with its ID, the ID
\* stands for the content, and the published versions have no gap.
THEOREM AnswersStayTrue ==
  ASSUME Additive
  PROVE  Spec => []AnswersTrue
<1>1. CassandraInv => AnswersTrue
  BY DEF CassandraInv, TableInv, AnswersStored, AnswersTrue, PromiseKept, AnswerDurable
<1> QED BY <1>1, CassandraIntegrity, PTL

-----------------------------------------------------------------------------
(* The tables when callers take turns.  One client is active, and the      *)
(* tables agree but for what it has in hand; every part of the invariant   *)
(* is about client c, who is active or, between the calls, anybody.        *)

ImportChecks == {"importID", "importVersion"}
ImportWrites == {"importClaim", "importWrite", "importLatest", "importBatch"}
ImportEnds == {"advance", "setNext"}
Imports == ImportChecks \cup ImportWrites \cup ImportEnds
RowDeletes == {"unindex", "deleteRow"}
Cleanups == {"orphan", "dropSchema", "dropRefs", "others", "dropFingerprint"}
SubjectEnds == {"dropLatest", "dropConfig", "dropMode"}
Purges == RowDeletes \cup Cleanups \cup SubjectEnds
Deletes == {"deleteRead", "mark", "subjectRead"} \cup Purges
Places == {"idle", "setting"} \cup Creates \cup Imports \cup Deletes

\* The request in hand is the one of the place.
Control(c) ==
  /\ pc[c] = "idle" => loc[c] = NoLocals
  /\ pc[c] # "idle" => req[c] \in Requests
  /\ pc[c] \in Creates => req[c].op = "create"
  /\ pc[c] \in Imports => req[c].op = "import" /\ loc[c].id = req[c].id /\ loc[c].version = req[c].version
  /\ pc[c] = "setting" => req[c].op = "setting"
  /\ pc[c] \in Deletes => req[c].op \in {"deleteVersion", "deleteSubject"}
  /\ pc[c] \in {"subjectRead"} \cup SubjectEnds => req[c].op = "deleteSubject"

ClientTypes ==
  /\ pc \in [Clients -> Places]
  /\ req \in [Clients -> Requests \cup {NoRequest}]
  /\ loc \in [Clients -> Locals]

ContentTypes ==
  /\ DOMAIN schemas \subseteq Nat /\ \A i \in DOMAIN schemas : schemas[i] \in Fingerprints
  /\ \E n \in Nat : \A i \in DOMAIN schemas : i <= n
ClaimTypes == DOMAIN fingerprints \subseteq Fingerprints /\ \A f \in DOMAIN fingerprints : fingerprints[f] \in Nat
RowTypes ==
  /\ versions = [s \in Subjects |-> versions[s]]
  /\ \A s \in Subjects : \A v \in DOMAIN versions[s] : v \in Nat /\ versions[s][v] \in Row
ReferenceTypes ==
  /\ schemaReferences \subseteq Nat \X SubjectVersion
  /\ referencesByTarget \subseteq SubjectVersion \X SubjectVersion

TableTypes ==
  /\ ContentTypes /\ ClaimTypes /\ RowTypes /\ ReferenceTypes
  /\ latest \in [Subjects -> Latest]
  /\ settings \subseteq Subjects \X {"subject_configs", "modes"}

Answered == [subject : Subjects, version : Nat, id : Nat, fp : Fingerprints]

\* Every state of every behaviour: whatever calls interleave and fail.
StoreTypes ==
  /\ AllocInv /\ ClientTypes /\ TableTypes /\ promised \subseteq Answered
  /\ \A c \in Clients : Control(c)

-----------------------------------------------------------------------------
(* Type correctness, in all behaviours.                                    *)

\* The fields of any request.
LEMMA AnyRequest ==
  ASSUME NEW r \in Requests
  PROVE  /\ r # NoRequest /\ r.subject \in Subjects
         /\ r.op \in {"create", "import", "deleteVersion", "deleteSubject", "setting"}
         /\ r.op = "create" => r.fp \in Fingerprints /\ r.meta \in Metas
         /\ r.op = "import" => r.fp \in Fingerprints /\ r.id \in Nat \ {0} /\ r.version \in Nat \ {0}
         /\ r.op = "deleteVersion" => r.version \in Nat \ {0} /\ r.permanent \in BOOLEAN
         /\ r.op = "deleteSubject" => r.permanent \in BOOLEAN
         /\ r.op = "setting" => r.table \in {"subject_configs", "modes"}
<1>1. r \in RequestType /\ r # NoRequest
  BY CassandraAssumption
<1>2. CASE r \in [op : {"create"}, subject : Subjects, fp : Fingerprints, meta : Metas]
  BY <1>1, <1>2
<1>3. CASE r \in [op : {"import"}, subject : Subjects, fp : Fingerprints, id : Nat \ {0}, version : Nat \ {0}]
  BY <1>1, <1>3
<1>4. CASE r \in [op : {"deleteVersion"}, subject : Subjects, version : Nat \ {0}, permanent : BOOLEAN]
  BY <1>1, <1>4
<1>5. CASE r \in [op : {"deleteSubject"}, subject : Subjects, permanent : BOOLEAN]
  BY <1>1, <1>5
<1>6. CASE r \in [op : {"setting"}, subject : Subjects, table : {"subject_configs", "modes"}]
  BY <1>1, <1>6
<1> QED BY <1>1, <1>2, <1>3, <1>4, <1>5, <1>6 DEF RequestType

\* The active client's request and locals, by its place.
LEMMA InHand ==
  ASSUME StoreTypes, NEW c \in Clients
  PROVE  /\ Control(c) /\ pc[c] \in Places /\ loc[c] \in Locals
         /\ loc[c].id \in Nat /\ loc[c].version \in Nat /\ loc[c].seen \in Latest /\ loc[c].attempt \in Nat
         /\ loc[c].todo \subseteq Nat /\ loc[c].fp \in Fingerprints \cup {NoContent}
         /\ loc[c].seen.version \in Nat /\ loc[c].seen.id \in Nat
         /\ alloc[c].id \in Nat /\ alloc[c].seen \in Nat
         /\ pc[c] # "idle" => req[c] \in Requests /\ req[c].subject \in Subjects
         /\ pc[c] \in Creates => req[c].op = "create" /\ req[c].fp \in Fingerprints /\ req[c].meta \in Metas
         /\ pc[c] \in Imports => /\ req[c].op = "import" /\ req[c].fp \in Fingerprints
                                 /\ req[c].id \in Nat \ {0} /\ req[c].version \in Nat \ {0}
                                 /\ loc[c].id = req[c].id /\ loc[c].version = req[c].version
         /\ pc[c] \in Deletes => req[c].op \in {"deleteVersion", "deleteSubject"} /\ req[c].permanent \in BOOLEAN
<1>1. Control(c) /\ pc[c] \in Places /\ loc[c] \in Locals /\ alloc[c] \in Call
  BY DEF StoreTypes, ClientTypes, AllocInv, AllocTypeOK
<1>2. pc[c] # "idle" => req[c] \in Requests
  BY <1>1 DEF Control
<1>3. "idle" \notin Creates \cup Imports \cup Deletes
  BY DEF Creates, Claims, Stores, Imports, ImportChecks, ImportWrites, ImportEnds, Deletes, Purges,
         RowDeletes, Cleanups, SubjectEnds
<1>4. alloc[c].id \in Nat /\ alloc[c].seen \in Nat
  BY <1>1 DEF Call
<1>5. pc[c] \in Deletes => req[c].op \in {"deleteVersion", "deleteSubject"} /\ req[c].permanent \in BOOLEAN
  BY <1>1, <1>2, <1>3, AnyRequest DEF Control
<1>6. pc[c] \in Imports => /\ req[c].op = "import" /\ req[c].fp \in Fingerprints
                           /\ req[c].id \in Nat \ {0} /\ req[c].version \in Nat \ {0}
                           /\ loc[c].id = req[c].id /\ loc[c].version = req[c].version
  BY <1>1, <1>2, <1>3, AnyRequest DEF Control
<1>7. pc[c] \in Creates => req[c].op = "create" /\ req[c].fp \in Fingerprints /\ req[c].meta \in Metas
  BY <1>1, <1>2, <1>3, AnyRequest DEF Control
<1>8. pc[c] # "idle" => req[c].subject \in Subjects
  BY <1>2, AnyRequest
<1> QED BY <1>1, <1>2, <1>4, <1>5, <1>6, <1>7, <1>8, LocalFields

\* A client is at a place with its locals, its request unchanged; or has ended.
Goes(c, label, l) == pc'[c] = label /\ loc'[c] = l /\ req'[c] = req[c]
Ends(c) == pc'[c] = "idle" /\ loc'[c] = NoLocals /\ req'[c] = NoRequest

\* The step is one of client c.
StepOf(c) == ClientTypes' /\ \A d \in Clients \ {c} : Rests(d)

\* A client goes to another place.
LEMMA TypesKept ==
  ASSUME ClientTypes, NEW c \in Clients, NEW label \in Places, NEW l \in Locals,
         Keep(c, label, l), UNCHANGED req
  PROVE  StepOf(c) /\ Goes(c, label, l)
BY DEF ClientTypes, Keep, Goto, Rests, StepOf, Goes

\* A client goes on with its locals.
LEMMA TypesContinued ==
  ASSUME ClientTypes, NEW c \in Clients, NEW label \in Places, Continue(c, label), UNCHANGED req
  PROVE  StepOf(c) /\ Goes(c, label, loc[c])
BY DEF ClientTypes, Continue, Goto, Rests, StepOf, Goes

\* A client has finished.
LEMMA TypesFinished ==
  ASSUME ClientTypes, NEW c \in Clients, Finish(c)
  PROVE  StepOf(c) /\ Ends(c)
<1>1. NoLocals \in Locals
  BY DEF NoLocals, Locals, NoLatest, Latest
<1>2. "idle" \in Places
  BY DEF Places
<1> QED BY <1>1, <1>2 DEF ClientTypes, Finish, Goto, Rests, StepOf, Ends

\* A call ends without a new answer.
LEMMA TypesEnd ==
  ASSUME ClientTypes, NEW c \in Clients, End(c)
  PROVE  StepOf(c) /\ Ends(c) /\ promised' = promised
BY TypesFinished DEF End

\* A registration or an import answers.
LEMMA TypesAnswer ==
  ASSUME ClientTypes, NEW c \in Clients, NEW v, NEW id, Answer(c, v, id)
  PROVE  /\ StepOf(c) /\ Ends(c)
         /\ promised' = promised \cup {[subject |-> req[c].subject, version |-> v, id |-> id, fp |-> req[c].fp]}
BY TypesFinished DEF Answer

\* An active client stays with its kind of call, or ends.
LEMMA ControlKept ==
  ASSUME StoreTypes, NEW c \in Clients,
         \/ Ends(c)
         \/ /\ req'[c] = req[c] /\ pc[c] # "idle" /\ pc'[c] # "idle"
            /\ pc'[c] \in Creates => pc[c] \in Creates
            /\ pc'[c] \in Imports => pc[c] \in Imports /\ loc'[c].id = loc[c].id /\ loc'[c].version = loc[c].version
            /\ pc'[c] \in Deletes => pc[c] \in Deletes
            /\ pc'[c] \in SubjectEnds => req[c].op = "deleteSubject"
            /\ pc'[c] \notin {"setting", "subjectRead"}
  PROVE  Control(c)'
<1>1. CASE Ends(c)
  BY <1>1 DEF Ends, Control, Creates, Claims, Stores, Imports, ImportChecks, ImportWrites, ImportEnds,
         Deletes, Purges, RowDeletes, Cleanups, SubjectEnds
<1>2. CASE /\ req'[c] = req[c] /\ pc[c] # "idle" /\ pc'[c] # "idle"
           /\ pc'[c] \in Creates => pc[c] \in Creates
           /\ pc'[c] \in Imports => pc[c] \in Imports /\ loc'[c].id = loc[c].id /\ loc'[c].version = loc[c].version
           /\ pc'[c] \in Deletes => pc[c] \in Deletes
           /\ pc'[c] \in SubjectEnds => req[c].op = "deleteSubject"
           /\ pc'[c] \notin {"setting", "subjectRead"}
  BY <1>2, InHand DEF Control
<1> QED BY <1>1, <1>2

\* A step of one client keeps the types when the tables and the client do.
LEMMA TypesStep ==
  ASSUME StoreTypes, NEW c \in Clients, AllocInv', TableTypes', promised' \subseteq Answered,
         StepOf(c), Control(c)'
  PROVE  StoreTypes'
<1>1. ASSUME NEW d \in Clients, d # c PROVE Control(d)'
  BY <1>1 DEF StoreTypes, StepOf, Rests, Control
<1> QED BY <1>1 DEF StoreTypes, StepOf

\* The allocator is left alone.
LEMMA AllocSame ==
  ASSUME AllocInv, UNCHANGED allocVars
  PROVE  AllocInv'
BY AllocStepInv

\* Every place that is named, once.
LEMMA PlacesNamed ==
  /\ Creates = {"fast", "alloc", "data", "write", "find", "latest", "insert", "conflict", "publish", "refs"}
  /\ Imports = {"importID", "importVersion", "importClaim", "importWrite", "importLatest", "importBatch",
                "advance", "setNext"}
  /\ SubjectEnds = {"dropLatest", "dropConfig", "dropMode"}
  /\ Deletes = {"deleteRead", "mark", "subjectRead", "unindex", "deleteRow", "orphan", "dropSchema", "dropRefs",
                "others", "dropFingerprint"} \cup SubjectEnds
  /\ Places = {"idle", "setting"} \cup Creates \cup Imports \cup Deletes
BY DEF Creates, Claims, Stores, Imports, ImportChecks, ImportWrites, ImportEnds,
       Deletes, Purges, RowDeletes, Cleanups, SubjectEnds, Places

\* A client goes on with another ID in hand.
LEMMA KeepID ==
  ASSUME ClientTypes, NEW c \in Clients, NEW label \in Places, NEW n \in Nat,
         Keep(c, label, [loc[c] EXCEPT !.id = n]), UNCHANGED req
  PROVE  /\ StepOf(c) /\ pc'[c] = label /\ req'[c] = req[c]
         /\ loc'[c].id = n /\ loc'[c].version = loc[c].version /\ loc'[c].todo = loc[c].todo /\ loc'[c].fp = loc[c].fp /\ loc'[c].seen = loc[c].seen
<1>1. loc[c] \in Locals
  BY DEF ClientTypes
<1>2. PICK l : l = [loc[c] EXCEPT !.id = n]
  OBVIOUS
<1>3. l \in Locals
  BY <1>1, <1>2 DEF Locals
<1>4. /\ l.id = n /\ l.version = loc[c].version /\ l.todo = loc[c].todo /\ l.fp = loc[c].fp /\ l.seen = loc[c].seen
  BY <1>1, <1>2 DEF Locals
<1>5. StepOf(c) /\ Goes(c, label, l)
  BY <1>2, <1>3, TypesKept
<1> QED BY <1>4, <1>5 DEF Goes

\* A client goes on with a fingerprint in hand.
LEMMA KeepFp ==
  ASSUME ClientTypes, NEW c \in Clients, NEW label \in Places, NEW f \in Fingerprints \cup {NoContent},
         Keep(c, label, [loc[c] EXCEPT !.fp = f]), UNCHANGED req
  PROVE  /\ StepOf(c) /\ pc'[c] = label /\ req'[c] = req[c]
         /\ loc'[c].id = loc[c].id /\ loc'[c].version = loc[c].version /\ loc'[c].todo = loc[c].todo /\ loc'[c].fp = f /\ loc'[c].seen = loc[c].seen
<1>1. loc[c] \in Locals
  BY DEF ClientTypes
<1>2. PICK l : l = [loc[c] EXCEPT !.fp = f]
  OBVIOUS
<1>3. l \in Locals
  BY <1>1, <1>2 DEF Locals
<1>4. /\ l.id = loc[c].id /\ l.version = loc[c].version /\ l.todo = loc[c].todo /\ l.fp = f /\ l.seen = loc[c].seen
  BY <1>1, <1>2 DEF Locals
<1>5. StepOf(c) /\ Goes(c, label, l)
  BY <1>2, <1>3, TypesKept
<1> QED BY <1>4, <1>5 DEF Goes

\* A client goes on with the row of subject_latest.
LEMMA KeepSeen ==
  ASSUME ClientTypes, NEW c \in Clients, NEW label \in Places, NEW x \in Latest,
         Keep(c, label, [loc[c] EXCEPT !.seen = x]), UNCHANGED req
  PROVE  /\ StepOf(c) /\ pc'[c] = label /\ req'[c] = req[c]
         /\ loc'[c].id = loc[c].id /\ loc'[c].version = loc[c].version /\ loc'[c].todo = loc[c].todo /\ loc'[c].fp = loc[c].fp /\ loc'[c].seen = x
<1>1. loc[c] \in Locals
  BY DEF ClientTypes
<1>2. PICK l : l = [loc[c] EXCEPT !.seen = x]
  OBVIOUS
<1>3. l \in Locals
  BY <1>1, <1>2 DEF Locals
<1>4. /\ l.id = loc[c].id /\ l.version = loc[c].version /\ l.todo = loc[c].todo /\ l.fp = loc[c].fp /\ l.seen = x
  BY <1>1, <1>2 DEF Locals
<1>5. StepOf(c) /\ Goes(c, label, l)
  BY <1>2, <1>3, TypesKept
<1> QED BY <1>4, <1>5 DEF Goes

\* Locals of a client without a call.
LEMMA CleanLocals == NoLocals \in Locals /\ NoLocals.id = 0 /\ NoLocals.fp = NoContent
BY DEF NoLocals, Locals, NoLatest, Latest

\* The tables keep their types, one lemma for each table.
LEMMA SameTables ==
  ASSUME TableTypes, UNCHANGED tableVars
  PROVE  TableTypes'
BY DEF TableTypes, ContentTypes, ClaimTypes, RowTypes, ReferenceTypes, tableVars

\* Only the contents change.
LEMMA ContentsTyped ==
  ASSUME TableTypes, ContentTypes', UNCHANGED <<fingerprints, versions, latest, schemaReferences, referencesByTarget, settings>>
  PROVE  TableTypes'
BY DEF TableTypes, ClaimTypes, RowTypes, ReferenceTypes

\* A content is stored.
LEMMA ContentPut ==
  ASSUME ContentTypes, NEW id \in Nat, NEW fp \in Fingerprints, schemas' = Put(schemas, id, fp)
  PROVE  ContentTypes'
<1>1. DOMAIN schemas' = DOMAIN schemas \cup {id} /\ \A i \in DOMAIN schemas' : schemas'[i] \in Fingerprints
  BY DEF ContentTypes, Put
<1>2. PICK n \in Nat : \A i \in DOMAIN schemas : i <= n
  BY DEF ContentTypes
<1>3. \A i \in DOMAIN schemas' : i <= n + id
  BY <1>1, <1>2 DEF ContentTypes
<1> QED BY <1>1, <1>3 DEF ContentTypes

\* Only the claims change.
LEMMA ClaimsTyped ==
  ASSUME TableTypes, ClaimTypes', UNCHANGED <<schemas, versions, latest, schemaReferences, referencesByTarget, settings>>
  PROVE  TableTypes'
BY DEF TableTypes, ContentTypes, RowTypes, ReferenceTypes

\* Only versions, subject_latest and the references change.
LEMMA RowsTyped ==
  ASSUME TableTypes, RowTypes', latest' \in [Subjects -> Latest], ReferenceTypes',
         UNCHANGED <<schemas, fingerprints, settings>>
  PROVE  TableTypes'
BY DEF TableTypes, ContentTypes, ClaimTypes

\* Rows are written or removed in one subject.
LEMMA RowsOfSubject ==
  ASSUME RowTypes, NEW s \in Subjects, NEW R, versions' = [versions EXCEPT ![s] = R],
         \A v \in DOMAIN R : v \in Nat /\ R[v] \in Row
  PROVE  RowTypes' /\ versions'[s] = R /\ \A t \in Subjects : t # s => versions'[t] = versions[t]
BY DEF RowTypes

\* References are added.
LEMMA ReferencesAdded ==
  ASSUME ReferenceTypes, NEW id \in Nat, NEW s \in Subjects, NEW v \in Nat, NEW fp \in Fingerprints,
         AddReferences(id, s, v, fp)
  PROVE  ReferenceTypes'
<1>1. Refs[fp] \subseteq SubjectVersion
  BY CassandraAssumption
<1>2. <<s, v>> \in SubjectVersion
  BY DEF SubjectVersion
<1> QED BY <1>1, <1>2 DEF ReferenceTypes, AddReferences

\* An answer is typed.
LEMMA AnswerTyped ==
  ASSUME promised \subseteq Answered, NEW s \in Subjects, NEW v \in Nat, NEW id \in Nat, NEW fp \in Fingerprints,
         promised' = promised \cup {[subject |-> s, version |-> v, id |-> id, fp |-> fp]}
  PROVE  promised' \subseteq Answered
BY DEF Answered

\* A step that leaves allocator, tables and answers alone.
LEMMA QuietTypes ==
  ASSUME StoreTypes, NEW c \in Clients, StepOf(c), Control(c)',
         UNCHANGED <<allocVars, tableVars, promised>>
  PROVE  StoreTypes'
BY TypesStep, AllocSame, SameTables DEF StoreTypes

\* A call ends and leaves allocator and tables alone.
LEMMA EndTypes ==
  ASSUME StoreTypes, NEW c \in Clients, End(c), UNCHANGED <<allocVars, tableVars>>
  PROVE  StoreTypes'
<1>1. StepOf(c) /\ Ends(c) /\ promised' = promised
  BY TypesEnd DEF StoreTypes
<1>2. Control(c)'
  BY <1>1, ControlKept
<1> QED BY <1>1, <1>2, QuietTypes

-----------------------------------------------------------------------------
(* What each step does, and that it keeps the types.                       *)

\* The allocator's calls begin and end.
LEMMA AllocCall ==
  ASSUME AllocInv, NEW c \in Clients,
         CallNextID(c) \/ Collect(c) \/ (\E id \in Nat : CallSetNextID(c, id))
  PROVE  /\ AllocInv' /\ UNCHANGED <<nextId, block, mu, given>>
         /\ \A d \in Clients \ {c} : alloc'[d] = alloc[d]
         /\ CallNextID(c) => At(c, "next")'
         /\ Collect(c) => At(c, "idle")'
         /\ \A id \in Nat : CallSetNextID(c, id) => At(c, "setRead")' /\ alloc'[c].id = id
<1>1. alloc \in [Clients -> Call] /\ nextId \in Nat
  BY DEF AllocInv, AllocTypeOK
<1>2. /\ UNCHANGED <<nextId, block, mu, given>> /\ \A d \in Clients \ {c} : alloc'[d] = alloc[d]
  BY <1>1 DEF CallNextID, Collect, CallSetNextID, Return, Move
<1>3. /\ CallNextID(c) => At(c, "next")'
      /\ Collect(c) => At(c, "idle")'
      /\ \A id \in Nat : CallSetNextID(c, id) => At(c, "setRead")' /\ alloc'[c].id = id
  BY <1>1 DEF CallNextID, Collect, CallSetNextID, Return, Move, At
<1>4. PICK s \in {"next", "idle", "setRead"}, id \in Nat : Move(c, s, 0, 0, id)
  BY DEF CallNextID, Collect, CallSetNextID, Return
<1>5. s \in Steps /\ s # "setCas" /\ s \notin {"read", "cas"}
  BY DEF Steps
<1>6. AllocInv'
  BY <1>1, <1>2, <1>4, <1>5, CallInv
<1> QED BY <1>2, <1>3, <1>6

\* What the look at the fingerprint's row does: on to its ID, or a call to the allocator.
LEMMA FastDoes ==
  ASSUME StoreTypes, NEW c \in Clients, CreateFast(c)
  PROVE  /\ StoreTypes' /\ StepOf(c) /\ req'[c] = req[c] /\ pc[c] = "fast" /\ pc[c] \in Creates
         /\ UNCHANGED <<tableVars, promised>>
         /\ \/ /\ req[c].fp \in DOMAIN fingerprints /\ UNCHANGED allocVars
               /\ pc'[c] = "data" /\ loc'[c].id = fingerprints[req[c].fp]
            \/ /\ pc'[c] = "alloc" /\ CallNextID(c)
<1>1. /\ pc[c] = "fast" /\ UNCHANGED <<tableVars, promised, req>> /\ ClientTypes /\ TableTypes /\ loc[c] \in Locals /\ AllocInv
      /\ promised \subseteq Answered
  BY InHand DEF CreateFast, Unmoved, StoreTypes
<1>2. pc[c] \in Creates /\ "data" \in Places /\ "alloc" \in Places /\ pc[c] # "idle"
      /\ {"data", "alloc"} \cap (Imports \cup Deletes \cup SubjectEnds) = {}
  BY <1>1, PlacesNamed
<1>3. CASE req[c].fp \in DOMAIN fingerprints
  <2>1. fingerprints[req[c].fp] \in Nat
    BY <1>1, <1>3 DEF TableTypes, ClaimTypes
  <2>2. Keep(c, "data", [loc[c] EXCEPT !.id = fingerprints[req[c].fp]]) /\ UNCHANGED allocVars
    BY <1>3 DEF CreateFast
  <2>3. StepOf(c) /\ pc'[c] = "data" /\ req'[c] = req[c] /\ loc'[c].id = fingerprints[req[c].fp]
    <3>1. PICK n \in Nat : n = fingerprints[req[c].fp]
      BY <2>1
    <3> QED BY <1>1, <1>2, <2>2, <3>1, KeepID
  <2>4. Control(c)'
    BY <1>1, <1>2, <2>3, ControlKept
  <2> QED BY <1>1, <1>2, <1>3, <2>2, <2>3, <2>4, QuietTypes
<1>4. CASE req[c].fp \notin DOMAIN fingerprints
  <2>1. Continue(c, "alloc") /\ CallNextID(c)
    BY <1>4 DEF CreateFast
  <2>2. StepOf(c) /\ pc'[c] = "alloc" /\ req'[c] = req[c]
    BY <1>1, <1>2, <2>1, TypesContinued DEF Goes
  <2>3. Control(c)'
    BY <1>1, <1>2, <2>2, ControlKept
  <2>4. AllocInv'
    BY <1>1, <2>1, AllocCall
  <2>5. TableTypes' /\ promised' \subseteq Answered
    BY <1>1, SameTables
  <2> QED BY <1>1, <1>2, <2>1, <2>2, <2>3, <2>4, <2>5, TypesStep
<1> QED BY <1>3, <1>4

\* What the conditional claim does: the allocated ID is used, or the other claimant's.
LEMMA ClaimDoes ==
  ASSUME StoreTypes, NEW c \in Clients, CreateClaim(c)
  PROVE  /\ StoreTypes' /\ StepOf(c) /\ req'[c] = req[c] /\ pc[c] = "alloc" /\ pc'[c] = "data" /\ pc[c] \in Creates
         /\ At(c, "got") /\ Collect(c)
         /\ UNCHANGED <<schemas, versions, latest, schemaReferences, referencesByTarget, settings, promised>>
         /\ \/ /\ req[c].fp \in DOMAIN fingerprints /\ loc'[c].id = fingerprints[req[c].fp]
               /\ UNCHANGED fingerprints
            \/ /\ req[c].fp \notin DOMAIN fingerprints /\ loc'[c].id = alloc[c].id
               /\ fingerprints' = Put(fingerprints, req[c].fp, alloc[c].id)
<1>1. /\ pc[c] = "alloc" /\ At(c, "got") /\ Collect(c)
      /\ UNCHANGED <<schemas, versions, latest, schemaReferences, referencesByTarget, settings, promised, req>>
      /\ ClientTypes /\ TableTypes /\ loc[c] \in Locals /\ AllocInv /\ promised \subseteq Answered
  BY InHand DEF CreateClaim, Unmoved, StoreTypes
<1>2. /\ pc[c] \in Creates /\ "data" \in Places /\ pc[c] # "idle"
      /\ "data" \notin Imports \cup Deletes \cup SubjectEnds
  BY <1>1, PlacesNamed
<1>3. alloc[c].id \in Nat /\ req[c].fp \in Fingerprints
  BY <1>2, InHand
<1>4. AllocInv'
  BY <1>1, AllocCall
<1>5. CASE req[c].fp \in DOMAIN fingerprints
  <2>1. fingerprints[req[c].fp] \in Nat
    BY <1>1, <1>5 DEF TableTypes, ClaimTypes
  <2>2. Keep(c, "data", [loc[c] EXCEPT !.id = fingerprints[req[c].fp]]) /\ UNCHANGED fingerprints
    BY <1>5 DEF CreateClaim
  <2>3. StepOf(c) /\ pc'[c] = "data" /\ req'[c] = req[c] /\ loc'[c].id = fingerprints[req[c].fp]
    <3>1. PICK n \in Nat : n = fingerprints[req[c].fp]
      BY <2>1
    <3> QED BY <1>1, <1>2, <2>2, <3>1, KeepID
  <2>4. Control(c)'
    BY <1>1, <1>2, <2>3, ControlKept
  <2>5. TableTypes' /\ promised' \subseteq Answered
    BY <1>1, <2>2, SameTables DEF tableVars
  <2> QED BY <1>1, <1>2, <1>4, <1>5, <2>2, <2>3, <2>4, <2>5, TypesStep
<1>6. CASE req[c].fp \notin DOMAIN fingerprints
  <2>1. /\ Keep(c, "data", [loc[c] EXCEPT !.id = alloc[c].id])
        /\ fingerprints' = Put(fingerprints, req[c].fp, alloc[c].id)
    BY <1>6 DEF CreateClaim
  <2>2. StepOf(c) /\ pc'[c] = "data" /\ req'[c] = req[c] /\ loc'[c].id = alloc[c].id
    <3>1. PICK n \in Nat : n = alloc[c].id
      BY <1>3
    <3> QED BY <1>1, <1>2, <2>1, <3>1, KeepID
  <2>3. Control(c)'
    BY <1>1, <1>2, <2>2, ControlKept
  <2>4. ClaimTypes'
    BY <1>1, <1>3, <2>1 DEF TableTypes, ClaimTypes, Put
  <2>5. TableTypes' /\ promised' \subseteq Answered
    BY <1>1, <2>4, ClaimsTyped
  <2> QED BY <1>1, <1>2, <1>4, <1>6, <2>1, <2>2, <2>3, <2>5, TypesStep
<1> QED BY <1>5, <1>6

\* The caller takes an error of the allocator.
LEMMA NoIDDoes ==
  ASSUME StoreTypes, NEW c \in Clients, CreateNoID(c) \/ (ImportReturn(c) /\ At(c, "failed"))
  PROVE  StoreTypes' /\ At(c, "failed")
<1>1. At(c, "failed") /\ Collect(c) /\ End(c) /\ UNCHANGED tableVars
  BY DEF CreateNoID, ImportReturn, At
<1>2. StepOf(c) /\ Ends(c) /\ promised' = promised
  BY <1>1, TypesEnd DEF StoreTypes
<1>3. Control(c)' /\ AllocInv' /\ TableTypes'
  BY <1>1, <1>2, ControlKept, AllocCall, SameTables DEF StoreTypes
<1> QED BY <1>1, <1>2, <1>3, TypesStep DEF StoreTypes

\* What the read of the content does.
LEMMA DataDoes ==
  ASSUME StoreTypes, NEW c \in Clients, CreateData(c)
  PROVE  /\ StoreTypes' /\ StepOf(c) /\ pc[c] = "data" /\ pc[c] \in Creates
         /\ Goes(c, IF loc[c].id \in DOMAIN schemas THEN "find" ELSE "write", loc[c])
         /\ UNCHANGED <<allocVars, tableVars, promised>>
<1> DEFINE next == IF loc[c].id \in DOMAIN schemas THEN "find" ELSE "write"
<1>1. /\ pc[c] = "data" /\ Continue(c, next)
      /\ UNCHANGED <<allocVars, tableVars, promised, req>> /\ ClientTypes
  BY DEF CreateData, Unmoved, Quiet, StoreTypes
<1>2. pc[c] \in Creates /\ next \in Places /\ next \notin Imports \cup Deletes \cup SubjectEnds /\ pc[c] # "idle"
      /\ next \notin {"setting", "subjectRead"}
  BY <1>1, PlacesNamed
<1>3. StepOf(c) /\ Goes(c, next, loc[c])
  BY <1>1, <1>2, TypesContinued
<1>4. Control(c)'
  BY <1>2, <1>3, ControlKept DEF Goes
<1> QED BY <1>1, <1>2, <1>3, <1>4, QuietTypes

\* What the write of the content does.
LEMMA WriteDoes ==
  ASSUME StoreTypes, NEW c \in Clients, CreateWrite(c)
  PROVE  /\ StoreTypes' /\ StepOf(c) /\ pc[c] = "write" /\ pc[c] \in Creates /\ Goes(c, "find", loc[c])
         /\ schemas' = Put(schemas, loc[c].id, req[c].fp)
         /\ UNCHANGED <<allocVars, fingerprints, versions, latest, schemaReferences, referencesByTarget,
                        settings, promised>>
<1>1. /\ pc[c] = "write" /\ Continue(c, "find") /\ schemas' = Put(schemas, loc[c].id, req[c].fp)
      /\ UNCHANGED <<allocVars, fingerprints, versions, latest, schemaReferences, referencesByTarget,
                     settings, promised, req>>
      /\ ClientTypes /\ TableTypes /\ AllocInv /\ promised \subseteq Answered
  BY DEF CreateWrite, Unmoved, StoreTypes
<1>2. pc[c] \in Creates /\ "find" \in Places /\ "find" \notin Imports \cup Deletes \cup SubjectEnds /\ pc[c] # "idle"
  BY <1>1, PlacesNamed
<1>3. StepOf(c) /\ Goes(c, "find", loc[c])
  BY <1>1, <1>2, TypesContinued
<1>4. Control(c)'
  BY <1>2, <1>3, ControlKept DEF Goes
<1>5. loc[c].id \in Nat /\ req[c].fp \in Fingerprints
  BY <1>2, InHand
<1>6. TableTypes'
  BY <1>1, <1>5, ContentPut, ContentsTyped DEF TableTypes
<1> QED BY <1>1, <1>2, <1>3, <1>4, <1>6, TypesStep, AllocSame

\* A registration answers from what is stored, or goes on.
LEMMA FindDoes ==
  ASSUME StoreTypes, NEW c \in Clients, CreateFind(c)
  PROVE  /\ StoreTypes' /\ StepOf(c) /\ pc[c] = "find" /\ pc[c] \in Creates
         /\ UNCHANGED <<allocVars, tableVars>>
         /\ \/ /\ Goes(c, "latest", loc[c]) /\ promised' = promised
               /\ \/ Found(req[c].subject, loc[c].id) = {} \/ loc[c].id \notin DOMAIN schemas
                  \/ versions[req[c].subject][MinOf(Found(req[c].subject, loc[c].id))].meta # req[c].meta
            \/ /\ Ends(c) /\ loc[c].id \in DOMAIN schemas
               /\ \E v \in Found(req[c].subject, loc[c].id) :
                    promised' = promised \cup {[subject |-> req[c].subject, version |-> v, id |-> loc[c].id,
                                                fp |-> req[c].fp]}
<1> DEFINE s == req[c].subject
           V == Found(s, loc[c].id)
<1>1. /\ pc[c] = "find" /\ UNCHANGED <<allocVars, tableVars>>
      /\ ClientTypes /\ TableTypes /\ AllocInv /\ promised \subseteq Answered
  BY DEF CreateFind, Quiet, StoreTypes
<1>2. pc[c] \in Creates /\ "latest" \in Places /\ "latest" \notin Imports \cup Deletes \cup SubjectEnds /\ pc[c] # "idle"
  BY <1>1, PlacesNamed
<1>3. s \in Subjects /\ loc[c].id \in Nat /\ req[c].fp \in Fingerprints
  BY <1>1, <1>2, InHand
<1>4. V \in SUBSET Nat /\ V \subseteq DOMAIN versions[s]
  BY <1>1, <1>3 DEF Found, Live, TableTypes, RowTypes
<1>5. CASE V # {} /\ loc[c].id \in DOMAIN schemas /\ versions[s][MinOf(V)].meta = req[c].meta
  <2>1. PICK v \in V : v = MinOf(V)
    BY <1>4, <1>5, MinOfNat
  <2>2. Answer(c, v, loc[c].id)
    BY <1>5, <2>1 DEF CreateFind
  <2>3. /\ StepOf(c) /\ Ends(c)
        /\ promised' = promised \cup {[subject |-> s, version |-> v, id |-> loc[c].id, fp |-> req[c].fp]}
    BY <1>1, <2>2, TypesAnswer
  <2>4. Control(c)' /\ AllocInv' /\ TableTypes'
    BY <1>1, <2>3, ControlKept, AllocSame, SameTables
  <2>5. v \in Nat
    BY <1>4
  <2>6. promised' \subseteq Answered
    BY <1>1, <1>3, <2>3, <2>5, AnswerTyped
  <2> QED BY <1>1, <1>2, <1>5, <2>3, <2>4, <2>6, TypesStep
<1>6. CASE ~(V # {} /\ loc[c].id \in DOMAIN schemas /\ versions[s][MinOf(V)].meta = req[c].meta)
  <2>1. Continue(c, "latest") /\ UNCHANGED <<req, promised>>
    BY <1>6 DEF CreateFind, Unmoved
  <2>2. StepOf(c) /\ Goes(c, "latest", loc[c])
    BY <1>1, <1>2, <2>1, TypesContinued
  <2>3. Control(c)'
    BY <1>2, <2>2, ControlKept DEF Goes
  <2> QED BY <1>1, <1>2, <1>6, <2>1, <2>2, <2>3, QuietTypes
<1> QED BY <1>5, <1>6

\* What the read of subject_latest does: its row is remembered, the version above it chosen.
LEMMA LatestDoes ==
  ASSUME StoreTypes, NEW c \in Clients, CreateLatest(c)
  PROVE  /\ StoreTypes' /\ StepOf(c) /\ pc[c] = "latest" /\ pc[c] \in Creates
         /\ UNCHANGED <<allocVars, tableVars, promised>>
         /\ pc'[c] = "insert" /\ req'[c] = req[c] /\ loc'[c].id = loc[c].id
         /\ loc'[c].seen = latest[req[c].subject] /\ loc'[c].version = loc'[c].seen.version + 1
<1>1. /\ pc[c] = "latest" /\ UNCHANGED <<allocVars, tableVars, promised, req>> /\ ClientTypes /\ TableTypes
  BY DEF CreateLatest, Quiet, Unmoved, StoreTypes
<1>2. pc[c] \in Creates /\ "insert" \in Places /\ "insert" \notin Imports \cup Deletes \cup SubjectEnds /\ pc[c] # "idle"
  BY <1>1, PlacesNamed
<1>3. PICK x \in Latest, n \in Nat : x = latest[req[c].subject] /\ n = x.version + 1
  BY <1>1, <1>2, InHand DEF TableTypes, Latest
<1>4. Keep(c, "insert", [loc[c] EXCEPT !.seen = x, !.version = n])
  BY <1>3 DEF CreateLatest
<1>5. StepOf(c) /\ pc'[c] = "insert" /\ req'[c] = req[c] /\ loc'[c].id = loc[c].id /\ loc'[c].seen = x /\ loc'[c].version = n
  <2>1. PICK k \in Locals : k = loc[c]
    BY <1>1 DEF ClientTypes
  <2>2. PICK l : l = [k EXCEPT !.seen = x, !.version = n]
    OBVIOUS
  <2>3. Keep(c, "insert", l)
    BY <1>4, <2>1, <2>2
  <2>7. l \in Locals /\ l.id = k.id /\ l.version = n /\ l.seen = x
    BY <2>2 DEF Locals
  <2>4. l.id = loc[c].id /\ l.version = n /\ l.seen = x /\ UNCHANGED req
    BY <1>1, <2>1, <2>7
  <2>5. StepOf(c) /\ Goes(c, "insert", l)
    BY <1>1, <1>2, <2>3, <2>7, <2>4, TypesKept
  <2> QED BY <2>4, <2>5 DEF Goes
<1>6. Control(c)'
  BY <1>2, <1>5, ControlKept
<1> QED BY <1>1, <1>2, <1>3, <1>5, <1>6, QuietTypes

\* What the conditional insert of the version does.
LEMMA InsertDoes ==
  ASSUME StoreTypes, NEW c \in Clients, CreateInsert(c)
  PROVE  /\ StoreTypes' /\ StepOf(c) /\ pc[c] = "insert" /\ pc[c] \in Creates
         /\ UNCHANGED <<allocVars, schemas, fingerprints, latest, schemaReferences, referencesByTarget, settings, promised>>
         /\ \/ /\ loc[c].version \notin DOMAIN versions[req[c].subject] /\ Goes(c, "publish", loc[c])
               /\ versions'[req[c].subject] = Put(versions[req[c].subject], loc[c].version,
                                                  [id |-> loc[c].id, deleted |-> FALSE, meta |-> req[c].meta])
               /\ \A t \in Subjects : t # req[c].subject => versions'[t] = versions[t]
            \/ /\ loc[c].version \in DOMAIN versions[req[c].subject] /\ Goes(c, "conflict", loc[c])
               /\ UNCHANGED versions
<1> DEFINE s == req[c].subject
           v == loc[c].version
           row == [id |-> loc[c].id, deleted |-> FALSE, meta |-> req[c].meta]
<1>1. /\ pc[c] = "insert"
      /\ UNCHANGED <<allocVars, schemas, fingerprints, latest, schemaReferences, referencesByTarget, settings, promised, req>>
      /\ ClientTypes /\ TableTypes /\ AllocInv /\ promised \subseteq Answered
  BY DEF CreateInsert, Unmoved, StoreTypes
<1>2. /\ pc[c] \in Creates /\ {"publish", "conflict"} \subseteq Places /\ pc[c] # "idle"
      /\ {"publish", "conflict"} \cap (Imports \cup Deletes \cup SubjectEnds) = {}
  BY <1>1, PlacesNamed
<1>3. s \in Subjects /\ v \in Nat /\ loc[c].id \in Nat /\ req[c].meta \in Metas
  BY <1>1, <1>2, InHand
<1>4. CASE v \notin DOMAIN versions[s]
  <2>1. Continue(c, "publish") /\ versions' = [versions EXCEPT ![s] = Put(versions[s], v, row)]
    BY <1>4 DEF CreateInsert
  <2>2. StepOf(c) /\ Goes(c, "publish", loc[c])
    BY <1>1, <1>2, <2>1, TypesContinued
  <2>3. Control(c)'
    BY <1>2, <2>2, ControlKept DEF Goes
  <2>4. row \in Row
    BY <1>3 DEF Row
  <2>5. PICK R : R = Put(versions[s], v, row)
    OBVIOUS
  <2>6. \A w \in DOMAIN R : w \in Nat /\ R[w] \in Row
    <3>1. PICK x \in Row : x = row
      BY <2>4
    <3>2. R = Put(versions[s], v, x)
      BY <2>5, <3>1
    <3> HIDE DEF row, s, v
    <3>3. \A w \in DOMAIN versions[s] : w \in Nat /\ versions[s][w] \in Row
      BY <1>1, <1>3 DEF TableTypes, RowTypes
    <3> QED BY <1>3, <3>2, <3>3 DEF Put
  <2>7. RowTypes' /\ versions'[s] = R /\ \A t \in Subjects : t # s => versions'[t] = versions[t]
    BY <1>1, <1>3, <2>1, <2>5, <2>6, RowsOfSubject DEF TableTypes
  <2>8. TableTypes'
    BY <1>1, <2>7, RowsTyped DEF TableTypes, ReferenceTypes
  <2> QED BY <1>1, <1>2, <1>4, <2>2, <2>3, <2>5, <2>7, <2>8, TypesStep, AllocSame
<1>5. CASE v \in DOMAIN versions[s]
  <2>1. Continue(c, "conflict") /\ UNCHANGED versions
    BY <1>5 DEF CreateInsert
  <2>2. StepOf(c) /\ Goes(c, "conflict", loc[c])
    BY <1>1, <1>2, <2>1, TypesContinued
  <2>3. Control(c)'
    BY <1>2, <2>2, ControlKept DEF Goes
  <2> QED BY <1>1, <1>2, <1>5, <2>1, <2>2, <2>3, QuietTypes DEF tableVars
<1> QED BY <1>4, <1>5

\* A new attempt begins, or the retries are used up.
LEMMA AgainDoes ==
  ASSUME StoreTypes, NEW c \in Clients, pc[c] \in Creates, Again(c), UNCHANGED <<allocVars, tableVars>>
  PROVE  StoreTypes'
<1>1. ClientTypes /\ loc[c] \in Locals
  BY DEF StoreTypes, ClientTypes
<1>2. /\ "find" \in Places /\ "find" \notin Imports \cup Deletes \cup SubjectEnds /\ pc[c] # "idle"
  BY PlacesNamed
<1>3. CASE loc[c].attempt + 1 < MaxRetries
  <2>1. PICK l \in Locals : l = [loc[c] EXCEPT !.attempt = @ + 1, !.version = 0, !.seen = NoLatest]
    BY <1>1, NextAttempt
  <2>2. Keep(c, "find", l) /\ UNCHANGED <<req, promised>>
    BY <1>3, <2>1 DEF Again, Unmoved
  <2>3. StepOf(c) /\ Goes(c, "find", l)
    BY <1>1, <1>2, <2>2, TypesKept
  <2>4. Control(c)'
    BY <1>2, <2>3, ControlKept DEF Goes
  <2> QED BY <2>2, <2>3, <2>4, QuietTypes
<1>4. CASE ~(loc[c].attempt + 1 < MaxRetries)
  BY <1>4, EndTypes DEF Again
<1> QED BY <1>3, <1>4

\* What the read after a failed insert does.
LEMMA ConflictDoes ==
  ASSUME StoreTypes, NEW c \in Clients, CreateConflict(c)
  PROVE  StoreTypes' /\ pc[c] = "conflict"
<1> DEFINE s == req[c].subject
           v == loc[c].version
           same == v \in Live(s) /\ versions[s][v].id = loc[c].id
                   /\ loc[c].id \in DOMAIN schemas /\ versions[s][v].meta = req[c].meta
<1>1. /\ pc[c] = "conflict" /\ UNCHANGED <<allocVars, tableVars>>
      /\ ClientTypes /\ TableTypes /\ AllocInv /\ promised \subseteq Answered
  BY DEF CreateConflict, Quiet, StoreTypes
<1>2. pc[c] \in Creates
  BY <1>1, PlacesNamed
<1>3. s \in Subjects /\ loc[c].id \in Nat /\ v \in Nat /\ req[c].fp \in Fingerprints
  BY <1>1, <1>2, InHand
<1>4. CASE same
  <2>1. Answer(c, v, loc[c].id)
    BY <1>4 DEF CreateConflict
  <2>2. /\ StepOf(c) /\ Ends(c)
        /\ promised' = promised \cup {[subject |-> s, version |-> v, id |-> loc[c].id, fp |-> req[c].fp]}
    BY <1>1, <2>1, TypesAnswer
  <2>3. promised' \subseteq Answered
    BY <1>1, <1>3, <2>2, AnswerTyped
  <2>4. Control(c)' /\ AllocInv' /\ TableTypes'
    BY <1>1, <2>2, ControlKept, AllocSame, SameTables
  <2> QED BY <1>1, <2>2, <2>3, <2>4, TypesStep
<1>5. CASE ~same
  <2>1. Again(c)
    BY <1>5 DEF CreateConflict
  <2> QED BY <1>1, <1>2, <2>1, AgainDoes
<1> QED BY <1>4, <1>5

\* What the conditional update of subject_latest does, where the row seen is still there.
LEMMA PublishDoes ==
  ASSUME StoreTypes, NEW c \in Clients, CreatePublish(c)
  PROVE  /\ StoreTypes' /\ pc[c] = "publish" /\ pc[c] \in Creates
         /\ UNCHANGED <<allocVars, schemas, fingerprints, versions, schemaReferences, referencesByTarget, settings>>
         /\ latest[req[c].subject] = loc[c].seen =>
              /\ StepOf(c)
              /\ latest' = [latest EXCEPT ![req[c].subject] = [version |-> loc[c].version, id |-> loc[c].id]]
              /\ \/ /\ Refs[req[c].fp] = {} /\ Ends(c)
                    /\ promised' = promised \cup {[subject |-> req[c].subject, version |-> loc[c].version,
                                                   id |-> loc[c].id, fp |-> req[c].fp]}
                 \/ Goes(c, "refs", loc[c]) /\ promised' = promised
<1> DEFINE s == req[c].subject
<1>1. /\ pc[c] = "publish"
      /\ UNCHANGED <<allocVars, schemas, fingerprints, versions, schemaReferences, referencesByTarget, settings>>
      /\ ClientTypes /\ TableTypes /\ AllocInv /\ promised \subseteq Answered
  BY DEF CreatePublish, StoreTypes
<1>2. pc[c] \in Creates /\ "refs" \in Places /\ "refs" \notin Imports \cup Deletes \cup SubjectEnds /\ pc[c] # "idle"
  BY <1>1, PlacesNamed
<1>3. s \in Subjects /\ loc[c].id \in Nat /\ loc[c].version \in Nat /\ req[c].fp \in Fingerprints
  BY <1>1, <1>2, InHand
<1>4. CASE latest[s] = loc[c].seen
  <2>1. latest' = [latest EXCEPT ![s] = [version |-> loc[c].version, id |-> loc[c].id]]
    BY <1>4 DEF CreatePublish
  <2>2. latest' \in [Subjects -> Latest]
    BY <1>1, <1>3, <2>1 DEF TableTypes, Latest
  <2>3. TableTypes' /\ AllocInv'
    BY <1>1, <2>2, RowsTyped, AllocSame DEF TableTypes, RowTypes, ReferenceTypes
  <2>4. CASE Refs[req[c].fp] = {}
    <3>1. Answer(c, loc[c].version, loc[c].id)
      BY <1>4, <2>4 DEF CreatePublish
    <3>2. /\ StepOf(c) /\ Ends(c)
          /\ promised' = promised \cup {[subject |-> s, version |-> loc[c].version, id |-> loc[c].id, fp |-> req[c].fp]}
      BY <1>1, <3>1, TypesAnswer
    <3>3. promised' \subseteq Answered
      BY <1>1, <1>3, <3>2, AnswerTyped
    <3>4. Control(c)'
      BY <3>2, ControlKept
    <3> QED BY <1>1, <1>2, <1>4, <2>1, <2>3, <2>4, <3>2, <3>3, <3>4, TypesStep
  <2>5. CASE Refs[req[c].fp] # {}
    <3>1. Continue(c, "refs") /\ UNCHANGED <<req, promised>>
      BY <1>4, <2>5 DEF CreatePublish, Unmoved
    <3>2. StepOf(c) /\ Goes(c, "refs", loc[c])
      BY <1>1, <1>2, <3>1, TypesContinued
    <3>3. Control(c)'
      BY <1>2, <3>2, ControlKept DEF Goes
    <3> QED BY <1>1, <1>2, <1>4, <2>1, <2>3, <3>1, <3>2, <3>3, TypesStep
  <2> QED BY <2>4, <2>5
<1>5. CASE latest[s] # loc[c].seen
  <2>1. Again(c) /\ UNCHANGED latest
    BY <1>5 DEF CreatePublish
  <2> QED BY <1>1, <1>2, <1>5, <2>1, AgainDoes DEF tableVars
<1> QED BY <1>4, <1>5

\* What the write of the references does.
LEMMA RefsDoes ==
  ASSUME StoreTypes, NEW c \in Clients, CreateRefs(c)
  PROVE  /\ StoreTypes' /\ StepOf(c) /\ Ends(c) /\ pc[c] = "refs" /\ pc[c] \in Creates
         /\ AddReferences(loc[c].id, req[c].subject, loc[c].version, req[c].fp)
         /\ promised' = promised \cup {[subject |-> req[c].subject, version |-> loc[c].version,
                                        id |-> loc[c].id, fp |-> req[c].fp]}
         /\ UNCHANGED <<allocVars, schemas, fingerprints, versions, latest, settings>>
<1>1. /\ pc[c] = "refs" /\ AddReferences(loc[c].id, req[c].subject, loc[c].version, req[c].fp)
      /\ Answer(c, loc[c].version, loc[c].id)
      /\ UNCHANGED <<allocVars, schemas, fingerprints, versions, latest, settings>>
      /\ ClientTypes /\ TableTypes /\ AllocInv /\ promised \subseteq Answered
  BY DEF CreateRefs, StoreTypes
<1>2. pc[c] \in Creates /\ pc[c] # "idle"
  BY <1>1, PlacesNamed
<1>3. req[c].subject \in Subjects /\ loc[c].id \in Nat /\ loc[c].version \in Nat /\ req[c].fp \in Fingerprints
  BY <1>1, <1>2, InHand
<1>4. /\ StepOf(c) /\ Ends(c)
      /\ promised' = promised \cup {[subject |-> req[c].subject, version |-> loc[c].version,
                                     id |-> loc[c].id, fp |-> req[c].fp]}
  BY <1>1, TypesAnswer
<1>5. Control(c)' /\ promised' \subseteq Answered
  BY <1>1, <1>3, <1>4, ControlKept, AnswerTyped
<1>6. ReferenceTypes'
  BY <1>1, <1>3, ReferencesAdded DEF TableTypes
<1>7. TableTypes' /\ AllocInv'
  BY <1>1, <1>6, RowsTyped, AllocSame DEF TableTypes, RowTypes
<1> QED BY <1>1, <1>2, <1>4, <1>5, <1>7, TypesStep

-----------------------------------------------------------------------------
(* The same for imports.                                                   *)

\* A place of the same kind of call.
Kin(c, label) ==
  \/ pc[c] \in Creates /\ label \in Creates
  \/ pc[c] \in Imports /\ label \in Imports
  \/ /\ pc[c] \in Deletes /\ label \in Deletes \ {"subjectRead"}
     /\ label \in SubjectEnds => req[c].op = "deleteSubject"

\* A client that goes on to such a place has the request for it.
LEMMA KinControl ==
  ASSUME StoreTypes, NEW c \in Clients, NEW label, Kin(c, label), pc'[c] = label, req'[c] = req[c],
         pc[c] \in Imports => loc'[c].id = loc[c].id /\ loc'[c].version = loc[c].version
  PROVE  Control(c)'
<1>1. /\ label # "idle" /\ label # "setting" /\ label # "subjectRead" /\ pc[c] # "idle"
      /\ label \in Creates => pc[c] \in Creates
      /\ label \in Imports => pc[c] \in Imports
      /\ label \in Deletes => pc[c] \in Deletes
      /\ label \in SubjectEnds => req[c].op = "deleteSubject"
  BY PlacesNamed DEF Kin
<1> QED BY <1>1, ControlKept

\* A client goes on with its locals.
LEMMA GoesOn ==
  ASSUME StoreTypes, NEW c \in Clients, NEW label, Kin(c, label), Continue(c, label), UNCHANGED req
  PROVE  StepOf(c) /\ Goes(c, label, loc[c]) /\ Control(c)'
<1>1. label \in Places /\ ClientTypes
  BY DEF Kin, Places, StoreTypes
<1>2. StepOf(c) /\ Goes(c, label, loc[c])
  BY <1>1, TypesContinued
<1> QED BY <1>2, KinControl DEF Goes

\* An import learns whether its ID has content, and whether it is the same.
LEMMA ImportIDDoes ==
  ASSUME StoreTypes, NEW c \in Clients, ImportID(c)
  PROVE  /\ StoreTypes' /\ StepOf(c) /\ pc[c] = "importID" /\ pc[c] \in Imports
         /\ UNCHANGED <<allocVars, tableVars, promised>>
         /\ \/ Ends(c)
            \/ /\ pc'[c] = "importVersion" /\ req'[c] = req[c]
               /\ loc'[c].id = loc[c].id /\ loc'[c].version = loc[c].version
               /\ \/ loc'[c].fp = loc[c].fp
                  \/ req[c].id \in DOMAIN schemas
<1>1. /\ pc[c] = "importID" /\ UNCHANGED <<allocVars, tableVars>> /\ ClientTypes
  BY DEF ImportID, Quiet, StoreTypes
<1>2. pc[c] \in Imports /\ Kin(c, "importVersion") /\ "importVersion" \in Places
  BY <1>1, PlacesNamed DEF Kin
<1>3. req[c].fp \in Fingerprints
  BY <1>2, InHand
<1>4. CASE End(c)
  BY <1>1, <1>2, <1>4, EndTypes, TypesEnd
<1>5. CASE Continue(c, "importVersion") /\ Unmoved
  <2>1. UNCHANGED req /\ UNCHANGED promised
    BY <1>5 DEF Unmoved
  <2>2. StepOf(c) /\ Goes(c, "importVersion", loc[c]) /\ Control(c)'
    BY <1>2, <1>5, <2>1, GoesOn
  <2> QED BY <1>1, <1>2, <2>1, <2>2, QuietTypes DEF Goes
<1>6. CASE Keep(c, "importVersion", [loc[c] EXCEPT !.fp = req[c].fp]) /\ Unmoved /\ req[c].id \in DOMAIN schemas
  <2>1. UNCHANGED req /\ UNCHANGED promised
    BY <1>6 DEF Unmoved
  <2>2. PICK f \in Fingerprints \cup {NoContent} : f = req[c].fp
    BY <1>3
  <2>3. Keep(c, "importVersion", [loc[c] EXCEPT !.fp = f])
    BY <1>6, <2>2
  <2>4. /\ StepOf(c) /\ pc'[c] = "importVersion" /\ req'[c] = req[c]
        /\ loc'[c].id = loc[c].id /\ loc'[c].version = loc[c].version
    BY <1>1, <1>2, <2>1, <2>3, KeepFp
  <2>5. Control(c)'
    BY <1>2, <2>4, KinControl
  <2> QED BY <1>1, <1>2, <1>6, <2>1, <2>4, <2>5, QuietTypes
<1> QED BY <1>4, <1>5, <1>6 DEF ImportID

\* An import learns whether its version is free.
LEMMA ImportVersionDoes ==
  ASSUME StoreTypes, NEW c \in Clients, ImportVersion(c)
  PROVE  /\ StoreTypes' /\ StepOf(c) /\ pc[c] = "importVersion" /\ pc[c] \in Imports
         /\ UNCHANGED <<allocVars, tableVars, promised>>
         /\ \/ Ends(c)
            \/ Goes(c, "importClaim", loc[c]) /\ req[c].version \notin DOMAIN versions[req[c].subject]
<1>1. /\ pc[c] = "importVersion" /\ UNCHANGED <<allocVars, tableVars>> /\ ClientTypes
  BY DEF ImportVersion, Quiet, StoreTypes
<1>2. pc[c] \in Imports /\ Kin(c, "importClaim")
  BY <1>1, PlacesNamed DEF Kin
<1>3. CASE End(c)
  BY <1>1, <1>2, <1>3, EndTypes, TypesEnd
<1>4. CASE Continue(c, "importClaim") /\ Unmoved /\ req[c].version \notin DOMAIN versions[req[c].subject]
  <2>1. UNCHANGED req /\ UNCHANGED promised
    BY <1>4 DEF Unmoved
  <2>2. StepOf(c) /\ Goes(c, "importClaim", loc[c]) /\ Control(c)'
    BY <1>2, <1>4, <2>1, GoesOn
  <2> QED BY <1>1, <1>2, <1>4, <2>1, <2>2, QuietTypes
<1> QED BY <1>3, <1>4 DEF ImportVersion

\* An import claims the fingerprint when nobody has.
LEMMA ImportClaimDoes ==
  ASSUME StoreTypes, NEW c \in Clients, ImportClaim(c)
  PROVE  /\ StoreTypes' /\ StepOf(c) /\ pc[c] = "importClaim" /\ pc[c] \in Imports
         /\ UNCHANGED <<allocVars, schemas, versions, latest, schemaReferences, referencesByTarget, settings, promised>>
         /\ Goes(c, IF loc[c].fp = NoContent THEN "importWrite" ELSE "importLatest", loc[c])
         /\ fingerprints' = IF req[c].fp \in DOMAIN fingerprints THEN fingerprints
                            ELSE Put(fingerprints, req[c].fp, req[c].id)
<1> DEFINE next == IF loc[c].fp = NoContent THEN "importWrite" ELSE "importLatest"
<1>1. /\ pc[c] = "importClaim" /\ Continue(c, next)
      /\ UNCHANGED <<allocVars, schemas, versions, latest, schemaReferences, referencesByTarget, settings, promised, req>>
      /\ fingerprints' = IF req[c].fp \in DOMAIN fingerprints THEN fingerprints
                         ELSE Put(fingerprints, req[c].fp, req[c].id)
      /\ TableTypes /\ AllocInv /\ promised \subseteq Answered
  BY DEF ImportClaim, Unmoved, StoreTypes
<1>2. pc[c] \in Imports /\ Kin(c, next)
  BY <1>1, PlacesNamed DEF Kin
<1>3. req[c].fp \in Fingerprints /\ req[c].id \in Nat
  BY <1>2, InHand
<1>4. StepOf(c) /\ Goes(c, next, loc[c]) /\ Control(c)'
  BY <1>1, <1>2, GoesOn
<1>5. ClaimTypes'
  BY <1>1, <1>3 DEF TableTypes, ClaimTypes, Put
<1>6. TableTypes'
  BY <1>1, <1>5, ClaimsTyped
<1> QED BY <1>1, <1>2, <1>4, <1>6, TypesStep, AllocSame

\* An import writes the content.
LEMMA ImportWriteDoes ==
  ASSUME StoreTypes, NEW c \in Clients, ImportWrite(c)
  PROVE  /\ StoreTypes' /\ StepOf(c) /\ pc[c] = "importWrite" /\ pc[c] \in Imports /\ Goes(c, "importLatest", loc[c])
         /\ schemas' = Put(schemas, loc[c].id, req[c].fp)
         /\ UNCHANGED <<allocVars, fingerprints, versions, latest, schemaReferences, referencesByTarget,
                        settings, promised>>
<1>1. /\ pc[c] = "importWrite" /\ Continue(c, "importLatest") /\ schemas' = Put(schemas, req[c].id, req[c].fp)
      /\ UNCHANGED <<allocVars, fingerprints, versions, latest, schemaReferences, referencesByTarget,
                     settings, promised, req>>
      /\ TableTypes /\ AllocInv /\ promised \subseteq Answered
  BY DEF ImportWrite, Unmoved, StoreTypes
<1>2. pc[c] \in Imports /\ Kin(c, "importLatest")
  BY <1>1, PlacesNamed DEF Kin
<1>3. req[c].fp \in Fingerprints /\ req[c].id \in Nat /\ loc[c].id = req[c].id
  BY <1>2, InHand
<1>4. StepOf(c) /\ Goes(c, "importLatest", loc[c]) /\ Control(c)'
  BY <1>1, <1>2, GoesOn
<1>5. TableTypes'
  BY <1>1, <1>3, ContentPut, ContentsTyped DEF TableTypes
<1> QED BY <1>1, <1>2, <1>3, <1>4, <1>5, TypesStep, AllocSame

\* An import reads subject_latest.
LEMMA ImportLatestDoes ==
  ASSUME StoreTypes, NEW c \in Clients, ImportLatest(c)
  PROVE  /\ StoreTypes' /\ StepOf(c) /\ pc[c] = "importLatest" /\ pc[c] \in Imports
         /\ UNCHANGED <<allocVars, tableVars, promised>>
         /\ pc'[c] = "importBatch" /\ req'[c] = req[c] /\ loc'[c].id = loc[c].id /\ loc'[c].version = loc[c].version
         /\ loc'[c].fp = loc[c].fp /\ loc'[c].seen = latest[req[c].subject]
<1>1. /\ pc[c] = "importLatest" /\ UNCHANGED <<allocVars, tableVars, promised, req>> /\ ClientTypes /\ TableTypes
  BY DEF ImportLatest, Quiet, Unmoved, StoreTypes
<1>2. pc[c] \in Imports /\ Kin(c, "importBatch") /\ "importBatch" \in Places /\ pc[c] # "idle"
  BY <1>1, PlacesNamed DEF Kin
<1>3. PICK x \in Latest : x = latest[req[c].subject]
  BY <1>1, <1>2, InHand DEF TableTypes
<1>4. Keep(c, "importBatch", [loc[c] EXCEPT !.seen = x]) /\ UNCHANGED req
  BY <1>1, <1>3 DEF ImportLatest
<1>5. /\ StepOf(c) /\ pc'[c] = "importBatch" /\ req'[c] = req[c]
      /\ loc'[c].id = loc[c].id /\ loc'[c].version = loc[c].version /\ loc'[c].fp = loc[c].fp /\ loc'[c].seen = x
  BY <1>1, <1>2, <1>4, KeepSeen
<1>6. Control(c)'
  BY <1>2, <1>5, KinControl
<1> QED BY <1>1, <1>2, <1>3, <1>5, <1>6, QuietTypes

\* An import's batch.
LEMMA ImportBatchDoes ==
  ASSUME StoreTypes, NEW c \in Clients, ImportBatch(c)
  PROVE  /\ StoreTypes' /\ StepOf(c) /\ pc[c] = "importBatch" /\ pc[c] \in Imports /\ Goes(c, "advance", loc[c])
         /\ UNCHANGED <<allocVars, schemas, fingerprints, settings, promised>>
         /\ versions'[req[c].subject] = Put(versions[req[c].subject], loc[c].version,
                                            [id |-> loc[c].id, deleted |-> FALSE, meta |-> NoMeta])
         /\ \A t \in Subjects : t # req[c].subject => versions'[t] = versions[t]
         /\ latest' = IF loc[c].version > loc[c].seen.version
                      THEN [latest EXCEPT ![req[c].subject] = [version |-> loc[c].version, id |-> loc[c].id]]
                      ELSE latest
         /\ AddReferences(loc[c].id, req[c].subject, loc[c].version, req[c].fp)
<1> DEFINE s == req[c].subject
           v == loc[c].version
           row == [id |-> loc[c].id, deleted |-> FALSE, meta |-> NoMeta]
<1>1. pc[c] = "importBatch"
  BY DEF ImportBatch
<1>2. pc[c] \in Imports /\ Kin(c, "advance") /\ pc[c] # "idle"
  BY <1>1, PlacesNamed DEF Kin
<1>3. /\ s \in Subjects /\ v \in Nat /\ loc[c].id \in Nat /\ req[c].fp \in Fingerprints
      /\ v = req[c].version /\ loc[c].id = req[c].id
  BY <1>2, InHand
<1>4. /\ Continue(c, "advance")
      /\ UNCHANGED <<allocVars, schemas, fingerprints, settings, promised, req>>
      /\ versions' = [versions EXCEPT ![s] = Put(versions[s], v, row)]
      /\ latest' = IF v > loc[c].seen.version THEN [latest EXCEPT ![s] = [version |-> v, id |-> loc[c].id]] ELSE latest
      /\ AddReferences(loc[c].id, s, v, req[c].fp)
      /\ TableTypes /\ AllocInv /\ promised \subseteq Answered
  BY <1>3 DEF ImportBatch, Unmoved, StoreTypes
<1>5. StepOf(c) /\ Goes(c, "advance", loc[c]) /\ Control(c)'
  BY <1>2, <1>4, GoesOn
<1>6. row \in Row
  BY <1>3, CassandraAssumption DEF Row
<1>7. PICK R : R = Put(versions[s], v, row)
  OBVIOUS
<1>8. \A w \in DOMAIN R : w \in Nat /\ R[w] \in Row
  <2>1. PICK x \in Row : x = row
    BY <1>6
  <2>2. R = Put(versions[s], v, x)
    BY <1>7, <2>1
  <2> HIDE DEF row, s, v
  <2>3. \A w \in DOMAIN versions[s] : w \in Nat /\ versions[s][w] \in Row
    BY <1>3, <1>4 DEF TableTypes, RowTypes
  <2> QED BY <1>3, <2>2, <2>3 DEF Put
<1>9. RowTypes' /\ versions'[s] = R /\ \A t \in Subjects : t # s => versions'[t] = versions[t]
  BY <1>3, <1>4, <1>7, <1>8, RowsOfSubject DEF TableTypes
<1>10. ReferenceTypes'
  BY <1>3, <1>4, ReferencesAdded DEF TableTypes
<1>11. latest' \in [Subjects -> Latest]
  BY <1>3, <1>4 DEF TableTypes, Latest
<1>12. TableTypes' /\ AllocInv'
  BY <1>4, <1>9, <1>10, <1>11, RowsTyped, AllocSame
<1>13. StoreTypes'
  BY <1>4, <1>5, <1>12, TypesStep
<1> QED BY <1>1, <1>2, <1>4, <1>5, <1>7, <1>9, <1>13

\* A bounded set of numbers that is not empty has a greatest one.
LEMMA GreatestNat ==
  ASSUME NEW V \in SUBSET Nat, V # {}, NEW b \in Nat, \A v \in V : v <= b
  PROVE  \E m \in V : \A v \in V : v <= m
<1> DEFINE B == {n \in Nat : \A v \in V : v <= n}
<1>1. B \in SUBSET Nat /\ B # {}
  OBVIOUS
<1>2. \A S \in SUBSET Nat : S # {} => MinOf(S) \in S /\ \A w \in S : MinOf(S) <= w
  BY MinOfNat
<1>3. PICK m \in B : \A w \in B : m <= w
  <2> HIDE DEF B
  <2> QED BY <1>1, <1>2
<1>4. m \in Nat /\ \A v \in V : v <= m
  OBVIOUS
<1>5. CASE m \in V
  BY <1>4, <1>5
<1>6. CASE m \notin V
  <2>1. m # 0
    <3>1. PICK v \in V : v \in Nat /\ v <= m
      BY <1>4
    <3> QED BY <1>4, <1>6, <3>1
  <2>2. m - 1 \in B
    BY <1>4, <1>6, <2>1
  <2> QED BY <1>3, <1>4, <2>2
<1> QED BY <1>5, <1>6

\* GetMaxSchemaID is a number.
LEMMA MaxSchemaID ==
  ASSUME ContentTypes
  PROVE  GetMaxSchemaID \in Nat
<1>1. CASE DOMAIN schemas = {}
  BY <1>1 DEF GetMaxSchemaID
<1>2. CASE DOMAIN schemas # {}
  <2>1. PICK n \in Nat : \A i \in DOMAIN schemas : i <= n
    BY DEF ContentTypes
  <2>2. \E m \in DOMAIN schemas : \A j \in DOMAIN schemas : j <= m
    BY <1>2, <2>1, GreatestNat DEF ContentTypes
  <2>3. GetMaxSchemaID \in DOMAIN schemas
    BY <1>2, <2>2 DEF GetMaxSchemaID
  <2> QED BY <2>3 DEF ContentTypes
<1> QED BY <1>1, <1>2

\* An import asks for the sequence to be set beyond its ID.
LEMMA ImportAdvanceDoes ==
  ASSUME StoreTypes, NEW c \in Clients, ImportAdvance(c)
  PROVE  /\ StoreTypes' /\ StepOf(c) /\ pc[c] = "advance" /\ pc[c] \in Imports /\ Goes(c, "setNext", loc[c])
         /\ UNCHANGED <<tableVars, promised>>
         /\ \E id \in Nat : CallSetNextID(c, id) /\ loc[c].id < id
<1>1. /\ pc[c] = "advance" /\ Continue(c, "setNext") /\ UNCHANGED <<tableVars, promised, req>>
      /\ TableTypes /\ AllocInv /\ promised \subseteq Answered
  BY DEF ImportAdvance, Unmoved, StoreTypes
<1>2. pc[c] \in Imports /\ Kin(c, "setNext")
  BY <1>1, PlacesNamed DEF Kin
<1>3. req[c].id \in Nat /\ loc[c].id = req[c].id
  BY <1>2, InHand
<1>4. StepOf(c) /\ Goes(c, "setNext", loc[c]) /\ Control(c)'
  BY <1>1, <1>2, GoesOn
<1>5. PICK id \in Nat : CallSetNextID(c, id) /\ loc[c].id < id
  <2>1. PICK m \in Nat : m = GetMaxSchemaID
    BY <1>1, MaxSchemaID DEF TableTypes
  <2>2. \/ CallSetNextID(c, (IF m > req[c].id THEN m ELSE req[c].id) + 1)
        \/ CallSetNextID(c, req[c].id + 1)
    BY <2>1 DEF ImportAdvance
  <2>3. /\ (IF m > req[c].id THEN m ELSE req[c].id) + 1 \in Nat
        /\ req[c].id < (IF m > req[c].id THEN m ELSE req[c].id) + 1
        /\ req[c].id + 1 \in Nat /\ req[c].id < req[c].id + 1
    BY <1>3
  <2> HIDE DEF GetMaxSchemaID
  <2> QED BY <1>3, <2>2, <2>3
<1>6. AllocInv' /\ TableTypes'
  BY <1>1, <1>5, AllocCall, SameTables
<1> QED BY <1>1, <1>2, <1>4, <1>5, <1>6, TypesStep

\* An import answers.
LEMMA ImportReturnDoes ==
  ASSUME StoreTypes, NEW c \in Clients, ImportReturn(c), ~At(c, "failed")
  PROVE  /\ StoreTypes' /\ StepOf(c) /\ Ends(c) /\ pc[c] = "setNext" /\ pc[c] \in Imports /\ At(c, "idle")
         /\ UNCHANGED <<allocVars, tableVars>>
         /\ promised' = promised \cup {[subject |-> req[c].subject, version |-> loc[c].version,
                                        id |-> loc[c].id, fp |-> req[c].fp]}
<1>1. pc[c] = "setNext"
  BY DEF ImportReturn
<1>2. pc[c] \in Imports /\ pc[c] # "idle"
  BY <1>1, PlacesNamed
<1>3. /\ req[c].subject \in Subjects /\ loc[c].id \in Nat /\ loc[c].version \in Nat /\ req[c].fp \in Fingerprints
      /\ loc[c].version = req[c].version /\ loc[c].id = req[c].id
  BY <1>2, InHand
<1>4. /\ At(c, "idle") /\ Answer(c, loc[c].version, loc[c].id) /\ UNCHANGED <<allocVars, tableVars>>
      /\ ClientTypes /\ TableTypes /\ AllocInv /\ promised \subseteq Answered
  BY <1>3 DEF ImportReturn, StoreTypes
<1>5. /\ StepOf(c) /\ Ends(c)
      /\ promised' = promised \cup {[subject |-> req[c].subject, version |-> loc[c].version,
                                     id |-> loc[c].id, fp |-> req[c].fp]}
  BY <1>4, TypesAnswer
<1>6. Control(c)' /\ promised' \subseteq Answered /\ AllocInv' /\ TableTypes'
  BY <1>3, <1>4, <1>5, ControlKept, AnswerTyped, AllocSame, SameTables
<1> QED BY <1>1, <1>2, <1>4, <1>5, <1>6, TypesStep

-----------------------------------------------------------------------------
(* The same for deletes and settings.                                      *)

\* A delete learns whether its version is there, and its ID.
LEMMA DeleteReadDoes ==
  ASSUME StoreTypes, NEW c \in Clients, DeleteRead(c)
  PROVE  /\ StoreTypes' /\ StepOf(c) /\ pc[c] = "deleteRead" /\ pc[c] \in Deletes
         /\ UNCHANGED <<allocVars, tableVars, promised>>
         /\ \/ /\ Ends(c)
               /\ \/ loc[c].version \notin DOMAIN versions[req[c].subject]
                  \/ req[c].permanent /\ loc[c].version \in Live(req[c].subject)
            \/ /\ loc[c].version \in DOMAIN versions[req[c].subject]
               /\ req[c].permanent => loc[c].version \notin Live(req[c].subject)
               /\ pc'[c] = (IF req[c].permanent THEN "unindex" ELSE "mark") /\ req'[c] = req[c]
               /\ loc'[c].id = versions[req[c].subject][loc[c].version].id
               /\ loc'[c].version = loc[c].version /\ loc'[c].todo = loc[c].todo
<1> DEFINE s == req[c].subject
           v == loc[c].version
           next == IF req[c].permanent THEN "unindex" ELSE "mark"
<1>1. /\ pc[c] = "deleteRead" /\ UNCHANGED <<allocVars, tableVars>> /\ ClientTypes /\ TableTypes
  BY DEF DeleteRead, Quiet, StoreTypes
<1>2. pc[c] \in Deletes /\ Kin(c, next) /\ next \in Places /\ pc[c] # "idle" /\ pc[c] \notin Imports
  BY <1>1, PlacesNamed DEF Kin
<1>3. s \in Subjects /\ v \in Nat
  BY <1>2, InHand
<1>4. CASE v \notin DOMAIN versions[s] \/ (req[c].permanent /\ v \in Live(s))
  <2>1. End(c)
    BY <1>4 DEF DeleteRead
  <2>2. StoreTypes' /\ StepOf(c) /\ Ends(c) /\ promised' = promised
    BY <1>1, <2>1, EndTypes, TypesEnd
  <2> QED BY <1>1, <1>2, <1>4, <2>2
<1>5. CASE ~(v \notin DOMAIN versions[s] \/ (req[c].permanent /\ v \in Live(s)))
  <2>1. Keep(c, next, [loc[c] EXCEPT !.id = versions[s][v].id]) /\ UNCHANGED <<req, promised>>
    BY <1>5 DEF DeleteRead, Unmoved
  <2>2. PICK n \in Nat : n = versions[s][v].id
    BY <1>1, <1>3, <1>5 DEF TableTypes, RowTypes, Row
  <2>3. Keep(c, next, [loc[c] EXCEPT !.id = n]) /\ UNCHANGED req /\ UNCHANGED promised
    BY <2>1, <2>2
  <2>4. /\ StepOf(c) /\ pc'[c] = next /\ req'[c] = req[c]
        /\ loc'[c].id = n /\ loc'[c].version = v /\ loc'[c].todo = loc[c].todo
    <3> HIDE DEF next
    <3> QED BY <1>1, <1>2, <2>3, KeepID
  <2>5. Control(c)'
    BY <1>2, <2>4, KinControl
  <2>6. StoreTypes'
    BY <1>1, <2>3, <2>4, <2>5, QuietTypes
  <2> QED BY <1>1, <1>2, <1>5, <2>2, <2>3, <2>4, <2>6
<1> QED BY <1>4, <1>5

\* Versions are marked as deleted.
LEMMA MarkDoes ==
  ASSUME StoreTypes, NEW c \in Clients, MarkDeleted(c)
  PROVE  /\ StoreTypes' /\ StepOf(c) /\ Ends(c) /\ pc[c] = "mark" /\ pc[c] \in Deletes
         /\ UNCHANGED <<allocVars, schemas, fingerprints, latest, schemaReferences, referencesByTarget, settings, promised>>
         /\ versions'[req[c].subject] =
              Marked(req[c].subject, IF req[c].op = "deleteSubject" THEN loc[c].todo ELSE {loc[c].version})
         /\ \A t \in Subjects : t # req[c].subject => versions'[t] = versions[t]
<1> DEFINE s == req[c].subject
           V == IF req[c].op = "deleteSubject" THEN loc[c].todo ELSE {loc[c].version}
<1>1. /\ pc[c] = "mark" /\ End(c) /\ versions' = [versions EXCEPT ![s] = Marked(s, V)]
      /\ UNCHANGED <<allocVars, schemas, fingerprints, latest, schemaReferences, referencesByTarget, settings>>
      /\ ClientTypes /\ TableTypes /\ AllocInv /\ promised \subseteq Answered
  BY DEF MarkDeleted, StoreTypes
<1>2. pc[c] \in Deletes /\ pc[c] # "idle"
  BY <1>1, PlacesNamed
<1>3. s \in Subjects /\ V \subseteq Nat
  BY <1>2, InHand
<1>4. StepOf(c) /\ Ends(c) /\ promised' = promised
  BY <1>1, TypesEnd
<1>5. Control(c)'
  BY <1>4, ControlKept
<1>6. PICK R : R = Marked(s, V)
  OBVIOUS
<1>7. \A w \in DOMAIN R : w \in Nat /\ R[w] \in Row
  <2> SUFFICES ASSUME NEW w \in DOMAIN R PROVE w \in Nat /\ R[w] \in Row
    OBVIOUS
  <2> HIDE DEF s, V
  <2>1. w \in DOMAIN versions[s] \cup V
    BY <1>6 DEF Marked
  <2>2. \A u \in DOMAIN versions[s] : u \in Nat /\ versions[s][u] \in Row
    BY <1>1, <1>3 DEF TableTypes, RowTypes
  <2>3. CASE w \notin V
    BY <1>6, <2>1, <2>2, <2>3 DEF Marked
  <2>4. CASE w \in V /\ w \in DOMAIN versions[s]
    <3>1. PICK x \in Row : x = versions[s][w]
      BY <2>2, <2>4
    <3>2. R[w] = [versions[s][w] EXCEPT !.deleted = TRUE]
      BY <1>6, <2>4 DEF Marked
    <3>3. [x EXCEPT !.deleted = TRUE] \in Row
      BY DEF Row
    <3> QED BY <1>3, <2>2, <2>4, <3>1, <3>2, <3>3
  <2>5. CASE w \in V /\ w \notin DOMAIN versions[s]
    <3>1. R[w] = [id |-> 0, deleted |-> TRUE, meta |-> NoMeta]
      BY <1>6, <2>5 DEF Marked
    <3>2. [id |-> 0, deleted |-> TRUE, meta |-> NoMeta] \in Row
      BY CassandraAssumption DEF Row
    <3>3. w \in Nat
      BY <1>3, <2>5
    <3> QED BY <3>1, <3>2, <3>3
  <2> QED BY <2>3, <2>4, <2>5
<1>8. RowTypes' /\ versions'[s] = R /\ \A t \in Subjects : t # s => versions'[t] = versions[t]
  <2> HIDE DEF V
  <2> QED BY <1>1, <1>3, <1>6, <1>7, RowsOfSubject DEF TableTypes
<1>9. TableTypes' /\ AllocInv'
  BY <1>1, <1>8, RowsTyped, AllocSame DEF TableTypes, ReferenceTypes
<1>10. StoreTypes'
  BY <1>1, <1>4, <1>5, <1>9, TypesStep
<1> QED BY <1>1, <1>2, <1>4, <1>6, <1>8, <1>10

\* The references of the version leave the index.
LEMMA UnindexDoes ==
  ASSUME StoreTypes, NEW c \in Clients, DeleteUnindex(c)
  PROVE  /\ StoreTypes' /\ StepOf(c) /\ pc[c] = "unindex" /\ pc[c] \in Deletes /\ Goes(c, "deleteRow", loc[c])
         /\ UNCHANGED <<allocVars, schemas, fingerprints, versions, latest, schemaReferences, settings, promised>>
         /\ referencesByTarget' = referencesByTarget \
              {<<r[2], <<req[c].subject, loc[c].version>>>> : r \in {q \in schemaReferences : q[1] = loc[c].id}}
<1>1. /\ pc[c] = "unindex" /\ Continue(c, "deleteRow")
      /\ UNCHANGED <<allocVars, schemas, fingerprints, versions, latest, schemaReferences, settings, promised, req>>
      /\ referencesByTarget' = referencesByTarget \
           {<<r[2], <<req[c].subject, loc[c].version>>>> : r \in {q \in schemaReferences : q[1] = loc[c].id}}
      /\ TableTypes /\ AllocInv /\ promised \subseteq Answered
  BY DEF DeleteUnindex, Unmoved, StoreTypes
<1>2. pc[c] \in Deletes /\ Kin(c, "deleteRow")
  BY <1>1, PlacesNamed DEF Kin
<1>3. StepOf(c) /\ Goes(c, "deleteRow", loc[c]) /\ Control(c)'
  BY <1>1, <1>2, GoesOn
<1>4. ReferenceTypes'
  BY <1>1 DEF TableTypes, ReferenceTypes
<1>5. TableTypes' /\ AllocInv'
  BY <1>1, <1>4, RowsTyped, AllocSame DEF TableTypes, RowTypes
<1> QED BY <1>1, <1>2, <1>3, <1>5, TypesStep

\* The row of the version goes.
LEMMA DeleteRowDoes ==
  ASSUME StoreTypes, NEW c \in Clients, DeleteRow(c)
  PROVE  /\ StoreTypes' /\ StepOf(c) /\ pc[c] = "deleteRow" /\ pc[c] \in Deletes /\ Goes(c, "orphan", loc[c])
         /\ UNCHANGED <<allocVars, schemas, fingerprints, latest, schemaReferences, referencesByTarget, settings, promised>>
         /\ versions'[req[c].subject] = Drop(versions[req[c].subject], loc[c].version)
         /\ \A t \in Subjects : t # req[c].subject => versions'[t] = versions[t]
<1> DEFINE s == req[c].subject
<1>1. /\ pc[c] = "deleteRow" /\ Continue(c, "orphan")
      /\ UNCHANGED <<allocVars, schemas, fingerprints, latest, schemaReferences, referencesByTarget, settings, promised, req>>
      /\ versions' = [versions EXCEPT ![s] = Drop(versions[s], loc[c].version)]
      /\ TableTypes /\ AllocInv /\ promised \subseteq Answered
  BY DEF DeleteRow, Unmoved, StoreTypes
<1>2. pc[c] \in Deletes /\ Kin(c, "orphan") /\ pc[c] # "idle"
  BY <1>1, PlacesNamed DEF Kin
<1>3. s \in Subjects
  BY <1>2, InHand
<1>4. StepOf(c) /\ Goes(c, "orphan", loc[c]) /\ Control(c)'
  BY <1>1, <1>2, GoesOn
<1>5. PICK R : R = Drop(versions[s], loc[c].version)
  OBVIOUS
<1>6. \A w \in DOMAIN R : w \in Nat /\ R[w] \in Row
  BY <1>1, <1>3, <1>5 DEF TableTypes, RowTypes, Drop
<1>7. RowTypes' /\ versions'[s] = R /\ \A t \in Subjects : t # s => versions'[t] = versions[t]
  BY <1>1, <1>3, <1>5, <1>6, RowsOfSubject DEF TableTypes
<1>8. TableTypes' /\ AllocInv'
  BY <1>1, <1>7, RowsTyped, AllocSame DEF TableTypes, ReferenceTypes
<1>9. StoreTypes'
  BY <1>1, <1>4, <1>8, TypesStep
<1> QED BY <1>1, <1>2, <1>4, <1>5, <1>7, <1>9

\* A delete is done with its version: it ends, or a subject delete goes on.
LEMMA NextVersionDoes ==
  ASSUME StoreTypes, NEW c \in Clients, pc[c] \in Cleanups, NextVersion(c)
  PROVE  /\ StepOf(c) /\ Control(c)' /\ promised' = promised
         /\ \/ Ends(c) /\ req[c].op = "deleteVersion"
            \/ /\ req[c].op = "deleteSubject" /\ req'[c] = req[c]
               /\ pc'[c] = "dropLatest" /\ loc[c].todo \ {loc[c].version} = {}
            \/ /\ req[c].op = "deleteSubject" /\ req'[c] = req[c] /\ pc'[c] = "deleteRead"
               /\ loc'[c].todo = loc[c].todo \ {loc[c].version} /\ loc'[c].version \in loc'[c].todo
<1> DEFINE todo == loc[c].todo \ {loc[c].version}
<1>1. ClientTypes /\ pc[c] \in Deletes /\ pc[c] \notin Imports
  BY PlacesNamed DEF StoreTypes, Cleanups, Deletes, Purges
<1>2. req[c].op \in {"deleteVersion", "deleteSubject"} /\ todo \in SUBSET Nat
  BY <1>1, InHand
<1>3. CASE req[c].op = "deleteVersion"
  <2>1. End(c)
    BY <1>3 DEF NextVersion
  <2>2. StepOf(c) /\ Ends(c) /\ promised' = promised
    BY <1>1, <2>1, TypesEnd
  <2> QED BY <1>3, <2>2, ControlKept
<1>4. CASE req[c].op = "deleteSubject" /\ todo = {}
  <2>1. Keep(c, "dropLatest", NoLocals) /\ UNCHANGED <<req, promised>>
    BY <1>4 DEF NextVersion, Unmoved
  <2>2. Kin(c, "dropLatest") /\ "dropLatest" \in Places
    BY <1>1, <1>4, PlacesNamed DEF Kin
  <2>3. StepOf(c) /\ Goes(c, "dropLatest", NoLocals)
    BY <1>1, <2>1, <2>2, TypesKept, CleanLocals
  <2>4. Control(c)'
    BY <1>1, <2>2, <2>3, KinControl DEF Goes
  <2> QED BY <1>4, <2>1, <2>3, <2>4 DEF Goes
<1>5. CASE req[c].op = "deleteSubject" /\ todo # {}
  <2>1. PICK n \in todo : n = MinOf(todo)
    BY <1>2, <1>5, MinOfNat
  <2>2. PICK l : l = [NoLocals EXCEPT !.todo = todo, !.version = n]
    OBVIOUS
  <2>3. l \in Locals /\ l.todo = todo /\ l.version = n
    <3>1. n \in Nat
      BY <1>2
    <3> HIDE DEF todo
    <3> QED BY <1>2, <2>2, <3>1, CleanLocals DEF Locals
  <2>4. Keep(c, "deleteRead", l) /\ UNCHANGED <<req, promised>>
    BY <1>5, <2>1, <2>2 DEF NextVersion, Unmoved
  <2>5. Kin(c, "deleteRead") /\ "deleteRead" \in Places
    BY <1>1, PlacesNamed DEF Kin
  <2>6. StepOf(c) /\ Goes(c, "deleteRead", l)
    BY <1>1, <2>3, <2>4, <2>5, TypesKept
  <2>7. Control(c)'
    BY <1>1, <2>5, <2>6, KinControl DEF Goes
  <2> QED BY <1>5, <2>1, <2>3, <2>4, <2>6, <2>7 DEF Goes
<1> QED BY <1>2, <1>3, <1>4, <1>5

\* The delete was the last user of the ID, or it was not.
LEMMA OrphanDoes ==
  ASSUME StoreTypes, NEW c \in Clients, DeleteOrphan(c)
  PROVE  /\ StoreTypes' /\ StepOf(c) /\ pc[c] = "orphan" /\ pc[c] \in Deletes
         /\ UNCHANGED <<allocVars, tableVars, promised>>
         /\ \/ /\ \E s \in Subjects : \E v \in DOMAIN versions[s] : versions[s][v].id = loc[c].id
               /\ NextVersion(c)
            \/ /\ \A s \in Subjects : \A v \in DOMAIN versions[s] : versions[s][v].id # loc[c].id
               /\ pc'[c] = "dropSchema" /\ req'[c] = req[c] /\ loc'[c].id = loc[c].id
               /\ loc'[c].version = loc[c].version /\ loc'[c].todo = loc[c].todo
               /\ loc'[c].fp = IF loc[c].id \in DOMAIN schemas THEN schemas[loc[c].id] ELSE NoContent
<1> DEFINE used == \E s \in Subjects : \E v \in DOMAIN versions[s] : versions[s][v].id = loc[c].id
           fp == IF loc[c].id \in DOMAIN schemas THEN schemas[loc[c].id] ELSE NoContent
<1>1. /\ pc[c] = "orphan" /\ UNCHANGED <<allocVars, tableVars>> /\ ClientTypes /\ TableTypes
  BY DEF DeleteOrphan, Quiet, StoreTypes
<1>2. /\ pc[c] \in Deletes /\ pc[c] \in Cleanups /\ Kin(c, "dropSchema") /\ "dropSchema" \in Places
      /\ pc[c] # "idle" /\ pc[c] \notin Imports
  BY <1>1, PlacesNamed DEF Kin, Cleanups
<1>3. CASE used /\ NextVersion(c)
  <2>1. StepOf(c) /\ Control(c)' /\ promised' = promised
    BY <1>2, <1>3, NextVersionDoes
  <2>2. StoreTypes'
    BY <1>1, <2>1, QuietTypes
  <2> QED BY <1>1, <1>2, <1>3, <2>1, <2>2
<1>4. CASE ~used /\ Keep(c, "dropSchema", [loc[c] EXCEPT !.fp = fp]) /\ Unmoved
  <2>1. PICK f \in Fingerprints \cup {NoContent} : f = fp
    BY <1>1 DEF TableTypes, ContentTypes
  <2>2. Keep(c, "dropSchema", [loc[c] EXCEPT !.fp = f]) /\ UNCHANGED req /\ UNCHANGED promised
    BY <1>4, <2>1 DEF Unmoved
  <2>3. /\ StepOf(c) /\ pc'[c] = "dropSchema" /\ req'[c] = req[c] /\ loc'[c].id = loc[c].id
        /\ loc'[c].version = loc[c].version /\ loc'[c].todo = loc[c].todo /\ loc'[c].fp = f
    BY <1>1, <1>2, <2>2, KeepFp
  <2>4. Control(c)'
    BY <1>2, <2>3, KinControl
  <2>5. StoreTypes'
    BY <1>1, <2>2, <2>3, <2>4, QuietTypes
  <2> QED BY <1>1, <1>2, <1>4, <2>1, <2>2, <2>3, <2>5
<1> QED BY <1>3, <1>4 DEF DeleteOrphan

\* The content goes.
LEMMA DropSchemaDoes ==
  ASSUME StoreTypes, NEW c \in Clients, DropSchema(c)
  PROVE  /\ StoreTypes' /\ StepOf(c) /\ pc[c] = "dropSchema" /\ pc[c] \in Deletes /\ Goes(c, "dropRefs", loc[c])
         /\ schemas' = Drop(schemas, loc[c].id)
         /\ UNCHANGED <<allocVars, fingerprints, versions, latest, schemaReferences, referencesByTarget, settings, promised>>
<1>1. /\ pc[c] = "dropSchema" /\ Continue(c, "dropRefs") /\ schemas' = Drop(schemas, loc[c].id)
      /\ UNCHANGED <<allocVars, fingerprints, versions, latest, schemaReferences, referencesByTarget, settings, promised, req>>
      /\ TableTypes /\ AllocInv /\ promised \subseteq Answered
  BY DEF DropSchema, Unmoved, StoreTypes
<1>2. pc[c] \in Deletes /\ Kin(c, "dropRefs")
  BY <1>1, PlacesNamed DEF Kin
<1>3. StepOf(c) /\ Goes(c, "dropRefs", loc[c]) /\ Control(c)'
  BY <1>1, <1>2, GoesOn
<1>4. ContentTypes'
  BY <1>1 DEF TableTypes, ContentTypes, Drop
<1>5. TableTypes' /\ AllocInv'
  BY <1>1, <1>4, ContentsTyped, AllocSame
<1> QED BY <1>1, <1>2, <1>3, <1>5, TypesStep

\* The references of the ID go.
LEMMA DropRefsDoes ==
  ASSUME StoreTypes, NEW c \in Clients, DropRefs(c)
  PROVE  /\ StoreTypes' /\ StepOf(c) /\ pc[c] = "dropRefs" /\ pc[c] \in Deletes
         /\ schemaReferences' = {r \in schemaReferences : r[1] # loc[c].id}
         /\ UNCHANGED <<allocVars, schemas, fingerprints, versions, latest, referencesByTarget, settings, promised>>
         /\ \/ loc[c].fp = NoContent /\ NextVersion(c)
            \/ loc[c].fp # NoContent /\ Goes(c, "others", loc[c])
<1>1. /\ pc[c] = "dropRefs" /\ schemaReferences' = {r \in schemaReferences : r[1] # loc[c].id}
      /\ UNCHANGED <<allocVars, schemas, fingerprints, versions, latest, referencesByTarget, settings>>
      /\ TableTypes /\ AllocInv /\ promised \subseteq Answered
  BY DEF DropRefs, StoreTypes
<1>2. pc[c] \in Deletes /\ pc[c] \in Cleanups /\ Kin(c, "others")
  BY <1>1, PlacesNamed DEF Kin, Cleanups
<1>3. ReferenceTypes'
  BY <1>1 DEF TableTypes, ReferenceTypes
<1>4. TableTypes' /\ AllocInv'
  BY <1>1, <1>3, RowsTyped, AllocSame DEF TableTypes, RowTypes
<1>5. CASE loc[c].fp = NoContent /\ NextVersion(c)
  <2>1. StepOf(c) /\ Control(c)' /\ promised' = promised
    BY <1>2, <1>5, NextVersionDoes
  <2> QED BY <1>1, <1>2, <1>4, <1>5, <2>1, TypesStep
<1>6. CASE loc[c].fp # NoContent /\ Continue(c, "others") /\ Unmoved
  <2>1. UNCHANGED req /\ UNCHANGED promised
    BY <1>6 DEF Unmoved
  <2>2. StepOf(c) /\ Goes(c, "others", loc[c]) /\ Control(c)'
    BY <1>2, <1>6, <2>1, GoesOn
  <2> QED BY <1>1, <1>2, <1>4, <1>6, <2>1, <2>2, TypesStep
<1> QED BY <1>5, <1>6 DEF DropRefs

\* Another ID has the content, or the fingerprint is to go.
LEMMA OthersDoes ==
  ASSUME StoreTypes, NEW c \in Clients, DeleteOthers(c)
  PROVE  /\ StoreTypes' /\ StepOf(c) /\ pc[c] = "others" /\ pc[c] \in Deletes
         /\ UNCHANGED <<allocVars, tableVars, promised>>
         /\ \/ (\E i \in DOMAIN schemas : schemas[i] = loc[c].fp) /\ NextVersion(c)
            \/ (\A i \in DOMAIN schemas : schemas[i] # loc[c].fp) /\ Goes(c, "dropFingerprint", loc[c])
<1>1. /\ pc[c] = "others" /\ UNCHANGED <<allocVars, tableVars>>
  BY DEF DeleteOthers, Quiet
<1>2. pc[c] \in Deletes /\ pc[c] \in Cleanups /\ Kin(c, "dropFingerprint")
  BY <1>1, PlacesNamed DEF Kin, Cleanups
<1>3. CASE (\E i \in DOMAIN schemas : schemas[i] = loc[c].fp) /\ NextVersion(c)
  <2>1. StepOf(c) /\ Control(c)' /\ promised' = promised
    BY <1>2, <1>3, NextVersionDoes
  <2> QED BY <1>1, <1>2, <1>3, <2>1, QuietTypes
<1>4. CASE (\A i \in DOMAIN schemas : schemas[i] # loc[c].fp) /\ Continue(c, "dropFingerprint") /\ Unmoved
  <2>1. UNCHANGED req /\ UNCHANGED promised
    BY <1>4 DEF Unmoved
  <2>2. StepOf(c) /\ Goes(c, "dropFingerprint", loc[c]) /\ Control(c)'
    BY <1>2, <1>4, <2>1, GoesOn
  <2> QED BY <1>1, <1>2, <1>4, <2>1, <2>2, QuietTypes
<1> QED BY <1>3, <1>4 DEF DeleteOthers

\* The fingerprint goes.
LEMMA DropFingerprintDoes ==
  ASSUME StoreTypes, NEW c \in Clients, DropFingerprint(c)
  PROVE  /\ StoreTypes' /\ StepOf(c) /\ pc[c] = "dropFingerprint" /\ pc[c] \in Deletes
         /\ fingerprints' = Drop(fingerprints, loc[c].fp) /\ NextVersion(c)
         /\ UNCHANGED <<allocVars, schemas, versions, latest, schemaReferences, referencesByTarget, settings, promised>>
<1>1. /\ pc[c] = "dropFingerprint" /\ fingerprints' = Drop(fingerprints, loc[c].fp) /\ NextVersion(c)
      /\ UNCHANGED <<allocVars, schemas, versions, latest, schemaReferences, referencesByTarget, settings>>
      /\ TableTypes /\ AllocInv /\ promised \subseteq Answered
  BY DEF DropFingerprint, StoreTypes
<1>2. pc[c] \in Deletes /\ pc[c] \in Cleanups
  BY <1>1, PlacesNamed DEF Cleanups
<1>3. StepOf(c) /\ Control(c)' /\ promised' = promised
  BY <1>1, <1>2, NextVersionDoes
<1>4. ClaimTypes'
  BY <1>1 DEF TableTypes, ClaimTypes, Drop
<1>5. TableTypes' /\ AllocInv'
  BY <1>1, <1>4, ClaimsTyped, AllocSame
<1> QED BY <1>1, <1>2, <1>3, <1>5, TypesStep

\* A subject delete learns which versions there are.
LEMMA SubjectReadDoes ==
  ASSUME StoreTypes, NEW c \in Clients, SubjectRead(c)
  PROVE  /\ StoreTypes' /\ StepOf(c) /\ pc[c] = "subjectRead" /\ pc[c] \in Deletes
         /\ UNCHANGED <<allocVars, tableVars, promised>>
         /\ \/ Ends(c)
            \/ /\ ~req[c].permanent /\ pc'[c] = "mark" /\ req'[c] = req[c] /\ loc'[c].todo = Live(req[c].subject)
            \/ /\ req[c].permanent /\ pc'[c] = "deleteRead" /\ req'[c] = req[c]
               /\ Live(req[c].subject) = {} /\ loc'[c].todo = DOMAIN versions[req[c].subject]
               /\ loc'[c].version \in loc'[c].todo
<1> DEFINE s == req[c].subject
           V == IF req[c].permanent THEN DOMAIN versions[s] ELSE Live(s)
           next == IF req[c].permanent THEN "deleteRead" ELSE "mark"
           least == IF req[c].permanent THEN MinOf(V) ELSE 0
<1>1. /\ pc[c] = "subjectRead" /\ UNCHANGED <<allocVars, tableVars>> /\ ClientTypes /\ TableTypes
  BY DEF SubjectRead, Quiet, StoreTypes
<1>2. pc[c] \in Deletes /\ Kin(c, next) /\ next \in Places /\ pc[c] # "idle" /\ pc[c] \notin Imports
  BY <1>1, PlacesNamed DEF Kin
<1>3. V \in SUBSET Nat /\ req[c].permanent \in BOOLEAN
  BY <1>1, <1>2, InHand DEF Live, TableTypes, RowTypes
<1>4. CASE V = {} \/ (req[c].permanent /\ Live(s) # {})
  <2>1. End(c)
    BY <1>4 DEF SubjectRead
  <2> QED BY <1>1, <1>2, <2>1, EndTypes, TypesEnd
<1>5. CASE ~(V = {} \/ (req[c].permanent /\ Live(s) # {}))
  <2>1. PICK n \in Nat : n = least
    <3>1. MinOf(V) \in V
      <4> HIDE DEF V
      <4> QED BY <1>3, <1>5, MinOfNat
    <3> QED BY <1>3, <3>1
  <2>2. PICK l : l = [loc[c] EXCEPT !.todo = V, !.version = n]
    OBVIOUS
  <2>3. l \in Locals /\ l.todo = V /\ l.version = n
    <3>1. loc[c] \in Locals
      BY <1>1 DEF ClientTypes
    <3> HIDE DEF V
    <3> QED BY <1>3, <2>2, <3>1 DEF Locals
  <2>4. Keep(c, next, l) /\ UNCHANGED <<req, promised>>
    BY <1>5, <2>1, <2>2 DEF SubjectRead, Unmoved
  <2>5. StepOf(c) /\ Goes(c, next, l)
    <3> HIDE DEF next, V
    <3> QED BY <1>1, <1>2, <2>3, <2>4, TypesKept
  <2>6. Control(c)'
    <3> HIDE DEF next, V
    <3> QED BY <1>2, <2>5, KinControl DEF Goes
  <2>7. StoreTypes'
    BY <1>1, <2>4, <2>5, <2>6, QuietTypes
  <2>8. req[c].permanent => n \in V
    <3>1. MinOf(V) \in V
      <4> HIDE DEF V
      <4> QED BY <1>3, <1>5, MinOfNat
    <3> QED BY <2>1, <3>1
  <2>9. pc'[c] = next /\ req'[c] = req[c] /\ loc'[c].todo = V /\ loc'[c].version = n
    BY <2>3, <2>5 DEF Goes
  <2> QED BY <1>1, <1>2, <1>3, <1>5, <2>4, <2>5, <2>7, <2>8, <2>9
<1> QED BY <1>4, <1>5

\* subject_latest forgets the subject.
LEMMA DropLatestDoes ==
  ASSUME StoreTypes, NEW c \in Clients, DropLatest(c)
  PROVE  /\ StoreTypes' /\ StepOf(c) /\ pc[c] = "dropLatest" /\ pc[c] \in Deletes /\ Goes(c, "dropConfig", loc[c])
         /\ latest' = [latest EXCEPT ![req[c].subject] = NoLatest]
         /\ UNCHANGED <<allocVars, schemas, fingerprints, versions, schemaReferences, referencesByTarget, settings, promised>>
<1>1. /\ pc[c] = "dropLatest" /\ Continue(c, "dropConfig") /\ latest' = [latest EXCEPT ![req[c].subject] = NoLatest]
      /\ UNCHANGED <<allocVars, schemas, fingerprints, versions, schemaReferences, referencesByTarget, settings, promised, req>>
      /\ TableTypes /\ AllocInv /\ promised \subseteq Answered
  BY DEF DropLatest, Unmoved, StoreTypes
<1>2. pc[c] \in {"subjectRead"} \cup SubjectEnds /\ pc[c] \in Deletes
  BY <1>1, PlacesNamed
<1>3. req[c].op = "deleteSubject"
  BY <1>2, InHand DEF Control
<1>4. Kin(c, "dropConfig")
  BY <1>2, <1>3, PlacesNamed DEF Kin
<1>5. StepOf(c) /\ Goes(c, "dropConfig", loc[c]) /\ Control(c)'
  BY <1>1, <1>4, GoesOn
<1>6. latest' \in [Subjects -> Latest]
  BY <1>1 DEF TableTypes, Latest, NoLatest
<1>7. TableTypes' /\ AllocInv'
  BY <1>1, <1>6, RowsTyped, AllocSame DEF TableTypes, RowTypes, ReferenceTypes
<1> QED BY <1>1, <1>2, <1>5, <1>7, TypesStep

\* Settings are written or deleted, or go with their subject.
LEMMA SettingsDo ==
  ASSUME StoreTypes, NEW c \in Clients, DropSettings(c) \/ PutSetting(c)
  PROVE  /\ StoreTypes' /\ StepOf(c) /\ pc[c] \in {"dropConfig", "dropMode", "setting"}
         /\ UNCHANGED <<allocVars, schemas, fingerprints, versions, latest, schemaReferences, referencesByTarget, promised>>
         /\ \/ Ends(c)
            \/ pc[c] = "dropConfig" /\ Goes(c, "dropMode", loc[c])
<1>1. /\ UNCHANGED <<allocVars, schemas, fingerprints, versions, latest, schemaReferences, referencesByTarget>>
      /\ ClientTypes /\ TableTypes /\ AllocInv /\ promised \subseteq Answered
  BY DEF DropSettings, PutSetting, StoreTypes
<1>2. ASSUME settings' \subseteq Subjects \X {"subject_configs", "modes"} PROVE TableTypes' /\ AllocInv'
  BY <1>1, <1>2, AllocSame DEF TableTypes, ContentTypes, ClaimTypes, RowTypes, ReferenceTypes
<1>3. CASE pc[c] = "dropConfig" /\ settings' = settings \ {<<req[c].subject, "subject_configs">>}
           /\ Continue(c, "dropMode") /\ Unmoved
  <2>1. pc[c] \in {"subjectRead"} \cup SubjectEnds /\ pc[c] \in Deletes
    BY <1>3, PlacesNamed
  <2>2. req[c].op = "deleteSubject"
    BY <2>1, InHand DEF Control
  <2>3. Kin(c, "dropMode") /\ UNCHANGED req /\ UNCHANGED promised
    BY <1>3, <2>1, <2>2, PlacesNamed DEF Kin, Unmoved
  <2>4. StepOf(c) /\ Goes(c, "dropMode", loc[c]) /\ Control(c)'
    BY <1>3, <2>3, GoesOn
  <2>5. TableTypes' /\ AllocInv'
    BY <1>1, <1>2, <1>3 DEF TableTypes
  <2> QED BY <1>1, <1>3, <2>3, <2>4, <2>5, TypesStep
<1>4. CASE pc[c] \in {"dropMode", "setting"} /\ End(c) /\ settings' \subseteq Subjects \X {"subject_configs", "modes"}
  <2>1. StepOf(c) /\ Ends(c) /\ promised' = promised
    BY <1>1, <1>4, TypesEnd
  <2>2. Control(c)'
    BY <2>1, ControlKept
  <2> QED BY <1>1, <1>2, <1>4, <2>1, <2>2, TypesStep
<1>5. CASE pc[c] = "dropMode" /\ UNCHANGED settings /\ End(c)
  BY <1>1, <1>4, <1>5 DEF TableTypes
<1>6. CASE PutSetting(c)
  <2>1. pc[c] = "setting" /\ End(c)
    BY <1>6 DEF PutSetting
  <2>2. req[c].op = "setting" /\ req[c] \in Requests
    BY <2>1, InHand DEF Control
  <2>3. req[c].subject \in Subjects
    BY <2>2, AnyRequest
  <2>4. PICK t \in {"subject_configs", "modes"} :
          settings' \in {settings \cup {<<req[c].subject, t>>}, settings \ {<<req[c].subject, t>>}}
    BY <1>6 DEF PutSetting, WriteConfig, WriteMode
  <2>5. settings' \subseteq Subjects \X {"subject_configs", "modes"}
    BY <1>1, <2>3, <2>4 DEF TableTypes
  <2> QED BY <1>4, <2>1, <2>5
<1> QED BY <1>3, <1>5, <1>6 DEF DropSettings

-----------------------------------------------------------------------------
(* Beginnings, allocator and faults.                                       *)

\* A call begins.
LEMMA BeginDoes ==
  ASSUME StoreTypes, NEW c \in Clients, NEW r \in Requests, Begin(c, r)
  PROVE  /\ StoreTypes' /\ StepOf(c) /\ pc[c] = "idle" /\ req'[c] = r /\ (turns => InTurn(r))
         /\ UNCHANGED <<allocVars, tableVars, promised>>
         /\ \/ r.op = "create" /\ pc'[c] = "fast"
            \/ r.op = "import" /\ pc'[c] = "importID" /\ loc'[c].fp = NoContent /\ loc'[c].id = r.id
            \/ r.op = "deleteVersion" /\ pc'[c] = "deleteRead"
            \/ r.op = "deleteSubject" /\ pc'[c] = "subjectRead"
            \/ r.op = "setting" /\ pc'[c] = "setting"
<1>1. /\ pc[c] = "idle" /\ (turns => InTurn(r)) /\ UNCHANGED <<allocVars, tableVars, promised>>
      /\ pc' = [pc EXCEPT ![c] = FirstStep(r)] /\ req' = [req EXCEPT ![c] = r] /\ ClientTypes
  BY DEF Begin, Goto, StoreTypes
<1>2. /\ r.op \in {"create", "import", "deleteVersion", "deleteSubject", "setting"}
      /\ r.op = "import" => r.id \in Nat \ {0} /\ r.version \in Nat \ {0}
      /\ r.op = "deleteVersion" => r.version \in Nat \ {0}
  BY AnyRequest
<1>3. /\ r.op = "create" => FirstStep(r) = "fast"
      /\ r.op = "import" => FirstStep(r) = "importID"
      /\ r.op = "deleteVersion" => FirstStep(r) = "deleteRead"
      /\ r.op = "deleteSubject" => FirstStep(r) = "subjectRead"
      /\ r.op = "setting" => FirstStep(r) = "setting"
  BY DEF FirstStep
<1>4. FirstStep(r) \in Places
  BY <1>2, <1>3, PlacesNamed
<1>5. PICK n \in Nat, m \in Nat :
        /\ n = IF r.op \in {"import", "deleteVersion"} THEN r.version ELSE 0
        /\ m = IF r.op = "import" THEN r.id ELSE 0
  BY <1>2
<1>6. loc' = [loc EXCEPT ![c].version = n, ![c].id = m]
  BY <1>5 DEF Begin
<1>7. PICK l : l = [[loc[c] EXCEPT !.version = n] EXCEPT !.id = m]
  OBVIOUS
<1>8. loc[c] = NoLocals /\ loc \in [Clients -> Locals]
  BY <1>1, InHand DEF Control, ClientTypes
<1>9. l \in Locals /\ l.version = n /\ l.id = m /\ l.fp = NoContent
  BY <1>7, <1>8, CleanLocals DEF Locals
<1>10. loc' = [loc EXCEPT ![c] = l]
  BY <1>6, <1>7, <1>8
<1>11. StepOf(c) /\ pc'[c] = FirstStep(r) /\ req'[c] = r /\ loc'[c] = l
  BY <1>1, <1>4, <1>9, <1>10 DEF ClientTypes, StepOf, Rests
<1>12. Control(c)'
  <2>1. /\ pc'[c] # "idle" /\ req'[c] \in Requests
        /\ pc'[c] \in Creates => r.op = "create"
        /\ pc'[c] \in Imports => r.op = "import"
        /\ pc'[c] = "setting" => r.op = "setting"
        /\ pc'[c] \in Deletes => r.op \in {"deleteVersion", "deleteSubject"}
        /\ pc'[c] \in {"subjectRead"} \cup SubjectEnds => r.op = "deleteSubject"
    BY <1>2, <1>3, <1>11, PlacesNamed
  <2> QED BY <1>5, <1>9, <1>11, <2>1 DEF Control
<1>13. StoreTypes'
  BY <1>1, <1>11, <1>12, QuietTypes
<1> QED BY <1>1, <1>2, <1>3, <1>5, <1>9, <1>11, <1>13

\* The allocator works for a client, or fails it.
LEMMA AllocateDoes ==
  ASSUME StoreTypes, NEW c \in Clients, Allocate(c) \/ AllocAbort(c)
  PROVE  StoreTypes' /\ UNCHANGED <<tableVars, pc, req, loc, promised>>
<1>1. UNCHANGED <<tableVars, pc, req, loc, promised>> /\ (AllocStep(c) \/ AllocError(c))
  BY DEF Allocate, AllocAbort
<1>2. AllocInv' /\ TableTypes'
  BY <1>1, AllocGives, SameTables DEF StoreTypes
<1> QED BY <1>1, <1>2 DEF StoreTypes, ClientTypes, Control

\* An instance stops and starts again.
LEMMA RestartDoes ==
  ASSUME StoreTypes, NEW i \in Instances, RestartInstance(i)
  PROVE  StoreTypes'
<1>1. UNCHANGED <<tableVars, promised>> /\ Restart(i)
  BY DEF RestartInstance
<1>2. AllocInv' /\ TableTypes'
  BY <1>1, RestartInv, SameTables DEF StoreTypes
<1>3. "idle" \in Places
  BY PlacesNamed
<1>4. ClientTypes'
  BY <1>3, CleanLocals DEF StoreTypes, ClientTypes, RestartInstance
<1>5. ASSUME NEW c \in Clients PROVE Control(c)'
  <2>1. CASE Home[c] = i
    <3>1. Ends(c)
      BY <2>1 DEF RestartInstance, Ends
    <3> QED BY <3>1, ControlKept
  <2>2. CASE Home[c] # i
    <3>1. pc'[c] = pc[c] /\ req'[c] = req[c] /\ loc'[c] = loc[c]
      BY <2>2 DEF RestartInstance
    <3> QED BY <3>1 DEF StoreTypes, Control
  <2> QED BY <2>1, <2>2
<1> QED BY <1>1, <1>2, <1>4, <1>5 DEF StoreTypes

\* A query fails, and the call returns the error or goes on.
LEMMA FaultDoes ==
  ASSUME StoreTypes, NEW c \in Clients, Abort(c) \/ Swallow(c)
  PROVE  StoreTypes'
<1>1. UNCHANGED <<allocVars, tableVars>> /\ ClientTypes /\ TableTypes
  BY DEF Abort, Swallow, Quiet, StoreTypes
<1>2. CASE End(c)
  BY <1>1, <1>2, EndTypes
<1>3. ASSUME NEW label, Kin(c, label), Continue(c, label), Unmoved PROVE StoreTypes'
  <2>1. UNCHANGED req /\ UNCHANGED promised
    BY <1>3 DEF Unmoved
  <2>2. StepOf(c) /\ Control(c)'
    BY <1>3, <2>1, GoesOn
  <2> QED BY <1>1, <2>1, <2>2, QuietTypes
<1>4. ASSUME pc[c] \in Cleanups, NextVersion(c) PROVE StoreTypes'
  BY <1>1, <1>4, NextVersionDoes, QuietTypes
<1>5. CASE pc[c] = "find" /\ Continue(c, "latest") /\ Unmoved
  <2>1. Kin(c, "latest")
    BY <1>5, PlacesNamed DEF Kin
  <2> QED BY <1>3, <1>5, <2>1
<1>6. CASE pc[c] = "conflict" /\ Again(c)
  <2>1. pc[c] \in Creates
    BY <1>6, PlacesNamed
  <2> QED BY <1>1, <1>6, <2>1, AgainDoes
<1>7. CASE pc[c] = "importClaim" /\ Unmoved
           /\ Continue(c, IF loc[c].fp = NoContent THEN "importWrite" ELSE "importLatest")
  <2>1. Kin(c, "importWrite") /\ Kin(c, "importLatest")
    BY <1>7, PlacesNamed DEF Kin
  <2> QED BY <1>3, <1>7, <2>1
<1>8. CASE pc[c] = "unindex" /\ Continue(c, "deleteRow") /\ Unmoved
  <2>1. Kin(c, "deleteRow")
    BY <1>8, PlacesNamed DEF Kin
  <2> QED BY <1>3, <1>8, <2>1
<1>9. CASE /\ pc[c] = "orphan" /\ Unmoved
           /\ \E fp \in {NoContent} \cup {schemas[i] : i \in DOMAIN schemas \cap {loc[c].id}} :
                 Keep(c, "dropSchema", [loc[c] EXCEPT !.fp = fp])
  <2>1. UNCHANGED req /\ UNCHANGED promised
    BY <1>9 DEF Unmoved
  <2>2. PICK f \in Fingerprints \cup {NoContent} : Keep(c, "dropSchema", [loc[c] EXCEPT !.fp = f])
    BY <1>1, <1>9 DEF TableTypes, ContentTypes
  <2>3. Kin(c, "dropSchema") /\ "dropSchema" \in Places /\ pc[c] \notin Imports
    BY <1>9, PlacesNamed DEF Kin
  <2>4. StepOf(c) /\ pc'[c] = "dropSchema" /\ req'[c] = req[c]
    BY <1>1, <2>1, <2>2, <2>3, KeepFp
  <2>5. Control(c)'
    BY <2>3, <2>4, KinControl
  <2> QED BY <1>1, <2>1, <2>4, <2>5, QuietTypes
<1>10. CASE pc[c] = "dropSchema" /\ Continue(c, "dropRefs") /\ Unmoved
  <2>1. Kin(c, "dropRefs")
    BY <1>10, PlacesNamed DEF Kin
  <2> QED BY <1>3, <1>10, <2>1
<1>11. CASE pc[c] = "dropRefs" /\ IF loc[c].fp = NoContent THEN NextVersion(c)
                                  ELSE Continue(c, "others") /\ Unmoved
  <2>1. Kin(c, "others") /\ pc[c] \in Cleanups
    BY <1>11, PlacesNamed DEF Kin, Cleanups
  <2> QED BY <1>3, <1>4, <1>11, <2>1
<1>12. CASE pc[c] = "others" /\ Continue(c, "dropFingerprint") /\ Unmoved
  <2>1. Kin(c, "dropFingerprint")
    BY <1>12, PlacesNamed DEF Kin
  <2> QED BY <1>3, <1>12, <2>1
<1>13. CASE pc[c] = "dropFingerprint" /\ NextVersion(c)
  <2>1. pc[c] \in Cleanups
    BY <1>13 DEF Cleanups
  <2> QED BY <1>4, <1>13, <2>1
<1>14. CASE /\ pc[c] \in {"dropLatest", "dropConfig"} /\ Unmoved
            /\ Continue(c, IF pc[c] = "dropLatest" THEN "dropConfig" ELSE "dropMode")
  <2>1. pc[c] \in {"subjectRead"} \cup SubjectEnds /\ pc[c] \in Deletes
    BY <1>14, PlacesNamed
  <2>2. req[c].op = "deleteSubject"
    BY <2>1, InHand DEF Control
  <2>3. Kin(c, "dropConfig") /\ Kin(c, "dropMode")
    BY <2>1, <2>2, PlacesNamed DEF Kin
  <2> QED BY <1>3, <1>14, <2>3
<1> QED BY <1>2, <1>5, <1>6, <1>7, <1>8, <1>9, <1>10, <1>11, <1>12, <1>13, <1>14 DEF Abort, Swallow

\* The types hold at the start.
LEMMA TypesInit == Init => StoreTypes
<1> SUFFICES ASSUME Init PROVE StoreTypes
  OBVIOUS
<1>1. AllocInv
  BY AllocInitInv DEF Init
<1>2. ClientTypes
  <2>1. "idle" \in Places
    BY PlacesNamed
  <2> QED BY <2>1, CleanLocals DEF Init, ClientTypes
<1>3. TableTypes
  BY DEF Init, TableTypes, ContentTypes, ClaimTypes, RowTypes, ReferenceTypes, EmptyTable, NoLatest, Latest
<1>4. ASSUME NEW c \in Clients PROVE Control(c)
  <2>1. pc[c] = "idle" /\ loc[c] = NoLocals
    BY DEF Init
  <2>2. "idle" \notin Creates \cup Imports \cup Deletes \cup {"setting", "subjectRead"} \cup SubjectEnds
    BY PlacesNamed
  <2> QED BY <2>1, <2>2 DEF Control
<1> QED BY <1>1, <1>2, <1>3, <1>4 DEF Init, StoreTypes

\* Every step of every client keeps them, and so do faults and restarts.
LEMMA TypesNext == StoreTypes /\ [Next]_<<vars, turns>> => StoreTypes'
<1> SUFFICES ASSUME StoreTypes, [Next]_<<vars, turns>> PROVE StoreTypes'
  OBVIOUS
<1>1. CASE UNCHANGED <<vars, turns>>
  <2>1. AllocInv' /\ TableTypes'
    BY <1>1, AllocSame, SameTables DEF vars, StoreTypes
  <2> QED BY <1>1, <2>1 DEF vars, StoreTypes, ClientTypes, Control
<1>2. ASSUME NEW c \in Clients, CreateStep(c) PROVE StoreTypes'
  BY <1>2, FastDoes, ClaimDoes, NoIDDoes, DataDoes, WriteDoes, FindDoes, LatestDoes, InsertDoes, ConflictDoes,
     PublishDoes, RefsDoes DEF CreateStep
<1>3. ASSUME NEW c \in Clients, ImportStep(c) PROVE StoreTypes'
  BY <1>3, ImportIDDoes, ImportVersionDoes, ImportClaimDoes, ImportWriteDoes, ImportLatestDoes, ImportBatchDoes,
     ImportAdvanceDoes, ImportReturnDoes, NoIDDoes DEF ImportStep
<1>4. ASSUME NEW c \in Clients, DeleteStep(c) PROVE StoreTypes'
  BY <1>4, DeleteReadDoes, MarkDoes, UnindexDoes, DeleteRowDoes, OrphanDoes, DropSchemaDoes, DropRefsDoes,
     OthersDoes, DropFingerprintDoes, SubjectReadDoes, DropLatestDoes, SettingsDo DEF DeleteStep
<1>5. ASSUME NEW c \in Clients, NEW r \in Requests, Begin(c, r) PROVE StoreTypes'
  BY <1>5, BeginDoes
<1>6. ASSUME NEW c \in Clients, Allocate(c) \/ AllocAbort(c) PROVE StoreTypes'
  BY <1>6, AllocateDoes
<1>7. ASSUME NEW c \in Clients, Abort(c) \/ Swallow(c) PROVE StoreTypes'
  BY <1>7, FaultDoes
<1>8. ASSUME NEW i \in Instances, RestartInstance(i) PROVE StoreTypes'
  BY <1>8, RestartDoes
<1> QED BY <1>1, <1>2, <1>3, <1>4, <1>5, <1>6, <1>7, <1>8 DEF Next, Step

\* The types are those of TypeOK.
LEMMA StoreTyped == StoreTypes => TypeOK
BY DEF StoreTypes, TypeOK, AllocInv, ClientTypes, TableTypes, ContentTypes, ClaimTypes, RowTypes, ReferenceTypes

\* The tables of a context and the calls in progress keep their types, whatever
\* registrations, imports and deletes interleave, whatever queries fail or are
\* swallowed, and whichever instance restarts.
THEOREM CassandraTypes == Spec => []TypeOK
BY StoreTyped, TypesInit, TypesNext, PTL DEF Spec

\* What callers that take turns ask for.
TurnControl(c) ==
  /\ pc[c] \in Creates => req[c].meta = NoMeta
  /\ pc[c] \in Purges => req[c].permanent

\* The allocator serves the active client only, so what it has read is current.
TurnAlloc(c) ==
  /\ pc[c] \notin {"alloc", "setNext"} => At(c, "idle")
  /\ pc[c] = "alloc" => alloc[c].step \in {"next", "read", "cas", "got"}
  /\ pc[c] = "setNext" => alloc[c].step \in {"setRead", "setCas", "reset", "idle"}
  /\ alloc[c].step \in {"cas", "setCas"} => alloc[c].seen = nextId

\* An ID that was put to use: no instance has it in its block.
Used(id) == \A i \in Instances : ~InBlock(i, id)

\* Where the pair of ID and content in hand may be in the tables already.
Pends == Claims \cup ImportWrites \cup ImportEnds

\* The ID is that of the content: it was answered so, or c is about to answer it.
Knows(c, id, fp) ==
  \/ \E p \in promised : p.id = id /\ p.fp = fp
  \/ pc[c] \in Pends /\ loc[c].id = id /\ req[c].fp = fp

\* An ID stands for one content for ever, and will not be given out again.
TurnIDs(c) ==
  /\ \A p \in promised : Used(p.id) /\ p.id < nextId
  /\ \A p, q \in promised : p.id = q.id => p.fp = q.fp
  /\ pc[c] \in Claims \cup Imports =>
       Used(loc[c].id) /\ \A p \in promised : p.id = loc[c].id => p.fp = req[c].fp
  /\ pc[c] \in Claims => loc[c].id < nextId
  /\ At(c, "got") => Used(alloc[c].id) /\ alloc[c].id < nextId /\ \A p \in promised : p.id # alloc[c].id
  /\ pc[c] = "setNext" =>
       IF alloc[c].step \in {"setRead", "setCas"} THEN loc[c].id < alloc[c].id ELSE loc[c].id < nextId
  /\ \A i \in DOMAIN schemas : Knows(c, i, schemas[i])
  /\ \A f \in DOMAIN fingerprints : Knows(c, fingerprints[f], f)

\* The version in hand is that of the row.
Own(c, s, v) == s = req[c].subject /\ v = loc[c].version

\* The row of the version in hand is stored under the ID in hand.
OwnRow(c) ==
  /\ loc[c].version \in DOMAIN versions[req[c].subject]
  /\ versions[req[c].subject][loc[c].version].id = loc[c].id

\* No live version of the subject has the ID in hand.
NewToSubject(c) == \A v \in Live(req[c].subject) : versions[req[c].subject][v].id # loc[c].id

\* A version has content, is published, and is the only live one of its ID.
TurnRows(c) ==
  /\ \A s \in Subjects : \A v \in DOMAIN versions[s] :
       /\ v # 0 /\ versions[s][v].id \in DOMAIN schemas /\ versions[s][v].meta = NoMeta
       /\ v <= latest[s].version \/ (pc[c] = "publish" /\ Own(c, s, v))
  /\ \A s \in Subjects : \A v, w \in Live(s) : versions[s][v].id = versions[s][w].id => v = w

\* What a registration or an import has found out still holds when it writes.
TurnWrites(c) ==
  /\ pc[c] # "conflict"
  /\ pc[c] \in Stores \cup {"importLatest", "importBatch"} => loc[c].id \in DOMAIN schemas
  /\ pc[c] \in {"latest", "insert"} \cup ImportChecks \cup ImportWrites => NewToSubject(c)
  /\ pc[c] \in {"insert", "publish", "importBatch"} => loc[c].seen = latest[req[c].subject]
  /\ pc[c] \in {"insert", "publish"} => loc[c].version = loc[c].seen.version + 1
  /\ pc[c] \in Owns \cup ImportEnds => OwnRow(c)
  /\ pc[c] \in ImportWrites => req[c].version \notin DOMAIN versions[req[c].subject]
  /\ pc[c] \in Imports /\ loc[c].fp # NoContent => loc[c].id \in DOMAIN schemas
  /\ pc[c] = "importWrite" => loc[c].fp = NoContent

\* So does what a delete has found out.
TurnDeletes(c) ==
  /\ pc[c] = "mark" => IF req[c].op = "deleteSubject" THEN loc[c].todo \subseteq DOMAIN versions[req[c].subject]
                       ELSE loc[c].version \in DOMAIN versions[req[c].subject]
  /\ pc[c] \in RowDeletes => OwnRow(c) /\ loc[c].version \notin Live(req[c].subject)
  /\ pc[c] \in {"deleteRead"} \cup RowDeletes \cup Cleanups /\ req[c].op = "deleteSubject" =>
       /\ Live(req[c].subject) = {} /\ loc[c].version \in loc[c].todo /\ req[c].permanent
       /\ DOMAIN versions[req[c].subject] = IF pc[c] \in Cleanups THEN loc[c].todo \ {loc[c].version} ELSE loc[c].todo
  /\ pc[c] \in SubjectEnds => DOMAIN versions[req[c].subject] = {}
  /\ pc[c] \in {"dropSchema", "dropRefs"} =>
       \A s \in Subjects : \A v \in DOMAIN versions[s] : versions[s][v].id # loc[c].id
  /\ pc[c] \in {"orphan", "dropSchema"} => loc[c].id \in DOMAIN schemas
  /\ pc[c] = "dropSchema" => loc[c].fp = schemas[loc[c].id]
  /\ pc[c] = "dropRefs" => loc[c].id \notin DOMAIN schemas
  /\ pc[c] \in {"dropRefs", "others", "dropFingerprint"} => loc[c].fp \in Fingerprints
  /\ pc[c] = "dropFingerprint" => \A i \in DOMAIN schemas : schemas[i] # loc[c].fp

\* A version has the ID.
InUse(id) == \E s \in Subjects : \E v \in DOMAIN versions[s] : versions[s][v].id = id

\* Where content may be stored that no version has; where a claim may lead to
\* content that is not stored yet, and where to content that is gone.
Holds == Claims \cup {"importLatest", "importBatch", "orphan", "dropSchema"}
Unwritten == {"data", "write", "importWrite"}
Unclaims == {"dropRefs", "others", "dropFingerprint"}

\* Content is stored for a version, or is in hand; a claim leads to content.
TurnContents(c) ==
  /\ \A i \in DOMAIN schemas : InUse(i) \/ (pc[c] \in Holds /\ i = loc[c].id)
  /\ \A f \in DOMAIN fingerprints :
       \/ \E i \in DOMAIN schemas : schemas[i] = f
       \/ pc[c] \in Unwritten /\ f = req[c].fp
       \/ pc[c] \in Unclaims /\ f = loc[c].fp

\* The references of the row's content.
RefsOf(s, v) == Refs[schemas[versions[s][v].id]]

\* Both tables of references say what the contents of the versions refer to.
TurnReferences(c) ==
  /\ \A q \in schemaReferences :
       \/ q[1] \in DOMAIN schemas /\ q[2] \in Refs[schemas[q[1]]]
       \/ pc[c] = "dropRefs" /\ q[1] = loc[c].id
  /\ \A s \in Subjects : \A v \in DOMAIN versions[s] : \A r \in RefsOf(s, v) :
       <<versions[s][v].id, r>> \in schemaReferences \/ (pc[c] \in Owns /\ Own(c, s, v))
  /\ \A s \in Subjects : \A v \in Nat : \A r \in SubjectVersion : <<r, <<s, v>>>> \in referencesByTarget =>
       /\ v \in DOMAIN versions[s] /\ r \in RefsOf(s, v)
       /\ ~(pc[c] = "deleteRow" /\ Own(c, s, v))
  /\ \A s \in Subjects : \A v \in DOMAIN versions[s] : \A r \in RefsOf(s, v) :
       <<r, <<s, v>>>> \in referencesByTarget \/ (pc[c] \in Owns \cup {"deleteRow"} /\ Own(c, s, v))

\* Nobody but c is active.
Alone(c) == \A d \in Clients \ {c} : pc[d] = "idle"

TurnGood(c) ==
  /\ TurnControl(c) /\ TurnAlloc(c) /\ TurnIDs(c) /\ TurnRows(c) /\ TurnWrites(c)
  /\ TurnDeletes(c) /\ TurnContents(c) /\ TurnReferences(c)

\* The inductive invariant of behaviours in which callers take turns.
TurnInv ==
  /\ \A c \in Clients : pc[c] # "idle" => Alone(c)
  /\ \A c \in Clients : pc[c] = "idle" => At(c, "idle")
  /\ \A c \in Clients : Alone(c) => TurnGood(c)

\* A step of client c, the only active one, keeps the invariant.
Advances(c) ==
  /\ StepOf(c) /\ \A d \in Clients \ {c} : alloc'[d] = alloc[d]
  /\ TurnGood(c)' /\ ((pc[c] = "idle")' => At(c, "idle")')

-----------------------------------------------------------------------------
(* Steps of callers that take turns: what holds for the active client      *)
(* holds for the system.                                                   *)

\* Every place that the invariant speaks of, once.
LEMMA TurnPlaces ==
  /\ Owns = {"publish", "refs"}
  /\ Stores = {"find", "latest", "insert", "conflict", "publish", "refs"}
  /\ Claims = {"data", "write", "find", "latest", "insert", "conflict", "publish", "refs"}
  /\ ImportChecks = {"importID", "importVersion"}
  /\ ImportWrites = {"importClaim", "importWrite", "importLatest", "importBatch"}
  /\ ImportEnds = {"advance", "setNext"}
  /\ Pends = {"data", "write", "find", "latest", "insert", "conflict", "publish", "refs",
              "importClaim", "importWrite", "importLatest", "importBatch", "advance", "setNext"}
  /\ Holds = {"data", "write", "find", "latest", "insert", "conflict", "publish", "refs",
              "importLatest", "importBatch", "orphan", "dropSchema"}
  /\ RowDeletes = {"unindex", "deleteRow"}
  /\ Cleanups = {"orphan", "dropSchema", "dropRefs", "others", "dropFingerprint"}
  /\ Purges = {"unindex", "deleteRow", "orphan", "dropSchema", "dropRefs", "others", "dropFingerprint",
               "dropLatest", "dropConfig", "dropMode"}
BY DEF Owns, Stores, Claims, ImportChecks, ImportWrites, ImportEnds, Pends, RowDeletes, Cleanups, Purges,
   SubjectEnds, Holds

\* Between the calls the invariant does not depend on the client.
LEMMA IdleGood ==
  ASSUME NEW c \in Clients, NEW d \in Clients, (pc[c] = "idle")', (pc[d] = "idle")', At(c, "idle")', At(d, "idle")',
         TurnGood(c)'
  PROVE  TurnGood(d)'
<1> USE PlacesNamed, TurnPlaces
<1>1. TurnControl(d)' /\ TurnAlloc(d)' /\ TurnWrites(d)' /\ TurnDeletes(d)'
  BY DEF TurnControl, TurnAlloc, TurnWrites, TurnDeletes, At
<1>2. TurnIDs(d)'
  BY DEF TurnGood, TurnIDs, At, Knows
<1>3. TurnRows(d)'
  BY DEF TurnGood, TurnRows
<1>4. TurnContents(d)'
  BY DEF TurnGood, TurnContents, Unwritten, Unclaims
<1>5. TurnReferences(d)'
  BY DEF TurnGood, TurnReferences
<1> QED BY <1>1, <1>2, <1>3, <1>4, <1>5 DEF TurnGood

\* A step of the only active client.
LEMMA TurnFrame ==
  ASSUME StoreTypes, TurnInv, NEW c \in Clients, Alone(c), Advances(c)
  PROVE  TurnInv'
<1>1. \A d \in Clients \ {c} : pc'[d] = "idle" /\ At(d, "idle")'
  BY DEF Alone, Advances, StepOf, Rests, TurnInv, At
<1>2. \A d \in Clients : (pc[d] # "idle")' => d = c
  BY <1>1
<1>3. Alone(c)'
  BY <1>1 DEF Alone
<1>4. ASSUME NEW d \in Clients, Alone(d)' PROVE TurnGood(d)'
  <2>1. CASE d = c
    BY <2>1 DEF Advances
  <2>2. CASE d # c
    <3>1. (pc[c] = "idle")'
      BY <1>4, <2>2 DEF Alone
    <3> QED BY <1>1, <2>2, <3>1, IdleGood DEF Advances
  <2> QED BY <2>1, <2>2
<1> QED BY <1>1, <1>2, <1>3, <1>4 DEF TurnInv, Advances

-----------------------------------------------------------------------------
(* What a step that does not touch the tables keeps.                       *)

\* The allocator serves nobody.
LEMMA AllocQuiet ==
  ASSUME NEW c \in Clients, TurnAlloc(c), UNCHANGED allocVars,
         pc[c] \notin {"alloc", "setNext"}, pc'[c] \notin {"alloc", "setNext"}
  PROVE  TurnAlloc(c)' /\ At(c, "idle") /\ At(c, "idle")'
BY DEF TurnAlloc, At, allocVars

\* No version is waiting to be published.
LEMMA RowsQuiet ==
  ASSUME NEW c \in Clients, TurnRows(c), UNCHANGED <<schemas, versions, latest>>, pc[c] # "publish"
  PROVE  TurnRows(c)'
BY DEF TurnRows, Live

\* No references are waiting to be written.
LEMMA ReferencesQuiet ==
  ASSUME NEW c \in Clients, TurnReferences(c), UNCHANGED <<schemas, versions, schemaReferences, referencesByTarget>>,
         pc[c] \notin {"dropRefs", "publish", "refs", "deleteRow"}, pc'[c] # "deleteRow"
  PROVE  TurnReferences(c)'
BY DEF TurnReferences, Owns, RefsOf

\* The ID in hand has the content in hand, if it has any.
LEMMA ContentInHand ==
  ASSUME NEW c \in Clients, TurnIDs(c), pc[c] \in Claims \cup Imports, loc[c].id \in DOMAIN schemas
  PROVE  schemas[loc[c].id] = req[c].fp
<1>1. Knows(c, loc[c].id, schemas[loc[c].id])
  BY DEF TurnIDs
<1> QED BY <1>1 DEF TurnIDs, Knows

\* The same ID and content stay in hand, or none.
LEMMA IDsQuiet ==
  ASSUME NEW c \in Clients, TurnIDs(c), UNCHANGED <<allocVars, schemas, fingerprints, promised>>,
         pc[c] \notin {"alloc", "setNext"}, pc'[c] \notin {"alloc", "setNext"}, At(c, "idle"),
         pc[c] \in Pends => pc'[c] \in Pends /\ loc'[c].id = loc[c].id /\ req'[c] = req[c],
         pc'[c] \in Claims => pc[c] \in Claims /\ loc'[c].id = loc[c].id /\ req'[c] = req[c],
         pc'[c] \in Imports => pc[c] \in Imports /\ loc'[c].id = loc[c].id /\ req'[c] = req[c]
  PROVE  TurnIDs(c)'
<1>1. UNCHANGED <<nextId, block, alloc>>
  BY DEF allocVars
<1>2. \A id, f : Knows(c, id, f) => Knows(c, id, f)'
  BY DEF Knows
<1>3. \A i \in DOMAIN schemas' : Knows(c, i, schemas[i])'
  BY <1>2 DEF TurnIDs
<1>4. \A f \in DOMAIN fingerprints' : Knows(c, fingerprints[f], f)'
  BY <1>2 DEF TurnIDs
<1>5. ~At(c, "got")'
  BY <1>1 DEF At
<1> QED BY <1>1, <1>3, <1>4, <1>5 DEF TurnIDs, Used, InBlock

\* The ID and the content in hand are answered.
LEMMA IDsAnswered ==
  ASSUME NEW c \in Clients, TurnIDs(c), UNCHANGED <<allocVars, schemas, fingerprints>>,
         pc[c] \in Pends, Used(loc[c].id), loc[c].id < nextId,
         \A p \in promised : p.id = loc[c].id => p.fp = req[c].fp, At(c, "idle"), Ends(c), NEW s, NEW v,
         promised' = promised \cup {[subject |-> s, version |-> v, id |-> loc[c].id, fp |-> req[c].fp]}
  PROVE  TurnIDs(c)'
<1>1. UNCHANGED <<nextId, block, alloc>> /\ pc'[c] = "idle"
  BY DEF allocVars, Ends
<1>2. PICK q : q = [subject |-> s, version |-> v, id |-> loc[c].id, fp |-> req[c].fp]
  OBVIOUS
<1>3. q \in promised' /\ q.id = loc[c].id /\ q.fp = req[c].fp /\ promised' = promised \cup {q}
  BY <1>2
<1>4. \A id, f : Knows(c, id, f) => Knows(c, id, f)'
  BY <1>3 DEF Knows
<1>5. \A i \in DOMAIN schemas' : Knows(c, i, schemas[i])'
  BY <1>4 DEF TurnIDs
<1>6. \A f \in DOMAIN fingerprints' : Knows(c, fingerprints[f], f)'
  BY <1>4 DEF TurnIDs
<1>7. \A p \in promised' : Used(p.id)' /\ p.id < nextId'
  BY <1>1, <1>3 DEF TurnIDs, Used, InBlock
<1>8. \A p, r \in promised' : p.id = r.id => p.fp = r.fp
  BY <1>3 DEF TurnIDs
<1>9. ~At(c, "got")' /\ pc'[c] \notin Claims \cup Imports /\ pc'[c] # "setNext"
  BY <1>1, TurnPlaces, PlacesNamed DEF At
<1> QED BY <1>5, <1>6, <1>7, <1>8, <1>9 DEF TurnIDs

\* The same content is waiting for a version or to go, and the same claim.
LEMMA ContentsQuiet ==
  ASSUME NEW c \in Clients, TurnContents(c), UNCHANGED <<schemas, fingerprints, versions>>,
         pc[c] \in Holds /\ loc[c].id \in DOMAIN schemas => InUse(loc[c].id) \/ (pc'[c] \in Holds /\ loc'[c].id = loc[c].id),
         pc[c] \in Unwritten => \/ \E i \in DOMAIN schemas : schemas[i] = req[c].fp
                                \/ pc'[c] \in Unwritten /\ req'[c] = req[c],
         pc[c] \in Unclaims => \/ \E i \in DOMAIN schemas : schemas[i] = loc[c].fp
                               \/ pc'[c] \in Unclaims /\ loc'[c].fp = loc[c].fp
  PROVE  TurnContents(c)'
<1>1. \A i : InUse(i) => InUse(i)'
  BY DEF InUse
<1>2. \A i \in DOMAIN schemas' : InUse(i)' \/ (pc'[c] \in Holds /\ i = loc'[c].id)
  BY <1>1 DEF TurnContents
<1>3. \A f \in DOMAIN fingerprints' :
       \/ \E i \in DOMAIN schemas' : schemas'[i] = f
       \/ pc'[c] \in Unwritten /\ f = req'[c].fp
       \/ pc'[c] \in Unclaims /\ f = loc'[c].fp
  BY DEF TurnContents
<1> QED BY <1>2, <1>3 DEF TurnContents

\* A place where a call has nothing in hand that another call would miss.
LEMMA NothingInHand ==
  ASSUME NEW c \in Clients, TurnGood(c), UNCHANGED <<allocVars, tableVars, promised>>,
         pc[c] \notin Pends \cup Holds \cup Unwritten \cup Unclaims \cup {"alloc", "deleteRow"},
         pc'[c] \notin Claims \cup {"alloc", "setNext", "deleteRow"},
         pc'[c] \in Imports => pc[c] \in Imports /\ loc'[c].id = loc[c].id /\ req'[c] = req[c]
  PROVE  /\ TurnAlloc(c)' /\ TurnIDs(c)' /\ TurnRows(c)' /\ TurnContents(c)' /\ TurnReferences(c)'
         /\ At(c, "idle")' /\ \A d \in Clients \ {c} : alloc'[d] = alloc[d]
<1>1. UNCHANGED <<schemas, fingerprints, versions, latest, schemaReferences, referencesByTarget, promised, alloc>>
      /\ UNCHANGED allocVars
  BY DEF tableVars, allocVars
<1>2. pc[c] \notin {"alloc", "setNext", "publish", "refs", "dropRefs", "deleteRow"}
  BY TurnPlaces DEF Unclaims
<1>3. TurnAlloc(c)' /\ At(c, "idle") /\ At(c, "idle")'
  BY <1>1, <1>2, AllocQuiet DEF TurnGood
<1>4. TurnIDs(c)'
  BY <1>1, <1>2, <1>3, IDsQuiet DEF TurnGood
<1>5. TurnRows(c)'
  BY <1>1, <1>2, RowsQuiet DEF TurnGood
<1>6. TurnContents(c)'
  BY <1>1, ContentsQuiet DEF TurnGood
<1>7. TurnReferences(c)'
  BY <1>1, <1>2, ReferencesQuiet DEF TurnGood
<1> QED BY <1>1, <1>3, <1>4, <1>5, <1>6, <1>7

-----------------------------------------------------------------------------
(* Registrations that take turns.                                          *)

\* A claimed fingerprint names an ID that was answered, before one is in hand.
LEMMA ClaimAnswered ==
  ASSUME NEW c \in Clients, TurnIDs(c), pc[c] \notin Pends, NEW f \in DOMAIN fingerprints
  PROVE  /\ Used(fingerprints[f]) /\ fingerprints[f] < nextId
         /\ \A p \in promised : p.id = fingerprints[f] => p.fp = f
<1>1. PICK p \in promised : p.id = fingerprints[f] /\ p.fp = f
  BY DEF TurnIDs, Knows
<1> QED BY <1>1 DEF TurnIDs

\* The claimed ID is taken in hand.
LEMMA IDsTaken ==
  ASSUME NEW c \in Clients, TurnIDs(c), UNCHANGED <<nextId, block, schemas, fingerprints, promised>>,
         pc[c] \in {"fast", "alloc"}, pc'[c] = "data", req'[c] = req[c], req[c].fp \in DOMAIN fingerprints,
         loc'[c].id = fingerprints[req[c].fp], At(c, "idle")'
  PROVE  TurnIDs(c)'
<1>1. pc[c] \notin Pends /\ pc'[c] \in Claims /\ pc'[c] \notin Imports /\ pc'[c] # "setNext"
  BY PlacesNamed, TurnPlaces
<1>2. /\ Used(loc'[c].id) /\ loc'[c].id < nextId
      /\ \A p \in promised : p.id = loc'[c].id => p.fp = req[c].fp
  BY <1>1, ClaimAnswered
<1>3. \A id, f : Knows(c, id, f) => Knows(c, id, f)'
  BY <1>1 DEF Knows
<1>4. \A i \in DOMAIN schemas' : Knows(c, i, schemas[i])'
  BY <1>3 DEF TurnIDs
<1>5. \A f \in DOMAIN fingerprints' : Knows(c, fingerprints[f], f)'
  BY <1>3 DEF TurnIDs
<1>6. ~At(c, "got")'
  BY DEF At
<1> QED BY <1>1, <1>2, <1>4, <1>5, <1>6 DEF TurnIDs, Used, InBlock

\* CreateFast, taking turns.
LEMMA FastTurn ==
  ASSUME StoreTypes, NEW c \in Clients, TurnGood(c), CreateFast(c)
  PROVE  Advances(c)
<1> USE PlacesNamed, TurnPlaces
<1>1. /\ StepOf(c) /\ req'[c] = req[c] /\ pc[c] = "fast" /\ UNCHANGED <<tableVars, promised>>
      /\ \/ /\ req[c].fp \in DOMAIN fingerprints /\ UNCHANGED allocVars
            /\ pc'[c] = "data" /\ loc'[c].id = fingerprints[req[c].fp]
         \/ /\ pc'[c] = "alloc" /\ CallNextID(c)
  BY FastDoes
<1>2. UNCHANGED <<schemas, fingerprints, versions, latest, schemaReferences, referencesByTarget, promised>>
  BY <1>1 DEF tableVars
<1>3. TurnControl(c)' /\ TurnWrites(c)' /\ TurnDeletes(c)'
  BY <1>1 DEF TurnGood, TurnControl, TurnWrites, TurnDeletes
<1>4. TurnRows(c)' /\ TurnReferences(c)'
  BY <1>1, <1>2, RowsQuiet, ReferencesQuiet DEF TurnGood
<1>5. TurnContents(c)'
  BY <1>1, <1>2, ContentsQuiet DEF TurnGood, Unwritten, Unclaims
<1>6. CASE UNCHANGED allocVars /\ pc'[c] = "data" /\ req[c].fp \in DOMAIN fingerprints
           /\ loc'[c].id = fingerprints[req[c].fp]
  <2>1. TurnAlloc(c)' /\ At(c, "idle")'
    BY <1>1, <1>6, AllocQuiet DEF TurnGood
  <2>2. UNCHANGED <<nextId, block, alloc>>
    BY <1>6 DEF allocVars
  <2>3. TurnIDs(c)'
    BY <1>1, <1>2, <1>6, <2>1, <2>2, IDsTaken DEF TurnGood
  <2> QED BY <1>1, <1>3, <1>4, <1>5, <1>6, <2>1, <2>2, <2>3 DEF TurnGood, Advances
<1>7. CASE pc'[c] = "alloc" /\ CallNextID(c)
  <2>1. UNCHANGED <<nextId, block>> /\ At(c, "next")' /\ \A d \in Clients \ {c} : alloc'[d] = alloc[d]
    BY <1>7, AllocCall DEF StoreTypes
  <2>2. TurnAlloc(c)'
    BY <1>7, <2>1 DEF TurnAlloc, At
  <2>3. TurnIDs(c)'
    BY <1>1, <1>2, <1>7, <2>1 DEF TurnGood, TurnIDs, At, Knows, Used, InBlock
  <2> QED BY <1>1, <1>3, <1>4, <1>5, <1>7, <2>1, <2>2, <2>3 DEF TurnGood, Advances
<1> QED BY <1>1, <1>6, <1>7

\* CreateClaim, taking turns.
LEMMA ClaimTurn ==
  ASSUME StoreTypes, NEW c \in Clients, TurnGood(c), CreateClaim(c)
  PROVE  Advances(c)
<1> USE PlacesNamed, TurnPlaces
<1>1. /\ StepOf(c) /\ req'[c] = req[c] /\ pc[c] = "alloc" /\ pc'[c] = "data" /\ At(c, "got") /\ Collect(c)
      /\ UNCHANGED <<schemas, versions, latest, schemaReferences, referencesByTarget, promised>>
      /\ \/ /\ req[c].fp \in DOMAIN fingerprints /\ loc'[c].id = fingerprints[req[c].fp]
            /\ UNCHANGED fingerprints
         \/ /\ req[c].fp \notin DOMAIN fingerprints /\ loc'[c].id = alloc[c].id
            /\ fingerprints' = Put(fingerprints, req[c].fp, alloc[c].id)
  BY ClaimDoes
<1>2. UNCHANGED <<nextId, block>> /\ At(c, "idle")' /\ \A d \in Clients \ {c} : alloc'[d] = alloc[d]
  BY <1>1, AllocCall DEF StoreTypes
<1>3. TurnControl(c)' /\ TurnWrites(c)' /\ TurnDeletes(c)'
  BY <1>1 DEF TurnGood, TurnControl, TurnWrites, TurnDeletes
<1>4. TurnRows(c)' /\ TurnReferences(c)'
  BY <1>1, RowsQuiet, ReferencesQuiet DEF TurnGood
<1>5. TurnAlloc(c)'
  BY <1>1, <1>2 DEF TurnAlloc, At
<1>6. CASE req[c].fp \in DOMAIN fingerprints /\ loc'[c].id = fingerprints[req[c].fp] /\ UNCHANGED fingerprints
  <2>1. TurnIDs(c)'
    BY <1>1, <1>2, <1>6, IDsTaken DEF TurnGood
  <2>2. TurnContents(c)'
    BY <1>1, <1>6, ContentsQuiet DEF TurnGood, Unwritten, Unclaims
  <2> QED BY <1>1, <1>2, <1>3, <1>4, <1>5, <2>1, <2>2 DEF TurnGood, Advances
<1>7. CASE req[c].fp \notin DOMAIN fingerprints /\ loc'[c].id = alloc[c].id
           /\ fingerprints' = Put(fingerprints, req[c].fp, alloc[c].id)
  <2>1. /\ DOMAIN fingerprints' = DOMAIN fingerprints \cup {req[c].fp} /\ fingerprints'[req[c].fp] = alloc[c].id
        /\ \A f \in DOMAIN fingerprints : fingerprints'[f] = fingerprints[f]
    BY <1>7 DEF Put
  <2>2. \A id, f : Knows(c, id, f) => Knows(c, id, f)'
    BY <1>1 DEF Knows
  <2>4. \A f \in DOMAIN fingerprints' : Knows(c, fingerprints[f], f)'
    BY <1>1, <1>7, <2>1, <2>2 DEF TurnGood, TurnIDs, Knows
  <2>5. \A i \in DOMAIN schemas' : Knows(c, i, schemas[i])'
    BY <1>1, <2>2 DEF TurnGood, TurnIDs
  <2>6. TurnIDs(c)'
    BY <1>1, <1>2, <1>7, <2>4, <2>5 DEF TurnGood, TurnIDs, At, Used, InBlock
  <2>7. TurnContents(c)'
    BY <1>1, <2>1 DEF TurnGood, TurnContents, InUse, Unwritten, Unclaims
  <2> QED BY <1>1, <1>2, <1>3, <1>4, <1>5, <2>6, <2>7 DEF TurnGood, Advances
<1> QED BY <1>1, <1>6, <1>7

\* CreateData, taking turns.
LEMMA DataTurn ==
  ASSUME StoreTypes, NEW c \in Clients, TurnGood(c), CreateData(c)
  PROVE  Advances(c)
<1> USE PlacesNamed, TurnPlaces
<1>1. /\ StepOf(c) /\ pc[c] = "data" /\ req'[c] = req[c] /\ loc'[c] = loc[c]
      /\ pc'[c] = (IF loc[c].id \in DOMAIN schemas THEN "find" ELSE "write")
      /\ UNCHANGED allocVars /\ UNCHANGED <<tableVars, promised>>
  BY DataDoes DEF Goes
<1>2. UNCHANGED <<schemas, fingerprints, versions, latest, schemaReferences, referencesByTarget, promised, alloc>>
  BY <1>1 DEF tableVars, allocVars
<1>3. TurnControl(c)' /\ TurnWrites(c)' /\ TurnDeletes(c)'
  BY <1>1, <1>2 DEF TurnGood, TurnControl, TurnWrites, TurnDeletes
<1>4. TurnRows(c)' /\ TurnReferences(c)'
  BY <1>1, <1>2, RowsQuiet, ReferencesQuiet DEF TurnGood
<1>5. TurnAlloc(c)' /\ At(c, "idle")' /\ At(c, "idle")
  BY <1>1, AllocQuiet DEF TurnGood
<1>6. TurnIDs(c)'
  BY <1>1, <1>2, <1>5, IDsQuiet DEF TurnGood
<1>7. loc[c].id \in DOMAIN schemas => schemas[loc[c].id] = req[c].fp
  BY <1>1, ContentInHand DEF TurnGood
<1>8. TurnContents(c)'
  BY <1>1, <1>2, <1>7, ContentsQuiet DEF TurnGood, Unwritten, Unclaims
<1> QED BY <1>1, <1>2, <1>3, <1>4, <1>5, <1>6, <1>8 DEF TurnGood, Advances

\* Content is written under the ID in hand, where there was the same or none.
LEMMA ContentWritten ==
  ASSUME StoreTypes, NEW c \in Clients, TurnGood(c), pc[c] \in {"write", "importWrite"},
         schemas' = Put(schemas, loc[c].id, req[c].fp), UNCHANGED <<allocVars, promised>>,
         UNCHANGED <<fingerprints, versions, latest, schemaReferences, referencesByTarget>>,
         Goes(c, IF pc[c] = "write" THEN "find" ELSE "importLatest", loc[c])
  PROVE  TurnGood(c)' /\ At(c, "idle")' /\ loc[c].id \in DOMAIN schemas'
<1> USE PlacesNamed, TurnPlaces
<1>1. /\ req'[c] = req[c] /\ loc'[c] = loc[c] /\ pc'[c] = (IF pc[c] = "write" THEN "find" ELSE "importLatest")
  BY DEF Goes
<1>2. /\ DOMAIN schemas' = DOMAIN schemas \cup {loc[c].id} /\ schemas'[loc[c].id] = req[c].fp
      /\ \A i \in DOMAIN schemas : schemas'[i] = schemas[i]
  <2>1. loc[c].id \in DOMAIN schemas => schemas[loc[c].id] = req[c].fp
    BY ContentInHand DEF TurnGood
  <2> QED BY <2>1 DEF Put
<1>3. TurnControl(c)' /\ TurnDeletes(c)'
  BY <1>1 DEF TurnGood, TurnControl, TurnDeletes
<1>4. TurnAlloc(c)' /\ At(c, "idle") /\ At(c, "idle")'
  BY <1>1, AllocQuiet DEF TurnGood
<1>5. TurnWrites(c)'
  BY <1>1, <1>2 DEF TurnGood, TurnWrites, NewToSubject, Live
<1>6. TurnIDs(c)'
  <2>1. UNCHANGED <<nextId, block, alloc>>
    BY DEF allocVars
  <2>2. \A id, f : Knows(c, id, f) => Knows(c, id, f)'
    BY <1>1 DEF Knows
  <2>3. \A f \in DOMAIN fingerprints' : Knows(c, fingerprints[f], f)'
    BY <2>2 DEF TurnGood, TurnIDs
  <2>4. \A i \in DOMAIN schemas' : Knows(c, i, schemas[i])'
    BY <1>1, <1>2, <2>2 DEF TurnGood, TurnIDs, Knows
  <2> QED BY <1>1, <1>4, <2>1, <2>3, <2>4 DEF TurnGood, TurnIDs, At, Used, InBlock
<1>7. TurnRows(c)'
  BY <1>1, <1>2 DEF TurnGood, TurnRows, Live
<1>8. TurnContents(c)'
  BY <1>1, <1>2 DEF TurnGood, TurnContents, InUse, Unwritten, Unclaims
<1>9. TurnReferences(c)'
  <2>1. \A s \in Subjects : \A v \in DOMAIN versions[s] : RefsOf(s, v)' = RefsOf(s, v)
    BY <1>2 DEF TurnGood, TurnRows, RefsOf
  <2> QED BY <1>1, <1>2, <2>1 DEF TurnGood, TurnReferences
<1> QED BY <1>2, <1>3, <1>4, <1>5, <1>6, <1>7, <1>8, <1>9 DEF TurnGood

\* CreateWrite, taking turns.
LEMMA WriteTurn ==
  ASSUME StoreTypes, NEW c \in Clients, TurnGood(c), CreateWrite(c)
  PROVE  Advances(c)
<1>1. /\ StepOf(c) /\ pc[c] = "write" /\ Goes(c, "find", loc[c]) /\ schemas' = Put(schemas, loc[c].id, req[c].fp)
      /\ UNCHANGED <<allocVars, fingerprints, versions, latest, schemaReferences, referencesByTarget, promised>>
  BY WriteDoes
<1>2. TurnGood(c)' /\ At(c, "idle")'
  BY <1>1, ContentWritten
<1> QED BY <1>1, <1>2 DEF Advances, allocVars

\* CreateFind, taking turns.
LEMMA FindTurn ==
  ASSUME StoreTypes, NEW c \in Clients, TurnGood(c), CreateFind(c)
  PROVE  Advances(c)
<1> USE PlacesNamed, TurnPlaces
<1> DEFINE s == req[c].subject
           V == Found(s, loc[c].id)
<1>1. /\ StepOf(c) /\ pc[c] = "find" /\ UNCHANGED <<allocVars, tableVars>>
      /\ \/ /\ Goes(c, "latest", loc[c]) /\ promised' = promised
            /\ V = {} \/ loc[c].id \notin DOMAIN schemas \/ versions[s][MinOf(V)].meta # req[c].meta
         \/ /\ Ends(c) /\ loc[c].id \in DOMAIN schemas
            /\ \E v \in V :
                 promised' = promised \cup {[subject |-> s, version |-> v, id |-> loc[c].id, fp |-> req[c].fp]}
  BY FindDoes
<1>2. UNCHANGED <<schemas, fingerprints, versions, latest, schemaReferences, referencesByTarget, alloc>> /\ UNCHANGED allocVars
  BY <1>1 DEF tableVars, allocVars
<1>3. s \in Subjects /\ loc[c].id \in DOMAIN schemas /\ req[c].meta = NoMeta
  BY <1>1, InHand DEF TurnGood, TurnWrites, TurnControl
<1>4. pc'[c] \in {"latest", "idle"}
  BY <1>1 DEF Goes, Ends
<1>5. TurnRows(c)' /\ TurnReferences(c)' /\ TurnAlloc(c)' /\ At(c, "idle")' /\ At(c, "idle")
  BY <1>1, <1>2, <1>4, RowsQuiet, ReferencesQuiet, AllocQuiet DEF TurnGood
<1>6. CASE Goes(c, "latest", loc[c]) /\ promised' = promised /\ (V = {} \/ versions[s][MinOf(V)].meta # req[c].meta)
  <2>1. V = {}
    <3>1. V \in SUBSET Nat /\ V \subseteq DOMAIN versions[s]
      BY <1>3 DEF Found, Live, StoreTypes, TableTypes, RowTypes
    <3>2. V # {} => MinOf(V) \in DOMAIN versions[s]
      <4> HIDE DEF V
      <4> QED BY <3>1, MinOfNat
    <3>3. V # {} => versions[s][MinOf(V)].meta = NoMeta
      <4> HIDE DEF V, s
      <4> QED BY <1>3, <3>2 DEF TurnGood, TurnRows
    <3> QED BY <1>3, <1>6, <3>3
  <2>2. NewToSubject(c)'
    BY <1>2, <1>6, <2>1 DEF NewToSubject, Found, Live, Goes
  <2>3. TurnControl(c)' /\ TurnWrites(c)' /\ TurnDeletes(c)'
    BY <1>1, <1>2, <1>3, <1>6, <2>2 DEF TurnGood, TurnControl, TurnWrites, TurnDeletes, Goes
  <2>4. TurnIDs(c)'
    BY <1>1, <1>2, <1>5, <1>6, IDsQuiet DEF TurnGood, Goes
  <2>5. TurnContents(c)'
    BY <1>1, <1>2, <1>6, ContentsQuiet DEF TurnGood, Unwritten, Unclaims, Goes
  <2> QED BY <1>1, <1>2, <1>5, <2>3, <2>4, <2>5 DEF TurnGood, Advances
<1>7. CASE /\ Ends(c)
           /\ \E v \in V : promised' = promised \cup {[subject |-> s, version |-> v, id |-> loc[c].id, fp |-> req[c].fp]}
  <2>1. PICK v \in V : promised' = promised \cup {[subject |-> s, version |-> v, id |-> loc[c].id, fp |-> req[c].fp]}
    BY <1>7
  <2>2. TurnControl(c)' /\ TurnWrites(c)' /\ TurnDeletes(c)'
    BY <1>7 DEF TurnControl, TurnWrites, TurnDeletes, Ends
  <2>3. Used(loc[c].id) /\ loc[c].id < nextId /\ \A p \in promised : p.id = loc[c].id => p.fp = req[c].fp
    BY <1>1 DEF TurnGood, TurnIDs
  <2>4. TurnIDs(c)'
    BY <1>1, <1>2, <1>5, <1>7, <2>1, <2>3, IDsAnswered DEF TurnGood
  <2>5. InUse(loc[c].id)
    BY <1>3, <2>1 DEF InUse, Found, Live
  <2>6. TurnContents(c)'
    BY <1>1, <1>2, <2>5, ContentsQuiet DEF TurnGood, Unwritten, Unclaims
  <2> QED BY <1>1, <1>2, <1>5, <2>2, <2>4, <2>6 DEF TurnGood, Advances
<1> QED BY <1>1, <1>3, <1>6, <1>7

\* CreateLatest, taking turns.
LEMMA LatestTurn ==
  ASSUME StoreTypes, NEW c \in Clients, TurnGood(c), CreateLatest(c)
  PROVE  Advances(c)
<1> USE PlacesNamed, TurnPlaces
<1>1. /\ StepOf(c) /\ pc[c] = "latest" /\ UNCHANGED allocVars /\ UNCHANGED <<tableVars, promised>>
      /\ pc'[c] = "insert" /\ req'[c] = req[c] /\ loc'[c].id = loc[c].id
      /\ loc'[c].seen = latest[req[c].subject] /\ loc'[c].version = loc'[c].seen.version + 1
  BY LatestDoes
<1>2. UNCHANGED <<schemas, fingerprints, versions, latest, schemaReferences, referencesByTarget, promised, alloc>>
  BY <1>1 DEF tableVars, allocVars
<1>3. TurnControl(c)' /\ TurnDeletes(c)'
  BY <1>1 DEF TurnGood, TurnControl, TurnDeletes
<1>4. TurnWrites(c)'
  BY <1>1, <1>2 DEF TurnGood, TurnWrites, NewToSubject, Live
<1>5. TurnRows(c)' /\ TurnReferences(c)' /\ TurnAlloc(c)' /\ At(c, "idle")' /\ At(c, "idle")
  BY <1>1, <1>2, RowsQuiet, ReferencesQuiet, AllocQuiet DEF TurnGood
<1>6. TurnIDs(c)'
  BY <1>1, <1>2, <1>5, IDsQuiet DEF TurnGood
<1>7. TurnContents(c)'
  BY <1>1, <1>2, ContentsQuiet DEF TurnGood, Unwritten, Unclaims
<1> QED BY <1>1, <1>2, <1>3, <1>4, <1>5, <1>6, <1>7 DEF TurnGood, Advances

\* CreateInsert, taking turns: the version is free.
LEMMA InsertTurn ==
  ASSUME StoreTypes, NEW c \in Clients, TurnGood(c), CreateInsert(c)
  PROVE  Advances(c)
<1> USE PlacesNamed, TurnPlaces
<1> DEFINE s == req[c].subject
           v == loc[c].version
           row == [id |-> loc[c].id, deleted |-> FALSE, meta |-> req[c].meta]
<1>1. /\ StepOf(c) /\ pc[c] = "insert" /\ UNCHANGED allocVars
      /\ UNCHANGED <<schemas, fingerprints, latest, schemaReferences, referencesByTarget, promised>>
      /\ \/ /\ v \notin DOMAIN versions[s] /\ Goes(c, "publish", loc[c])
            /\ versions'[s] = Put(versions[s], v, row)
            /\ \A t \in Subjects : t # s => versions'[t] = versions[t]
         \/ v \in DOMAIN versions[s]
  BY InsertDoes
<1>2. /\ s \in Subjects /\ loc[c].seen = latest[s] /\ v = loc[c].seen.version + 1 /\ loc[c].seen.version \in Nat
      /\ req[c].meta = NoMeta /\ loc[c].id \in DOMAIN schemas /\ NewToSubject(c) /\ v \in Nat
  BY <1>1, InHand DEF TurnGood, TurnWrites, TurnControl
<1>3. \A w \in DOMAIN versions[s] : w <= latest[s].version /\ w \in Nat
  BY <1>1, <1>2 DEF TurnGood, TurnRows, StoreTypes, TableTypes, RowTypes
<1>4. v \notin DOMAIN versions[s]
  BY <1>2, <1>3
<1>5. /\ pc'[c] = "publish" /\ req'[c] = req[c] /\ loc'[c] = loc[c]
  BY <1>1, <1>4 DEF Goes
<1>6. PICK x : x = row
  OBVIOUS
<1>7. x.id = loc[c].id /\ x.deleted = FALSE /\ x.meta = NoMeta
  BY <1>2, <1>6
<1>8. /\ \A t \in Subjects : \A w \in DOMAIN versions[t] :
           w \in DOMAIN versions'[t] /\ versions'[t][w] = versions[t][w]
      /\ \A t \in Subjects : \A w \in DOMAIN versions'[t] : w \in DOMAIN versions[t] \/ (t = s /\ w = v)
      /\ v \in DOMAIN versions'[s] /\ versions'[s][v] = x
  <2>1. versions'[s] = Put(versions[s], v, x) /\ \A t \in Subjects : t # s => versions'[t] = versions[t]
    BY <1>1, <1>4, <1>6
  <2> HIDE DEF s, v, row
  <2>2. /\ DOMAIN versions'[s] = DOMAIN versions[s] \cup {v} /\ versions'[s][v] = x
        /\ \A w \in DOMAIN versions[s] : versions'[s][w] = versions[s][w]
    BY <1>4, <2>1 DEF Put
  <2> QED BY <1>2, <2>1, <2>2
<1> HIDE DEF row
<1>9. TurnControl(c)' /\ TurnDeletes(c)'
  BY <1>1, <1>5 DEF TurnGood, TurnControl, TurnDeletes
<1>10. TurnAlloc(c)' /\ At(c, "idle")' /\ At(c, "idle")
  BY <1>1, <1>5, AllocQuiet DEF TurnGood
<1>11. TurnIDs(c)'
  BY <1>1, <1>5, <1>10, IDsQuiet DEF TurnGood
<1>12. TurnWrites(c)'
  BY <1>1, <1>2, <1>5, <1>7, <1>8 DEF TurnWrites, OwnRow
<1>13. TurnRows(c)'
  <2>1. ASSUME NEW t \in Subjects, NEW w \in DOMAIN versions'[t]
        PROVE  /\ w # 0 /\ versions'[t][w].id \in DOMAIN schemas' /\ versions'[t][w].meta = NoMeta
               /\ w <= latest'[t].version \/ (pc'[c] = "publish" /\ Own(c, t, w)')
    <3>1. CASE w \in DOMAIN versions[t]
      BY <1>1, <1>8, <2>1, <3>1 DEF TurnGood, TurnRows
    <3>2. CASE t = s /\ w = v
      BY <1>1, <1>2, <1>5, <1>7, <1>8, <3>2 DEF Own
    <3> QED BY <1>8, <2>1, <3>1, <3>2
  <2>2. ASSUME NEW t \in Subjects, NEW w \in Live(t)', NEW u \in Live(t)', versions'[t][w].id = versions'[t][u].id
        PROVE  w = u
    <3>1. \A y \in Live(t)' : \/ y \in Live(t) /\ versions'[t][y] = versions[t][y]
                              \/ t = s /\ y = v /\ versions'[t][y].id = loc[c].id
      BY <1>7, <1>8 DEF Live
    <3> QED BY <1>2, <2>2, <3>1 DEF TurnGood, TurnRows, NewToSubject
  <2> QED BY <2>1, <2>2 DEF TurnRows
<1>14. TurnContents(c)'
  <2>1. \A i : InUse(i) => InUse(i)'
    BY <1>8 DEF InUse
  <2> QED BY <1>1, <1>5, <2>1 DEF TurnGood, TurnContents, Unwritten, Unclaims
<1>15. TurnReferences(c)'
  <2>1. \A t \in Subjects : \A w \in DOMAIN versions[t] : RefsOf(t, w)' = RefsOf(t, w)
    BY <1>1, <1>8 DEF RefsOf
  <2>2. \A q \in schemaReferences' : q[1] \in DOMAIN schemas' /\ q[2] \in Refs[schemas'[q[1]]]
    BY <1>1 DEF TurnGood, TurnReferences
  <2>3. \A t \in Subjects : \A w \in DOMAIN versions'[t] : \A r \in RefsOf(t, w)' :
          /\ <<versions'[t][w].id, r>> \in schemaReferences' \/ (pc'[c] \in Owns /\ Own(c, t, w)')
          /\ <<r, <<t, w>>>> \in referencesByTarget' \/ (pc'[c] \in Owns /\ Own(c, t, w)')
    <3> SUFFICES ASSUME NEW t \in Subjects, NEW w \in DOMAIN versions'[t], NEW r \in RefsOf(t, w)'
                 PROVE  /\ <<versions'[t][w].id, r>> \in schemaReferences' \/ (pc'[c] \in Owns /\ Own(c, t, w)')
                        /\ <<r, <<t, w>>>> \in referencesByTarget' \/ (pc'[c] \in Owns /\ Own(c, t, w)')
      OBVIOUS
    <3>1. CASE w \in DOMAIN versions[t]
      BY <1>1, <1>8, <2>1, <3>1 DEF TurnGood, TurnReferences
    <3>2. CASE t = s /\ w = v
      BY <1>5, <3>2 DEF Own
    <3> QED BY <1>8, <3>1, <3>2
  <2>4. \A t \in Subjects : \A w \in Nat : \A r \in SubjectVersion : <<r, <<t, w>>>> \in referencesByTarget' =>
          w \in DOMAIN versions'[t] /\ r \in RefsOf(t, w)'
    BY <1>1, <1>8, <2>1 DEF TurnGood, TurnReferences
  <2> QED BY <1>5, <2>2, <2>3, <2>4 DEF TurnReferences
<1> QED BY <1>1, <1>9, <1>10, <1>11, <1>12, <1>13, <1>14, <1>15 DEF TurnGood, Advances, allocVars

\* CreatePublish, taking turns: nobody has published in between.
LEMMA PublishTurn ==
  ASSUME StoreTypes, NEW c \in Clients, TurnGood(c), CreatePublish(c)
  PROVE  Advances(c)
<1> USE PlacesNamed, TurnPlaces
<1> DEFINE s == req[c].subject
           v == loc[c].version
<1>1. /\ pc[c] = "publish" /\ UNCHANGED allocVars
      /\ UNCHANGED <<schemas, fingerprints, versions, schemaReferences, referencesByTarget>>
      /\ latest[s] = loc[c].seen =>
           /\ StepOf(c) /\ latest' = [latest EXCEPT ![s] = [version |-> v, id |-> loc[c].id]]
           /\ \/ /\ Refs[req[c].fp] = {} /\ Ends(c)
                 /\ promised' = promised \cup {[subject |-> s, version |-> v, id |-> loc[c].id, fp |-> req[c].fp]}
              \/ Goes(c, "refs", loc[c]) /\ promised' = promised
  BY PublishDoes
<1>2. /\ s \in Subjects /\ loc[c].seen = latest[s] /\ v = loc[c].seen.version + 1 /\ loc[c].seen.version \in Nat
      /\ loc[c].id \in DOMAIN schemas /\ OwnRow(c) /\ v \in Nat /\ schemas[loc[c].id] = req[c].fp
  BY <1>1, InHand, ContentInHand DEF TurnGood, TurnWrites
<1>3. latest'[s].version = v /\ \A t \in Subjects : t # s => latest'[t] = latest[t]
  BY <1>1, <1>2 DEF StoreTypes, TableTypes
<1>4. TurnRows(c)'
  <2>1. ASSUME NEW t \in Subjects, NEW w \in DOMAIN versions[t] PROVE w <= latest'[t].version
    <3>1. w <= latest[t].version \/ (t = s /\ w = v)
      BY <1>1 DEF TurnGood, TurnRows, Own
    <3>2. w \in Nat /\ latest[t].version \in Nat
      BY DEF StoreTypes, TableTypes, RowTypes, Latest
    <3> QED BY <1>2, <1>3, <3>1, <3>2
  <2> QED BY <1>1, <2>1 DEF TurnGood, TurnRows, Live
<1>5. InUse(loc[c].id)
  BY <1>2 DEF InUse, OwnRow
<1>6. CASE Goes(c, "refs", loc[c]) /\ promised' = promised
  <2>1. pc'[c] = "refs" /\ req'[c] = req[c] /\ loc'[c] = loc[c]
    BY <1>6 DEF Goes
  <2>2. TurnControl(c)' /\ TurnDeletes(c)' /\ TurnWrites(c)'
    BY <1>1, <1>2, <2>1 DEF TurnGood, TurnControl, TurnDeletes, TurnWrites, OwnRow
  <2>3. TurnAlloc(c)' /\ At(c, "idle")' /\ At(c, "idle")
    BY <1>1, <2>1, AllocQuiet DEF TurnGood
  <2>4. TurnIDs(c)'
    BY <1>1, <1>6, <2>1, <2>3, IDsQuiet DEF TurnGood
  <2>5. TurnContents(c)'
    BY <1>1, <2>1, ContentsQuiet DEF TurnGood, Unwritten, Unclaims
  <2>6. TurnReferences(c)'
    BY <1>1, <2>1 DEF TurnGood, TurnReferences, RefsOf, Own
  <2> QED BY <1>1, <1>2, <1>4, <2>2, <2>3, <2>4, <2>5, <2>6 DEF TurnGood, Advances, allocVars
<1>7. CASE /\ Refs[req[c].fp] = {} /\ Ends(c)
           /\ promised' = promised \cup {[subject |-> s, version |-> v, id |-> loc[c].id, fp |-> req[c].fp]}
  <2>1. pc'[c] = "idle"
    BY <1>7 DEF Ends
  <2>2. TurnControl(c)' /\ TurnDeletes(c)' /\ TurnWrites(c)'
    BY <2>1 DEF TurnControl, TurnDeletes, TurnWrites
  <2>3. TurnAlloc(c)' /\ At(c, "idle")' /\ At(c, "idle")
    BY <1>1, <2>1, AllocQuiet DEF TurnGood
  <2>4. Used(loc[c].id) /\ loc[c].id < nextId /\ \A p \in promised : p.id = loc[c].id => p.fp = req[c].fp
    BY <1>1 DEF TurnGood, TurnIDs
  <2>5. TurnIDs(c)'
    BY <1>1, <1>7, <2>3, <2>4, IDsAnswered DEF TurnGood
  <2>6. TurnContents(c)'
    BY <1>1, <1>5, ContentsQuiet DEF TurnGood, Unwritten, Unclaims
  <2>7. TurnReferences(c)'
    <3>1. \A t \in Subjects : \A w \in DOMAIN versions[t] : \A r \in RefsOf(t, w) : ~Own(c, t, w)
      BY <1>2, <1>7 DEF RefsOf, Own, OwnRow
    <3> QED BY <1>1, <2>1, <3>1 DEF TurnGood, TurnReferences, RefsOf
  <2> QED BY <1>1, <1>2, <1>4, <2>2, <2>3, <2>5, <2>6, <2>7 DEF TurnGood, Advances, allocVars
<1> QED BY <1>1, <1>2, <1>6, <1>7

\* The references of the version in hand are written.
LEMMA ReferencesWritten ==
  ASSUME NEW c \in Clients, TurnReferences(c), pc[c] = "refs", pc'[c] = "idle", UNCHANGED <<schemas, versions>>,
         AddReferences(loc[c].id, req[c].subject, loc[c].version, req[c].fp), req[c].subject \in Subjects,
         OwnRow(c), loc[c].id \in DOMAIN schemas, schemas[loc[c].id] = req[c].fp
  PROVE  TurnReferences(c)'
<1> DEFINE s == req[c].subject
           v == loc[c].version
<1>1. RefsOf(s, v) = Refs[req[c].fp] /\ v \in DOMAIN versions[s] /\ versions[s][v].id = loc[c].id
  BY DEF RefsOf, OwnRow
<1>2. /\ schemaReferences \subseteq schemaReferences' /\ referencesByTarget \subseteq referencesByTarget'
      /\ \A r \in Refs[req[c].fp] : <<loc[c].id, r>> \in schemaReferences' /\ <<r, <<s, v>>>> \in referencesByTarget'
      /\ \A q \in schemaReferences' : q \in schemaReferences \/ (q[1] = loc[c].id /\ q[2] \in Refs[req[c].fp])
      /\ \A r, t, w : <<r, <<t, w>>>> \in referencesByTarget' =>
           <<r, <<t, w>>>> \in referencesByTarget \/ (t = s /\ w = v /\ r \in Refs[req[c].fp])
  BY DEF AddReferences
<1>3. \A t \in Subjects : \A w \in DOMAIN versions[t] : RefsOf(t, w)' = RefsOf(t, w)
  BY DEF RefsOf
<1>4. \A q \in schemaReferences' : q[1] \in DOMAIN schemas' /\ q[2] \in Refs[schemas'[q[1]]]
  BY <1>2 DEF TurnReferences
<1>5. \A t \in Subjects : \A w \in DOMAIN versions'[t] : \A r \in RefsOf(t, w)' :
        <<versions'[t][w].id, r>> \in schemaReferences' /\ <<r, <<t, w>>>> \in referencesByTarget'
  <2> SUFFICES ASSUME NEW t \in Subjects, NEW w \in DOMAIN versions[t], NEW r \in RefsOf(t, w)
               PROVE  <<versions[t][w].id, r>> \in schemaReferences' /\ <<r, <<t, w>>>> \in referencesByTarget'
    BY <1>3
  <2>1. CASE t = s /\ w = v
    BY <1>1, <1>2, <2>1
  <2>2. CASE ~(t = s /\ w = v)
    <3>1. <<versions[t][w].id, r>> \in schemaReferences /\ <<r, <<t, w>>>> \in referencesByTarget
      BY <2>2 DEF TurnReferences, Own
    <3> QED BY <1>2, <3>1
  <2> QED BY <2>1, <2>2
<1>6. \A t \in Subjects : \A w \in Nat : \A r \in SubjectVersion : <<r, <<t, w>>>> \in referencesByTarget' =>
        w \in DOMAIN versions'[t] /\ r \in RefsOf(t, w)'
  <2> SUFFICES ASSUME NEW t \in Subjects, NEW w \in Nat, NEW r \in SubjectVersion, <<r, <<t, w>>>> \in referencesByTarget'
               PROVE  w \in DOMAIN versions'[t] /\ r \in RefsOf(t, w)'
    OBVIOUS
  <2>1. CASE <<r, <<t, w>>>> \in referencesByTarget
    BY <1>3, <2>1 DEF TurnReferences
  <2>2. CASE t = s /\ w = v /\ r \in Refs[req[c].fp]
    BY <1>1, <1>3, <2>2
  <2> QED BY <1>2, <2>1, <2>2
<1> QED BY <1>4, <1>5, <1>6 DEF TurnReferences

\* CreateRefs, taking turns.
LEMMA RefsTurn ==
  ASSUME StoreTypes, NEW c \in Clients, TurnGood(c), CreateRefs(c)
  PROVE  Advances(c)
<1> USE PlacesNamed, TurnPlaces
<1> DEFINE s == req[c].subject
           v == loc[c].version
<1>1. /\ StepOf(c) /\ Ends(c) /\ pc[c] = "refs" /\ AddReferences(loc[c].id, s, v, req[c].fp)
      /\ promised' = promised \cup {[subject |-> s, version |-> v, id |-> loc[c].id, fp |-> req[c].fp]}
      /\ UNCHANGED allocVars /\ UNCHANGED <<schemas, fingerprints, versions, latest>>
  BY RefsDoes
<1>2. /\ s \in Subjects /\ loc[c].id \in DOMAIN schemas /\ OwnRow(c) /\ schemas[loc[c].id] = req[c].fp /\ pc'[c] = "idle"
  BY <1>1, InHand, ContentInHand DEF TurnGood, TurnWrites, Ends
<1>3. InUse(loc[c].id)
  BY <1>2 DEF InUse, OwnRow
<1>4. TurnControl(c)' /\ TurnDeletes(c)' /\ TurnWrites(c)'
  BY <1>2 DEF TurnControl, TurnDeletes, TurnWrites
<1>5. TurnAlloc(c)' /\ At(c, "idle")' /\ At(c, "idle") /\ TurnRows(c)'
  BY <1>1, <1>2, AllocQuiet, RowsQuiet DEF TurnGood
<1>6. Used(loc[c].id) /\ loc[c].id < nextId /\ \A p \in promised : p.id = loc[c].id => p.fp = req[c].fp
  BY <1>1 DEF TurnGood, TurnIDs
<1>7. TurnIDs(c)'
  BY <1>1, <1>5, <1>6, IDsAnswered DEF TurnGood
<1>8. TurnContents(c)'
  BY <1>1, <1>3, ContentsQuiet DEF TurnGood, Unwritten, Unclaims
<1>9. TurnReferences(c)'
  BY <1>1, <1>2, ReferencesWritten DEF TurnGood
<1> QED BY <1>1, <1>4, <1>5, <1>7, <1>8, <1>9 DEF TurnGood, Advances, allocVars

-----------------------------------------------------------------------------
(* Imports that take turns.                                                *)

\* ImportID, taking turns.
LEMMA ImportIDTurn ==
  ASSUME StoreTypes, NEW c \in Clients, TurnGood(c), ImportID(c)
  PROVE  Advances(c)
<1> USE PlacesNamed, TurnPlaces
<1>1. /\ StepOf(c) /\ pc[c] = "importID" /\ UNCHANGED <<allocVars, tableVars, promised>>
      /\ \/ pc'[c] = "idle"
         \/ /\ pc'[c] = "importVersion" /\ req'[c] = req[c] /\ loc'[c].id = loc[c].id
            /\ loc'[c].fp = loc[c].fp \/ req[c].id \in DOMAIN schemas
  BY ImportIDDoes DEF Ends
<1>2. UNCHANGED <<schemas, versions>> /\ loc[c].id = req[c].id
  BY <1>1, InHand DEF tableVars
<1>3. /\ TurnAlloc(c)' /\ TurnIDs(c)' /\ TurnRows(c)' /\ TurnContents(c)' /\ TurnReferences(c)' /\ At(c, "idle")'
      /\ \A d \in Clients \ {c} : alloc'[d] = alloc[d]
  BY <1>1, NothingInHand DEF Unwritten, Unclaims
<1>4. TurnControl(c)' /\ TurnDeletes(c)'
  BY <1>1 DEF TurnControl, TurnDeletes
<1>5. TurnWrites(c)'
  BY <1>1, <1>2 DEF TurnGood, TurnWrites, NewToSubject, Live
<1> QED BY <1>1, <1>3, <1>4, <1>5 DEF TurnGood, Advances

\* ImportVersion, taking turns.
LEMMA ImportVersionTurn ==
  ASSUME StoreTypes, NEW c \in Clients, TurnGood(c), ImportVersion(c)
  PROVE  Advances(c)
<1> USE PlacesNamed, TurnPlaces
<1>1. /\ StepOf(c) /\ pc[c] = "importVersion" /\ UNCHANGED <<allocVars, tableVars, promised>>
      /\ \/ pc'[c] = "idle"
         \/ /\ pc'[c] = "importClaim" /\ req'[c] = req[c] /\ loc'[c] = loc[c]
            /\ req[c].version \notin DOMAIN versions[req[c].subject]
  BY ImportVersionDoes DEF Ends, Goes
<1>2. UNCHANGED <<schemas, versions>>
  BY <1>1 DEF tableVars
<1>3. /\ TurnAlloc(c)' /\ TurnIDs(c)' /\ TurnRows(c)' /\ TurnContents(c)' /\ TurnReferences(c)' /\ At(c, "idle")'
      /\ \A d \in Clients \ {c} : alloc'[d] = alloc[d]
  BY <1>1, NothingInHand DEF Unwritten, Unclaims
<1>4. TurnControl(c)' /\ TurnDeletes(c)'
  BY <1>1 DEF TurnControl, TurnDeletes
<1>5. TurnWrites(c)'
  BY <1>1, <1>2 DEF TurnGood, TurnWrites, NewToSubject, Live
<1> QED BY <1>1, <1>3, <1>4, <1>5 DEF TurnGood, Advances

\* ImportClaim, taking turns.
LEMMA ImportClaimTurn ==
  ASSUME StoreTypes, NEW c \in Clients, TurnGood(c), ImportClaim(c)
  PROVE  Advances(c)
<1> USE PlacesNamed, TurnPlaces
<1>1. /\ StepOf(c) /\ pc[c] = "importClaim" /\ UNCHANGED allocVars
      /\ UNCHANGED <<schemas, versions, latest, schemaReferences, referencesByTarget, promised>>
      /\ pc'[c] = (IF loc[c].fp = NoContent THEN "importWrite" ELSE "importLatest")
      /\ req'[c] = req[c] /\ loc'[c] = loc[c]
      /\ fingerprints' = IF req[c].fp \in DOMAIN fingerprints THEN fingerprints
                         ELSE Put(fingerprints, req[c].fp, req[c].id)
  BY ImportClaimDoes DEF Goes
<1>2. loc[c].id = req[c].id
  BY <1>1, InHand
<1>3. TurnControl(c)' /\ TurnDeletes(c)'
  BY <1>1 DEF TurnControl, TurnDeletes
<1>4. TurnAlloc(c)' /\ At(c, "idle")' /\ At(c, "idle") /\ TurnRows(c)' /\ TurnReferences(c)'
  BY <1>1, AllocQuiet, RowsQuiet, ReferencesQuiet DEF TurnGood
<1>5. TurnWrites(c)'
  BY <1>1 DEF TurnGood, TurnWrites, NewToSubject, Live
<1>6. \A f \in DOMAIN fingerprints' : \/ f \in DOMAIN fingerprints /\ fingerprints'[f] = fingerprints[f]
                                      \/ f = req[c].fp /\ fingerprints'[f] = loc[c].id
  BY <1>1, <1>2 DEF Put
<1>7. TurnIDs(c)'
  <2>1. UNCHANGED <<nextId, block, alloc>>
    BY <1>1 DEF allocVars
  <2>2. \A id, f : Knows(c, id, f) => Knows(c, id, f)'
    BY <1>1 DEF Knows
  <2>3. \A f \in DOMAIN fingerprints' : Knows(c, fingerprints[f], f)'
    BY <1>1, <1>6, <2>2 DEF TurnGood, TurnIDs, Knows
  <2>4. \A i \in DOMAIN schemas' : Knows(c, i, schemas[i])'
    BY <1>1, <2>2 DEF TurnGood, TurnIDs
  <2> QED BY <1>1, <1>4, <2>1, <2>3, <2>4 DEF TurnGood, TurnIDs, At, Used, InBlock
<1>8. loc[c].fp # NoContent => loc[c].id \in DOMAIN schemas /\ schemas[loc[c].id] = req[c].fp
  BY <1>1, ContentInHand DEF TurnGood, TurnWrites
<1>9. TurnContents(c)'
  BY <1>1, <1>6, <1>8 DEF TurnGood, TurnContents, InUse, Unwritten, Unclaims
<1> QED BY <1>1, <1>3, <1>4, <1>5, <1>7, <1>9 DEF TurnGood, Advances, allocVars

\* ImportWrite, taking turns.
LEMMA ImportWriteTurn ==
  ASSUME StoreTypes, NEW c \in Clients, TurnGood(c), ImportWrite(c)
  PROVE  Advances(c)
<1>1. /\ StepOf(c) /\ pc[c] = "importWrite" /\ Goes(c, "importLatest", loc[c]) /\ schemas' = Put(schemas, loc[c].id, req[c].fp)
      /\ UNCHANGED <<allocVars, fingerprints, versions, latest, schemaReferences, referencesByTarget, promised>>
  BY ImportWriteDoes
<1>2. TurnGood(c)' /\ At(c, "idle")'
  BY <1>1, ContentWritten
<1> QED BY <1>1, <1>2 DEF Advances, allocVars

\* ImportLatest, taking turns.
LEMMA ImportLatestTurn ==
  ASSUME StoreTypes, NEW c \in Clients, TurnGood(c), ImportLatest(c)
  PROVE  Advances(c)
<1> USE PlacesNamed, TurnPlaces
<1>1. /\ StepOf(c) /\ pc[c] = "importLatest" /\ UNCHANGED allocVars /\ UNCHANGED <<tableVars, promised>>
      /\ pc'[c] = "importBatch" /\ req'[c] = req[c] /\ loc'[c].id = loc[c].id
      /\ loc'[c].fp = loc[c].fp /\ loc'[c].seen = latest[req[c].subject]
  BY ImportLatestDoes
<1>2. UNCHANGED <<schemas, fingerprints, versions, latest, schemaReferences, referencesByTarget, promised, alloc>>
  BY <1>1 DEF tableVars, allocVars
<1>3. TurnControl(c)' /\ TurnDeletes(c)'
  BY <1>1 DEF TurnControl, TurnDeletes
<1>4. TurnWrites(c)'
  BY <1>1, <1>2 DEF TurnGood, TurnWrites, NewToSubject, Live
<1>5. TurnRows(c)' /\ TurnReferences(c)' /\ TurnAlloc(c)' /\ At(c, "idle")' /\ At(c, "idle")
  BY <1>1, <1>2, RowsQuiet, ReferencesQuiet, AllocQuiet DEF TurnGood
<1>6. TurnIDs(c)'
  BY <1>1, <1>2, <1>5, IDsQuiet DEF TurnGood
<1>7. TurnContents(c)'
  BY <1>1, <1>2, ContentsQuiet DEF TurnGood, Unwritten, Unclaims
<1> QED BY <1>1, <1>2, <1>3, <1>4, <1>5, <1>6, <1>7 DEF TurnGood, Advances

\* ImportBatch, taking turns: the version is still free.
LEMMA ImportBatchTurn ==
  ASSUME StoreTypes, NEW c \in Clients, TurnGood(c), ImportBatch(c)
  PROVE  Advances(c)
<1> USE PlacesNamed, TurnPlaces
<1> DEFINE s == req[c].subject
           v == loc[c].version
           row == [id |-> loc[c].id, deleted |-> FALSE, meta |-> NoMeta]
<1>1. /\ StepOf(c) /\ pc[c] = "importBatch" /\ UNCHANGED allocVars /\ UNCHANGED <<schemas, fingerprints, promised>>
      /\ pc'[c] = "advance" /\ req'[c] = req[c] /\ loc'[c] = loc[c]
      /\ versions'[s] = Put(versions[s], v, row)
      /\ \A t \in Subjects : t # s => versions'[t] = versions[t]
      /\ latest' = IF v > loc[c].seen.version THEN [latest EXCEPT ![s] = [version |-> v, id |-> loc[c].id]] ELSE latest
      /\ AddReferences(loc[c].id, s, v, req[c].fp)
  BY ImportBatchDoes DEF Goes
<1>2. /\ s \in Subjects /\ loc[c].seen = latest[s] /\ loc[c].seen.version \in Nat /\ v \in Nat \ {0} /\ v = req[c].version
      /\ v \notin DOMAIN versions[s] /\ loc[c].id \in DOMAIN schemas /\ NewToSubject(c) /\ schemas[loc[c].id] = req[c].fp
  BY <1>1, InHand, ContentInHand DEF TurnGood, TurnWrites
<1>3. /\ v <= latest'[s].version /\ latest[s].version <= latest'[s].version
      /\ \A t \in Subjects : t # s => latest'[t] = latest[t]
  BY <1>1, <1>2 DEF StoreTypes, TableTypes
<1>4. PICK x : x = row
  OBVIOUS
<1>5. x.id = loc[c].id /\ x.deleted = FALSE /\ x.meta = NoMeta
  BY <1>4
<1>6. /\ \A t \in Subjects : \A w \in DOMAIN versions[t] :
           w \in DOMAIN versions'[t] /\ versions'[t][w] = versions[t][w]
      /\ \A t \in Subjects : \A w \in DOMAIN versions'[t] : w \in DOMAIN versions[t] \/ (t = s /\ w = v)
      /\ v \in DOMAIN versions'[s] /\ versions'[s][v] = x
  <2>1. versions'[s] = Put(versions[s], v, x) /\ \A t \in Subjects : t # s => versions'[t] = versions[t]
    BY <1>1, <1>4
  <2> HIDE DEF s, v, row
  <2>2. /\ DOMAIN versions'[s] = DOMAIN versions[s] \cup {v} /\ versions'[s][v] = x
        /\ \A w \in DOMAIN versions[s] : versions'[s][w] = versions[s][w]
    BY <1>2, <2>1 DEF Put
  <2> QED BY <1>2, <2>1, <2>2
<1> HIDE DEF row
<1>7. TurnControl(c)' /\ TurnDeletes(c)'
  BY <1>1 DEF TurnControl, TurnDeletes
<1>8. TurnAlloc(c)' /\ At(c, "idle")' /\ At(c, "idle")
  BY <1>1, AllocQuiet DEF TurnGood
<1>9. TurnIDs(c)'
  BY <1>1, <1>8, IDsQuiet DEF TurnGood
<1>10. TurnWrites(c)'
  BY <1>1, <1>2, <1>5, <1>6 DEF TurnWrites, OwnRow
<1>11. TurnRows(c)'
  <2>1. ASSUME NEW t \in Subjects, NEW w \in DOMAIN versions'[t]
        PROVE  /\ w # 0 /\ versions'[t][w].id \in DOMAIN schemas' /\ versions'[t][w].meta = NoMeta
               /\ w <= latest'[t].version
    <3>1. CASE w \in DOMAIN versions[t]
      <4>1. /\ w # 0 /\ versions[t][w].id \in DOMAIN schemas /\ versions[t][w].meta = NoMeta
            /\ w <= latest[t].version
        BY <1>1, <3>1 DEF TurnGood, TurnRows
      <4>2. w \in Nat /\ latest[t].version \in Nat
        BY <3>1 DEF StoreTypes, TableTypes, RowTypes, Latest
      <4>3. latest'[s].version \in Nat
        BY <1>1, <1>2 DEF StoreTypes, TableTypes
      <4>4. w <= latest'[t].version
        BY <1>3, <4>1, <4>2, <4>3
      <4> QED BY <1>1, <1>6, <3>1, <4>1, <4>4
    <3>2. CASE t = s /\ w = v
      BY <1>1, <1>2, <1>3, <1>5, <1>6, <3>2
    <3> QED BY <1>6, <2>1, <3>1, <3>2
  <2>2. ASSUME NEW t \in Subjects, NEW w \in Live(t)', NEW u \in Live(t)', versions'[t][w].id = versions'[t][u].id
        PROVE  w = u
    <3>1. \A y \in Live(t)' : \/ y \in Live(t) /\ versions'[t][y] = versions[t][y]
                              \/ t = s /\ y = v /\ versions'[t][y].id = loc[c].id
      BY <1>5, <1>6 DEF Live
    <3> QED BY <1>2, <2>2, <3>1 DEF TurnGood, TurnRows, NewToSubject
  <2> QED BY <2>1, <2>2 DEF TurnRows
<1>12. TurnContents(c)'
  <2>1. \A i : InUse(i) => InUse(i)'
    BY <1>6 DEF InUse
  <2>2. InUse(loc[c].id)'
    BY <1>1, <1>2, <1>5, <1>6 DEF InUse
  <2> QED BY <1>1, <2>1, <2>2 DEF TurnGood, TurnContents, Unwritten, Unclaims
<1>13. TurnReferences(c)'
  <2>1. \A t \in Subjects : \A w \in DOMAIN versions[t] : RefsOf(t, w)' = RefsOf(t, w)
    BY <1>1, <1>6 DEF RefsOf
  <2>2. RefsOf(s, v)' = Refs[req[c].fp]
    BY <1>1, <1>2, <1>5, <1>6 DEF RefsOf
  <2>3. /\ schemaReferences \subseteq schemaReferences' /\ referencesByTarget \subseteq referencesByTarget'
        /\ \A r \in Refs[req[c].fp] : <<loc[c].id, r>> \in schemaReferences' /\ <<r, <<s, v>>>> \in referencesByTarget'
        /\ \A q \in schemaReferences' : q \in schemaReferences \/ (q[1] = loc[c].id /\ q[2] \in Refs[req[c].fp])
        /\ \A r, t, w : <<r, <<t, w>>>> \in referencesByTarget' =>
             <<r, <<t, w>>>> \in referencesByTarget \/ (t = s /\ w = v /\ r \in Refs[req[c].fp])
    BY <1>1 DEF AddReferences
  <2>4. \A q \in schemaReferences' : q[1] \in DOMAIN schemas' /\ q[2] \in Refs[schemas'[q[1]]]
    BY <1>1, <1>2, <2>3 DEF TurnGood, TurnReferences
  <2>5. \A t \in Subjects : \A w \in DOMAIN versions'[t] : \A r \in RefsOf(t, w)' :
          <<versions'[t][w].id, r>> \in schemaReferences' /\ <<r, <<t, w>>>> \in referencesByTarget'
    <3> SUFFICES ASSUME NEW t \in Subjects, NEW w \in DOMAIN versions'[t], NEW r \in RefsOf(t, w)'
                 PROVE  <<versions'[t][w].id, r>> \in schemaReferences' /\ <<r, <<t, w>>>> \in referencesByTarget'
      OBVIOUS
    <3>1. CASE w \in DOMAIN versions[t]
      BY <1>1, <1>6, <2>1, <2>3, <3>1 DEF TurnGood, TurnReferences
    <3>2. CASE t = s /\ w = v
      <4>1. r \in Refs[req[c].fp] /\ versions'[t][w].id = loc[c].id
        BY <1>1, <1>2, <1>5, <1>6, <3>2 DEF RefsOf
      <4> QED BY <2>3, <3>2, <4>1
    <3> QED BY <1>6, <3>1, <3>2
  <2>6. \A t \in Subjects : \A w \in Nat : \A r \in SubjectVersion : <<r, <<t, w>>>> \in referencesByTarget' =>
          w \in DOMAIN versions'[t] /\ r \in RefsOf(t, w)'
    <3> SUFFICES ASSUME NEW t \in Subjects, NEW w \in Nat, NEW r \in SubjectVersion, <<r, <<t, w>>>> \in referencesByTarget'
                 PROVE  w \in DOMAIN versions'[t] /\ r \in RefsOf(t, w)'
      OBVIOUS
    <3>1. CASE <<r, <<t, w>>>> \in referencesByTarget
      BY <1>1, <1>6, <2>1, <3>1 DEF TurnGood, TurnReferences
    <3>2. CASE t = s /\ w = v /\ r \in Refs[req[c].fp]
      BY <1>1, <1>2, <1>5, <1>6, <3>2 DEF RefsOf
    <3> QED BY <2>3, <3>1, <3>2
  <2> QED BY <1>1, <2>4, <2>5, <2>6 DEF TurnReferences
<1> QED BY <1>1, <1>7, <1>8, <1>9, <1>10, <1>11, <1>12, <1>13 DEF TurnGood, Advances, allocVars

\* ImportAdvance, taking turns.
LEMMA ImportAdvanceTurn ==
  ASSUME StoreTypes, NEW c \in Clients, TurnGood(c), ImportAdvance(c)
  PROVE  Advances(c)
<1> USE PlacesNamed, TurnPlaces
<1>1. /\ StepOf(c) /\ pc[c] = "advance" /\ pc'[c] = "setNext" /\ loc'[c] = loc[c] /\ req'[c] = req[c]
      /\ UNCHANGED <<tableVars, promised>> /\ \E id \in Nat : CallSetNextID(c, id) /\ loc[c].id < id
  BY ImportAdvanceDoes DEF Goes
<1>2. PICK id \in Nat : CallSetNextID(c, id) /\ loc[c].id < id
  BY <1>1
<1>3. /\ UNCHANGED <<nextId, block>> /\ At(c, "setRead")' /\ alloc'[c].id = id
      /\ \A d \in Clients \ {c} : alloc'[d] = alloc[d]
  BY <1>2, AllocCall DEF StoreTypes
<1>4. UNCHANGED <<schemas, fingerprints, versions, latest, schemaReferences, referencesByTarget, promised>>
  BY <1>1 DEF tableVars
<1>5. TurnControl(c)' /\ TurnDeletes(c)' /\ TurnWrites(c)'
  BY <1>1, <1>4 DEF TurnGood, TurnControl, TurnDeletes, TurnWrites, OwnRow
<1>6. TurnAlloc(c)'
  BY <1>1, <1>3 DEF TurnAlloc, At
<1>7. TurnRows(c)' /\ TurnReferences(c)'
  BY <1>1, <1>4, RowsQuiet, ReferencesQuiet DEF TurnGood
<1>8. TurnContents(c)'
  BY <1>1, <1>4, ContentsQuiet DEF TurnGood, Unwritten, Unclaims
<1>9. TurnIDs(c)'
  <2>1. \A i, f : Knows(c, i, f) => Knows(c, i, f)'
    BY <1>1 DEF Knows
  <2>2. \A i \in DOMAIN schemas' : Knows(c, i, schemas[i])'
    BY <1>4, <2>1 DEF TurnGood, TurnIDs
  <2>3. \A f \in DOMAIN fingerprints' : Knows(c, fingerprints[f], f)'
    BY <1>4, <2>1 DEF TurnGood, TurnIDs
  <2> QED BY <1>1, <1>2, <1>3, <1>4, <2>2, <2>3 DEF TurnGood, TurnIDs, At, Used, InBlock
<1> QED BY <1>1, <1>3, <1>5, <1>6, <1>7, <1>8, <1>9 DEF TurnGood, Advances

\* ImportReturn, taking turns: the sequence is beyond the imported ID.
LEMMA ImportReturnTurn ==
  ASSUME StoreTypes, NEW c \in Clients, TurnGood(c), ImportReturn(c)
  PROVE  Advances(c)
<1> USE PlacesNamed, TurnPlaces
<1>1. ~At(c, "failed")
  BY DEF ImportReturn, TurnGood, TurnAlloc, At
<1>2. /\ StepOf(c) /\ Ends(c) /\ pc[c] = "setNext" /\ At(c, "idle") /\ UNCHANGED allocVars /\ UNCHANGED tableVars
      /\ promised' = promised \cup {[subject |-> req[c].subject, version |-> loc[c].version,
                                     id |-> loc[c].id, fp |-> req[c].fp]}
  BY <1>1, ImportReturnDoes
<1>3. UNCHANGED <<schemas, fingerprints, versions, latest, schemaReferences, referencesByTarget, alloc>> /\ pc'[c] = "idle"
  BY <1>2 DEF tableVars, allocVars, Ends
<1>4. TurnControl(c)' /\ TurnDeletes(c)' /\ TurnWrites(c)' /\ TurnAlloc(c)'
  BY <1>2, <1>3 DEF TurnControl, TurnDeletes, TurnWrites, TurnAlloc, At
<1>5. Used(loc[c].id) /\ loc[c].id < nextId /\ \A p \in promised : p.id = loc[c].id => p.fp = req[c].fp
  BY <1>2 DEF TurnGood, TurnIDs, At
<1>6. TurnIDs(c)'
  BY <1>2, <1>3, <1>5, IDsAnswered DEF TurnGood
<1>7. TurnRows(c)' /\ TurnReferences(c)'
  BY <1>2, <1>3, RowsQuiet, ReferencesQuiet DEF TurnGood
<1>8. TurnContents(c)'
  BY <1>2, <1>3, ContentsQuiet DEF TurnGood, Unwritten, Unclaims
<1> QED BY <1>2, <1>3, <1>4, <1>6, <1>7, <1>8 DEF TurnGood, Advances, At

\* What a step of the allocator does when nobody else moves the sequence.
LEMMA AllocSteps ==
  ASSUME AllocInv, NEW c \in Clients, TurnAlloc(c), AllocStep(c)
  PROVE  /\ \A d \in Clients \ {c} : alloc'[d] = alloc[d]
         /\ \/ /\ At(c, "next") /\ At(c, "got")' /\ Left(Home[c]) /\ alloc'[c].id = block[Home[c]].current
               /\ nextId' = nextId /\ block' = [block EXCEPT ![Home[c]].current = @ + 1]
            \/ /\ At(c, "next") /\ At(c, "read")' /\ UNCHANGED <<nextId, block>>
            \/ /\ At(c, "read") /\ At(c, "cas")' /\ alloc'[c].seen = nextId /\ UNCHANGED <<nextId, block>>
            \/ /\ At(c, "cas") /\ At(c, "got")' /\ alloc'[c].id = Base(nextId) /\ nextId' = Beyond(nextId)
               /\ block' = [block EXCEPT ![Home[c]] =
                              [current |-> Base(nextId) + 1, ceiling |-> Base(nextId) + BlockSize]]
            \/ /\ At(c, "setRead") /\ At(c, "idle")' /\ nextId >= alloc[c].id /\ UNCHANGED <<nextId, block>>
            \/ /\ At(c, "setRead") /\ At(c, "setCas")' /\ alloc'[c].seen = nextId /\ alloc'[c].id = alloc[c].id
               /\ UNCHANGED <<nextId, block>>
            \/ /\ At(c, "setCas") /\ At(c, "reset")' /\ nextId' = alloc[c].id /\ UNCHANGED block
            \/ /\ At(c, "reset") /\ At(c, "idle")' /\ nextId' = nextId
               /\ block' = [block EXCEPT ![Home[c]] = EmptyBlock]
<1>1. \A step, seen, attempt, id : Move(c, step, seen, attempt, id) =>
        /\ alloc'[c].step = step /\ alloc'[c].seen = seen /\ alloc'[c].id = id
        /\ \A d \in Clients \ {c} : alloc'[d] = alloc[d]
  BY DEF Move, AllocInv, AllocTypeOK
<1>2. CASE TakeID(c)
  BY <1>1, <1>2 DEF TakeID, Return, At
<1>3. CASE ReserveRead(c)
  BY <1>1, <1>3 DEF ReserveRead, At
<1>4. CASE ReserveCAS(c)
  <2>1. nextId = alloc[c].seen
    BY <1>4 DEF TurnAlloc, ReserveCAS, At
  <2> QED BY <1>1, <1>4, <2>1 DEF ReserveCAS, Return, At
<1>5. CASE SetRead(c)
  BY <1>1, <1>5 DEF SetRead, Return, At
<1>6. CASE SetCAS(c)
  <2>1. nextId = alloc[c].seen
    BY <1>6 DEF TurnAlloc, SetCAS, At
  <2> QED BY <1>1, <1>6, <2>1 DEF SetCAS, At
<1>7. CASE SetReset(c)
  BY <1>1, <1>7 DEF SetReset, Return, At
<1> QED BY <1>2, <1>3, <1>4, <1>5, <1>6, <1>7 DEF AllocStep

\* The sequence and the blocks after a step of the allocator: an ID in use stays
\* so, and the ID given out is a new one.
LEMMA AllocUse ==
  ASSUME AllocInv, NEW c \in Clients, TurnAlloc(c), TurnIDs(c), AllocStep(c), promised \subseteq Answered
  PROVE  /\ \A id \in Nat : Used(id) /\ (id < nextId \/ ~At(c, "cas")) => Used(id)'
         /\ nextId <= nextId' /\ nextId' \in Nat /\ nextId \in Nat
         /\ At(c, "got")' => /\ Used(alloc[c].id)' /\ alloc'[c].id < nextId' /\ alloc'[c].id \in Nat
                             /\ \A p \in promised : p.id # alloc'[c].id
<1> DEFINE i == Home[c]
<1>1. i \in Instances /\ nextId \in Nat /\ BlockSize \in Nat \ {0}
  BY AllocatorAssumption DEF AllocInv, AllocTypeOK
<1>2. \A j \in Instances : block[j].current \in Nat /\ block[j].ceiling \in Nat
  BY DEF AllocInv, AllocTypeOK
<1>3. block = [j \in Instances |-> block[j]]
  BY DEF AllocInv, AllocTypeOK
<1>4. \A p \in promised : p.id \in Nat /\ Used(p.id) /\ p.id < nextId
  BY DEF TurnIDs, Answered
<1>5. CASE /\ At(c, "next") /\ At(c, "got")' /\ Left(i) /\ alloc'[c].id = block[i].current
           /\ nextId' = nextId /\ block' = [block EXCEPT ![i].current = @ + 1]
  <2>1. /\ block'[i].current = block[i].current + 1 /\ block'[i].ceiling = block[i].ceiling
        /\ \A j \in Instances : j # i => block'[j] = block[j]
    BY <1>1, <1>5 DEF AllocInv, AllocTypeOK
  <2> HIDE DEF i
  <2>2. \A id \in Nat : Used(id) => Used(id)'
    BY <1>1, <1>2, <2>1 DEF Used, InBlock
  <2>3. \A j \in Instances : j # i => ~InBlock(j, block[i].current)
    BY <1>1, <1>2, <1>5 DEF AllocInv, BlocksDisjoint, InBlock, Left
  <2>4. \A j \in Instances : ~(block'[j].current <= block[i].current /\ block[i].current < block'[j].ceiling)
    BY <1>1, <1>2, <2>1, <2>3 DEF InBlock
  <2>5. block[i].current < nextId
    BY <1>1, <1>2, <1>5 DEF AllocInv, BelowNextID, Left
  <2>6. \A p \in promised : p.id # block[i].current
    BY <1>1, <1>2, <1>4, <1>5 DEF Used, InBlock, Left
  <2> QED BY <1>1, <1>2, <1>5, <2>2, <2>4, <2>5, <2>6 DEF Used, InBlock
<1>6. CASE UNCHANGED <<nextId, block>> /\ ~At(c, "got")'
  BY <1>1, <1>6 DEF Used, InBlock
<1>7. CASE /\ At(c, "cas") /\ At(c, "got")' /\ alloc'[c].id = Base(nextId) /\ nextId' = Beyond(nextId)
           /\ block' = [block EXCEPT ![i] = [current |-> Base(nextId) + 1, ceiling |-> Base(nextId) + BlockSize]]
  <2>1. PICK b : b = Base(nextId)
    OBVIOUS
  <2>2. b \in Nat /\ nextId <= b /\ nextId' = b + BlockSize
    BY <1>1, <1>7, <2>1 DEF Base, Beyond
  <2>3. /\ block'[i].current = b + 1 /\ block'[i].ceiling = b + BlockSize
        /\ \A j \in Instances : j # i => block'[j] = block[j]
    BY <1>1, <1>3, <1>7, <2>1
  <2> HIDE DEF i
  <2>4. \A id \in Nat : Used(id) /\ id < nextId => Used(id)'
    BY <1>1, <1>2, <2>2, <2>3 DEF Used, InBlock
  <2>5. \A j \in Instances : ~(block'[j].current <= b /\ b < block'[j].ceiling)
    <3>1. \A j \in Instances : Left(j) => block[j].ceiling <= nextId
      BY DEF AllocInv, BelowNextID
    <3> QED BY <1>1, <1>2, <2>2, <2>3, <3>1 DEF Left
  <2>6. \A p \in promised : p.id # b
    BY <1>1, <1>4, <2>2
  <2> QED BY <1>1, <1>7, <2>1, <2>2, <2>4, <2>5, <2>6 DEF Used, InBlock
<1>8. CASE At(c, "setCas") /\ At(c, "reset")' /\ nextId' = alloc[c].id /\ UNCHANGED block
  <2>1. alloc[c].seen = nextId /\ alloc[c].seen < alloc[c].id /\ alloc[c].id \in Nat
    BY <1>8 DEF AllocInv, SetAhead, At, TurnAlloc, AllocTypeOK, Call
  <2>2. ~At(c, "got")'
    BY <1>8 DEF At
  <2> QED BY <1>1, <1>8, <2>1, <2>2 DEF Used, InBlock
<1>9. CASE At(c, "reset") /\ At(c, "idle")' /\ nextId' = nextId /\ block' = [block EXCEPT ![i] = EmptyBlock]
  <2>1. block'[i] = EmptyBlock /\ \A j \in Instances : j # i => block'[j] = block[j]
    BY <1>1, <1>3, <1>9
  <2>2. block'[i].ceiling = 0
    BY <2>1 DEF EmptyBlock
  <2>3. ~At(c, "got")'
    BY <1>9 DEF At
  <2> HIDE DEF i
  <2>4. \A id \in Nat : Used(id) => Used(id)'
    BY <1>2, <2>1, <2>2 DEF Used, InBlock
  <2> QED BY <1>1, <1>9, <2>3, <2>4
<1> QED BY <1>5, <1>6, <1>7, <1>8, <1>9, AllocSteps DEF At

\* The allocator's steps, taking turns.
LEMMA AllocateTurn ==
  ASSUME StoreTypes, NEW c \in Clients, TurnGood(c), Allocate(c)
  PROVE  Advances(c)
<1> USE PlacesNamed, TurnPlaces
<1>1. /\ AllocStep(c) /\ UNCHANGED <<pc, req, loc, promised>> /\ UNCHANGED tableVars /\ TurnAlloc(c) /\ TurnIDs(c)
      /\ AllocInv /\ promised \subseteq Answered
  BY DEF Allocate, TurnGood, StoreTypes
<1>2. UNCHANGED <<schemas, fingerprints, versions, latest, schemaReferences, referencesByTarget>>
  BY <1>1 DEF tableVars
<1>3. StepOf(c)
  BY <1>1 DEF StepOf, Rests, StoreTypes, ClientTypes
<1>4. /\ \A d \in Clients \ {c} : alloc'[d] = alloc[d]
      /\ \/ At(c, "next") /\ At(c, "got")'
         \/ At(c, "next") /\ At(c, "read")'
         \/ At(c, "read") /\ At(c, "cas")' /\ alloc'[c].seen = nextId /\ nextId' = nextId
         \/ At(c, "cas") /\ At(c, "got")'
         \/ At(c, "setRead") /\ At(c, "idle")' /\ nextId >= alloc[c].id /\ nextId' = nextId
         \/ At(c, "setRead") /\ At(c, "setCas")' /\ alloc'[c].seen = nextId /\ alloc'[c].id = alloc[c].id /\ nextId' = nextId
         \/ At(c, "setCas") /\ At(c, "reset")' /\ nextId' = alloc[c].id
         \/ At(c, "reset") /\ At(c, "idle")' /\ nextId' = nextId
  BY <1>1, AllocSteps
<1>5. /\ \A id \in Nat : Used(id) /\ (id < nextId \/ ~At(c, "cas")) => Used(id)'
      /\ nextId <= nextId' /\ nextId' \in Nat /\ nextId \in Nat
      /\ At(c, "got")' => /\ Used(alloc[c].id)' /\ alloc'[c].id < nextId' /\ alloc'[c].id \in Nat
                          /\ \A p \in promised : p.id # alloc'[c].id
  BY <1>1, AllocUse
<1>6. /\ pc[c] \in {"alloc", "setNext"}
      /\ pc[c] = "setNext" => alloc[c].step \in {"setRead", "setCas", "reset"}
      /\ pc[c] = "alloc" => alloc[c].step \in {"next", "read", "cas"}
  BY <1>1, <1>4 DEF TurnAlloc, At
<1>7. TurnAlloc(c)'
  BY <1>1, <1>4, <1>6 DEF TurnAlloc, At
<1>8. TurnIDs(c)'
  <2>1. \A p \in promised' : Used(p.id)' /\ p.id < nextId'
    <3>1. \A p \in promised : Used(p.id) /\ p.id < nextId /\ p.id \in Nat
      BY <1>1 DEF TurnIDs, Answered
    <3> QED BY <1>1, <1>5, <3>1
  <2>2. pc[c] = "setNext" => Used(loc[c].id)'
    <3>1. loc[c].id \in Nat
      BY InHand
    <3> QED BY <1>1, <1>5, <1>6, <3>1 DEF TurnIDs, At
  <2>3. pc[c] = "setNext" =>
          IF alloc'[c].step \in {"setRead", "setCas"} THEN loc[c].id < alloc'[c].id ELSE loc[c].id < nextId'
    <3>1. loc[c].id \in Nat /\ alloc[c].id \in Nat
      BY InHand
    <3> QED BY <1>1, <1>4, <1>5, <1>6, <3>1 DEF TurnIDs, At
  <2>4. \A i, f : Knows(c, i, f) => Knows(c, i, f)'
    BY <1>1 DEF Knows
  <2>5. \A i \in DOMAIN schemas' : Knows(c, i, schemas[i])'
    BY <1>1, <1>2, <2>4 DEF TurnIDs
  <2>6. \A f \in DOMAIN fingerprints' : Knows(c, fingerprints[f], f)'
    BY <1>1, <1>2, <2>4 DEF TurnIDs
  <2>7. /\ \A p, q \in promised' : p.id = q.id => p.fp = q.fp
        /\ pc[c] \in Imports => \A p \in promised : p.id = loc[c].id => p.fp = req[c].fp
    BY <1>1 DEF TurnIDs
  <2>8. pc'[c] \notin Claims /\ (pc'[c] \in Imports => pc[c] = "setNext") /\ pc'[c] = pc[c] /\ loc'[c] = loc[c] /\ req'[c] = req[c]
    BY <1>1, <1>6
  <2>9. At(c, "got")' => Used(alloc[c].id)' /\ alloc'[c].id < nextId' /\ \A p \in promised' : p.id # alloc'[c].id
    BY <1>1, <1>5
  <2>10. pc'[c] \in Claims \cup Imports =>
           Used(loc[c].id)' /\ \A p \in promised' : p.id = loc'[c].id => p.fp = req'[c].fp
    BY <1>1, <2>2, <2>7, <2>8 DEF Used, InBlock
  <2> QED BY <2>1, <2>3, <2>5, <2>6, <2>7, <2>8, <2>9, <2>10 DEF TurnIDs
<1>9. TurnControl(c)' /\ TurnWrites(c)' /\ TurnDeletes(c)'
  BY <1>1, <1>2 DEF TurnGood, TurnControl, TurnWrites, TurnDeletes, OwnRow, NewToSubject, Live
<1>10. TurnRows(c)' /\ TurnReferences(c)'
  BY <1>1, <1>2, <1>6, RowsQuiet, ReferencesQuiet DEF TurnGood
<1>11. TurnContents(c)'
  BY <1>1, <1>2, ContentsQuiet DEF TurnGood
<1> QED BY <1>1, <1>3, <1>4, <1>6, <1>7, <1>8, <1>9, <1>10, <1>11 DEF TurnGood, Advances

-----------------------------------------------------------------------------
(* Deletes that take turns.                                                *)

\* DeleteRead, taking turns.
LEMMA DeleteReadTurn ==
  ASSUME StoreTypes, NEW c \in Clients, TurnGood(c), DeleteRead(c)
  PROVE  Advances(c)
<1> USE PlacesNamed, TurnPlaces
<1> DEFINE s == req[c].subject
           v == loc[c].version
<1>1. /\ StepOf(c) /\ pc[c] = "deleteRead" /\ UNCHANGED <<allocVars, tableVars, promised>>
      /\ \/ pc'[c] = "idle"
         \/ /\ v \in DOMAIN versions[s] /\ (req[c].permanent => v \notin Live(s))
            /\ pc'[c] = (IF req[c].permanent THEN "unindex" ELSE "mark") /\ req'[c] = req[c]
            /\ loc'[c].id = versions[s][v].id /\ loc'[c].version = v /\ loc'[c].todo = loc[c].todo
  BY DeleteReadDoes DEF Ends
<1>2. UNCHANGED versions /\ pc'[c] \in {"idle", "unindex", "mark"}
  BY <1>1 DEF tableVars
<1>3. /\ TurnAlloc(c)' /\ TurnIDs(c)' /\ TurnRows(c)' /\ TurnContents(c)' /\ TurnReferences(c)' /\ At(c, "idle")'
      /\ \A d \in Clients \ {c} : alloc'[d] = alloc[d]
  BY <1>1, <1>2, NothingInHand DEF Unwritten, Unclaims
<1>4. TurnControl(c)' /\ TurnWrites(c)'
  BY <1>1, <1>2 DEF TurnControl, TurnWrites
<1>5. TurnDeletes(c)'
  BY <1>1, <1>2 DEF TurnGood, TurnDeletes, OwnRow, Live
<1> QED BY <1>1, <1>3, <1>4, <1>5 DEF TurnGood, Advances

\* SubjectRead, taking turns.
LEMMA SubjectReadTurn ==
  ASSUME StoreTypes, NEW c \in Clients, TurnGood(c), SubjectRead(c)
  PROVE  Advances(c)
<1> USE PlacesNamed, TurnPlaces
<1>1. /\ StepOf(c) /\ pc[c] = "subjectRead" /\ UNCHANGED <<allocVars, tableVars, promised>>
      /\ \/ pc'[c] = "idle"
         \/ /\ ~req[c].permanent /\ pc'[c] = "mark" /\ req'[c] = req[c] /\ loc'[c].todo = Live(req[c].subject)
         \/ /\ req[c].permanent /\ pc'[c] = "deleteRead" /\ req'[c] = req[c]
            /\ Live(req[c].subject) = {} /\ loc'[c].todo = DOMAIN versions[req[c].subject]
            /\ loc'[c].version \in loc'[c].todo
  BY SubjectReadDoes DEF Ends
<1>2. UNCHANGED versions /\ pc'[c] \in {"idle", "mark", "deleteRead"} /\ req[c].op = "deleteSubject"
  BY <1>1, InHand DEF tableVars, Control
<1>3. /\ TurnAlloc(c)' /\ TurnIDs(c)' /\ TurnRows(c)' /\ TurnContents(c)' /\ TurnReferences(c)' /\ At(c, "idle")'
      /\ \A d \in Clients \ {c} : alloc'[d] = alloc[d]
  BY <1>1, <1>2, NothingInHand DEF Unwritten, Unclaims
<1>4. TurnControl(c)' /\ TurnWrites(c)'
  BY <1>2 DEF TurnControl, TurnWrites
<1>5. TurnDeletes(c)'
  BY <1>1, <1>2 DEF TurnDeletes, Live
<1> QED BY <1>1, <1>3, <1>4, <1>5 DEF TurnGood, Advances

\* MarkDeleted, taking turns: no row of nulls is made.
LEMMA MarkTurn ==
  ASSUME StoreTypes, NEW c \in Clients, TurnGood(c), MarkDeleted(c)
  PROVE  Advances(c)
<1> USE PlacesNamed, TurnPlaces
<1> DEFINE s == req[c].subject
           V == IF req[c].op = "deleteSubject" THEN loc[c].todo ELSE {loc[c].version}
<1>1. /\ StepOf(c) /\ pc'[c] = "idle" /\ pc[c] = "mark" /\ UNCHANGED allocVars
      /\ UNCHANGED <<schemas, fingerprints, latest, schemaReferences, referencesByTarget, promised>>
      /\ versions'[s] = Marked(s, V) /\ \A t \in Subjects : t # s => versions'[t] = versions[t]
  BY MarkDoes DEF Ends
<1>2. s \in Subjects /\ V \subseteq DOMAIN versions[s]
  BY <1>1, InHand DEF TurnGood, TurnDeletes
<1> HIDE DEF s, V
<1>3. \A t \in Subjects : /\ DOMAIN versions'[t] = DOMAIN versions[t]
                          /\ \A w \in DOMAIN versions[t] :
                               /\ versions'[t][w].id = versions[t][w].id /\ versions'[t][w].meta = versions[t][w].meta
                               /\ ~versions'[t][w].deleted => ~versions[t][w].deleted
  <2>1. DOMAIN versions'[s] = DOMAIN versions[s]
    BY <1>1, <1>2 DEF Marked
  <2>2. ASSUME NEW w \in DOMAIN versions[s]
        PROVE  /\ versions'[s][w].id = versions[s][w].id /\ versions'[s][w].meta = versions[s][w].meta
               /\ ~versions'[s][w].deleted => ~versions[s][w].deleted
    <3>1. versions[s][w] \in Row
      BY <1>2 DEF StoreTypes, TableTypes, RowTypes
    <3>2. versions'[s][w] = IF w \in V THEN [versions[s][w] EXCEPT !.deleted = TRUE] ELSE versions[s][w]
      BY <1>1, <1>2 DEF Marked
    <3>3. PICK x : x = versions[s][w]
      OBVIOUS
    <3>4. versions'[s][w] = IF w \in V THEN [x EXCEPT !.deleted = TRUE] ELSE x
      BY <3>2, <3>3
    <3> QED BY <3>1, <3>3, <3>4 DEF Row
  <2> QED BY <1>1, <1>2, <2>1, <2>2
<1>4. TurnControl(c)' /\ TurnWrites(c)' /\ TurnDeletes(c)'
  BY <1>1 DEF TurnControl, TurnWrites, TurnDeletes
<1>5. TurnAlloc(c)' /\ At(c, "idle")' /\ At(c, "idle")
  BY <1>1, AllocQuiet DEF TurnGood
<1>6. TurnIDs(c)'
  BY <1>1, <1>5, IDsQuiet DEF TurnGood
<1>7. TurnRows(c)'
  <2>1. \A t \in Subjects : \A w \in Live(t)' : w \in Live(t) /\ versions'[t][w].id = versions[t][w].id
    BY <1>3 DEF Live
  <2>2. \A t \in Subjects : \A w, u \in Live(t)' : versions'[t][w].id = versions'[t][u].id => w = u
    BY <2>1 DEF TurnGood, TurnRows
  <2>3. \A t \in Subjects : \A w \in DOMAIN versions'[t] :
          /\ w # 0 /\ versions'[t][w].id \in DOMAIN schemas' /\ versions'[t][w].meta = NoMeta
          /\ w <= latest'[t].version
    BY <1>1, <1>3 DEF TurnGood, TurnRows
  <2> QED BY <2>2, <2>3 DEF TurnRows
<1>8. TurnContents(c)'
  <2>1. \A i : InUse(i) => InUse(i)'
    BY <1>3 DEF InUse
  <2> QED BY <1>1, <2>1 DEF TurnGood, TurnContents, Unwritten, Unclaims
<1>9. TurnReferences(c)'
  <2>1. \A t \in Subjects : \A w \in DOMAIN versions[t] : RefsOf(t, w)' = RefsOf(t, w)
    BY <1>1, <1>3 DEF RefsOf
  <2>2. \A q \in schemaReferences' : q[1] \in DOMAIN schemas' /\ q[2] \in Refs[schemas'[q[1]]]
    BY <1>1 DEF TurnGood, TurnReferences
  <2>3. ASSUME NEW t \in Subjects, NEW w \in DOMAIN versions'[t], NEW r \in RefsOf(t, w)'
        PROVE  <<versions'[t][w].id, r>> \in schemaReferences' /\ <<r, <<t, w>>>> \in referencesByTarget'
    <3>1. w \in DOMAIN versions[t] /\ versions'[t][w].id = versions[t][w].id /\ r \in RefsOf(t, w)
      BY <1>3, <2>1
    <3> QED BY <1>1, <3>1 DEF TurnGood, TurnReferences
  <2>4. \A t \in Subjects : \A w \in Nat : \A r \in SubjectVersion : <<r, <<t, w>>>> \in referencesByTarget' =>
          w \in DOMAIN versions'[t] /\ r \in RefsOf(t, w)'
    BY <1>1, <1>3, <2>1 DEF TurnGood, TurnReferences
  <2> QED BY <1>1, <2>2, <2>3, <2>4 DEF TurnReferences
<1> QED BY <1>1, <1>4, <1>5, <1>6, <1>7, <1>8, <1>9 DEF TurnGood, Advances, allocVars

\* DeleteUnindex, taking turns: every reference of the version is found, and with
\* it its entry in the index.
LEMMA UnindexTurn ==
  ASSUME StoreTypes, NEW c \in Clients, TurnGood(c), DeleteUnindex(c)
  PROVE  Advances(c)
<1> USE PlacesNamed, TurnPlaces
<1> DEFINE s == req[c].subject
           v == loc[c].version
<1>1. /\ StepOf(c) /\ pc[c] = "unindex" /\ pc'[c] = "deleteRow" /\ req'[c] = req[c] /\ loc'[c] = loc[c]
      /\ UNCHANGED allocVars /\ UNCHANGED <<schemas, fingerprints, versions, latest, schemaReferences, promised>>
      /\ referencesByTarget' = referencesByTarget \
              {<<r[2], <<s, v>>>> : r \in {q \in schemaReferences : q[1] = loc[c].id}}
  BY UnindexDoes DEF Goes
<1>2. s \in Subjects /\ OwnRow(c)
  BY <1>1, InHand DEF TurnGood, TurnDeletes
<1>3. TurnControl(c)' /\ TurnWrites(c)' /\ TurnDeletes(c)'
  BY <1>1 DEF TurnGood, TurnControl, TurnWrites, TurnDeletes, OwnRow, Live
<1>4. TurnAlloc(c)' /\ At(c, "idle")' /\ At(c, "idle") /\ TurnRows(c)'
  BY <1>1, AllocQuiet, RowsQuiet DEF TurnGood
<1>5. TurnIDs(c)' /\ TurnContents(c)'
  BY <1>1, <1>4, IDsQuiet, ContentsQuiet DEF TurnGood, Unwritten, Unclaims
<1>6. TurnReferences(c)'
  <2>1. /\ referencesByTarget' \subseteq referencesByTarget
        /\ \A r, t, w : <<r, <<t, w>>>> \in referencesByTarget /\ ~(t = s /\ w = v) => <<r, <<t, w>>>> \in referencesByTarget'
        /\ \A r : <<loc[c].id, r>> \in schemaReferences => <<r, <<s, v>>>> \notin referencesByTarget'
    BY <1>1
  <2>2. \A t \in Subjects : \A w \in DOMAIN versions[t] : RefsOf(t, w)' = RefsOf(t, w)
    BY <1>1 DEF RefsOf
  <2>3. \A r \in RefsOf(s, v) : <<loc[c].id, r>> \in schemaReferences
    BY <1>1, <1>2 DEF TurnGood, TurnReferences, OwnRow
  <2>4. \A t \in Subjects : \A w \in Nat : \A r \in SubjectVersion : <<r, <<t, w>>>> \in referencesByTarget' =>
          w \in DOMAIN versions'[t] /\ r \in RefsOf(t, w)' /\ ~(t = s /\ w = v)
    <3> SUFFICES ASSUME NEW t \in Subjects, NEW w \in Nat, NEW r \in SubjectVersion, <<r, <<t, w>>>> \in referencesByTarget'
                 PROVE  w \in DOMAIN versions[t] /\ r \in RefsOf(t, w) /\ ~(t = s /\ w = v)
      BY <1>1, <2>2
    <3>1. w \in DOMAIN versions[t] /\ r \in RefsOf(t, w)
      BY <2>1 DEF TurnGood, TurnReferences
    <3> QED BY <2>1, <2>3, <3>1
  <2>5. \A q \in schemaReferences' : q[1] \in DOMAIN schemas' /\ q[2] \in Refs[schemas'[q[1]]]
    BY <1>1 DEF TurnGood, TurnReferences
  <2>6. ASSUME NEW t \in Subjects, NEW w \in DOMAIN versions'[t], NEW r \in RefsOf(t, w)'
        PROVE  /\ <<versions'[t][w].id, r>> \in schemaReferences'
               /\ <<r, <<t, w>>>> \in referencesByTarget' \/ (t = s /\ w = v)
    <3>0. w \in DOMAIN versions[t] /\ r \in RefsOf(t, w)
      BY <1>1, <2>2
    <3>1. <<versions[t][w].id, r>> \in schemaReferences /\ <<r, <<t, w>>>> \in referencesByTarget
      BY <1>1, <3>0 DEF TurnGood, TurnReferences
    <3> QED BY <1>1, <2>1, <3>1
  <2> QED BY <1>1, <2>4, <2>5, <2>6 DEF TurnReferences, Own
<1> QED BY <1>1, <1>3, <1>4, <1>5, <1>6 DEF TurnGood, Advances, allocVars

\* DeleteRow, taking turns: content of no version left is in hand.
LEMMA DeleteRowTurn ==
  ASSUME StoreTypes, NEW c \in Clients, TurnGood(c), DeleteRow(c)
  PROVE  Advances(c)
<1> USE PlacesNamed, TurnPlaces
<1> DEFINE s == req[c].subject
           v == loc[c].version
<1>1. /\ StepOf(c) /\ pc[c] = "deleteRow" /\ pc'[c] = "orphan" /\ req'[c] = req[c] /\ loc'[c] = loc[c]
      /\ UNCHANGED allocVars /\ UNCHANGED <<schemas, fingerprints, latest, schemaReferences, referencesByTarget, promised>>
      /\ versions'[s] = Drop(versions[s], v) /\ \A t \in Subjects : t # s => versions'[t] = versions[t]
  BY DeleteRowDoes DEF Goes
<1>2. s \in Subjects /\ OwnRow(c) /\ v \notin Live(s) /\ v \in DOMAIN versions[s] /\ versions[s][v].id = loc[c].id
  BY <1>1, InHand DEF TurnGood, TurnDeletes, OwnRow
<1>3. loc[c].id \in DOMAIN schemas
  BY <1>2 DEF TurnGood, TurnRows
<1>4. /\ \A t \in Subjects : \A w \in DOMAIN versions'[t] :
           w \in DOMAIN versions[t] /\ versions'[t][w] = versions[t][w] /\ ~(t = s /\ w = v)
      /\ \A t \in Subjects : \A w \in DOMAIN versions[t] : w \in DOMAIN versions'[t] \/ (t = s /\ w = v)
  <2> HIDE DEF s, v
  <2>1. DOMAIN versions'[s] = DOMAIN versions[s] \ {v} /\ \A w \in DOMAIN versions'[s] : versions'[s][w] = versions[s][w]
    BY <1>1 DEF Drop
  <2> QED BY <1>1, <1>2, <2>1
<1>5. \A t \in Subjects : \A w \in Live(t)' : w \in Live(t) /\ versions'[t][w] = versions[t][w]
  BY <1>4 DEF Live
<1>6. TurnControl(c)' /\ TurnWrites(c)'
  BY <1>1 DEF TurnGood, TurnControl, TurnWrites
<1>7. TurnDeletes(c)'
  <2>1. req[c].op = "deleteSubject" =>
          /\ Live(s) = {} /\ v \in loc[c].todo /\ req[c].permanent /\ DOMAIN versions[s] = loc[c].todo
    BY <1>1 DEF TurnGood, TurnDeletes
  <2>2. req[c].op = "deleteSubject" => \A t \in Subjects : t = s => Live(t)' = {}
    BY <1>5, <2>1
  <2>3. DOMAIN versions'[s] = DOMAIN versions[s] \ {v}
    BY <1>2, <1>4
  <2>4. req[c].op = "deleteSubject" => Live(req[c].subject)' = {}
    BY <1>1, <1>2, <2>2 DEF Live
  <2> QED BY <1>1, <1>3, <2>1, <2>2, <2>3, <2>4 DEF TurnDeletes
<1>8. TurnAlloc(c)' /\ At(c, "idle")' /\ At(c, "idle")
  BY <1>1, AllocQuiet DEF TurnGood
<1>9. TurnIDs(c)'
  BY <1>1, <1>8, IDsQuiet DEF TurnGood
<1>10. TurnRows(c)'
  <2>1. \A t \in Subjects : \A w, u \in Live(t)' : versions'[t][w].id = versions'[t][u].id => w = u
    BY <1>5 DEF TurnGood, TurnRows
  <2>2. \A t \in Subjects : \A w \in DOMAIN versions'[t] :
          /\ w # 0 /\ versions'[t][w].id \in DOMAIN schemas' /\ versions'[t][w].meta = NoMeta
          /\ w <= latest'[t].version
    BY <1>1, <1>4 DEF TurnGood, TurnRows
  <2> QED BY <2>1, <2>2 DEF TurnRows
<1>11. TurnContents(c)'
  <2>1. ASSUME NEW i \in DOMAIN schemas, i # loc[c].id PROVE InUse(i)'
    <3>1. PICK t \in Subjects : \E w \in DOMAIN versions[t] : versions[t][w].id = i
      BY <1>1, <2>1 DEF TurnGood, TurnContents, InUse
    <3>2. PICK w \in DOMAIN versions[t] : versions[t][w].id = i
      BY <3>1
    <3>3. w \in DOMAIN versions'[t] /\ versions'[t][w].id = i
      BY <1>2, <1>4, <2>1, <3>2
    <3> QED BY <3>3 DEF InUse
  <2> QED BY <1>1, <2>1 DEF TurnGood, TurnContents, Unwritten, Unclaims
<1>12. TurnReferences(c)'
  <2>1. \A t \in Subjects : \A w \in DOMAIN versions'[t] : RefsOf(t, w)' = RefsOf(t, w)
    BY <1>1, <1>4 DEF RefsOf
  <2>2. \A q \in schemaReferences' : q[1] \in DOMAIN schemas' /\ q[2] \in Refs[schemas'[q[1]]]
    BY <1>1 DEF TurnGood, TurnReferences
  <2>3. ASSUME NEW t \in Subjects, NEW w \in DOMAIN versions'[t], NEW r \in RefsOf(t, w)'
        PROVE  <<versions'[t][w].id, r>> \in schemaReferences' /\ <<r, <<t, w>>>> \in referencesByTarget'
    <3>1. w \in DOMAIN versions[t] /\ versions'[t][w] = versions[t][w] /\ ~Own(c, t, w) /\ r \in RefsOf(t, w)
      BY <1>4, <2>1 DEF Own
    <3> QED BY <1>1, <3>1 DEF TurnGood, TurnReferences
  <2>4. \A t \in Subjects : \A w \in Nat : \A r \in SubjectVersion : <<r, <<t, w>>>> \in referencesByTarget' =>
          w \in DOMAIN versions'[t] /\ r \in RefsOf(t, w)'
    <3> SUFFICES ASSUME NEW t \in Subjects, NEW w \in Nat, NEW r \in SubjectVersion, <<r, <<t, w>>>> \in referencesByTarget
                 PROVE  w \in DOMAIN versions'[t] /\ r \in RefsOf(t, w)'
      BY <1>1
    <3>1. w \in DOMAIN versions[t] /\ r \in RefsOf(t, w) /\ ~Own(c, t, w)
      BY <1>1 DEF TurnGood, TurnReferences
    <3> QED BY <1>4, <2>1, <3>1 DEF Own
  <2> QED BY <1>1, <2>2, <2>3, <2>4 DEF TurnReferences
<1> QED BY <1>1, <1>6, <1>7, <1>8, <1>9, <1>10, <1>11, <1>12 DEF TurnGood, Advances, allocVars

\* A delete is done with a version.
LEMMA NextVersionTurn ==
  ASSUME StoreTypes, NEW c \in Clients, TurnGood(c), pc[c] \in Cleanups, NextVersion(c), UNCHANGED versions
  PROVE  /\ StepOf(c) /\ promised' = promised /\ pc'[c] \in {"idle", "dropLatest", "deleteRead"}
         /\ TurnControl(c)' /\ TurnWrites(c)' /\ TurnDeletes(c)'
<1> USE PlacesNamed, TurnPlaces
<1>1. /\ StepOf(c) /\ promised' = promised
      /\ \/ pc'[c] = "idle"
         \/ /\ req[c].op = "deleteSubject" /\ req'[c] = req[c]
            /\ pc'[c] = "dropLatest" /\ loc[c].todo \ {loc[c].version} = {}
         \/ /\ req[c].op = "deleteSubject" /\ req'[c] = req[c] /\ pc'[c] = "deleteRead"
            /\ loc'[c].todo = loc[c].todo \ {loc[c].version} /\ loc'[c].version \in loc'[c].todo
  BY NextVersionDoes DEF Ends
<1>2. pc'[c] \in {"idle", "dropLatest", "deleteRead"}
  BY <1>1
<1>3. req[c].op = "deleteSubject" => /\ Live(req[c].subject) = {} /\ req[c].permanent
                                     /\ DOMAIN versions[req[c].subject] = loc[c].todo \ {loc[c].version}
  BY DEF TurnGood, TurnDeletes
<1>4. TurnControl(c)' /\ TurnWrites(c)'
  BY <1>1, <1>2, <1>3 DEF TurnControl, TurnWrites
<1>5. TurnDeletes(c)'
  BY <1>1, <1>2, <1>3 DEF TurnDeletes, Live
<1> QED BY <1>1, <1>2, <1>4, <1>5

\* DeleteOrphan, taking turns.
LEMMA OrphanTurn ==
  ASSUME StoreTypes, NEW c \in Clients, TurnGood(c), DeleteOrphan(c)
  PROVE  Advances(c)
<1> USE PlacesNamed, TurnPlaces
<1>1. /\ StepOf(c) /\ pc[c] = "orphan" /\ UNCHANGED allocVars /\ UNCHANGED tableVars /\ promised' = promised
      /\ \/ InUse(loc[c].id) /\ NextVersion(c)
         \/ /\ ~InUse(loc[c].id) /\ pc'[c] = "dropSchema" /\ req'[c] = req[c] /\ loc'[c].id = loc[c].id
            /\ loc'[c].version = loc[c].version /\ loc'[c].todo = loc[c].todo
            /\ loc'[c].fp = IF loc[c].id \in DOMAIN schemas THEN schemas[loc[c].id] ELSE NoContent
  BY OrphanDoes DEF InUse
<1>2. UNCHANGED <<schemas, fingerprints, versions, latest, schemaReferences, referencesByTarget, promised, alloc>>
  BY <1>1 DEF tableVars, allocVars
<1>3. TurnControl(c)' /\ TurnWrites(c)' /\ TurnDeletes(c)' /\ pc'[c] \in {"idle", "dropLatest", "deleteRead", "dropSchema"}
  <2>1. CASE NextVersion(c)
    BY <1>1, <1>2, <2>1, NextVersionTurn
  <2>2. CASE /\ ~InUse(loc[c].id) /\ pc'[c] = "dropSchema" /\ req'[c] = req[c] /\ loc'[c].id = loc[c].id
             /\ loc'[c].version = loc[c].version /\ loc'[c].todo = loc[c].todo
             /\ loc'[c].fp = IF loc[c].id \in DOMAIN schemas THEN schemas[loc[c].id] ELSE NoContent
    <3>1. TurnControl(c)' /\ TurnWrites(c)'
      BY <1>1, <2>2 DEF TurnGood, TurnControl, TurnWrites
    <3>2. TurnDeletes(c)'
      BY <1>1, <1>2, <2>2 DEF TurnGood, TurnDeletes, InUse, Live
    <3> QED BY <2>2, <3>1, <3>2
  <2> QED BY <1>1, <2>1, <2>2
<1>4. TurnAlloc(c)' /\ At(c, "idle")' /\ At(c, "idle") /\ TurnRows(c)' /\ TurnReferences(c)'
  BY <1>1, <1>2, <1>3, AllocQuiet, RowsQuiet, ReferencesQuiet DEF TurnGood
<1>5. TurnIDs(c)'
  BY <1>1, <1>2, <1>3, <1>4, IDsQuiet DEF TurnGood
<1>6. TurnContents(c)'
  BY <1>1, <1>2, ContentsQuiet DEF TurnGood, Unwritten, Unclaims
<1> QED BY <1>1, <1>2, <1>3, <1>4, <1>5, <1>6 DEF TurnGood, Advances

\* Content or claims go, and what was known of the others stays known.
LEMMA IDsShrink ==
  ASSUME NEW c \in Clients, TurnIDs(c), UNCHANGED <<allocVars, promised>>, At(c, "idle"),
         pc[c] \in Deletes, pc'[c] \in Deletes \cup {"idle"},
         \A i \in DOMAIN schemas' : i \in DOMAIN schemas /\ schemas'[i] = schemas[i],
         \A f \in DOMAIN fingerprints' : f \in DOMAIN fingerprints /\ fingerprints'[f] = fingerprints[f]
  PROVE  TurnIDs(c)'
<1> USE PlacesNamed, TurnPlaces
<1>1. UNCHANGED <<nextId, block, alloc>>
  BY DEF allocVars
<1>2. pc[c] \notin Pends /\ pc'[c] \notin Claims \cup Imports
  OBVIOUS
<1>3. \A i, f : Knows(c, i, f) => Knows(c, i, f)'
  BY <1>2 DEF Knows
<1>4. \A i \in DOMAIN schemas' : Knows(c, i, schemas[i])'
  BY <1>3 DEF TurnIDs
<1>5. \A f \in DOMAIN fingerprints' : Knows(c, fingerprints[f], f)'
  BY <1>3 DEF TurnIDs
<1>6. ~At(c, "got")' /\ pc'[c] # "setNext"
  BY <1>1, <1>2 DEF At
<1> QED BY <1>1, <1>2, <1>4, <1>5, <1>6 DEF TurnIDs, Used, InBlock

\* DropSchema, taking turns: no version has the ID.
LEMMA DropSchemaTurn ==
  ASSUME StoreTypes, NEW c \in Clients, TurnGood(c), DropSchema(c)
  PROVE  Advances(c)
<1> USE PlacesNamed, TurnPlaces
<1>1. /\ StepOf(c) /\ pc[c] = "dropSchema" /\ pc'[c] = "dropRefs" /\ req'[c] = req[c] /\ loc'[c] = loc[c]
      /\ schemas' = Drop(schemas, loc[c].id) /\ UNCHANGED allocVars
      /\ UNCHANGED <<fingerprints, versions, latest, schemaReferences, referencesByTarget, promised>>
  BY DropSchemaDoes DEF Goes
<1>2. DOMAIN schemas' = DOMAIN schemas \ {loc[c].id} /\ \A i \in DOMAIN schemas' : schemas'[i] = schemas[i]
  BY <1>1 DEF Drop
<1>3. /\ \A s \in Subjects : \A v \in DOMAIN versions[s] : versions[s][v].id # loc[c].id
      /\ loc[c].id \in DOMAIN schemas /\ loc[c].fp = schemas[loc[c].id]
  BY <1>1 DEF TurnGood, TurnDeletes
<1>4. loc[c].fp \in Fingerprints
  BY <1>3 DEF StoreTypes, TableTypes, ContentTypes
<1>5. TurnControl(c)' /\ TurnWrites(c)'
  BY <1>1 DEF TurnGood, TurnControl, TurnWrites
<1>6. TurnDeletes(c)'
  BY <1>1, <1>2, <1>3, <1>4 DEF TurnGood, TurnDeletes, Live
<1>7. TurnAlloc(c)' /\ At(c, "idle")' /\ At(c, "idle")
  BY <1>1, AllocQuiet DEF TurnGood
<1>8. TurnIDs(c)'
  BY <1>1, <1>2, <1>7, IDsShrink DEF TurnGood
<1>9. TurnRows(c)'
  BY <1>1, <1>2, <1>3 DEF TurnGood, TurnRows, Live
<1>10. TurnContents(c)'
  BY <1>1, <1>2, <1>3 DEF TurnGood, TurnContents, InUse, Unwritten, Unclaims
<1>11. TurnReferences(c)'
  <2>1. \A s \in Subjects : \A v \in DOMAIN versions[s] : RefsOf(s, v)' = RefsOf(s, v)
    BY <1>1, <1>2, <1>3 DEF TurnGood, TurnRows, RefsOf
  <2> QED BY <1>1, <1>2, <2>1 DEF TurnGood, TurnReferences
<1> QED BY <1>1, <1>5, <1>6, <1>7, <1>8, <1>9, <1>10, <1>11 DEF TurnGood, Advances, allocVars

\* DropRefs, taking turns.
LEMMA DropRefsTurn ==
  ASSUME StoreTypes, NEW c \in Clients, TurnGood(c), DropRefs(c)
  PROVE  Advances(c)
<1> USE PlacesNamed, TurnPlaces
<1>1. /\ StepOf(c) /\ pc[c] = "dropRefs" /\ schemaReferences' = {r \in schemaReferences : r[1] # loc[c].id}
      /\ UNCHANGED allocVars /\ UNCHANGED <<schemas, fingerprints, versions, latest, referencesByTarget, promised>>
      /\ loc[c].fp # NoContent => pc'[c] = "others" /\ req'[c] = req[c] /\ loc'[c] = loc[c]
  BY DropRefsDoes DEF Goes
<1>2. /\ \A s \in Subjects : \A v \in DOMAIN versions[s] : versions[s][v].id # loc[c].id
      /\ loc[c].fp \in Fingerprints
  BY <1>1 DEF TurnGood, TurnDeletes
<1>3. pc'[c] = "others" /\ req'[c] = req[c] /\ loc'[c] = loc[c]
  BY <1>1, <1>2, CassandraAssumption
<1>4. TurnControl(c)' /\ TurnWrites(c)' /\ TurnDeletes(c)'
  BY <1>1, <1>2, <1>3 DEF TurnGood, TurnControl, TurnWrites, TurnDeletes, Live
<1>5. TurnAlloc(c)' /\ At(c, "idle")' /\ At(c, "idle") /\ TurnRows(c)'
  BY <1>1, <1>3, AllocQuiet, RowsQuiet DEF TurnGood
<1>6. TurnIDs(c)' /\ TurnContents(c)'
  BY <1>1, <1>3, <1>5, IDsQuiet, ContentsQuiet DEF TurnGood, Unwritten, Unclaims
<1>7. TurnReferences(c)'
  <2>1. \A s \in Subjects : \A v \in DOMAIN versions[s] : RefsOf(s, v)' = RefsOf(s, v)
    BY <1>1 DEF RefsOf
  <2>2. \A q \in schemaReferences' : q[1] \in DOMAIN schemas' /\ q[2] \in Refs[schemas'[q[1]]]
    BY <1>1 DEF TurnGood, TurnReferences
  <2>3. \A s \in Subjects : \A v \in DOMAIN versions[s] : \A r :
          <<versions[s][v].id, r>> \in schemaReferences => <<versions[s][v].id, r>> \in schemaReferences'
    BY <1>1, <1>2
  <2> QED BY <1>1, <1>3, <2>1, <2>2, <2>3 DEF TurnGood, TurnReferences
<1> QED BY <1>1, <1>4, <1>5, <1>6, <1>7 DEF TurnGood, Advances, allocVars

\* DeleteOthers, taking turns.
LEMMA OthersTurn ==
  ASSUME StoreTypes, NEW c \in Clients, TurnGood(c), DeleteOthers(c)
  PROVE  Advances(c)
<1> USE PlacesNamed, TurnPlaces
<1>1. /\ StepOf(c) /\ pc[c] = "others" /\ UNCHANGED allocVars /\ UNCHANGED tableVars /\ promised' = promised
      /\ \/ (\E i \in DOMAIN schemas : schemas[i] = loc[c].fp) /\ NextVersion(c)
         \/ /\ \A i \in DOMAIN schemas : schemas[i] # loc[c].fp
            /\ pc'[c] = "dropFingerprint" /\ req'[c] = req[c] /\ loc'[c] = loc[c]
  BY OthersDoes DEF Goes
<1>2. UNCHANGED <<schemas, fingerprints, versions, latest, schemaReferences, referencesByTarget, promised, alloc>>
  BY <1>1 DEF tableVars, allocVars
<1>3. /\ TurnControl(c)' /\ TurnWrites(c)' /\ TurnDeletes(c)'
      /\ pc'[c] \in {"idle", "dropLatest", "deleteRead", "dropFingerprint"}
  <2>1. CASE NextVersion(c)
    BY <1>1, <1>2, <2>1, NextVersionTurn
  <2>2. CASE /\ \A i \in DOMAIN schemas : schemas[i] # loc[c].fp
             /\ pc'[c] = "dropFingerprint" /\ req'[c] = req[c] /\ loc'[c] = loc[c]
    BY <1>1, <1>2, <2>2 DEF TurnGood, TurnControl, TurnWrites, TurnDeletes, Live
  <2> QED BY <1>1, <2>1, <2>2
<1>4. TurnAlloc(c)' /\ At(c, "idle")' /\ At(c, "idle") /\ TurnRows(c)' /\ TurnReferences(c)'
  BY <1>1, <1>2, <1>3, AllocQuiet, RowsQuiet, ReferencesQuiet DEF TurnGood
<1>5. TurnIDs(c)'
  BY <1>1, <1>2, <1>3, <1>4, IDsQuiet DEF TurnGood
<1>6. TurnContents(c)'
  BY <1>1, <1>2, ContentsQuiet DEF TurnGood, Unwritten, Unclaims
<1> QED BY <1>1, <1>2, <1>3, <1>4, <1>5, <1>6 DEF TurnGood, Advances

\* DropFingerprint, taking turns: no ID has the content.
LEMMA DropFingerprintTurn ==
  ASSUME StoreTypes, NEW c \in Clients, TurnGood(c), DropFingerprint(c)
  PROVE  Advances(c)
<1> USE PlacesNamed, TurnPlaces
<1>1. /\ StepOf(c) /\ pc[c] = "dropFingerprint" /\ fingerprints' = Drop(fingerprints, loc[c].fp) /\ NextVersion(c)
      /\ UNCHANGED allocVars /\ UNCHANGED <<schemas, versions, latest, schemaReferences, referencesByTarget, promised>>
  BY DropFingerprintDoes
<1>2. DOMAIN fingerprints' = DOMAIN fingerprints \ {loc[c].fp} /\ \A f \in DOMAIN fingerprints' : fingerprints'[f] = fingerprints[f]
  BY <1>1 DEF Drop
<1>3. TurnControl(c)' /\ TurnWrites(c)' /\ TurnDeletes(c)' /\ pc'[c] \in {"idle", "dropLatest", "deleteRead"}
  BY <1>1, NextVersionTurn
<1>4. TurnAlloc(c)' /\ At(c, "idle")' /\ At(c, "idle") /\ TurnRows(c)' /\ TurnReferences(c)'
  BY <1>1, <1>3, AllocQuiet, RowsQuiet, ReferencesQuiet DEF TurnGood
<1>5. TurnIDs(c)'
  BY <1>1, <1>2, <1>3, <1>4, IDsShrink DEF TurnGood
<1>6. TurnContents(c)'
  BY <1>1, <1>2 DEF TurnGood, TurnContents, InUse, Unwritten, Unclaims
<1> QED BY <1>1, <1>3, <1>4, <1>5, <1>6 DEF TurnGood, Advances, allocVars

\* DropLatest and the steps about settings, taking turns.
LEMMA SubjectEndsTurn ==
  ASSUME StoreTypes, NEW c \in Clients, TurnGood(c), DropLatest(c) \/ DropSettings(c) \/ PutSetting(c)
  PROVE  Advances(c)
<1> USE PlacesNamed, TurnPlaces
<1>1. /\ StepOf(c) /\ pc[c] \in {"dropLatest", "dropConfig", "dropMode", "setting"}
      /\ UNCHANGED allocVars /\ UNCHANGED <<schemas, fingerprints, versions, schemaReferences, referencesByTarget, promised>>
      /\ \/ pc'[c] = "idle"
         \/ pc[c] \in SubjectEnds /\ pc'[c] \in {"dropConfig", "dropMode"} /\ req'[c] = req[c]
      /\ \/ latest' = latest
         \/ pc[c] = "dropLatest" /\ latest' = [latest EXCEPT ![req[c].subject] = NoLatest]
  BY DropLatestDoes, SettingsDo DEF Goes, Ends
<1>2. pc'[c] \in {"idle", "dropConfig", "dropMode"}
  BY <1>1
<1>3. TurnControl(c)' /\ TurnWrites(c)' /\ TurnDeletes(c)'
  BY <1>1, <1>2 DEF TurnGood, TurnControl, TurnWrites, TurnDeletes
<1>4. TurnAlloc(c)' /\ At(c, "idle")' /\ At(c, "idle") /\ TurnReferences(c)'
  BY <1>1, <1>2, AllocQuiet, ReferencesQuiet DEF TurnGood
<1>5. TurnRows(c)'
  <2>1. \A s \in Subjects : DOMAIN versions[s] # {} => latest'[s] = latest[s]
    BY <1>1 DEF TurnGood, TurnDeletes, StoreTypes, TableTypes
  <2> QED BY <1>1, <2>1 DEF TurnGood, TurnRows, Live
<1>6. TurnIDs(c)' /\ TurnContents(c)'
  BY <1>1, <1>2, <1>4, IDsQuiet, ContentsQuiet DEF TurnGood, Unwritten, Unclaims
<1> QED BY <1>1, <1>3, <1>4, <1>5, <1>6 DEF TurnGood, Advances, allocVars

-----------------------------------------------------------------------------
(* All steps of callers that take turns.                                   *)

\* A call begins when there is no other: what it asks for is what InTurn says.
LEMMA BeginTurn ==
  ASSUME StoreTypes, NEW c \in Clients, NEW r \in Requests, TurnGood(c), Begin(c, r), turns
  PROVE  Advances(c)
<1> USE PlacesNamed, TurnPlaces
<1>1. /\ StepOf(c) /\ pc[c] = "idle" /\ req'[c] = r /\ InTurn(r)
      /\ UNCHANGED allocVars /\ UNCHANGED tableVars /\ promised' = promised
      /\ \/ r.op = "create" /\ pc'[c] = "fast"
         \/ r.op = "import" /\ pc'[c] = "importID" /\ loc'[c].fp = NoContent /\ loc'[c].id = r.id
         \/ r.op = "deleteVersion" /\ pc'[c] = "deleteRead"
         \/ r.op = "deleteSubject" /\ pc'[c] = "subjectRead"
         \/ r.op = "setting" /\ pc'[c] = "setting"
  BY BeginDoes
<1>2. UNCHANGED <<schemas, fingerprints, versions, latest, schemaReferences, referencesByTarget, promised, alloc, nextId, block>>
  BY <1>1 DEF tableVars, allocVars
<1>3. pc'[c] \in {"fast", "importID", "deleteRead", "subjectRead", "setting"}
  BY <1>1
<1>4. TurnControl(c)'
  BY <1>1, <1>3 DEF TurnControl, InTurn
<1>5. TurnDeletes(c)'
  BY <1>1, <1>3 DEF TurnDeletes
<1>6. TurnWrites(c)'
  BY <1>1, <1>2, <1>3 DEF TurnWrites, NewToSubject, InTurn, Live
<1>7. TurnAlloc(c)' /\ At(c, "idle")' /\ At(c, "idle") /\ TurnRows(c)' /\ TurnReferences(c)'
  BY <1>1, <1>2, <1>3, AllocQuiet, RowsQuiet, ReferencesQuiet DEF TurnGood
<1>8. TurnContents(c)'
  BY <1>1, <1>2, ContentsQuiet DEF TurnGood, Unwritten, Unclaims
<1>9. TurnIDs(c)'
  <2>1. \A i, f : Knows(c, i, f) => Knows(c, i, f)'
    BY <1>1, <1>2 DEF Knows
  <2>2. \A i \in DOMAIN schemas' : Knows(c, i, schemas[i])'
    BY <1>2, <2>1 DEF TurnGood, TurnIDs
  <2>3. \A f \in DOMAIN fingerprints' : Knows(c, fingerprints[f], f)'
    BY <1>2, <2>1 DEF TurnGood, TurnIDs
  <2>4. pc'[c] \in Claims \cup Imports => Used(loc[c].id)' /\ \A p \in promised' : p.id = loc'[c].id => p.fp = req'[c].fp
    BY <1>1, <1>2, <1>3 DEF InTurn, Used, InBlock
  <2>5. ~At(c, "got")'
    BY <1>7 DEF At
  <2>6. \A p \in promised' : Used(p.id)' /\ p.id < nextId'
    BY <1>2 DEF TurnGood, TurnIDs, Used, InBlock
  <2>7. \A p, q \in promised' : p.id = q.id => p.fp = q.fp
    BY <1>2 DEF TurnGood, TurnIDs
  <2> QED BY <1>3, <2>2, <2>3, <2>4, <2>5, <2>6, <2>7 DEF TurnIDs
<1> QED BY <1>1, <1>2, <1>4, <1>5, <1>6, <1>7, <1>8, <1>9 DEF TurnGood, Advances

\* An instance restarts between two calls: an ID of its block is used by nobody.
LEMMA RestartTurn ==
  ASSUME StoreTypes, TurnInv, NEW i \in Instances, RestartInstance(i), turns
  PROVE  TurnInv'
<1> USE PlacesNamed, TurnPlaces
<1>1. /\ Idle /\ Restart(i) /\ UNCHANGED tableVars /\ promised' = promised
      /\ pc' = [c \in Clients |-> IF Home[c] = i THEN "idle" ELSE pc[c]]
  BY DEF RestartInstance
<1>2. UNCHANGED <<schemas, fingerprints, versions, latest, schemaReferences, referencesByTarget, promised, nextId>>
  BY <1>1 DEF tableVars, Restart
<1>3. \A c \in Clients : pc[c] = "idle" /\ pc'[c] = "idle" /\ At(c, "idle")
  BY <1>1 DEF Idle, TurnInv
<1>4. \A c \in Clients : At(c, "idle")'
  BY <1>1, <1>3 DEF Restart, At, NoCall
<1>5. \A id : Used(id) /\ id \in Nat => Used(id)'
  <2>1. block' = [block EXCEPT ![i] = EmptyBlock] /\ AllocTypeOK
    BY <1>1 DEF Restart, StoreTypes, AllocInv
  <2>2. block'[i].ceiling = 0 /\ \A j \in Instances : j # i => block'[j] = block[j]
    BY <2>1 DEF AllocTypeOK, EmptyBlock
  <2>3. \A id \in Nat : \A j \in Instances : ~InBlock(j, id) => ~(block'[j].current <= id /\ id < block'[j].ceiling)
    BY <2>2 DEF InBlock
  <2> QED BY <2>3 DEF Used, InBlock
<1>6. ASSUME NEW c \in Clients PROVE TurnGood(c)'
  <2>1. TurnGood(c)
    BY <1>3 DEF TurnInv, Alone
  <2>2. pc[c] = "idle" /\ pc'[c] = "idle" /\ At(c, "idle")' /\ At(c, "idle")
    BY <1>3, <1>4
  <2>3. TurnControl(c)' /\ TurnAlloc(c)' /\ TurnWrites(c)' /\ TurnDeletes(c)'
    BY <2>2 DEF TurnControl, TurnAlloc, TurnWrites, TurnDeletes, At
  <2>4. TurnRows(c)' /\ TurnReferences(c)'
    BY <1>2, <2>1, <2>2, RowsQuiet, ReferencesQuiet DEF TurnGood
  <2>5. TurnContents(c)'
    BY <1>2, <2>1, <2>2, ContentsQuiet DEF TurnGood, Unwritten, Unclaims
  <2>6. TurnIDs(c)'
    <3>1. \A k, f : Knows(c, k, f) => Knows(c, k, f)'
      BY <1>2, <2>2 DEF Knows
    <3>2. \A k \in DOMAIN schemas' : Knows(c, k, schemas[k])'
      BY <1>2, <2>1, <3>1 DEF TurnGood, TurnIDs
    <3>3. \A f \in DOMAIN fingerprints' : Knows(c, fingerprints[f], f)'
      BY <1>2, <2>1, <3>1 DEF TurnGood, TurnIDs
    <3>4. \A p \in promised : p.id \in Nat
      BY DEF StoreTypes, Answered
    <3>5. \A p \in promised' : Used(p.id)' /\ p.id < nextId'
      BY <1>2, <1>5, <2>1, <3>4 DEF TurnGood, TurnIDs
    <3>6. \A p, q \in promised' : p.id = q.id => p.fp = q.fp
      BY <1>2, <2>1 DEF TurnGood, TurnIDs
    <3> QED BY <2>2, <3>2, <3>3, <3>5, <3>6 DEF TurnIDs, At
  <2> QED BY <2>3, <2>4, <2>5, <2>6 DEF TurnGood
<1> QED BY <1>3, <1>4, <1>6 DEF TurnInv

\* The steps that contention and failed queries would lead to are not taken.
LEMMA NotTaken ==
  ASSUME NEW c \in Clients, TurnGood(c)
  PROVE  ~CreateNoID(c) /\ ~CreateConflict(c)
BY DEF TurnGood, TurnAlloc, TurnWrites, CreateNoID, CreateConflict, At

\* The empty tables agree.
LEMMA TurnStart == Init => TurnInv
<1> SUFFICES ASSUME Init PROVE TurnInv
  OBVIOUS
<1> USE PlacesNamed, TurnPlaces
<1>1. \A c \in Clients : pc[c] = "idle" /\ At(c, "idle")
  BY DEF Init, AllocInit, NoCall, At
<1>2. /\ DOMAIN schemas = {} /\ DOMAIN fingerprints = {} /\ promised = {} /\ schemaReferences = {} /\ referencesByTarget = {}
      /\ \A s \in Subjects : DOMAIN versions[s] = {}
  BY DEF Init, EmptyTable
<1>3. ASSUME NEW c \in Clients PROVE TurnGood(c)
  <2>1. pc[c] = "idle" /\ At(c, "idle")
    BY <1>1
  <2>2. TurnControl(c) /\ TurnAlloc(c) /\ TurnWrites(c) /\ TurnDeletes(c)
    BY <2>1 DEF TurnControl, TurnAlloc, TurnWrites, TurnDeletes, At
  <2>3. TurnIDs(c)
    BY <1>2, <2>1 DEF TurnIDs, At
  <2>4. TurnRows(c) /\ TurnContents(c) /\ TurnReferences(c)
    BY <1>2 DEF TurnRows, TurnContents, TurnReferences, Live
  <2> QED BY <2>2, <2>3, <2>4 DEF TurnGood
<1> QED BY <1>1, <1>3 DEF TurnInv

\* A step of callers that take turns, in instances that may restart and whose
\* queries do not fail.
LEMMA TurnNext ==
  ASSUME Faults \subseteq {"restart"}, StoreTypes, TurnInv, turns, [Next]_<<vars, turns>>
  PROVE  TurnInv'
<1>1. CASE UNCHANGED <<vars, turns>>
  <2>1. UNCHANGED <<nextId, block, alloc, schemas, fingerprints, versions, latest, schemaReferences, referencesByTarget,
                    pc, req, loc, promised>>
    BY <1>1 DEF vars, allocVars, tableVars
  <2>2. ASSUME NEW c \in Clients, TurnGood(c) PROVE TurnGood(c)'
    <3>1. TurnControl(c)' /\ TurnAlloc(c)' /\ TurnWrites(c)' /\ TurnDeletes(c)'
      BY <2>1, <2>2 DEF TurnGood, TurnControl, TurnAlloc, TurnWrites, TurnDeletes, At, OwnRow, NewToSubject, Live
    <3>2. TurnIDs(c)' /\ TurnRows(c)'
      BY <2>1, <2>2 DEF TurnGood, TurnIDs, TurnRows, At, Used, InBlock, Knows, Own, Live
    <3>3. TurnContents(c)' /\ TurnReferences(c)'
      BY <2>1, <2>2 DEF TurnGood, TurnContents, TurnReferences, InUse, RefsOf, Own
    <3> QED BY <3>1, <3>2, <3>3 DEF TurnGood
  <2> QED BY <2>1, <2>2 DEF TurnInv, Alone, At
<1>2. ASSUME NEW c \in Clients, pc[c] # "idle" \/ Idle PROVE Alone(c) /\ TurnGood(c)
  BY <1>2 DEF TurnInv, Alone, Idle
<1>3. ASSUME NEW c \in Clients, CreateStep(c) PROVE TurnInv'
  <2>1. pc[c] # "idle"
    BY <1>3 DEF CreateStep, CreateFast, CreateClaim, CreateNoID, CreateData, CreateWrite, CreateFind, CreateLatest,
       CreateInsert, CreateConflict, CreatePublish, CreateRefs
  <2>2. Alone(c) /\ TurnGood(c)
    BY <1>2, <2>1
  <2>3. Advances(c)
    BY <1>3, <2>2, FastTurn, ClaimTurn, NotTaken, DataTurn, WriteTurn, FindTurn, LatestTurn, InsertTurn, PublishTurn,
       RefsTurn DEF CreateStep
  <2> QED BY <2>2, <2>3, TurnFrame
<1>4. ASSUME NEW c \in Clients, ImportStep(c) PROVE TurnInv'
  <2>1. pc[c] # "idle"
    BY <1>4 DEF ImportStep, ImportID, ImportVersion, ImportClaim, ImportWrite, ImportLatest, ImportBatch, ImportAdvance,
       ImportReturn
  <2>2. Alone(c) /\ TurnGood(c)
    BY <1>2, <2>1
  <2>3. Advances(c)
    BY <1>4, <2>2, ImportIDTurn, ImportVersionTurn, ImportClaimTurn, ImportWriteTurn, ImportLatestTurn, ImportBatchTurn,
       ImportAdvanceTurn, ImportReturnTurn DEF ImportStep
  <2> QED BY <2>2, <2>3, TurnFrame
<1>5. ASSUME NEW c \in Clients, DeleteStep(c) PROVE TurnInv'
  <2>1. pc[c] # "idle"
    BY <1>5 DEF DeleteStep, DeleteRead, MarkDeleted, DeleteUnindex, DeleteRow, DeleteOrphan, DropSchema, DropRefs,
       DeleteOthers, DropFingerprint, SubjectRead, DropLatest, DropSettings, PutSetting
  <2>2. Alone(c) /\ TurnGood(c)
    BY <1>2, <2>1
  <2>3. Advances(c)
    BY <1>5, <2>2, DeleteReadTurn, MarkTurn, UnindexTurn, DeleteRowTurn, OrphanTurn, DropSchemaTurn, DropRefsTurn,
       OthersTurn, DropFingerprintTurn, SubjectReadTurn, SubjectEndsTurn DEF DeleteStep
  <2> QED BY <2>2, <2>3, TurnFrame
<1>6. ASSUME NEW c \in Clients, Allocate(c) PROVE TurnInv'
  <2>1. ~At(c, "idle")
    BY <1>6 DEF Allocate, AllocStep, TakeID, ReserveRead, ReserveCAS, SetRead, SetCAS, SetReset, At
  <2>2. Alone(c) /\ TurnGood(c)
    BY <1>2, <2>1 DEF TurnInv
  <2> QED BY <1>6, <2>2, AllocateTurn, TurnFrame
<1>7. ASSUME NEW c \in Clients, NEW r \in Requests, Begin(c, r) PROVE TurnInv'
  <2>1. Idle
    BY <1>7 DEF Begin, InTurn
  <2>2. Alone(c) /\ TurnGood(c)
    BY <1>2, <2>1
  <2> QED BY <1>7, <2>2, BeginTurn, TurnFrame
<1>8. ASSUME NEW i \in Instances, RestartInstance(i) PROVE TurnInv'
  BY <1>8, RestartTurn
<1>9. \A c \in Clients : ~Abort(c) /\ ~AllocAbort(c) /\ ~Swallow(c)
  BY DEF Abort, AllocAbort, Swallow
<1> QED BY <1>1, <1>3, <1>4, <1>5, <1>6, <1>7, <1>8, <1>9 DEF Next, Step

-----------------------------------------------------------------------------
(* What clients read between the calls.                                    *)

\* The tables when no call is in progress.
Settled ==
  /\ \A s \in Subjects : \A v \in DOMAIN versions[s] :
       /\ v \in Nat /\ v # 0 /\ v <= latest[s].version /\ latest[s].version \in Nat
       /\ versions[s][v].id \in DOMAIN schemas /\ versions[s][v].deleted \in BOOLEAN
  /\ \A s \in Subjects : \A v, w \in Live(s) : versions[s][v].id = versions[s][w].id => v = w
  /\ \A s \in Subjects : \A v \in DOMAIN versions[s] :
       {r[2] : r \in {q \in schemaReferences : q[1] = versions[s][v].id}} = RefsOf(s, v)
  /\ \A s \in Subjects : \A v \in DOMAIN versions[s] : \A k \in SubjectVersion :
       <<k, <<s, v>>>> \in referencesByTarget <=> k \in RefsOf(s, v)

\* Somebody is alone: the active client, or anybody between the calls.
LEMMA SomebodyAlone ==
  ASSUME TurnInv, Clients # {}
  PROVE  \E c \in Clients : Alone(c) /\ TurnGood(c) /\ (Idle => pc[c] = "idle")
<1>1. CASE Idle
  BY <1>1 DEF Idle, TurnInv, Alone
<1>2. CASE ~Idle
  BY <1>2 DEF Idle, TurnInv
<1> QED BY <1>1, <1>2

\* Between the calls nothing is in hand.
LEMMA IdleSettled ==
  ASSUME StoreTypes, TurnInv, Clients # {}, Idle
  PROVE  Settled
<1> USE PlacesNamed, TurnPlaces
<1>1. PICK c \in Clients : TurnGood(c) /\ pc[c] = "idle"
  BY SomebodyAlone
<1>2. \A s \in Subjects : \A v \in DOMAIN versions[s] :
       /\ v \in Nat /\ v # 0 /\ v <= latest[s].version /\ latest[s].version \in Nat
       /\ versions[s][v].id \in DOMAIN schemas /\ versions[s][v].deleted \in BOOLEAN
  BY <1>1 DEF TurnGood, TurnRows, StoreTypes, TableTypes, RowTypes, Row, Latest
<1>3. \A s \in Subjects : \A v, w \in Live(s) : versions[s][v].id = versions[s][w].id => v = w
  BY <1>1 DEF TurnGood, TurnRows
<1>4. ASSUME NEW s \in Subjects, NEW v \in DOMAIN versions[s]
      PROVE  {r[2] : r \in {q \in schemaReferences : q[1] = versions[s][v].id}} = RefsOf(s, v)
  <2>1. \A q \in schemaReferences : q[1] = versions[s][v].id => q[2] \in RefsOf(s, v)
    BY <1>1 DEF TurnGood, TurnReferences, RefsOf
  <2>2. ASSUME NEW r \in RefsOf(s, v) PROVE \E q \in schemaReferences : q[1] = versions[s][v].id /\ r = q[2]
    <3>1. <<versions[s][v].id, r>> \in schemaReferences
      BY <1>1 DEF TurnGood, TurnReferences
    <3> QED BY <3>1
  <2> QED BY <2>1, <2>2
<1>5. ASSUME NEW s \in Subjects, NEW v \in DOMAIN versions[s], NEW k \in SubjectVersion
      PROVE  <<k, <<s, v>>>> \in referencesByTarget <=> k \in RefsOf(s, v)
  <2>1. v \in Nat
    BY <1>2
  <2>2. <<k, <<s, v>>>> \in referencesByTarget => k \in RefsOf(s, v)
    BY <1>1, <2>1 DEF TurnGood, TurnReferences
  <2>3. k \in RefsOf(s, v) => <<k, <<s, v>>>> \in referencesByTarget
    BY <1>1 DEF TurnGood, TurnReferences
  <2> QED BY <2>2, <2>3
<1> QED BY <1>2, <1>3, <1>4, <1>5 DEF Settled

\* Every version of a subject can be read.
LEMMA AllReadable ==
  ASSUME Settled, NEW s \in Subjects, NEW V \in SUBSET DOMAIN versions[s]
  PROVE  \A x : x \in Readable(s, V) <=> \E v \in V : x = Record(s, v)
<1>1. \A v \in V : versions[s][v].id \in DOMAIN schemas
  BY DEF Settled
<1>2. {w \in V : versions[s][w].id \in DOMAIN schemas} = V
  BY <1>1
<1>3. Readable(s, V) = {Record(s, v) : v \in V}
  BY <1>2 DEF Readable
<1> QED BY <1>3

\* The columns of a record.
LEMMA RecordFields ==
  ASSUME Settled, NEW s \in Subjects, NEW v \in DOMAIN versions[s]
  PROVE  /\ Record(s, v).id = versions[s][v].id /\ Record(s, v).fp = schemas[versions[s][v].id]
         /\ Record(s, v).at = <<s, v>> /\ Record(s, v).deleted = versions[s][v].deleted
         /\ Record(s, v).refs = Refs[Record(s, v).fp]
<1>1. PICK refs : refs = {r[2] : r \in {q \in schemaReferences : q[1] = versions[s][v].id}}
  OBVIOUS
<1>2. Record(s, v) = [id |-> versions[s][v].id, fp |-> schemas[versions[s][v].id], at |-> <<s, v>>,
                      deleted |-> versions[s][v].deleted, meta |-> versions[s][v].meta, refs |-> refs]
  BY <1>1 DEF Record
<1>3. refs = Refs[schemas[versions[s][v].id]]
  BY <1>1 DEF Settled, RefsOf
<1> QED BY <1>2, <1>3

\* The live versions, and the highest one.
LEMMA LiveVersions ==
  ASSUME Settled, NEW s \in Subjects
  PROVE  /\ Live(s) \in SUBSET DOMAIN versions[s] /\ Live(s) \in SUBSET Nat
         /\ DOMAIN versions[s] # {} => latest[s] # NoLatest
         /\ Live(s) # {} => MaxOf(Live(s)) \in Live(s) /\ \A w \in Live(s) : w <= MaxOf(Live(s))
<1>1. Live(s) \in SUBSET DOMAIN versions[s] /\ Live(s) \in SUBSET Nat
  BY DEF Live, Settled
<1>2. DOMAIN versions[s] # {} => latest[s] # NoLatest
  <2> SUFFICES ASSUME NEW v \in DOMAIN versions[s], latest[s] = NoLatest PROVE FALSE
    OBVIOUS
  <2>1. v \in Nat /\ v # 0 /\ v <= latest[s].version
    BY DEF Settled
  <2>2. latest[s].version = 0
    BY DEF NoLatest
  <2> QED BY <2>1, <2>2
<1>3. ASSUME Live(s) # {} PROVE MaxOf(Live(s)) \in Live(s) /\ \A w \in Live(s) : w <= MaxOf(Live(s))
  <2>1. latest[s].version \in Nat /\ \A w \in Live(s) : w <= latest[s].version
    BY <1>1, <1>3 DEF Settled
  <2>2. \E m \in Live(s) : \A w \in Live(s) : w <= m
    BY <1>1, <1>3, <2>1, GreatestNat
  <2>3. \E m \in Live(s) : \A w \in Live(s) : m >= w
    BY <1>1, <2>2
  <2>4. MaxOf(Live(s)) \in Live(s) /\ \A w \in Live(s) : MaxOf(Live(s)) >= w
    BY <2>3 DEF MaxOf
  <2> QED BY <1>1, <2>4
<1> QED BY <1>1, <1>2, <1>3

\* A subject is there, and listed, when it has a live version.
LEMMA SubjectsAgree ==
  ASSUME Settled, NEW s \in Subjects
  PROVE  /\ SubjectExists(s) <=> GetSchemasBySubject(s, FALSE) # {}
         /\ s \in ListSubjects(FALSE) <=> GetSchemaBySubjectVersion(s, -1) # {}
         /\ GetSchemasBySubject(s, TRUE) \subseteq ListSchemas(FALSE, TRUE)
<1>1. /\ Live(s) \in SUBSET DOMAIN versions[s] /\ (DOMAIN versions[s] # {} => latest[s] # NoLatest)
      /\ Live(s) # {} => MaxOf(Live(s)) \in Live(s)
  BY LiveVersions
<1>2. \A x : x \in Readable(s, Live(s)) <=> \E v \in Live(s) : x = Record(s, v)
  BY <1>1, AllReadable
<1>3. SubjectExists(s) <=> GetSchemasBySubject(s, FALSE) # {}
  BY <1>1, <1>2 DEF SubjectExists, GetSchemasBySubject
<1>4. Live(s) # {} => Readable(s, {MaxOf(Live(s))}) # {}
  <2> SUFFICES ASSUME Live(s) # {} PROVE Readable(s, {MaxOf(Live(s))}) # {}
    OBVIOUS
  <2>1. PICK V : V = {MaxOf(Live(s))}
    OBVIOUS
  <2>2. V \in SUBSET DOMAIN versions[s] /\ V # {}
    BY <1>1, <2>1
  <2>3. Readable(s, V) # {}
    BY <2>2, AllReadable
  <2> QED BY <2>1, <2>3
<1>5. s \in ListSubjects(FALSE) <=> GetSchemaBySubjectVersion(s, -1) # {}
  BY <1>1, <1>4 DEF ListSubjects, GetSchemaBySubjectVersion, GetLatestSchema
<1>6. GetSchemasBySubject(s, TRUE) # {} => s \in ListSubjects(TRUE)
  <2>1. \A x : x \in Readable(s, DOMAIN versions[s]) <=> \E v \in DOMAIN versions[s] : x = Record(s, v)
    BY AllReadable
  <2> QED BY <1>1, <2>1 DEF GetSchemasBySubject, ListSubjects
<1>7. GetSchemasBySubject(s, TRUE) \subseteq ListSchemas(FALSE, TRUE)
  BY <1>6 DEF ListSchemas
<1> QED BY <1>3, <1>5, <1>7

\* The latest version is the highest one.
LEMMA LatestAgrees ==
  ASSUME Settled, NEW s \in Subjects, NEW r \in GetLatestSchema(s)
  PROVE  r \in ListSchemas(TRUE, FALSE) /\ \A q \in GetSchemasBySubject(s, FALSE) : q.at[2] <= r.at[2]
<1>1. latest[s] # NoLatest /\ Live(s) # {} /\ r \in Readable(s, {MaxOf(Live(s))})
  BY DEF GetLatestSchema
<1>2. /\ Live(s) \in SUBSET DOMAIN versions[s]
      /\ MaxOf(Live(s)) \in Live(s) /\ \A w \in Live(s) : w <= MaxOf(Live(s))
  BY <1>1, LiveVersions
<1>3. PICK m : m = MaxOf(Live(s))
  OBVIOUS
<1>4. r = Record(s, m) /\ m \in Live(s) /\ \A w \in Live(s) : w <= m
  <2>1. PICK V : V = {m}
    OBVIOUS
  <2>2. V \in SUBSET DOMAIN versions[s]
    BY <1>2, <1>3, <2>1
  <2>3. \A x : x \in Readable(s, V) <=> \E v \in V : x = Record(s, v)
    BY <2>2, AllReadable
  <2> QED BY <1>1, <1>2, <1>3, <2>1, <2>3
<1>5. r.at = <<s, m>>
  BY <1>2, <1>4, RecordFields
<1>6. \A q \in GetSchemasBySubject(s, FALSE) : q.at[2] <= r.at[2]
  <2>1. \A q \in GetSchemasBySubject(s, FALSE) : \E w \in Live(s) : q = Record(s, w)
    BY <1>2, AllReadable DEF GetSchemasBySubject
  <2>2. \A w \in Live(s) : Record(s, w).at = <<s, w>>
    BY <1>2, RecordFields
  <2>3. r.at[2] = m /\ \A w \in Live(s) : Record(s, w).at[2] = w
    BY <1>5, <2>2
  <2> QED BY <1>4, <2>1, <2>3
<1>7. r \in ListSchemas(TRUE, FALSE)
  <2>1. s \in ListSubjects(FALSE)
    BY <1>1 DEF ListSubjects
  <2> QED BY <2>1 DEF ListSchemas
<1> QED BY <1>6, <1>7

\* GetReferencedBy names the live versions whose content refers there.
LEMMA ReferencedByAgrees ==
  ASSUME Settled, NEW k \in SubjectVersion, NEW s, NEW v, k = <<s, v>>
  PROVE  GetReferencedBy(s, v) = ReferringTo(k)
<1>1. ASSUME NEW x \in GetReferencedBy(s, v) PROVE x \in ReferringTo(k)
  <2>1. /\ x \in Subjects \X UNION {Live(w) : w \in Subjects}
        /\ x[2] \in Live(x[1]) /\ <<k, x>> \in referencesByTarget
    BY <1>1 DEF GetReferencedBy
  <2>2. PICK t, w : x = <<t, w>> /\ t \in Subjects /\ w \in Live(t) /\ <<k, <<t, w>>>> \in referencesByTarget
    BY <2>1
  <2>3. w \in DOMAIN versions[t] /\ Live(t) \in SUBSET DOMAIN versions[t]
    BY <2>2, LiveVersions
  <2>4. k \in RefsOf(t, w)
    BY <2>2, <2>3 DEF Settled
  <2>5. Record(t, w) \in Readable(t, Live(t)) /\ Record(t, w).at = x /\ k \in Refs[Record(t, w).fp]
    BY <2>2, <2>3, <2>4, AllReadable, RecordFields DEF RefsOf
  <2>6. x \in {r.at : r \in {q \in Readable(t, Live(t)) : k \in Refs[q.fp]}}
    BY <2>5
  <2> QED BY <2>2, <2>6 DEF ReferringTo
<1>2. ASSUME NEW x \in ReferringTo(k) PROVE x \in GetReferencedBy(s, v)
  <2>1. PICK t \in Subjects : x \in {r.at : r \in {q \in Readable(t, Live(t)) : k \in Refs[q.fp]}}
    BY <1>2 DEF ReferringTo
  <2>2. PICK r \in Readable(t, Live(t)) : x = r.at /\ k \in Refs[r.fp]
    BY <2>1
  <2>3. Live(t) \in SUBSET DOMAIN versions[t]
    BY LiveVersions
  <2>4. PICK w \in Live(t) : r = Record(t, w)
    BY <2>2, <2>3, AllReadable
  <2>5. w \in DOMAIN versions[t] /\ x = <<t, w>> /\ k \in RefsOf(t, w)
    BY <2>2, <2>3, <2>4, RecordFields DEF RefsOf
  <2>6. <<k, <<t, w>>>> \in referencesByTarget
    BY <2>5 DEF Settled
  <2>7. x \in Subjects \X UNION {Live(u) : u \in Subjects} /\ x[2] \in Live(x[1]) /\ <<<<s, v>>, x>> \in referencesByTarget
    BY <2>4, <2>5, <2>6
  <2> QED BY <2>7 DEF GetReferencedBy
<1> QED BY <1>1, <1>2

\* The IDs that a content is claimed for, when they have content: one at most.
LEMMA ClaimedID ==
  ASSUME NEW fp, NEW id
  PROVE  id \in GetSchemaByGlobalFingerprint(fp) <=>
           fp \in DOMAIN fingerprints /\ id = fingerprints[fp] /\ id \in DOMAIN schemas
BY DEF GetSchemaByGlobalFingerprint

\* The versions that have an ID.
LEMMA VersionsOfID ==
  ASSUME NEW s \in Subjects, NEW v \in DOMAIN versions[s], versions[s][v].id \in DOMAIN schemas, NEW all \in BOOLEAN
  PROVE  <<s, v>> \in GetVersionsBySchemaID(versions[s][v].id, all) <=> all \/ v \in Live(s)
<1>1. PICK id : id = versions[s][v].id
  OBVIOUS
<1>2. GetVersionsBySchemaID(id, all) =
        UNION {{<<t, w>> : w \in {u \in DOMAIN versions[t] : versions[t][u].id = id /\ (all \/ u \in Live(t))}} : t \in Subjects}
  BY <1>1 DEF GetVersionsBySchemaID
<1>3. all \/ v \in Live(s) => <<s, v>> \in GetVersionsBySchemaID(id, all)
  <2> SUFFICES ASSUME all \/ v \in Live(s) PROVE <<s, v>> \in GetVersionsBySchemaID(id, all)
    OBVIOUS
  <2>1. <<s, v>> \in {<<s, w>> : w \in {u \in DOMAIN versions[s] : versions[s][u].id = id /\ (all \/ u \in Live(s))}}
    BY <1>1
  <2> QED BY <1>2, <2>1
<1>4. <<s, v>> \in GetVersionsBySchemaID(id, all) => all \/ v \in Live(s)
  <2> SUFFICES ASSUME <<s, v>> \in GetVersionsBySchemaID(id, all) PROVE all \/ v \in Live(s)
    OBVIOUS
  <2>1. PICK t \in Subjects :
          <<s, v>> \in {<<t, w>> : w \in {u \in DOMAIN versions[t] : versions[t][u].id = id /\ (all \/ u \in Live(t))}}
    BY <1>2
  <2>2. PICK w \in DOMAIN versions[t] : (all \/ w \in Live(t)) /\ <<s, v>> = <<t, w>>
    BY <2>1
  <2>3. s = t /\ v = w
    BY <2>2
  <2> QED BY <2>2, <2>3
<1> QED BY <1>1, <1>3, <1>4

\* A live version is found by its number, its ID, its content and in the list.
LEMMA LiveFound ==
  ASSUME Settled, NEW s \in Subjects, NEW v \in Live(s), NEW r, r = Record(s, v)
  PROVE  /\ GetSchemaBySubjectVersion(s, v) = {r} /\ r.refs = Refs[r.fp]
         /\ r \in GetSchemasBySubject(s, FALSE)
         /\ \E q \in GetSchemaByID(r.id) : q.at = r.at /\ q.fp = r.fp
         /\ s \in GetSubjectsBySchemaID(r.id, FALSE)
         /\ r.id \in GetSchemaByGlobalFingerprint(r.fp) => r \in GetSchemaByFingerprint(s, r.fp, FALSE)
<1>1. Live(s) \in SUBSET DOMAIN versions[s] /\ Live(s) \in SUBSET Nat
  BY LiveVersions
<1>2. v \in DOMAIN versions[s] /\ v \in Nat /\ versions[s][v].id \in DOMAIN schemas
  BY <1>1 DEF Settled
<1>3. r.id = versions[s][v].id /\ r.fp = schemas[r.id] /\ r.at = <<s, v>> /\ r.refs = Refs[r.fp]
  BY <1>2, RecordFields
<1>4. PICK V : V = {v}
  OBVIOUS
<1>5. Readable(s, V) = {r}
  <2>1. V \in SUBSET DOMAIN versions[s]
    BY <1>2, <1>4
  <2>2. \A x : x \in Readable(s, V) <=> \E w \in V : x = Record(s, w)
    BY <2>1, AllReadable
  <2> QED BY <1>4, <2>2
<1>6. GetSchemaBySubjectVersion(s, v) = {r}
  <2>1. v # -1 /\ {v} \cap Live(s) = V
    BY <1>2, <1>4
  <2> QED BY <1>5, <2>1 DEF GetSchemaBySubjectVersion
<1>7. r \in GetSchemasBySubject(s, FALSE)
  BY <1>1, AllReadable DEF GetSchemasBySubject
<1>8. <<s, v>> \in GetVersionsBySchemaID(r.id, FALSE)
  BY <1>2, <1>3, VersionsOfID
<1>9. \E q \in GetSchemaByID(r.id) : q.at = r.at /\ q.fp = r.fp
  <2>1. PICK A : A = GetVersionsBySchemaID(r.id, FALSE)
    OBVIOUS
  <2>2. PICK R : R = {p[2] : p \in {q \in schemaReferences : q[1] = r.id}}
    OBVIOUS
  <2>3. GetSchemaByID(r.id) = {[id |-> r.id, fp |-> schemas[r.id], at |-> k, refs |-> R] : k \in A}
    BY <1>2, <1>3, <1>8, <2>1, <2>2 DEF GetSchemaByID
  <2>4. PICK q : q = [id |-> r.id, fp |-> schemas[r.id], at |-> <<s, v>>, refs |-> R]
    OBVIOUS
  <2>5. q \in GetSchemaByID(r.id)
    BY <1>8, <2>1, <2>3, <2>4
  <2>6. q.at = <<s, v>> /\ q.fp = schemas[r.id]
    BY <2>4
  <2> QED BY <1>3, <2>5, <2>6
<1>10. s \in GetSubjectsBySchemaID(r.id, FALSE)
  <2>1. PICK k : k = <<s, v>>
    OBVIOUS
  <2>2. k[1] = s
    BY <2>1
  <2>3. PICK A : A = GetVersionsBySchemaID(r.id, FALSE)
    OBVIOUS
  <2>4. k \in A
    BY <1>8, <2>1, <2>3
  <2>5. GetSubjectsBySchemaID(r.id, FALSE) = {j[1] : j \in A}
    BY <2>3 DEF GetSubjectsBySchemaID
  <2> QED BY <2>2, <2>4, <2>5
<1>11. ASSUME r.id \in GetSchemaByGlobalFingerprint(r.fp) PROVE r \in GetSchemaByFingerprint(s, r.fp, FALSE)
  <2>1. PICK W : W = {w \in DOMAIN versions[s] : versions[s][w].id \in GetSchemaByGlobalFingerprint(r.fp) /\ w \in Live(s)}
    OBVIOUS
  <2>2. \A w \in W : w \in Live(s) /\ versions[s][w].id = versions[s][v].id
    BY <1>3, <1>11, <2>1, ClaimedID
  <2>3. W = V
    <3>1. \A w \in W : w = v
      BY <2>2 DEF Settled
    <3>2. v \in W
      BY <1>2, <1>3, <1>11, <2>1
    <3> QED BY <1>4, <3>1, <3>2
  <2>4. MinOf(V) = v
    <3>1. V \in SUBSET Nat /\ V # {}
      BY <1>2, <1>4
    <3>2. MinOf(V) \in V
      BY <3>1, MinOfNat
    <3> QED BY <1>4, <3>2
  <2>5. GetSchemaByFingerprint(s, r.fp, FALSE) = Readable(s, {MinOf(V)})
    BY <1>4, <2>1, <2>3 DEF GetSchemaByFingerprint
  <2> QED BY <1>4, <1>5, <2>4, <2>5
<1> QED BY <1>3, <1>6, <1>7, <1>9, <1>10, <1>11

\* A deleted version is found when deleted versions are asked for, and only then.
LEMMA DeletedFound ==
  ASSUME Settled, NEW s \in Subjects, NEW r \in GetSchemasBySubject(s, TRUE), r.deleted
  PROVE  /\ GetSchemaBySubjectVersion(s, r.at[2]) = {} /\ r.at \notin GetVersionsBySchemaID(r.id, FALSE)
         /\ r.at \in GetVersionsBySchemaID(r.id, TRUE)
         /\ r.id \in GetSchemaByGlobalFingerprint(r.fp) => GetSchemaByFingerprint(s, r.fp, TRUE) # {}
<1>1. PICK v \in DOMAIN versions[s] : r = Record(s, v)
  BY AllReadable DEF GetSchemasBySubject
<1>2. r.id = versions[s][v].id /\ r.at = <<s, v>> /\ r.at[2] = v /\ versions[s][v].deleted
  BY <1>1, RecordFields
<1>3. v \in Nat /\ versions[s][v].id \in DOMAIN schemas /\ v \notin Live(s)
  BY <1>2 DEF Settled, Live
<1>4. GetSchemaBySubjectVersion(s, v) = {}
  <2>1. v # -1 /\ {v} \cap Live(s) = {}
    BY <1>3
  <2>2. Readable(s, {}) = {}
    BY DEF Readable
  <2> QED BY <2>1, <2>2 DEF GetSchemaBySubjectVersion
<1>5. <<s, v>> \notin GetVersionsBySchemaID(r.id, FALSE) /\ <<s, v>> \in GetVersionsBySchemaID(r.id, TRUE)
  BY <1>2, <1>3, VersionsOfID
<1>6. ASSUME r.id \in GetSchemaByGlobalFingerprint(r.fp) PROVE GetSchemaByFingerprint(s, r.fp, TRUE) # {}
  <2>1. PICK W : W = {w \in DOMAIN versions[s] : versions[s][w].id \in GetSchemaByGlobalFingerprint(r.fp)}
    OBVIOUS
  <2>2. v \in W /\ W \in SUBSET DOMAIN versions[s] /\ W \in SUBSET Nat
    BY <1>2, <1>6, <2>1 DEF Settled
  <2>3. PICK m : m = MinOf(W)
    OBVIOUS
  <2>4. m \in DOMAIN versions[s]
    BY <2>2, <2>3, MinOfNat
  <2>5. GetSchemaByFingerprint(s, r.fp, TRUE) = Readable(s, {m})
    BY <2>1, <2>2, <2>3 DEF GetSchemaByFingerprint
  <2>6. PICK M : M = {m}
    OBVIOUS
  <2>7. M \in SUBSET DOMAIN versions[s] /\ m \in M
    BY <2>4, <2>6
  <2>8. Record(s, m) \in Readable(s, M)
    BY <2>7, AllReadable
  <2> QED BY <2>5, <2>6, <2>8
<1> QED BY <1>2, <1>4, <1>5, <1>6

\* The tables agree when callers take turns.
LEMMA TurnAgrees ==
  ASSUME StoreTypes, TurnInv, Clients # {}
  PROVE  /\ EveryVersionPublished /\ NoDuplicateVersion /\ NothingOrphaned
         /\ ReferencesIndexed /\ NoDanglingVersion /\ ReadPathsAgree
<1> USE PlacesNamed, TurnPlaces
<1>1. PICK c \in Clients : TurnGood(c) /\ (Idle => pc[c] = "idle")
  BY SomebodyAlone
<1>2. EveryVersionPublished /\ NoDuplicateVersion /\ NoDanglingVersion
  BY <1>1 DEF EveryVersionPublished, NoDuplicateVersion, NoDanglingVersion, TurnGood, TurnRows
<1>3. NothingOrphaned
  <2> SUFFICES ASSUME Idle
               PROVE  /\ DOMAIN schemas \subseteq UNION {{versions[s][v].id : v \in DOMAIN versions[s]} : s \in Subjects}
                      /\ \A fp \in DOMAIN fingerprints : \E i \in DOMAIN schemas : schemas[i] = fp
    BY DEF NothingOrphaned
  <2>1. pc[c] = "idle" /\ pc[c] \notin Holds \cup Unwritten \cup Unclaims
    BY <1>1 DEF Unwritten, Unclaims
  <2>2. \A i \in DOMAIN schemas : InUse(i)
    BY <1>1, <2>1 DEF TurnGood, TurnContents
  <2>3. \A f \in DOMAIN fingerprints : \E i \in DOMAIN schemas : schemas[i] = f
    BY <1>1, <2>1 DEF TurnGood, TurnContents
  <2> QED BY <2>2, <2>3 DEF InUse
<1>4. ReferencesIndexed
  <2> SUFFICES ASSUME Idle, NEW p \in promised, p.version \in Live(p.subject), versions[p.subject][p.version].id = p.id,
                      NEW r \in Refs[p.fp]
               PROVE  <<r, <<p.subject, p.version>>>> \in referencesByTarget
    BY DEF ReferencesIndexed
  <2>1. p.subject \in Subjects /\ p.version \in DOMAIN versions[p.subject] /\ pc[c] = "idle"
    BY <1>1 DEF StoreTypes, Answered, Live
  <2>2. p.id \in DOMAIN schemas
    BY <1>1, <2>1 DEF TurnGood, TurnRows
  <2>3. schemas[p.id] = p.fp
    BY <1>1, <2>1, <2>2 DEF TurnGood, TurnIDs, Knows
  <2>4. r \in RefsOf(p.subject, p.version)
    BY <2>3 DEF RefsOf
  <2> QED BY <1>1, <2>1, <2>4 DEF TurnGood, TurnReferences
<1>5. ReadPathsAgree
  <2> SUFFICES ASSUME Idle, NEW s \in Subjects
      PROVE  /\ SubjectExists(s) <=> GetSchemasBySubject(s, FALSE) # {}
             /\ s \in ListSubjects(FALSE) <=> GetSchemaBySubjectVersion(s, -1) # {}
             /\ GetSchemasBySubject(s, TRUE) \subseteq ListSchemas(FALSE, TRUE)
             /\ \A r \in GetLatestSchema(s) :
                   r \in ListSchemas(TRUE, FALSE) /\ \A q \in GetSchemasBySubject(s, FALSE) : q.at[2] <= r.at[2]
             /\ \A v \in DOMAIN versions[s] : GetReferencedBy(s, v) = ReferringTo(<<s, v>>)
             /\ \A v \in Live(s) : \A r \in {Record(s, v)} :
                   /\ GetSchemaBySubjectVersion(s, v) = {r} /\ r.refs = Refs[r.fp]
                   /\ r \in GetSchemasBySubject(s, FALSE)
                   /\ \E q \in GetSchemaByID(r.id) : q.at = r.at /\ q.fp = r.fp
                   /\ s \in GetSubjectsBySchemaID(r.id, FALSE)
                   /\ r.id \in GetSchemaByGlobalFingerprint(r.fp) => r \in GetSchemaByFingerprint(s, r.fp, FALSE)
             /\ \A r \in GetSchemasBySubject(s, TRUE) : r.deleted =>
                   /\ GetSchemaBySubjectVersion(s, r.at[2]) = {} /\ r.at \notin GetVersionsBySchemaID(r.id, FALSE)
                   /\ r.at \in GetVersionsBySchemaID(r.id, TRUE)
                   /\ r.id \in GetSchemaByGlobalFingerprint(r.fp) => GetSchemaByFingerprint(s, r.fp, TRUE) # {}
    BY DEF ReadPathsAgree
  <2>1. Settled
    BY IdleSettled
  <2>2. \A v \in DOMAIN versions[s] : GetReferencedBy(s, v) = ReferringTo(<<s, v>>)
    <3>1. \A v \in DOMAIN versions[s] : <<s, v>> \in SubjectVersion
      BY <2>1 DEF Settled, SubjectVersion
    <3> QED BY <2>1, <3>1, ReferencedByAgrees
  <2> QED BY <2>1, <2>2, SubjectsAgree, LatestAgrees, LiveFound, DeletedFound
<1> QED BY <1>2, <1>3, <1>4, <1>5

\* When callers take turns, the tables agree after each complete operation of the
\* Cassandra store: for any subjects, contents, references and calls, any number of
\* instances and clients, and any block size; between the calls instances may
\* restart.  Nothing is said of queries that fail half way: TLC shows what they
\* leave behind.
THEOREM TablesAgreeTakingTurns ==
  ASSUME Faults \subseteq {"restart"}, Clients # {}
  PROVE  Spec => []TablesAgreeInTurn
<1> DEFINE Inv == StoreTypes /\ (turns => TurnInv)
<1>1. Init => Inv
  BY TypesInit, TurnStart
<1>2. Inv /\ [Next]_<<vars, turns>> => Inv'
  <2> SUFFICES ASSUME Inv, [Next]_<<vars, turns>> PROVE Inv'
    OBVIOUS
  <2>1. StoreTypes'
    BY TypesNext
  <2>2. turns' => turns
    BY DEF Next
  <2> QED BY <2>1, <2>2, TurnNext
<1>3. Inv => TablesAgreeInTurn
  <2> SUFFICES ASSUME Inv PROVE TablesAgreeInTurn
    OBVIOUS
  <2>1. TypeOK
    BY StoreTyped
  <2> QED BY <2>1, TurnAgrees DEF TablesAgreeInTurn
<1> QED BY <1>1, <1>2, <1>3, PTL DEF Spec

============================================================================
