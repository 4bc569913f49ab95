--------------------------- MODULE CassandraStore ---------------------------
(***************************************************************************)
(* The schema tables of one registry context in Cassandra                  *)
(* (internal/storage/cassandra/store.go), shared by several registry       *)
(* instances.  No transaction spans two tables: a storage call is a        *)
(* sequence of queries, each of them one step, and the steps of the calls  *)
(* in progress interleave.  A query is atomic and sees the latest write    *)
(* (quorum reads and writes, serial lightweight transactions).             *)
(*                                                                         *)
(* A schema is its fingerprint, which determines its references; metadata  *)
(* and rule set of a version are one value.                                *)
(***************************************************************************)
EXTENDS IDAllocator, Integers, FiniteSets

CONSTANTS Subjects,      \* subject names
          Fingerprints,  \* distinct schema contents
          NoContent,     \* the empty string in place of a fingerprint
          Metas,         \* metadata and rule set of a version
          NoMeta,        \* the null columns of a row made by an UPDATE
          Refs,          \* content -> the subject-versions it references
          Requests,      \* the storage calls a client may make
          NoRequest,     \* no call in progress
          Faults,        \* which faults happen
          MaxVersion     \* bound: no registration starts above it

SubjectVersion == Subjects \X Nat

RequestType ==
  [op : {"create"}, subject : Subjects, fp : Fingerprints, meta : Metas]
  \cup [op : {"import"}, subject : Subjects, fp : Fingerprints, id : Nat \ {0}, version : Nat \ {0}]
  \cup [op : {"deleteVersion"}, subject : Subjects, version : Nat \ {0}, permanent : BOOLEAN]
  \cup [op : {"deleteSubject"}, subject : Subjects, permanent : BOOLEAN]
  \cup [op : {"setting"}, subject : Subjects, table : {"subject_configs", "modes"}]

ASSUME CassandraAssumption ==
  /\ NoContent \notin Fingerprints
  /\ NoMeta \in Metas
  /\ Refs \in [Fingerprints -> SUBSET SubjectVersion]
  /\ Requests \subseteq RequestType
  /\ NoRequest \notin Requests
  /\ Faults \subseteq {"abort", "swallow", "restart"}
  /\ MaxVersion \in Nat

VARIABLES schemas,            \* schemas_by_id: ID -> content
          fingerprints,       \* schema_fingerprints: content -> ID
          versions,           \* subject_versions: subject -> version -> row
          latest,             \* subject_latest: subject -> row, NoLatest without one
          schemaReferences,   \* schema_references: <<ID, referenced version>>
          referencesByTarget, \* references_by_target: <<referenced, referring version>>
          settings,           \* subject_configs and modes: <<subject, table>>
          pc, req, loc,       \* the call each client is in
          promised,           \* the versions that registrations answered
          turns               \* whether the callers take turns, see InTurn

tableVars == <<schemas, fingerprints, versions, latest, schemaReferences,
               referencesByTarget, settings>>
vars == <<allocVars, tableVars, pc, req, loc, promised>>

Row == [id : Nat, deleted : BOOLEAN, meta : Metas]
Latest == [version : Nat, id : Nat]
NoLatest == [version |-> 0, id |-> 0]

\* id: the schema ID in hand; version: the version in hand; seen: the row of
\* subject_latest read; todo: versions a subject delete still has to remove;
\* fp: the fingerprint read from a row of schemas_by_id.
Locals == [id : Nat, version : Nat, seen : Latest, attempt : Nat,
           todo : SUBSET Nat, fp : Fingerprints \cup {NoContent}]
NoLocals == [id |-> 0, version |-> 0, seen |-> NoLatest, attempt |-> 0,
             todo |-> {}, fp |-> NoContent]

EmptyTable == [j \in {} |-> 0]
Put(f, k, x) == [j \in DOMAIN f \cup {k} |-> IF j = k THEN x ELSE f[j]]
Drop(f, k) == [j \in DOMAIN f \ {k} |-> f[j]]

Init ==
  /\ AllocInit
  /\ schemas = EmptyTable /\ fingerprints = EmptyTable
  /\ versions = [s \in Subjects |-> EmptyTable]
  /\ latest = [s \in Subjects |-> NoLatest]
  /\ schemaReferences = {} /\ referencesByTarget = {} /\ settings = {}
  /\ pc = [c \in Clients |-> "idle"]
  /\ req = [c \in Clients |-> NoRequest]
  /\ loc = [c \in Clients |-> NoLocals]
  /\ promised = {} /\ turns \in BOOLEAN

-----------------------------------------------------------------------------
MinOf(V) == CHOOSE v \in V : \A w \in V : v <= w
Live(s) == {v \in DOMAIN versions[s] : ~versions[s][v].deleted}

Goto(c, label) == pc' = [pc EXCEPT ![c] = label]
Keep(c, label, l) == Goto(c, label) /\ loc' = [loc EXCEPT ![c] = l]
Continue(c, label) == Goto(c, label) /\ UNCHANGED loc
Finish(c) ==
  /\ Goto(c, "idle")
  /\ req' = [req EXCEPT ![c] = NoRequest]
  /\ loc' = [loc EXCEPT ![c] = NoLocals]

\* Most steps touch one table; these say what they leave alone.
Unmoved == UNCHANGED <<req, promised>>
Quiet == UNCHANGED <<allocVars, tableVars>>

\* A call ends without answering a version: an error, or a delete that is done.
End(c) == Finish(c) /\ UNCHANGED promised

\* A registration answers: a new version, or the existing one.
Answer(c, v, id) ==
  /\ Finish(c)
  /\ promised' = promised \cup
       {[subject |-> req[c].subject, version |-> v, id |-> id, fp |-> req[c].fp]}

-----------------------------------------------------------------------------
FirstStep(r) ==
  CASE r.op = "create" -> "fast"
    [] r.op = "import" -> "importID"
    [] r.op = "deleteVersion" -> "deleteRead"
    [] r.op = "deleteSubject" -> "subjectRead"
    [] r.op = "setting" -> "setting"

Idle == \A c \in Clients : pc[c] = "idle"

\* An instance has the ID in its block and may give it out.
InBlock(i, id) == block[i].current <= id /\ id < block[i].ceiling

\* Callers that take turns wait for each other, register without metadata, and
\* import an ID only where it is free to be: not in the block of an instance, not
\* answered for another content, and not on another live version of the subject.
InTurn(r) ==
  /\ Idle
  /\ r.op = "create" => r.meta = NoMeta
  /\ r.op = "import" =>
       /\ \A i \in Instances : ~InBlock(i, r.id)
       /\ \A p \in promised : p.id = r.id => p.fp = r.fp
       /\ \A v \in Live(r.subject) : versions[r.subject][v].id # r.id

Begin(c, r) ==
  /\ pc[c] = "idle" /\ (turns => InTurn(r))
  /\ r.op = "create" => /\ latest[r.subject].version < MaxVersion
                        /\ nextId <= MaxNextID \/ r.fp \in DOMAIN fingerprints
  /\ Goto(c, FirstStep(r))
  /\ req' = [req EXCEPT ![c] = r]
  /\ loc' = [loc EXCEPT ![c].version = IF r.op \in {"import", "deleteVersion"} THEN r.version ELSE 0,
                        ![c].id = IF r.op = "import" THEN r.id ELSE 0]
  /\ UNCHANGED <<allocVars, tableVars, promised>>

-----------------------------------------------------------------------------
(* CreateSchema: ensureGlobalSchema, then the version loop.                *)

\* Mutant: the data behind a claimed fingerprint is taken for granted.
CreateFastTrusting(c) ==
  /\ pc[c] = "fast"
  /\ \/ /\ req[c].fp \in DOMAIN fingerprints
        /\ Keep(c, "find", [loc[c] EXCEPT !.id = fingerprints[req[c].fp]])
        /\ UNCHANGED allocVars
     \/ /\ req[c].fp \notin DOMAIN fingerprints
        /\ Continue(c, "alloc") /\ CallNextID(c)
  /\ Unmoved /\ UNCHANGED tableVars

\* The fingerprint is claimed already, or an ID has to be allocated for it.
CreateFast(c) ==
  /\ pc[c] = "fast"
  /\ \/ /\ req[c].fp \in DOMAIN fingerprints
        /\ Keep(c, "data", [loc[c] EXCEPT !.id = fingerprints[req[c].fp]])
        /\ UNCHANGED allocVars
     \/ /\ req[c].fp \notin DOMAIN fingerprints
        /\ Continue(c, "alloc") /\ CallNextID(c)
  /\ Unmoved /\ UNCHANGED tableVars

\* Mutant: the claim is an INSERT without IF NOT EXISTS.
CreateClaimBlind(c) ==
  /\ pc[c] = "alloc" /\ At(c, "got") /\ Collect(c)
  /\ Keep(c, "data", [loc[c] EXCEPT !.id = alloc[c].id])
  /\ fingerprints' = Put(fingerprints, req[c].fp, alloc[c].id)
  /\ Unmoved
  /\ UNCHANGED <<schemas, versions, latest, schemaReferences, referencesByTarget, settings>>

\* claimFingerprint with the allocated ID; the loser takes the winner's ID.
CreateClaim(c) ==
  /\ pc[c] = "alloc" /\ At(c, "got") /\ Collect(c)
  /\ \/ /\ req[c].fp \in DOMAIN fingerprints
        /\ Keep(c, "data", [loc[c] EXCEPT !.id = fingerprints[req[c].fp]])
        /\ UNCHANGED fingerprints
     \/ /\ req[c].fp \notin DOMAIN fingerprints
        /\ Keep(c, "data", [loc[c] EXCEPT !.id = alloc[c].id])
        /\ fingerprints' = Put(fingerprints, req[c].fp, alloc[c].id)
  /\ Unmoved
  /\ UNCHANGED <<schemas, versions, latest, schemaReferences, referencesByTarget, settings>>

CreateNoID(c) ==
  /\ pc[c] = "alloc" /\ At(c, "failed") /\ Collect(c)
  /\ End(c) /\ UNCHANGED tableVars

\* ensureSchemaData looks for the row and writes it when it is missing.
CreateData(c) ==
  /\ pc[c] = "data"
  /\ Continue(c, IF loc[c].id \in DOMAIN schemas THEN "find" ELSE "write")
  /\ Unmoved /\ Quiet

CreateWrite(c) ==
  /\ pc[c] = "write"
  /\ schemas' = Put(schemas, loc[c].id, req[c].fp)
  /\ Continue(c, "find") /\ Unmoved
  /\ UNCHANGED <<allocVars, fingerprints, versions, latest, schemaReferences,
                 referencesByTarget, settings>>

\* findSchemaInSubject returns the first live version of the ID; only that
\* one's metadata is compared.
Found(s, id) == {v \in Live(s) : versions[s][v].id = id}

CreateFind(c) ==
  /\ pc[c] = "find"
  /\ LET s == req[c].subject
         V == Found(s, loc[c].id)
     IN IF V # {} /\ loc[c].id \in DOMAIN schemas /\ versions[s][MinOf(V)].meta = req[c].meta
        THEN Answer(c, MinOf(V), loc[c].id)
        ELSE Continue(c, "latest") /\ Unmoved
  /\ Quiet

CreateLatest(c) ==
  /\ pc[c] = "latest"
  /\ LET l == latest[req[c].subject]
     IN Keep(c, "insert", [loc[c] EXCEPT !.seen = l, !.version = l.version + 1])
  /\ Unmoved /\ Quiet

\* Mutant: an INSERT without IF NOT EXISTS.
CreateInsertBlind(c) ==
  /\ pc[c] = "insert"
  /\ versions' = [versions EXCEPT ![req[c].subject] =
       Put(@, loc[c].version, [id |-> loc[c].id, deleted |-> FALSE, meta |-> req[c].meta])]
  /\ Continue(c, "publish") /\ Unmoved
  /\ UNCHANGED <<allocVars, schemas, fingerprints, latest, schemaReferences,
                 referencesByTarget, settings>>

\* INSERT INTO subject_versions ... IF NOT EXISTS
CreateInsert(c) ==
  /\ pc[c] = "insert"
  /\ LET s == req[c].subject
         v == loc[c].version
     IN \/ /\ v \notin DOMAIN versions[s]
           /\ versions' = [versions EXCEPT ![s] =
                Put(@, v, [id |-> loc[c].id, deleted |-> FALSE, meta |-> req[c].meta])]
           /\ Continue(c, "publish")
        \/ /\ v \in DOMAIN versions[s]
           /\ Continue(c, "conflict") /\ UNCHANGED versions
  /\ Unmoved
  /\ UNCHANGED <<allocVars, schemas, fingerprints, latest, schemaReferences,
                 referencesByTarget, settings>>

\* Mutant: the retry neither counts nor reads subject_latest again.
AgainStale(c) == Continue(c, "insert") /\ Unmoved

\* The next attempt, or "too many retries".
Again(c) ==
  IF loc[c].attempt + 1 < MaxRetries
  THEN Keep(c, "find", [loc[c] EXCEPT !.attempt = @ + 1, !.version = 0, !.seen = NoLatest]) /\ Unmoved
  ELSE End(c)

\* The version is taken: by the same schema with the same metadata, which is
\* the answer, or by something else.
CreateConflict(c) ==
  /\ pc[c] = "conflict"
  /\ LET s == req[c].subject
         v == loc[c].version
     IN IF v \in Live(s) /\ versions[s][v].id = loc[c].id
           /\ loc[c].id \in DOMAIN schemas /\ versions[s][v].meta = req[c].meta
        THEN Answer(c, v, loc[c].id)
        ELSE Again(c)
  /\ Quiet

\* Compare-and-set of subject_latest against the row read before.
CreatePublish(c) ==
  /\ pc[c] = "publish"
  /\ LET s == req[c].subject
     IN \/ /\ latest[s] = loc[c].seen
           /\ latest' = [latest EXCEPT ![s] = [version |-> loc[c].version, id |-> loc[c].id]]
           /\ IF Refs[req[c].fp] = {} THEN Answer(c, loc[c].version, loc[c].id)
              ELSE Continue(c, "refs") /\ Unmoved
        \/ /\ latest[s] # loc[c].seen
           /\ Again(c) /\ UNCHANGED latest
  /\ UNCHANGED <<allocVars, schemas, fingerprints, versions, schemaReferences,
                 referencesByTarget, settings>>

AddReferences(id, s, v, fp) ==
  /\ schemaReferences' = schemaReferences \cup {<<id, r>> : r \in Refs[fp]}
  /\ referencesByTarget' = referencesByTarget \cup {<<r, <<s, v>>>> : r \in Refs[fp]}

CreateRefs(c) ==
  /\ pc[c] = "refs"
  /\ AddReferences(loc[c].id, req[c].subject, loc[c].version, req[c].fp)
  /\ Answer(c, loc[c].version, loc[c].id)
  /\ UNCHANGED <<allocVars, schemas, fingerprints, versions, latest, settings>>

CreateStep(c) ==
  \/ CreateFast(c) \/ CreateClaim(c) \/ CreateNoID(c) \/ CreateData(c) \/ CreateWrite(c)
  \/ CreateFind(c) \/ CreateLatest(c) \/ CreateInsert(c) \/ CreateConflict(c)
  \/ CreatePublish(c) \/ CreateRefs(c)

-----------------------------------------------------------------------------
(* ImportSchema, and the service's advance of the sequence after it.       *)

ImportID(c) ==
  /\ pc[c] = "importID"
  /\ LET id == req[c].id
     IN \/ id \notin DOMAIN schemas /\ Continue(c, "importVersion") /\ Unmoved
        \/ /\ id \in DOMAIN schemas /\ schemas[id] = req[c].fp
           /\ Keep(c, "importVersion", [loc[c] EXCEPT !.fp = req[c].fp]) /\ Unmoved
        \/ id \in DOMAIN schemas /\ schemas[id] # req[c].fp /\ End(c)
  /\ Quiet

ImportVersion(c) ==
  /\ pc[c] = "importVersion"
  /\ IF req[c].version \in DOMAIN versions[req[c].subject] THEN End(c)
     ELSE Continue(c, "importClaim") /\ Unmoved
  /\ Quiet

\* The fingerprint is claimed for the imported ID; that another ID has it
\* already is not an error.
ImportClaim(c) ==
  /\ pc[c] = "importClaim"
  /\ fingerprints' = IF req[c].fp \in DOMAIN fingerprints THEN fingerprints
                     ELSE Put(fingerprints, req[c].fp, req[c].id)
  /\ Continue(c, IF loc[c].fp = NoContent THEN "importWrite" ELSE "importLatest")
  /\ Unmoved
  /\ UNCHANGED <<allocVars, schemas, versions, latest, schemaReferences,
                 referencesByTarget, settings>>

ImportWrite(c) ==
  /\ pc[c] = "importWrite"
  /\ schemas' = Put(schemas, req[c].id, req[c].fp)
  /\ Continue(c, "importLatest") /\ Unmoved
  /\ UNCHANGED <<allocVars, fingerprints, versions, latest, schemaReferences,
                 referencesByTarget, settings>>

ImportLatest(c) ==
  /\ pc[c] = "importLatest"
  /\ Keep(c, "importBatch", [loc[c] EXCEPT !.seen = latest[req[c].subject]])
  /\ Unmoved /\ Quiet

\* A logged batch without conditions: whatever the row was, it is now this one.
ImportBatch(c) ==
  /\ pc[c] = "importBatch"
  /\ LET s == req[c].subject
         v == req[c].version
         id == req[c].id
     IN /\ versions' = [versions EXCEPT ![s] =
             Put(@, v, [id |-> id, deleted |-> FALSE, meta |-> NoMeta])]
        /\ latest' = IF v > loc[c].seen.version
                     THEN [latest EXCEPT ![s] = [version |-> v, id |-> id]] ELSE latest
        /\ AddReferences(id, s, v, req[c].fp)
  /\ Continue(c, "advance") /\ Unmoved
  /\ UNCHANGED <<allocVars, schemas, fingerprints, settings>>

GetMaxSchemaID == IF DOMAIN schemas = {} THEN 0
                  ELSE CHOOSE i \in DOMAIN schemas : \A j \in DOMAIN schemas : j <= i

\* RegisterSchemaWithID reads the highest ID and sets the sequence beyond it.
ImportAdvance(c) ==
  /\ pc[c] = "advance"
  /\ LET id == req[c].id
     IN \/ CallSetNextID(c, (IF GetMaxSchemaID > id THEN GetMaxSchemaID ELSE id) + 1)
        \/ "swallow" \in Faults /\ CallSetNextID(c, id + 1)
  /\ Continue(c, "setNext") /\ Unmoved /\ UNCHANGED tableVars

ImportReturn(c) ==
  /\ pc[c] = "setNext"
  /\ \/ At(c, "idle") /\ Answer(c, req[c].version, req[c].id) /\ UNCHANGED allocVars
     \/ At(c, "failed") /\ Collect(c) /\ End(c)
  /\ UNCHANGED tableVars

ImportStep(c) ==
  \/ ImportID(c) \/ ImportVersion(c) \/ ImportClaim(c) \/ ImportWrite(c)
  \/ ImportLatest(c) \/ ImportBatch(c) \/ ImportAdvance(c) \/ ImportReturn(c)

-----------------------------------------------------------------------------
(* DeleteSchema and DeleteSubject                                          *)

DeleteRead(c) ==
  /\ pc[c] = "deleteRead"
  /\ LET s == req[c].subject
         v == loc[c].version
     IN IF v \notin DOMAIN versions[s] \/ (req[c].permanent /\ v \in Live(s)) THEN End(c)
        ELSE /\ Keep(c, IF req[c].permanent THEN "unindex" ELSE "mark",
                     [loc[c] EXCEPT !.id = versions[s][v].id])
             /\ Unmoved
  /\ Quiet

\* UPDATE ... SET deleted = true makes a row of nulls when there is none.
Marked(s, V) ==
  [v \in DOMAIN versions[s] \cup V |->
     IF v \notin V THEN versions[s][v]
     ELSE IF v \in DOMAIN versions[s] THEN [versions[s][v] EXCEPT !.deleted = TRUE]
     ELSE [id |-> 0, deleted |-> TRUE, meta |-> NoMeta]]

MarkDeleted(c) ==
  /\ pc[c] = "mark"
  /\ LET s == req[c].subject
     IN versions' = [versions EXCEPT ![s] =
          Marked(s, IF req[c].op = "deleteSubject" THEN loc[c].todo ELSE {loc[c].version})]
  /\ End(c)
  /\ UNCHANGED <<allocVars, schemas, fingerprints, latest, schemaReferences,
                 referencesByTarget, settings>>

\* Mutant: the DELETE names the target only, not the referring version.
DeleteUnindexAll(c) ==
  /\ pc[c] = "unindex"
  /\ referencesByTarget' = {q \in referencesByTarget : <<loc[c].id, q[1]>> \notin schemaReferences}
  /\ Continue(c, "deleteRow") /\ Unmoved
  /\ UNCHANGED <<allocVars, schemas, fingerprints, versions, latest, schemaReferences, settings>>

\* cleanupReferencesByTarget
DeleteUnindex(c) ==
  /\ pc[c] = "unindex"
  /\ referencesByTarget' = referencesByTarget \
       {<<r[2], <<req[c].subject, loc[c].version>>>> : r \in {q \in schemaReferences : q[1] = loc[c].id}}
  /\ Continue(c, "deleteRow") /\ Unmoved
  /\ UNCHANGED <<allocVars, schemas, fingerprints, versions, latest, schemaReferences, settings>>

DeleteRow(c) ==
  /\ pc[c] = "deleteRow"
  /\ versions' = [versions EXCEPT ![req[c].subject] = Drop(@, loc[c].version)]
  /\ Continue(c, "orphan") /\ Unmoved
  /\ UNCHANGED <<allocVars, schemas, fingerprints, latest, schemaReferences,
                 referencesByTarget, settings>>

\* The version is gone; a subject delete goes on with the next one.
NextVersion(c) ==
  IF req[c].op = "deleteVersion" THEN End(c)
  ELSE /\ Unmoved
       /\ LET todo == loc[c].todo \ {loc[c].version}
          IN IF todo = {} THEN Keep(c, "dropLatest", NoLocals)
             ELSE Keep(c, "deleteRead", [NoLocals EXCEPT !.todo = todo, !.version = MinOf(todo)])

\* cleanupOrphanedSchema: is any version left that names the ID?  If not, read
\* its fingerprint before the row goes.
DeleteOrphan(c) ==
  /\ pc[c] = "orphan"
  /\ LET id == loc[c].id
     IN \/ /\ \E s \in Subjects : \E v \in DOMAIN versions[s] : versions[s][v].id = id
           /\ NextVersion(c)
        \/ /\ \A s \in Subjects : \A v \in DOMAIN versions[s] : versions[s][v].id # id
           /\ Keep(c, "dropSchema", [loc[c] EXCEPT !.fp =
                     IF id \in DOMAIN schemas THEN schemas[id] ELSE NoContent])
           /\ Unmoved
  /\ Quiet

DropSchema(c) ==
  /\ pc[c] = "dropSchema"
  /\ schemas' = Drop(schemas, loc[c].id)
  /\ Continue(c, "dropRefs") /\ Unmoved
  /\ UNCHANGED <<allocVars, fingerprints, versions, latest, schemaReferences,
                 referencesByTarget, settings>>

DropRefs(c) ==
  /\ pc[c] = "dropRefs"
  /\ schemaReferences' = {r \in schemaReferences : r[1] # loc[c].id}
  /\ IF loc[c].fp = NoContent THEN NextVersion(c) ELSE Continue(c, "others") /\ Unmoved
  /\ UNCHANGED <<allocVars, schemas, fingerprints, versions, latest, referencesByTarget, settings>>

\* The fingerprint stays while another ID has the same content.
DeleteOthers(c) ==
  /\ pc[c] = "others"
  /\ IF \E i \in DOMAIN schemas : schemas[i] = loc[c].fp THEN NextVersion(c)
     ELSE Continue(c, "dropFingerprint") /\ Unmoved
  /\ Quiet

DropFingerprint(c) ==
  /\ pc[c] = "dropFingerprint"
  /\ fingerprints' = Drop(fingerprints, loc[c].fp)
  /\ NextVersion(c)
  /\ UNCHANGED <<allocVars, schemas, versions, latest, schemaReferences,
                 referencesByTarget, settings>>

SubjectRead(c) ==
  /\ pc[c] = "subjectRead"
  /\ LET s == req[c].subject
         V == IF req[c].permanent THEN DOMAIN versions[s] ELSE Live(s)
     IN IF V = {} \/ (req[c].permanent /\ Live(s) # {}) THEN End(c)
        ELSE /\ Keep(c, IF req[c].permanent THEN "deleteRead" ELSE "mark",
                     [loc[c] EXCEPT !.todo = V, !.version = IF req[c].permanent THEN MinOf(V) ELSE 0])
             /\ Unmoved
  /\ Quiet

DropLatest(c) ==
  /\ pc[c] = "dropLatest"
  /\ latest' = [latest EXCEPT ![req[c].subject] = NoLatest]
  /\ Continue(c, "dropConfig") /\ Unmoved
  /\ UNCHANGED <<allocVars, schemas, fingerprints, versions, schemaReferences,
                 referencesByTarget, settings>>

\* The configuration goes with its subject.  The mode stays: it is stored under
\* "subject:" and the name, and deleted under the name.
DropSettings(c) ==
  /\ UNCHANGED <<allocVars, schemas, fingerprints, versions, latest, schemaReferences,
                 referencesByTarget>>
  /\ \/ /\ pc[c] = "dropConfig" /\ settings' = settings \ {<<req[c].subject, "subject_configs">>}
        /\ Continue(c, "dropMode") /\ Unmoved
     \/ /\ pc[c] = "dropMode" /\ UNCHANGED settings
        /\ End(c)

\* SetConfig, SetMode, and the deletes of both.
WriteConfig(subject) ==
  settings' \in {settings \cup {<<subject, "subject_configs">>}, settings \ {<<subject, "subject_configs">>}}
WriteMode(subject) ==
  settings' \in {settings \cup {<<subject, "modes">>}, settings \ {<<subject, "modes">>}}

PutSetting(c) ==
  /\ pc[c] = "setting"
  /\ IF req[c].table = "modes" THEN WriteMode(req[c].subject) ELSE WriteConfig(req[c].subject)
  /\ End(c)
  /\ UNCHANGED <<allocVars, schemas, fingerprints, versions, latest, schemaReferences,
                 referencesByTarget>>

DeleteStep(c) ==
  \/ DeleteRead(c) \/ MarkDeleted(c) \/ DeleteUnindex(c) \/ DeleteRow(c) \/ DeleteOrphan(c)
  \/ DropSchema(c) \/ DropRefs(c) \/ DeleteOthers(c) \/ DropFingerprint(c)
  \/ SubjectRead(c) \/ DropLatest(c) \/ DropSettings(c) \/ PutSetting(c)

-----------------------------------------------------------------------------
(* Faults                                                                  *)

\* A query fails and the call returns the error.  A write that fails after it
\* took effect is its own step followed by this one.
Abort(c) ==
  /\ "abort" \in Faults
  /\ pc[c] \notin {"idle", "alloc", "setNext"}
  /\ End(c) /\ Quiet

\* A query of the allocator fails.
AllocAbort(c) ==
  /\ "abort" \in Faults /\ AllocError(c)
  /\ UNCHANGED <<tableVars, pc, req, loc, promised>>

\* A query fails and the call goes on: the duplicate check is skipped, and a
\* version whose references cannot be read counts as unreferenced.
Swallow(c) ==
  /\ "swallow" \in Faults /\ Quiet
  /\ \/ pc[c] = "find" /\ Continue(c, "latest") /\ Unmoved
     \/ pc[c] = "conflict" /\ Again(c)
     \/ pc[c] = "importClaim" /\ Unmoved
        /\ Continue(c, IF loc[c].fp = NoContent THEN "importWrite" ELSE "importLatest")
     \/ pc[c] = "unindex" /\ Continue(c, "deleteRow") /\ Unmoved
     \/ /\ pc[c] = "orphan" /\ Unmoved
        /\ \E fp \in {NoContent} \cup {schemas[i] : i \in DOMAIN schemas \cap {loc[c].id}} :
              Keep(c, "dropSchema", [loc[c] EXCEPT !.fp = fp])
     \/ pc[c] = "dropSchema" /\ Continue(c, "dropRefs") /\ Unmoved
     \/ pc[c] = "dropRefs" /\ IF loc[c].fp = NoContent THEN NextVersion(c)
                              ELSE Continue(c, "others") /\ Unmoved
     \/ pc[c] = "others" /\ Continue(c, "dropFingerprint") /\ Unmoved
     \/ pc[c] = "dropFingerprint" /\ NextVersion(c)
     \/ pc[c] = "dropLatest" /\ Continue(c, "dropConfig") /\ Unmoved
     \/ pc[c] = "dropConfig" /\ Continue(c, "dropMode") /\ Unmoved
     \/ pc[c] = "dropMode" /\ End(c)

\* An instance stops and starts again; the tables stay.
RestartInstance(i) ==
  /\ "restart" \in Faults /\ (turns => Idle)
  /\ Restart(i)
  /\ pc' = [c \in Clients |-> IF Home[c] = i THEN "idle" ELSE pc[c]]
  /\ req' = [c \in Clients |-> IF Home[c] = i THEN NoRequest ELSE req[c]]
  /\ loc' = [c \in Clients |-> IF Home[c] = i THEN NoLocals ELSE loc[c]]
  /\ UNCHANGED <<tableVars, promised>>

-----------------------------------------------------------------------------
Allocate(c) == AllocStep(c) /\ UNCHANGED <<tableVars, pc, req, loc, promised>>

Step(c) == CreateStep(c) \/ ImportStep(c) \/ DeleteStep(c) \/ Allocate(c)

Next ==
  /\ \/ \E c \in Clients : \/ \E r \in Requests : Begin(c, r)
                           \/ Step(c) \/ Abort(c) \/ AllocAbort(c) \/ Swallow(c)
     \/ \E i \in Instances : RestartInstance(i)
  /\ UNCHANGED turns

\* Every query returns, and the allocator's mutex is handed on (IDAllocator).
Fairness ==
  \A c \in Clients : WF_vars(Step(c)) /\ SF_vars(Allocate(c))

Spec == Init /\ [][Next]_<<vars, turns>> /\ Fairness

-----------------------------------------------------------------------------
(* The read paths, each over the tables it queries.  A lookup that finds   *)
(* nothing is the empty set.                                               *)

MaxOf(V) == CHOOSE v \in V : \A w \in V : v >= w
NoVersion == <<>>

\* Every record of a version is the version row over the content of its ID.
Record(s, v) ==
  LET row == versions[s][v]
  IN [id |-> row.id, fp |-> schemas[row.id], at |-> <<s, v>>, deleted |-> row.deleted,
      meta |-> row.meta, refs |-> {r[2] : r \in {q \in schemaReferences : q[1] = row.id}}]
Readable(s, V) == {Record(s, v) : v \in {w \in V : versions[s][w].id \in DOMAIN schemas}}

\* The version rows that name an ID, by the index on schema_id.
GetVersionsBySchemaID(id, includeDeleted) ==
  IF id \notin DOMAIN schemas THEN {}
  ELSE UNION {{<<s, v>> : v \in {w \in DOMAIN versions[s] :
                 versions[s][w].id = id /\ (includeDeleted \/ w \in Live(s))}} : s \in Subjects}

GetSubjectsBySchemaID(id, includeDeleted) == {k[1] : k \in GetVersionsBySchemaID(id, includeDeleted)}

\* The content of an ID with its references, shown at any one live version of it.
GetSchemaByID(id) ==
  LET at == GetVersionsBySchemaID(id, FALSE)
  IN IF id \notin DOMAIN schemas THEN {}
     ELSE {[id |-> id, fp |-> schemas[id], at |-> k,
            refs |-> {r[2] : r \in {q \in schemaReferences : q[1] = id}}] :
             k \in IF at = {} THEN {NoVersion} ELSE at}

\* subject_latest has to know the subject; the answer is the highest live version.
GetLatestSchema(s) ==
  IF latest[s] = NoLatest \/ Live(s) = {} THEN {} ELSE Readable(s, {MaxOf(Live(s))})

\* Version -1 is the latest one.
GetSchemaBySubjectVersion(s, v) ==
  IF v = -1 THEN GetLatestSchema(s) ELSE Readable(s, {v} \cap Live(s))

\* A version whose content is missing is left out of the answer.
GetSchemasBySubject(s, includeDeleted) ==
  Readable(s, IF includeDeleted THEN DOMAIN versions[s] ELSE Live(s))

\* The ID a content is claimed for, if that ID has content.
GetSchemaByGlobalFingerprint(fp) ==
  {fingerprints[q] : q \in {fp} \cap DOMAIN fingerprints} \cap DOMAIN schemas

\* The first version of the subject with that ID.
GetSchemaByFingerprint(s, fp, includeDeleted) ==
  LET V == {v \in DOMAIN versions[s] : /\ versions[s][v].id \in GetSchemaByGlobalFingerprint(fp)
                                       /\ includeDeleted \/ v \in Live(s)}
  IN IF V = {} THEN {} ELSE Readable(s, {MinOf(V)})

ListSubjects(includeDeleted) ==
  {s \in Subjects : latest[s] # NoLatest /\ (includeDeleted \/ Live(s) # {})}
SubjectExists(s) == latest[s] # NoLatest /\ Live(s) # {}

\* The index of references, without the referring versions that are deleted.
GetReferencedBy(s, v) ==
  {k \in Subjects \X UNION {Live(w) : w \in Subjects} :
     k[2] \in Live(k[1]) /\ <<<<s, v>>, k>> \in referencesByTarget}

\* Prefix, offset and limit select from this.
ListSchemas(latestOnly, includeDeleted) ==
  UNION {IF latestOnly THEN GetLatestSchema(s) ELSE GetSchemasBySubject(s, includeDeleted) :
           s \in ListSubjects(includeDeleted)}

-----------------------------------------------------------------------------
(* Type correctness of the tables and of the calls in progress.            *)
TypeOK ==
  /\ AllocTypeOK
  /\ DOMAIN schemas \subseteq Nat /\ \A i \in DOMAIN schemas : schemas[i] \in Fingerprints
  /\ DOMAIN fingerprints \subseteq Fingerprints
  /\ \A fp \in DOMAIN fingerprints : fingerprints[fp] \in Nat
  /\ \A s \in Subjects : \A v \in DOMAIN versions[s] : v \in Nat /\ versions[s][v] \in Row
  /\ latest \in [Subjects -> Latest]
  /\ schemaReferences \subseteq Nat \X SubjectVersion
  /\ referencesByTarget \subseteq SubjectVersion \X SubjectVersion
  /\ settings \subseteq Subjects \X {"subject_configs", "modes"}
  /\ \A c \in Clients : req[c] \in Requests \cup {NoRequest}
  /\ \A c \in Clients : loc[c] \in Locals

\* Registrations alone give a content one ID: the fingerprint claimed for a
\* stored content names the ID it is stored under, though claims and writes of
\* several instances interleave, fail half way and are taken up by others.
OneIDPerContent ==
  \A i \in DOMAIN schemas :
     schemas[i] \in DOMAIN fingerprints /\ fingerprints[schemas[i]] = i

\* A version row never names an ID without content, so every version listed
\* can be read.
NoDanglingVersion ==
  \A s \in Subjects : \A v \in DOMAIN versions[s] :
     versions[s][v].id # 0 => versions[s][v].id \in DOMAIN schemas

\* An ID that was answered stands for the content it was answered for.
PromiseKept ==
  \A p \in promised : p.id \in DOMAIN schemas => schemas[p.id] = p.fp

\* Without permanent deletes, an answered version is there with its ID.
AnswerDurable ==
  \A p \in promised :
     /\ p.version \in DOMAIN versions[p.subject]
     /\ versions[p.subject][p.version].id = p.id

\* The published row names a stored version, and the versions up to it have
\* no gap: versions are inserted one by one above the published one.
PublishedVersions ==
  \A s \in Subjects :
     /\ \A v \in 1..latest[s].version : v \in DOMAIN versions[s]
     /\ latest[s].version # 0 => versions[s][latest[s].version].id = latest[s].id
     /\ \A v \in DOMAIN versions[s] : v <= latest[s].version + 1

\* When no call is in progress, every version is published: a version above
\* subject_latest is one that no later registration can get past.
EveryVersionPublished ==
  Idle => \A s \in Subjects : \A v \in DOMAIN versions[s] : v <= latest[s].version

\* A subject holds a content with the same metadata in one live version only.
NoDuplicateVersion ==
  \A s \in Subjects : \A v, w \in Live(s) :
     versions[s][v].id = versions[s][w].id /\ versions[s][v].meta = versions[s][w].meta => v = w

\* When no call is in progress, content is stored for the IDs in use only, and
\* a claimed fingerprint leads to stored content.
NothingOrphaned ==
  Idle => /\ DOMAIN schemas \subseteq
               UNION {{versions[s][v].id : v \in DOMAIN versions[s]} : s \in Subjects}
          /\ \A fp \in DOMAIN fingerprints : \E i \in DOMAIN schemas : schemas[i] = fp

\* When no call is in progress, the references of an answered version are in
\* the index that protects the versions it refers to from deletion.
ReferencesIndexed ==
  Idle => \A p \in promised :
     p.version \in Live(p.subject) /\ versions[p.subject][p.version].id = p.id
     => \A r \in Refs[p.fp] : <<r, <<p.subject, p.version>>>> \in referencesByTarget

\* The live versions whose content refers to k, by their rows.
ReferringTo(k) ==
  UNION {{r.at : r \in {q \in Readable(s, Live(s)) : k \in Refs[q.fp]}} : s \in Subjects}

\* When no call is in progress, the read paths tell one story, though each asks
\* other tables: every live version is found by its number, its ID, its content
\* (when its ID is the one the content is claimed for) and in the lists, with the
\* references of its content; a subject exists, and is listed, when it has a live
\* version; the latest version is the highest one; and GetReferencedBy names
\* exactly the live versions whose content refers there.
ReadPathsAgree ==
  Idle => \A s \in Subjects :
    /\ SubjectExists(s) <=> GetSchemasBySubject(s, FALSE) # {}
    /\ s \in ListSubjects(FALSE) <=> GetSchemaBySubjectVersion(s, -1) # {}
    /\ GetSchemasBySubject(s, TRUE) \subseteq ListSchemas(FALSE, TRUE)
    /\ \A r \in GetLatestSchema(s) :
          r \in ListSchemas(TRUE, FALSE) /\ \A q \in GetSchemasBySubject(s, FALSE) : q.at[2] <= r.at[2]
    /\ \A v \in DOMAIN versions[s] : GetReferencedBy(s, v) = ReferringTo(<<s, v>>)
    /\ \A v \in Live(s) : \A r \in {Record(s, v)} :
          /\ GetSchemaBySubjectVersion(s, v) = {r} /\ r.refs = Refs[r.fp]
          /\ r \in GetSchemasBySubject(s, FALSE)
          /\ \E q \in GetSchemaByID(r.id) : q.at = r.at /\ q.fp = r.fp
          /\ s \in GetSubjectsBySchemaID(r.id, FALSE)
          /\ r.id \in GetSchemaByGlobalFingerprint(r.fp) => r \in GetSchemaByFingerprint(s, r.fp, FALSE)
    /\ \A r \in GetSchemasBySubject(s, TRUE) : r.deleted =>
          /\ GetSchemaBySubjectVersion(s, r.at[2]) = {} /\ r.at \notin GetVersionsBySchemaID(r.id, FALSE)
          /\ r.at \in GetVersionsBySchemaID(r.id, TRUE)
          /\ r.id \in GetSchemaByGlobalFingerprint(r.fp) => GetSchemaByFingerprint(s, r.fp, TRUE) # {}

\* When callers take turns, the tables agree after each complete operation: no
\* version lies above subject_latest, where no later registration could get past
\* it; a content has one live version in a subject; content goes with its last
\* version; the references of an answered version are in the index that protects
\* the versions they name; no version has lost its content; and the read paths,
\* each over other tables, tell one story.
TablesAgreeInTurn ==
  TypeOK /\ (turns => /\ EveryVersionPublished /\ NoDuplicateVersion /\ NothingOrphaned
                      /\ ReferencesIndexed /\ NoDanglingVersion /\ ReadPathsAgree)

\* Every call comes to an end.
EveryCallEnds == \A c \in Clients : pc[c] # "idle" ~> pc[c] = "idle"

\* What clients were told stays true, without permanent deletes: the version is
\* there with its ID, the ID stands for the content, and subject_latest names a
\* stored version with none missing below it.
AnswersTrue == PromiseKept /\ AnswerDurable /\ PublishedVersions
=============================================================================
