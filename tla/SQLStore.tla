------------------------------ MODULE SQLStore ------------------------------
(***************************************************************************)
(* The tables of one registry context in a relational database, and the    *)
(* statements that internal/storage/postgres/store.go and                  *)
(* internal/storage/mysql/store.go send to it.  Every statement is one     *)
(* step; the statements of the calls in progress interleave.  A            *)
(* registration and an import run in a transaction: what it wrote stays in *)
(* its locals, with the locks that come with it, and reaches the tables    *)
(* at the commit.  Deletes and settings commit statement by statement.     *)
(*                                                                         *)
(* What the two backends do alike is here; PostgresStore and MySQLStore    *)
(* add what they do differently.                                           *)
(***************************************************************************)
EXTENDS Integers, FiniteSets

CONSTANTS Clients,       \* connections to the database, of any instance
          Subjects,      \* subject names
          Fingerprints,  \* distinct schema contents
          Metas,         \* metadata and rule set of a version
          Refs,          \* content -> the subject-versions it references
          Engines,       \* the database products, "postgres" and "mysql"
          Loads,         \* names of the workloads
          Serial,        \* the workloads that make one call at a time
          Calls,         \* workload -> the calls its clients make
          NoRequest,     \* no call in progress
          MaxRetries,    \* schema_max_retries
          MaxVersion,    \* bound: no registration starts above it
          MaxID          \* bound: no registration starts above this next ID

SubjectVersion == Subjects \X Nat

RequestType ==
  [op : {"create"}, subject : Subjects, fp : Fingerprints, meta : Metas]
  \cup [op : {"import"}, subject : Subjects, fp : Fingerprints, id : Nat \ {0},
        version : Nat \ {0}, meta : Metas]
  \cup [op : {"deleteVersion"}, subject : Subjects, version : Nat \ {0}, permanent : BOOLEAN]
  \cup [op : {"deleteSubject"}, subject : Subjects, permanent : BOOLEAN]
  \cup [op : {"set", "unset"}, subject : Subjects, table : {"configs", "modes"}]

Requests == UNION {Calls[l] : l \in Loads}

ASSUME SQLAssumption ==
  /\ Engines \subseteq {"postgres", "mysql"}
  /\ Serial \subseteq Loads
  /\ Refs \in [Fingerprints -> SUBSET SubjectVersion]
  /\ \A l \in Loads : Calls[l] \subseteq RequestType
  /\ NoRequest \notin RequestType
  /\ MaxRetries \in Nat \ {0} /\ MaxVersion \in Nat /\ MaxID \in Nat

VARIABLES engine, load,   \* the deployment: chosen at the start, never changed
          schemas,        \* schemas: <<subject, version>> -> row
          fingerprints,   \* schema_fingerprints: content -> ID
          references,     \* schema_references: <<ID, referenced version>>
          nextId,         \* ctx_id_alloc
          settings,       \* configs and modes: <<subject, table>>
          pc, req, loc,   \* the call each client is in
          promised        \* the versions that registrations answered

tableVars == <<schemas, fingerprints, references, nextId, settings>>
vars == <<engine, load, tableVars, pc, req, loc, promised>>

\* version: the version in hand; purge: the soft-deleted versions the
\* transaction removes; alloc: the next ID it read under the lock of the
\* allocator row; id: the schema ID in hand; claimed: it inserted the mapping
\* content -> ID; attempt: retries so far; todo: contents to clean up after.
Locals == [version : Nat, purge : SUBSET Nat, alloc : Nat, id : Nat,
           claimed : BOOLEAN, attempt : Nat, todo : SUBSET Fingerprints]
NoLocals == [version |-> 0, purge |-> {}, alloc |-> 0, id |-> 0,
             claimed |-> FALSE, attempt |-> 0, todo |-> {}]

EmptyTable == [j \in {} |-> 0]
Put(f, k, x) == [j \in DOMAIN f \cup {k} |-> IF j = k THEN x ELSE f[j]]
Without(f, K) == [j \in DOMAIN f \ K |-> f[j]]

Init ==
  /\ engine \in Engines /\ load \in Loads
  /\ schemas = EmptyTable /\ fingerprints = EmptyTable
  /\ references = {} /\ nextId = 1 /\ settings = {}
  /\ pc = [c \in Clients |-> "idle"]
  /\ req = [c \in Clients |-> NoRequest]
  /\ loc = [c \in Clients |-> NoLocals]
  /\ promised = {}

-----------------------------------------------------------------------------
VersionsOf(s) == {k[2] : k \in {j \in DOMAIN schemas : j[1] = s}}
Live(s) == {v \in VersionsOf(s) : ~schemas[<<s, v>>].deleted}
RowsOf(fp) == {k \in DOMAIN schemas : schemas[k].fp = fp}
Highest(N) == IF N = {} THEN 0 ELSE CHOOSE n \in N : \A m \in N : m <= n
IDsInUse == {fingerprints[fp] : fp \in DOMAIN fingerprints}
Larger(a, b) == IF a > b THEN a ELSE b

Goto(c, label) == pc' = [pc EXCEPT ![c] = label]
Keep(c, label, l) == Goto(c, label) /\ loc' = [loc EXCEPT ![c] = l]
Continue(c, label) == Goto(c, label) /\ UNCHANGED loc
Finish(c) ==
  /\ Goto(c, "idle")
  /\ req' = [req EXCEPT ![c] = NoRequest]
  /\ loc' = [loc EXCEPT ![c] = NoLocals]

Deployed == UNCHANGED <<engine, load>>
Unmoved == Deployed /\ UNCHANGED <<req, promised>>

\* A call ends without a version: an error, with the transaction rolled back,
\* or a delete, an import or a setting that is done.
End(c) == Finish(c) /\ Deployed /\ UNCHANGED promised

\* A registration answers: a new version, or the existing one.
Answer(c, v, id) ==
  /\ Finish(c) /\ Deployed
  /\ promised' = promised \cup
       {[subject |-> req[c].subject, version |-> v, id |-> id,
         fp |-> req[c].fp, meta |-> req[c].meta]}

-----------------------------------------------------------------------------
(* Locks.  A transaction holds the rows it inserted or removed, the        *)
(* allocator row from the moment it read it for update, and the mapping it *)
(* claimed; in MySQL it first shares the allocator row (the insert that is *)
(* ignored).                                                               *)
Inserted(c) ==
  IF pc[c] \in {"allocShared", "alloc", "claim", "resolve", "commit",
                "importClaim", "importAdvance", "importCommit"}
  THEN {<<req[c].subject, loc[c].version>>} ELSE {}

Removed(c) == IF loc[c].purge = {} THEN {} ELSE {req[c].subject} \X loc[c].purge

RowFree(c, k) == \A d \in Clients \ {c} : k \notin Inserted(d) \cup Removed(d)
SharedAlloc(d) == engine = "mysql" /\ pc[d] = "alloc"
AllocReadable(c) == \A d \in Clients \ {c} : loc[d].alloc = 0
AllocFree(c) == AllocReadable(c) /\ \A d \in Clients \ {c} : ~SharedAlloc(d)
MappingFree(c, fp) == \A d \in Clients \ {c} : loc[d].claimed => req[d].fp # fp

-----------------------------------------------------------------------------
(* Calls.                                                                  *)
FirstStep(r) ==
  CASE r.op = "create" -> "max"
    [] r.op = "import" -> "importID"
    [] r.op = "deleteVersion" -> IF r.permanent THEN "check" ELSE "softVersion"
    [] r.op = "deleteSubject" -> IF r.permanent THEN "countAll" ELSE "softRead"
    [] r.op \in {"set", "unset"} -> "setting"

Begin(c, r) ==
  /\ pc[c] = "idle"
  /\ load \in Serial => \A d \in Clients : pc[d] = "idle"
  /\ r.op = "create" => nextId <= MaxID /\ Highest(VersionsOf(r.subject)) < MaxVersion
  /\ Goto(c, FirstStep(r))
  /\ req' = [req EXCEPT ![c] = r]
  /\ loc' = [loc EXCEPT ![c].version = IF r.op \in {"import", "deleteVersion"} THEN r.version ELSE 0]
  /\ UNCHANGED <<tableVars, promised>> /\ Deployed

-----------------------------------------------------------------------------
(* The statements of createSchemaAttempt.                                  *)

\* Mutant: an attempt is repeated without counting.
AgainForever(c) == Keep(c, "max", NoLocals) /\ Unmoved

\* A unique violation, a serialization failure or a deadlock: the transaction
\* is rolled back and the attempt repeated, up to schema_max_retries times.
Again(c) ==
  IF loc[c].attempt + 1 < MaxRetries
  THEN Keep(c, "max", [NoLocals EXCEPT !.attempt = loc[c].attempt + 1]) /\ Unmoved
  ELSE End(c)

SelectMax(s) == Highest(VersionsOf(s)) + 1

\* The rows with the same content: a live one with the same metadata and rule
\* set is the answer; soft-deleted ones are removed before the insert.
SelectContent(c, v) ==
  LET r == req[c]
      same == {w \in VersionsOf(r.subject) : schemas[<<r.subject, w>>].fp = r.fp}
      full == {w \in same \cap Live(r.subject) : schemas[<<r.subject, w>>].meta = r.meta}
  IN \/ \E w \in full : Keep(c, "duplicate", [loc[c] EXCEPT !.version = w])
     \/ /\ full = {}
        /\ Keep(c, IF same \subseteq Live(r.subject) THEN "insert" ELSE "purge",
                [loc[c] EXCEPT !.version = v])

\* ErrSchemaExists carries the ID of the content; without a mapping the call fails.
Duplicate(c) ==
  /\ pc[c] = "duplicate" /\ UNCHANGED tableVars
  /\ IF req[c].fp \in DOMAIN fingerprints
     THEN Answer(c, loc[c].version, fingerprints[req[c].fp])
     ELSE End(c)

\* The delete waits for a transaction that deletes the same rows.
Purge(c) ==
  LET s == req[c].subject
      old == {v \in VersionsOf(s) \ Live(s) : schemas[<<s, v>>].fp = req[c].fp}
  IN /\ pc[c] = "purge" /\ UNCHANGED tableVars /\ Unmoved
     /\ \A v \in old : RowFree(c, <<s, v>>)
     /\ Keep(c, "insert", [loc[c] EXCEPT !.purge = old])

\* The unique index on (subject, version) refuses a version that exists; an
\* insert waits for the transaction that has just inserted the same version.
Insert(c, next) ==
  LET k == <<req[c].subject, loc[c].version>> IN
  /\ pc[c] = "insert" /\ RowFree(c, k) /\ UNCHANGED tableVars
  /\ IF k \in DOMAIN schemas /\ loc[c].version \notin loc[c].purge
     THEN Again(c)
     ELSE Continue(c, next) /\ Unmoved

\* The next ID, under the exclusive lock of the allocator row.
Allocate(c) ==
  /\ pc[c] = "alloc" /\ AllocFree(c) /\ UNCHANGED tableVars /\ Unmoved
  /\ Keep(c, "claim", [loc[c] EXCEPT !.alloc = nextId])

\* First writer wins.  Where the ID is taken by another content the insert
\* fails, and its error is ignored.
Claim(c) ==
  /\ pc[c] = "claim" /\ MappingFree(c, req[c].fp) /\ UNCHANGED tableVars /\ Unmoved
  /\ Keep(c, "resolve", [loc[c] EXCEPT !.claimed =
       req[c].fp \notin DOMAIN fingerprints /\ loc[c].alloc \notin IDsInUse])

\* Mutant: the ID of the registration is the one allocated for it.
ResolveAllocated(c) ==
  /\ pc[c] = "resolve" /\ UNCHANGED tableVars /\ Unmoved
  /\ Keep(c, "commit", [loc[c] EXCEPT !.id = loc[c].alloc])

\* The ID that stands in the mapping; without one the call fails.
Resolve(c) ==
  /\ pc[c] = "resolve" /\ UNCHANGED tableVars
  /\ \/ /\ loc[c].claimed
        /\ Keep(c, "commit", [loc[c] EXCEPT !.id = loc[c].alloc]) /\ Unmoved
     \/ /\ ~loc[c].claimed /\ req[c].fp \in DOMAIN fingerprints
        /\ Keep(c, "commit", [loc[c] EXCEPT !.id = fingerprints[req[c].fp]]) /\ Unmoved
     \/ ~loc[c].claimed /\ req[c].fp \notin DOMAIN fingerprints /\ End(c)

NewRow(c) == [fp |-> req[c].fp, meta |-> req[c].meta, deleted |-> FALSE]
WithReferences(c, id) ==
  IF \E r \in references : r[1] = id THEN references
  ELSE references \cup ({id} \X Refs[req[c].fp])

\* The references, if the ID has none yet, and the commit of all that.
Commit(c) ==
  LET s == req[c].subject IN
  /\ pc[c] = "commit"
  /\ schemas' = Put(Without(schemas, {s} \X loc[c].purge), <<s, loc[c].version>>, NewRow(c))
  /\ fingerprints' = IF loc[c].claimed THEN Put(fingerprints, req[c].fp, loc[c].id) ELSE fingerprints
  /\ references' = WithReferences(c, loc[c].id)
  /\ nextId' = loc[c].alloc + 1
  /\ UNCHANGED settings
  /\ Answer(c, loc[c].version, loc[c].id)

-----------------------------------------------------------------------------
(* The statements of ImportSchema, and SetNextID after it.                 *)

\* An ID that stands for another content is refused.
ImportSelectID(c, next) ==
  /\ UNCHANGED tableVars
  /\ IF \E fp \in DOMAIN fingerprints \ {req[c].fp} : fingerprints[fp] = req[c].id
     THEN End(c)
     ELSE Keep(c, next, [loc[c] EXCEPT !.id = IF req[c].id \in IDsInUse THEN req[c].id ELSE 0])
          /\ Unmoved

ImportSelectVersion(c) ==
  /\ UNCHANGED tableVars
  /\ IF <<req[c].subject, req[c].version>> \in DOMAIN schemas
     THEN End(c) ELSE Continue(c, "importInsert") /\ Unmoved

\* The version, and no mapping where the ID was there already.
ImportInsert(c) ==
  LET k == <<req[c].subject, req[c].version>> IN
  /\ pc[c] = "importInsert" /\ RowFree(c, k) /\ UNCHANGED tableVars
  /\ IF k \in DOMAIN schemas THEN End(c)
     ELSE Continue(c, IF loc[c].id # 0 THEN "importCommit" ELSE "importClaim") /\ Unmoved

\* The mapping, unless the content has one under another ID or the ID has been
\* taken since it was looked up.
ImportClaim(c) ==
  /\ pc[c] = "importClaim" /\ MappingFree(c, req[c].fp) /\ UNCHANGED tableVars /\ Unmoved
  /\ Keep(c, "importAdvance", [loc[c] EXCEPT !.claimed =
       req[c].fp \notin DOMAIN fingerprints /\ req[c].id \notin IDsInUse])

\* next_id = GREATEST(next_id, id + 1).
ImportAdvance(c) ==
  /\ pc[c] = "importAdvance" /\ AllocFree(c) /\ UNCHANGED tableVars /\ Unmoved
  /\ Keep(c, "importCommit", [loc[c] EXCEPT !.alloc = Larger(nextId, req[c].id + 1)])

ImportCommit(c) ==
  /\ pc[c] = "importCommit"
  /\ schemas' = Put(schemas, <<req[c].subject, req[c].version>>, NewRow(c))
  /\ fingerprints' = IF loc[c].claimed THEN Put(fingerprints, req[c].fp, req[c].id) ELSE fingerprints
  /\ references' = WithReferences(c, req[c].id)
  /\ nextId' = IF loc[c].alloc = 0 THEN nextId ELSE loc[c].alloc
  /\ UNCHANGED settings
  /\ Keep(c, "importMax", [NoLocals EXCEPT !.id = req[c].id]) /\ Unmoved

\* The service: the highest ID stored or imported, and the sequence after it.
GetMaxSchemaID == Highest(IDsInUse)

ImportMax(c) ==
  /\ pc[c] = "importMax" /\ UNCHANGED tableVars /\ Unmoved
  /\ Keep(c, "setNextID", [loc[c] EXCEPT !.id = Larger(req[c].id, GetMaxSchemaID) + 1])

SetNextID(c) ==
  /\ pc[c] = "setNextID" /\ AllocFree(c)
  /\ nextId' = loc[c].id
  /\ UNCHANGED <<schemas, fingerprints, references, settings>>
  /\ End(c)

-----------------------------------------------------------------------------
(* The statements of the deletes.                                          *)
SoftDeleted(K) == [k \in DOMAIN schemas |->
                    IF k \in K THEN [schemas[k] EXCEPT !.deleted = TRUE] ELSE schemas[k]]
OnlySchemas == UNCHANGED <<fingerprints, references, nextId, settings>>

SoftVersion(c) ==
  /\ pc[c] = "softVersion"
  /\ schemas' = SoftDeleted({<<req[c].subject, req[c].version>>})
  /\ OnlySchemas /\ End(c)

\* Only a soft-deleted version may be deleted permanently.
CheckVersion(c) ==
  LET k == <<req[c].subject, req[c].version>> IN
  /\ pc[c] = "check" /\ UNCHANGED tableVars
  /\ IF k \in DOMAIN schemas /\ schemas[k].deleted
     THEN Keep(c, "deleteRow", [loc[c] EXCEPT !.todo = {schemas[k].fp}]) /\ Unmoved
     ELSE End(c)

DeleteRow(c) ==
  /\ pc[c] = "deleteRow"
  /\ schemas' = Without(schemas, {<<req[c].subject, req[c].version>>})
  /\ OnlySchemas /\ Unmoved /\ Continue(c, "cleanup")

\* A soft delete of a subject with no live version is refused.
SoftRead(c) ==
  /\ pc[c] = "softRead" /\ UNCHANGED tableVars
  /\ IF Live(req[c].subject) = {} THEN End(c) ELSE Continue(c, "softSubject") /\ Unmoved

SoftSubject(c) ==
  /\ pc[c] = "softSubject"
  /\ schemas' = SoftDeleted({req[c].subject} \X VersionsOf(req[c].subject))
  /\ OnlySchemas /\ End(c)

\* Only a subject whose versions are all soft-deleted may be deleted permanently.
CountAll(c) ==
  LET s == req[c].subject IN
  /\ pc[c] = "countAll" /\ UNCHANGED tableVars
  /\ IF VersionsOf(s) # {} /\ Live(s) = {} THEN Continue(c, "readAll") /\ Unmoved ELSE End(c)

ReadAll(c) ==
  LET s == req[c].subject IN
  /\ pc[c] = "readAll" /\ UNCHANGED tableVars /\ Unmoved
  /\ Keep(c, "deleteRows", [loc[c] EXCEPT !.todo = {schemas[<<s, v>>].fp : v \in VersionsOf(s)}])

DeleteRows(c) ==
  /\ pc[c] = "deleteRows"
  /\ schemas' = Without(schemas, {req[c].subject} \X VersionsOf(req[c].subject))
  /\ OnlySchemas /\ Unmoved /\ Continue(c, "dropConfig")

DropSettings(c) ==
  /\ \/ pc[c] = "dropConfig" /\ Continue(c, "dropMode")
        /\ settings' = settings \ {<<req[c].subject, "configs">>}
     \/ pc[c] = "dropMode" /\ Continue(c, "cleanup")
        /\ settings' = settings \ {<<req[c].subject, "modes">>}
  /\ UNCHANGED <<schemas, fingerprints, references, nextId>> /\ Unmoved

\* cleanupOrphanedFingerprint for each content: the rows are counted, the ID
\* is read, and references and mapping go.
CurrentContent(c) == CHOOSE fp \in loc[c].todo : TRUE
NextContent(c) ==
  IF loc[c].todo = {CurrentContent(c)} THEN End(c)
  ELSE Keep(c, "cleanup", [loc[c] EXCEPT !.todo = @ \ {CurrentContent(c)}]) /\ Unmoved

\* Mutant: the mapping goes while another subject still has the content.
CleanupCountNothing(c) ==
  /\ pc[c] = "cleanup" /\ UNCHANGED tableVars
  /\ Continue(c, "cleanupID") /\ Unmoved

CleanupCount(c) ==
  /\ pc[c] = "cleanup" /\ UNCHANGED tableVars
  /\ IF RowsOf(CurrentContent(c)) # {} THEN NextContent(c) ELSE Continue(c, "cleanupID") /\ Unmoved

CleanupID(c) ==
  LET fp == CurrentContent(c) IN
  /\ pc[c] = "cleanupID" /\ UNCHANGED tableVars
  /\ IF fp \in DOMAIN fingerprints
     THEN Keep(c, "dropReferences", [loc[c] EXCEPT !.id = fingerprints[fp]]) /\ Unmoved
     ELSE NextContent(c)

DropReferences(c) ==
  /\ pc[c] = "dropReferences"
  /\ references' = {r \in references : r[1] # loc[c].id}
  /\ UNCHANGED <<schemas, fingerprints, nextId, settings>>
  /\ Unmoved /\ Continue(c, "dropMapping")

DropMapping(c) ==
  /\ pc[c] = "dropMapping"
  /\ fingerprints' = Without(fingerprints, {CurrentContent(c)})
  /\ UNCHANGED <<schemas, references, nextId, settings>>
  /\ NextContent(c)

Cleanup(c) == CleanupCount(c) \/ CleanupID(c) \/ DropReferences(c)

-----------------------------------------------------------------------------
(* SetConfig, DeleteConfig, SetMode and DeleteMode: one statement each.    *)
Written(c) ==
  LET k == {<<req[c].subject, req[c].table>>} IN
  settings' = IF req[c].op = "set" THEN settings \cup k ELSE settings \ k

-----------------------------------------------------------------------------
(* What the reads answer.  The ID of a version is that of its content; one *)
(* without a mapping shows the number of its row (NoMapping).              *)
NoMapping == 0
GlobalSchemaID(fp) == IF fp \in DOMAIN fingerprints THEN fingerprints[fp] ELSE NoMapping
LoadReferences(id) == {r[2] : r \in {x \in references : x[1] = id}}

Record(k) == [subject |-> k[1], version |-> k[2], fp |-> schemas[k].fp, meta |-> schemas[k].meta,
              id |-> GlobalSchemaID(schemas[k].fp),
              refs |-> LoadReferences(GlobalSchemaID(schemas[k].fp))]

\* A row, for the ID of its content: a live one if there is one.
ByID(id) ==
  LET all == {k \in DOMAIN schemas : GlobalSchemaID(schemas[k].fp) = id /\ id # NoMapping}
      live == {k \in all : ~schemas[k].deleted}
  IN {Record(k) : k \in IF live # {} THEN live ELSE all}

BySubject(s, includeDeleted) ==
  {Record(<<s, v>>) : v \in IF includeDeleted THEN VersionsOf(s) ELSE Live(s)}
ByContent(s, fp, includeDeleted) == {r \in BySubject(s, includeDeleted) : r.fp = fp}
ByVersion(s, v) == {r \in BySubject(s, FALSE) : r.version = v}
Latest(s) == {r \in BySubject(s, FALSE) : r.version = Highest(Live(s))}
Listed(includeDeleted) == UNION {BySubject(s, includeDeleted) : s \in Subjects}
LatestOnly(R) == {r \in R : \A q \in R : q.subject = r.subject => q.version <= r.version}
UsersOfID(id, includeDeleted) ==
  {<<r.subject, r.version>> : r \in {q \in Listed(includeDeleted) : q.id = id /\ id # NoMapping}}
ReferencedBy(s, v) ==
  {<<r.subject, r.version>> : r \in {q \in Listed(FALSE) : q.id # NoMapping /\ <<s, v>> \in q.refs}}
=============================================================================
