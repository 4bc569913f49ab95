---------------------------- MODULE PostgresStore ----------------------------
(***************************************************************************)
(* The PostgreSQL backend (internal/storage/postgres/store.go).  Its       *)
(* transactions are READ COMMITTED: every statement sees what is committed *)
(* when it starts, and an update or delete ignores uncommitted rows.       *)
(***************************************************************************)
EXTENDS SQLStore

-----------------------------------------------------------------------------
(* CreateSchema.                                                           *)

\* The version comes first, the content check after it, so that the check sees
\* every version the first statement saw.
PgMaxVersion(c) ==
  /\ pc[c] = "max" /\ UNCHANGED tableVars /\ Unmoved
  /\ Keep(c, "content", [loc[c] EXCEPT !.version = SelectMax(req[c].subject)])

PgCheckContent(c) ==
  /\ pc[c] = "content" /\ UNCHANGED tableVars /\ Unmoved
  /\ SelectContent(c, loc[c].version)

\* Mutant: the content is looked up before the version.
PgCreateCheckFirst(c) ==
  \/ /\ pc[c] = "max" /\ UNCHANGED tableVars /\ Unmoved
     /\ SelectContent(c, 0)
  \/ /\ pc[c] = "insert" /\ loc[c].version = 0 /\ UNCHANGED tableVars /\ Unmoved
     /\ Keep(c, "insert", [loc[c] EXCEPT !.version = SelectMax(req[c].subject)])
  \/ Duplicate(c) \/ Purge(c)
  \/ loc[c].version # 0 /\ Insert(c, "alloc")
  \/ Allocate(c) \/ Claim(c) \/ Resolve(c) \/ Commit(c)

\* A claim that fails leaves the transaction aborted: the call fails.
PgClaim(c) ==
  /\ pc[c] = "claim"
  /\ IF req[c].fp \notin DOMAIN fingerprints /\ loc[c].alloc \in IDsInUse
     THEN MappingFree(c, req[c].fp) /\ UNCHANGED tableVars /\ End(c)
     ELSE Claim(c)

PgCreateAttempt(c) ==
  \/ PgMaxVersion(c) \/ PgCheckContent(c) \/ Duplicate(c) \/ Purge(c)
  \/ Insert(c, "alloc") \/ Allocate(c) \/ PgClaim(c) \/ Resolve(c) \/ Commit(c)

-----------------------------------------------------------------------------
(* ImportSchema: every error rolls the transaction back.                   *)
PgImport(c) ==
  \/ pc[c] = "importID" /\ ImportSelectID(c, "importVersion")
  \/ pc[c] = "importVersion" /\ ImportSelectVersion(c)
  \/ ImportInsert(c)
  \/ /\ pc[c] = "importClaim"
     /\ IF req[c].fp \notin DOMAIN fingerprints /\ req[c].id \in IDsInUse
        THEN MappingFree(c, req[c].fp) /\ UNCHANGED tableVars /\ End(c)
        ELSE ImportClaim(c)
  \/ ImportAdvance(c) \/ ImportCommit(c) \/ ImportMax(c)

PgSetNextID(c) == SetNextID(c)

-----------------------------------------------------------------------------
(* Deletes and settings.                                                   *)
PgDeleteSchema(c) == SoftVersion(c) \/ CheckVersion(c) \/ DeleteRow(c)

PgDeleteSubject(c) ==
  SoftRead(c) \/ SoftSubject(c) \/ CountAll(c) \/ ReadAll(c) \/ DeleteRows(c) \/ DropSettings(c)

PgCleanup(c) == Cleanup(c) \/ DropMapping(c)

PgSetting(c) ==
  /\ pc[c] = "setting" /\ Written(c)
  /\ UNCHANGED <<schemas, fingerprints, references, nextId>> /\ End(c)

PgStep(c) ==
  /\ engine = "postgres"
  /\ \/ PgCreateAttempt(c) \/ PgImport(c) \/ PgSetNextID(c)
     \/ PgDeleteSchema(c) \/ PgDeleteSubject(c) \/ PgCleanup(c) \/ PgSetting(c)

-----------------------------------------------------------------------------
(* Reads.                                                                  *)
PgGetSchemaByID(id) == ByID(id)
PgGetSchemaBySubjectVersion(s, v) == ByVersion(s, v)
PgGetSchemasBySubject(s, includeDeleted) == BySubject(s, includeDeleted)
PgGetSchemaByFingerprint(s, fp, includeDeleted) == ByContent(s, fp, includeDeleted)
PgGetSchemaByGlobalFingerprint(fp) == {r \in Listed(FALSE) : r.fp = fp}
PgGetLatestSchema(s) == Latest(s)
PgListSubjects(includeDeleted) == {r.subject : r \in Listed(includeDeleted)}
PgSubjectExists(s) == Live(s) # {}
PgGetReferencedBy(s, v) == ReferencedBy(s, v)
PgGetSubjectsBySchemaID(id, includeDeleted) == {k[1] : k \in UsersOfID(id, includeDeleted)}
PgGetVersionsBySchemaID(id, includeDeleted) == UsersOfID(id, includeDeleted)
PgListSchemas(latestOnly, includeDeleted) ==
  IF latestOnly THEN LatestOnly(Listed(includeDeleted)) ELSE Listed(includeDeleted)

\* The read paths that lead to version k find it, and agree on its ID.
PgShows(k, id) ==
  LET s == k[1]  v == k[2]  fp == schemas[k].fp IN
  /\ \A r \in PgGetSchemaBySubjectVersion(s, v) : r.id = id
  /\ \E r \in PgGetSchemaByFingerprint(s, fp, FALSE) : r.version = v
  /\ \E r \in PgGetSchemasBySubject(s, FALSE) : r.version = v
  /\ \A r \in PgGetSchemaByGlobalFingerprint(fp) : r.id = id
  /\ PgGetSchemaByID(id) # {} /\ \A r \in PgGetSchemaByID(id) : r.fp = fp /\ r.refs = Refs[fp]
  /\ k \in PgGetVersionsBySchemaID(id, FALSE) /\ s \in PgGetSubjectsBySchemaID(id, FALSE)
  /\ \A w \in Refs[fp] : k \in PgGetReferencedBy(w[1], w[2])
  /\ PgSubjectExists(s) /\ s \in PgListSubjects(FALSE)
  /\ PgGetLatestSchema(s) \subseteq PgListSchemas(TRUE, FALSE)
  /\ \A r \in PgGetLatestSchema(s) : r.version >= v
=============================================================================
