----------------------------- MODULE MySQLStore -----------------------------
(***************************************************************************)
(* The MySQL backend (internal/storage/mysql/store.go).  Its transactions  *)
(* are REPEATABLE READ: the plain reads of a transaction share the         *)
(* snapshot of the first one, while locking reads and writes see what is   *)
(* committed.  An update or a delete waits for the uncommitted rows it     *)
(* meets.                                                                  *)
(***************************************************************************)
EXTENDS SQLStore

InvalidConnRetries == 2   \* maxRetries: repeats after a broken connection

-----------------------------------------------------------------------------
(* CreateSchema.                                                           *)

\* Version and content are read from one snapshot.
MySnapshot(c) ==
  /\ pc[c] = "max" /\ UNCHANGED tableVars /\ Unmoved
  /\ SelectContent(c, SelectMax(req[c].subject))

\* INSERT IGNORE into ctx_id_alloc shares the lock of the row that is there.
MyShareAlloc(c) ==
  /\ pc[c] = "allocShared" /\ AllocReadable(c) /\ UNCHANGED tableVars /\ Unmoved
  /\ Continue(c, "alloc")

\* Two registrations that share the lock both wait for the other to let go:
\* the server rolls one of them back, and its attempt is repeated.
MyDeadlock(c) ==
  /\ SharedAlloc(c) /\ \E d \in Clients \ {c} : SharedAlloc(d)
  /\ UNCHANGED tableVars /\ Again(c)

\* The repeated attempt starts from the snapshot.
MyCreateAttempt(c) ==
  \/ MySnapshot(c) \/ Duplicate(c) \/ Purge(c) \/ Insert(c, "allocShared")
  \/ MyShareAlloc(c) \/ Allocate(c) \/ MyDeadlock(c) \/ Claim(c) \/ Resolve(c) \/ Commit(c)

-----------------------------------------------------------------------------
(* ImportSchema: the lookups share one snapshot, a claim that fails is     *)
(* ignored.                                                                *)
MyImport(c) ==
  \/ /\ pc[c] = "importID"
     /\ IF <<req[c].subject, req[c].version>> \in DOMAIN schemas
        THEN End(c) /\ UNCHANGED tableVars
        ELSE ImportSelectID(c, "importInsert")
  \/ ImportInsert(c) \/ ImportClaim(c) \/ ImportAdvance(c) \/ ImportCommit(c) \/ ImportMax(c)

MySetNextID(c) == SetNextID(c)

-----------------------------------------------------------------------------
(* Deletes and settings.                                                   *)
Settled(c, s) == \A d \in Clients \ {c} : \A k \in Inserted(d) : k[1] # s

MyDeleteSchema(c) ==
  \/ CheckVersion(c)
  \/ pc[c] \in {"softVersion", "deleteRow"} /\ RowFree(c, <<req[c].subject, req[c].version>>)
     /\ (SoftVersion(c) \/ DeleteRow(c))

MyDeleteSubject(c) ==
  \/ SoftRead(c) \/ CountAll(c) \/ ReadAll(c) \/ DropSettings(c)
  \/ pc[c] \in {"softSubject", "deleteRows"} /\ Settled(c, req[c].subject)
     /\ (SoftSubject(c) \/ DeleteRows(c))

\* The mapping is locked by a registration that has looked it up for update.
MyCleanup(c) ==
  \/ Cleanup(c)
  \/ /\ pc[c] = "dropMapping"
     /\ \A d \in Clients \ {c} : pc[d] \in {"resolve", "commit"} => req[d].fp # CurrentContent(c)
     /\ DropMapping(c)

MySetting(c) ==
  /\ pc[c] = "setting" /\ Written(c)
  /\ UNCHANGED <<schemas, fingerprints, references, nextId>> /\ End(c)

\* The connection breaks before or after the statement took effect: it is
\* repeated, and after the last repeat the call fails.
MySettingBroken(c) ==
  /\ pc[c] = "setting" /\ (Written(c) \/ UNCHANGED settings)
  /\ UNCHANGED <<schemas, fingerprints, references, nextId>>
  /\ IF loc[c].attempt < InvalidConnRetries
     THEN Keep(c, "setting", [loc[c] EXCEPT !.attempt = @ + 1]) /\ Unmoved
     ELSE End(c)

MyStep(c) ==
  /\ engine = "mysql"
  /\ \/ MyCreateAttempt(c) \/ MyImport(c) \/ MySetNextID(c)
     \/ MyDeleteSchema(c) \/ MyDeleteSubject(c) \/ MyCleanup(c)
     \/ MySetting(c) \/ MySettingBroken(c)

-----------------------------------------------------------------------------
(* Reads.                                                                  *)
MyGetSchemaByID(id) == ByID(id)
MyGetSchemaBySubjectVersion(s, v) == ByVersion(s, v)
MyGetSchemasBySubject(s, includeDeleted) == BySubject(s, includeDeleted)
MyGetSchemaByFingerprint(s, fp, includeDeleted) == ByContent(s, fp, includeDeleted)
MyGetSchemaByGlobalFingerprint(fp) == {r \in Listed(FALSE) : r.fp = fp}
MyGetLatestSchema(s) == Latest(s)
MyListSubjects(includeDeleted) == {r.subject : r \in Listed(includeDeleted)}
MySubjectExists(s) == Live(s) # {}
MyGetReferencedBy(s, v) == ReferencedBy(s, v)
MyGetSubjectsBySchemaID(id, includeDeleted) == {k[1] : k \in UsersOfID(id, includeDeleted)}
MyGetVersionsBySchemaID(id, includeDeleted) == UsersOfID(id, includeDeleted)
MyListSchemas(latestOnly, includeDeleted) ==
  IF latestOnly THEN LatestOnly(Listed(includeDeleted)) ELSE Listed(includeDeleted)

\* The read paths that lead to version k find it, and agree on its ID.
MyShows(k, id) ==
  LET s == k[1]  v == k[2]  fp == schemas[k].fp IN
  /\ \A r \in MyGetSchemaBySubjectVersion(s, v) : r.id = id
  /\ \E r \in MyGetSchemaByFingerprint(s, fp, FALSE) : r.version = v
  /\ \E r \in MyGetSchemasBySubject(s, FALSE) : r.version = v
  /\ \A r \in MyGetSchemaByGlobalFingerprint(fp) : r.id = id
  /\ MyGetSchemaByID(id) # {} /\ \A r \in MyGetSchemaByID(id) : r.fp = fp /\ r.refs = Refs[fp]
  /\ k \in MyGetVersionsBySchemaID(id, FALSE) /\ s \in MyGetSubjectsBySchemaID(id, FALSE)
  /\ \A w \in Refs[fp] : k \in MyGetReferencedBy(w[1], w[2])
  /\ MySubjectExists(s) /\ s \in MyListSubjects(FALSE)
  /\ MyGetLatestSchema(s) \subseteq MyListSchemas(TRUE, FALSE)
  /\ \A r \in MyGetLatestSchema(s) : r.version >= v
=============================================================================
