--------------------------- MODULE KeyStoreMemory ---------------------------
(***************************************************************************)
(* KEKs and DEKs in internal/storage/memory/store.go: maps under a mutex,  *)
(* DEKs by KEK, subject and version, so that a version has one algorithm.  *)
(***************************************************************************)
EXTENDS KeyTables

MemGetKEK(k, includeDeleted) ==
  IF keks[k] = NoRow \/ (~includeDeleted /\ keks[k].deleted) THEN NoRow ELSE keks[k]
MemListKEKs(includeDeleted) == {k \in KEKs : MemGetKEK(k, includeDeleted) # NoRow}

MemCreateKEK(c) == InsertKEK(c)

\* The whole record is replaced, its deleted flag included.
MemUpdateKEK(c) == At(c, "UpdateKEK", "store") /\ UpdateKEKRow(c, TRUE, call[c].in.rec)

MemDeleteKEK(c) ==
  LET k == call[c].in.kek IN
  /\ At(c, "DeleteKEK", "store")
  /\ \/ /\ ~call[c].in.permanent
        /\ UpdateKEKRow(c, TRUE, [keks[k] EXCEPT !.deleted = TRUE])
     \/ /\ call[c].in.permanent
        /\ IF keks[k] = NoRow THEN Return(c, "kekNotFound") /\ UNCHANGED keyVars
           ELSE /\ keks' = [keks EXCEPT ![k] = NoRow]
                /\ RemoveDEKs({d \in deks : d.kek = k})
                /\ Return(c, "nil")
                /\ UNCHANGED <<byKek, kmsGen>>

MemUndeleteKEK(c) ==
  LET k == call[c].in.kek IN
  /\ At(c, "UndeleteKEK", "store")
  /\ UpdateKEKRow(c, keks[k] # NoRow /\ keks[k].deleted, [keks[k] EXCEPT !.deleted = FALSE])

MemCreateDEK(c) ==
  LET in == call[c].in
      v == IF in.ver = 0 THEN NextVersion(in.kek, in.subj) ELSE in.ver IN
  /\ At(c, "CreateDEK", "store") /\ v <= MaxVersion
  /\ IF keks[in.kek] = NoRow THEN Return(c, "kekNotFound") /\ UNCHANGED keyVars
     ELSE InsertDEK(c, NewRow(in, v), {d \in Rows(in.kek, in.subj) : d.ver = v})

\* Version 0 asks for the latest.
MemGetDEK(k, s, v, alg, includeDeleted) ==
  LET rows == Filter(Rows(k, s), alg, includeDeleted) IN
  IF v = 0 THEN Latest(rows) ELSE {d \in rows : d.ver = v}

MemListDEKs(k, includeDeleted) ==
  {s \in Subjects : \E d \in Rows(k, s) : includeDeleted \/ ~d.deleted}
MemListDEKVersions(k, s, alg, includeDeleted) ==
  {d.ver : d \in Filter(Rows(k, s), alg, includeDeleted)}

MemDeleteDEK(c) ==
  /\ At(c, "DeleteDEK", "store")
  /\ ChangeDEKs(c, Target(call[c].in, call[c].in.alg), call[c].in.permanent, TRUE)

MemUndeleteDEK(c) ==
  /\ At(c, "UndeleteDEK", "store")
  /\ ChangeDEKs(c, {d \in Target(call[c].in, call[c].in.alg) : d.deleted}, FALSE, FALSE)

\* The record is found by KEK, subject and version: the algorithm is not asked.
MemUpdateDEK(c) ==
  /\ At(c, "RewrapDEK", "store")
  /\ RewriteDEKs(c, Target(call[c].in, AnyAlg))

MemKeyStep(c) ==
  \/ MemCreateKEK(c) \/ MemUpdateKEK(c) \/ MemDeleteKEK(c) \/ MemUndeleteKEK(c)
  \/ MemCreateDEK(c) \/ MemDeleteDEK(c) \/ MemUndeleteDEK(c) \/ MemUpdateDEK(c)
=============================================================================
