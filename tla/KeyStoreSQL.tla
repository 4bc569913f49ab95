---------------------------- MODULE KeyStoreSQL ----------------------------
(***************************************************************************)
(* KEKs and DEKs in internal/storage/postgres/store.go and                 *)
(* internal/storage/mysql/store.go.  The primary key of a DEK holds its    *)
(* algorithm too, and no foreign key ties a DEK to its KEK.  Every         *)
(* statement is a step, except the two deletes that MySQL puts into one    *)
(* transaction.                                                            *)
(***************************************************************************)
EXTENDS KeyTables

KEKWhere(k, includeDeleted) ==
  IF keks[k] = NoRow \/ (~includeDeleted /\ keks[k].deleted) THEN NoRow ELSE keks[k]

\* SELECT ... ORDER BY version DESC LIMIT 1, or of one version.  Two
\* algorithms may share it, and then either row comes.
DEKWhere(k, s, v, alg, includeDeleted) ==
  LET rows == Filter(Rows(k, s), alg, includeDeleted) IN
  IF v = 0 THEN Latest(rows) ELSE {d \in rows : d.ver = v}

SubjectsWhere(k, includeDeleted) ==
  {s \in Subjects : Filter(Rows(k, s), AnyAlg, includeDeleted) # {}}
VersionsWhere(k, s, alg, includeDeleted) == {d.ver : d \in Filter(Rows(k, s), alg, includeDeleted)}

-----------------------------------------------------------------------------
PgGetKEK(k, includeDeleted) == KEKWhere(k, includeDeleted)
PgListKEKs(includeDeleted) == {k \in KEKs : KEKWhere(k, includeDeleted) # NoRow}

PgCreateKEK(c) == InsertKEK(c)

\* Mutant: the update writes the deleted flag it read, as MySQL's does.
PgUpdateKEKWhole(c) == At(c, "UpdateKEK", "store") /\ UpdateKEKRow(c, TRUE, call[c].in.rec)

\* Every column but deleted.
PgUpdateKEK(c) ==
  LET in == call[c].in IN
  /\ At(c, "UpdateKEK", "store")
  /\ UpdateKEKRow(c, TRUE, [in.rec EXCEPT !.deleted = keks[in.kek].deleted])

\* A permanent delete removes the DEKs, and then the KEK.
PgDeleteKEK(c) ==
  LET k == call[c].in.kek IN
  \/ /\ At(c, "DeleteKEK", "store")
     /\ ~call[c].in.permanent
     /\ UpdateKEKRow(c, TRUE, [keks[k] EXCEPT !.deleted = TRUE])
  \/ /\ At(c, "DeleteKEK", "store")
     /\ call[c].in.permanent
     /\ RemoveDEKs({d \in deks : d.kek = k})
     /\ Goto(c, "deleteKEK", NoRow)
     /\ UNCHANGED <<keks, byKek, kmsGen>>
  \/ /\ At(c, "DeleteKEK", "deleteKEK")
     /\ UpdateKEKRow(c, TRUE, NoRow)

PgUndeleteKEK(c) ==
  LET k == call[c].in.kek IN
  /\ At(c, "UndeleteKEK", "store")
  /\ UpdateKEKRow(c, keks[k] # NoRow /\ keks[k].deleted, [keks[k] EXCEPT !.deleted = FALSE])

\* Is the KEK there?  Which version is next?  Then the insert.
PgCreateDEK(c) ==
  LET in == call[c].in IN
  \/ /\ At(c, "CreateDEK", "store")
     /\ IF keks[in.kek] = NoRow THEN Return(c, "kekNotFound")
        ELSE Goto(c, IF in.ver = 0 THEN "maxVersion" ELSE "insert", in.ver)
     /\ UNCHANGED keyVars
  \/ /\ At(c, "CreateDEK", "maxVersion") /\ NextVersion(in.kek, in.subj) <= MaxVersion
     /\ Goto(c, "insert", NextVersion(in.kek, in.subj))
     /\ UNCHANGED keyVars
  \/ /\ At(c, "CreateDEK", "insert")
     /\ InsertDEK(c, NewRow(in, call[c].got),
          {d \in Rows(in.kek, in.subj) : d.ver = call[c].got /\ d.alg = in.alg})

PgGetDEK(k, s, v, alg, includeDeleted) == DEKWhere(k, s, v, alg, includeDeleted)
PgListDEKs(k, includeDeleted) == SubjectsWhere(k, includeDeleted)
PgListDEKVersions(k, s, alg, includeDeleted) == VersionsWhere(k, s, alg, includeDeleted)

PgDeleteDEK(c) ==
  /\ At(c, "DeleteDEK", "store")
  /\ ChangeDEKs(c, Target(call[c].in, call[c].in.alg), call[c].in.permanent, TRUE)

PgUndeleteDEK(c) ==
  /\ At(c, "UndeleteDEK", "store")
  /\ ChangeDEKs(c, {d \in Target(call[c].in, call[c].in.alg) : d.deleted}, FALSE, FALSE)

PgUpdateDEK(c) ==
  /\ At(c, "RewrapDEK", "store")
  /\ RewriteDEKs(c, Target(call[c].in, call[c].in.alg))

PgKeyStep(c) ==
  \/ PgCreateKEK(c) \/ PgUpdateKEK(c) \/ PgDeleteKEK(c) \/ PgUndeleteKEK(c)
  \/ PgCreateDEK(c) \/ PgDeleteDEK(c) \/ PgUndeleteDEK(c) \/ PgUpdateDEK(c)

-----------------------------------------------------------------------------
MyGetKEK(k, includeDeleted) == KEKWhere(k, includeDeleted)
MyListKEKs(includeDeleted) == {k \in KEKs : KEKWhere(k, includeDeleted) # NoRow}

MyCreateKEK(c) == InsertKEK(c)

\* Every column, deleted included.
MyUpdateKEK(c) == At(c, "UpdateKEK", "store") /\ UpdateKEKRow(c, TRUE, call[c].in.rec)

\* A permanent delete is one transaction.
MyDeleteKEK(c) ==
  LET k == call[c].in.kek IN
  /\ At(c, "DeleteKEK", "store")
  /\ \/ /\ ~call[c].in.permanent
        /\ UpdateKEKRow(c, TRUE, [keks[k] EXCEPT !.deleted = TRUE])
     \/ /\ call[c].in.permanent
        /\ IF keks[k] = NoRow THEN Return(c, "kekNotFound") /\ UNCHANGED keyVars
           ELSE /\ RemoveDEKs({d \in deks : d.kek = k})
                /\ keks' = [keks EXCEPT ![k] = NoRow]
                /\ Return(c, "nil")
                /\ UNCHANGED <<byKek, kmsGen>>

\* The flag is looked at first; the update then asks for the name only.
MyUndeleteKEK(c) ==
  LET k == call[c].in.kek IN
  \/ /\ At(c, "UndeleteKEK", "store")
     /\ IF keks[k] = NoRow \/ ~keks[k].deleted THEN Return(c, "kekNotFound")
        ELSE Goto(c, "update", NoRow)
     /\ UNCHANGED keyVars
  \/ /\ At(c, "UndeleteKEK", "update")
     /\ keks' = [keks EXCEPT ![k] = IF @ = NoRow THEN NoRow ELSE [@ EXCEPT !.deleted = FALSE]]
     /\ Return(c, "nil")
     /\ UNCHANGED <<deks, byKek, kmsGen, given>>

\* Mutant: the version is looked up before the KEK is asked for, and the
\* insert then replaces a row that is there already.
MyCreateDEKReplace(c) ==
  LET in == call[c].in IN
  \/ /\ At(c, "CreateDEK", "store")
     /\ IF keks[in.kek] = NoRow THEN Return(c, "kekNotFound")
        ELSE Goto(c, "insert", IF in.ver = 0 THEN NextVersion(in.kek, in.subj) ELSE in.ver)
     /\ UNCHANGED keyVars
  \/ /\ At(c, "CreateDEK", "insert")
     /\ deks' = {d \in deks : RowOf(d) # RowOf(NewRow(in, call[c].got))} \cup {NewRow(in, call[c].got)}
     /\ given' = IF in.mat = NoRow THEN given
                 ELSE given \cup {[row |-> RowOf(NewRow(in, call[c].got)), plain |-> in.mat.plain]}
     /\ Return(c, "nil")
     /\ UNCHANGED <<keks, byKek, kmsGen>>

MyCreateDEK(c) ==
  LET in == call[c].in IN
  \/ /\ At(c, "CreateDEK", "store")
     /\ IF keks[in.kek] = NoRow THEN Return(c, "kekNotFound")
        ELSE Goto(c, IF in.ver = 0 THEN "maxVersion" ELSE "insert", in.ver)
     /\ UNCHANGED keyVars
  \/ /\ At(c, "CreateDEK", "maxVersion") /\ NextVersion(in.kek, in.subj) <= MaxVersion
     /\ Goto(c, "insert", NextVersion(in.kek, in.subj))
     /\ UNCHANGED keyVars
  \/ /\ At(c, "CreateDEK", "insert")
     /\ InsertDEK(c, NewRow(in, call[c].got),
          {d \in Rows(in.kek, in.subj) : d.ver = call[c].got /\ d.alg = in.alg})

MyGetDEK(k, s, v, alg, includeDeleted) == DEKWhere(k, s, v, alg, includeDeleted)
MyListDEKs(k, includeDeleted) == SubjectsWhere(k, includeDeleted)
MyListDEKVersions(k, s, alg, includeDeleted) == VersionsWhere(k, s, alg, includeDeleted)

\* Asked for one version and no algorithm, MySQL takes the default algorithm.
MyAlgorithm(in) == IF in.ver # 0 /\ in.alg = AnyAlg THEN "AES256_GCM" ELSE in.alg

\* Are there rows?  Then the delete or the update, whatever is there by now.
MyDeleteDEK(c) ==
  LET rows == Target(call[c].in, MyAlgorithm(call[c].in)) IN
  \/ /\ At(c, "DeleteDEK", "store")
     /\ IF rows = {} THEN Return(c, "dekNotFound") ELSE Goto(c, "change", NoRow)
     /\ UNCHANGED keyVars
  \/ /\ At(c, "DeleteDEK", "change")
     /\ IF call[c].in.permanent THEN RemoveDEKs(rows) ELSE deks' = Mark(rows, TRUE) /\ UNCHANGED given
     /\ Return(c, "nil")
     /\ UNCHANGED <<keks, byKek, kmsGen>>

MyUndeleteDEK(c) ==
  LET rows == {d \in Target(call[c].in, MyAlgorithm(call[c].in)) : d.deleted} IN
  \/ /\ At(c, "UndeleteDEK", "store")
     /\ IF rows = {} THEN Return(c, "dekNotFound") ELSE Goto(c, "change", NoRow)
     /\ UNCHANGED keyVars
  \/ /\ At(c, "UndeleteDEK", "change")
     /\ deks' = Mark(rows, FALSE)
     /\ Return(c, "nil")
     /\ UNCHANGED <<keks, byKek, kmsGen, given>>

MyUpdateDEK(c) ==
  /\ At(c, "RewrapDEK", "store")
  /\ RewriteDEKs(c, Target(call[c].in, call[c].in.alg))

MyKeyStep(c) ==
  \/ MyCreateKEK(c) \/ MyUpdateKEK(c) \/ MyDeleteKEK(c) \/ MyUndeleteKEK(c)
  \/ MyCreateDEK(c) \/ MyDeleteDEK(c) \/ MyUndeleteDEK(c) \/ MyUpdateDEK(c)
=============================================================================
