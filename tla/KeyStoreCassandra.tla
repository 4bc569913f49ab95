------------------------- MODULE KeyStoreCassandra -------------------------
(***************************************************************************)
(* KEKs and DEKs in internal/storage/cassandra/store.go.  A DEK's primary  *)
(* key is KEK, subject and version; the subjects of a KEK are listed from  *)
(* deks_by_kek.  Creates are conditional inserts; an UPDATE writes its     *)
(* columns whether or not the row exists.                                  *)
(***************************************************************************)
EXTENDS KeyTables

CasGetKEK(k, includeDeleted) ==
  IF keks[k] = NoRow \/ (~includeDeleted /\ keks[k].deleted) THEN NoRow ELSE keks[k]
CasListKEKs(includeDeleted) == {k \in KEKs : CasGetKEK(k, includeDeleted) # NoRow}

\* INSERT ... IF NOT EXISTS.
CasCreateKEK(c) == InsertKEK(c)

\* First: is the KEK there?
CasFindKEK(c, when, next) ==
  /\ IF when THEN Goto(c, next, NoRow) ELSE Return(c, "kekNotFound")
  /\ UNCHANGED keyVars

\* Then the update of its row, or of a row of its own.
CasWriteKEK(c, row) ==
  /\ keks' = [keks EXCEPT ![call[c].in.kek] = row]
  /\ Return(c, "nil")
  /\ UNCHANGED <<deks, byKek, kmsGen, given>>

\* What an UPDATE of the deleted column makes of a KEK.
CasFlagged(k, flag) ==
  IF keks[k] = NoRow THEN [shared |-> FALSE, doc |-> FALSE, deleted |-> flag]
  ELSE [keks[k] EXCEPT !.deleted = flag]

CasUpdateKEK(c) ==
  \/ At(c, "UpdateKEK", "store") /\ CasFindKEK(c, keks[call[c].in.kek] # NoRow, "update")
  \/ At(c, "UpdateKEK", "update") /\ CasWriteKEK(c, call[c].in.rec)

\* A permanent delete reads the KEK and its subjects, and removes all of it in
\* one batch.
CasDeleteKEK(c) ==
  LET in == call[c].in IN
  \/ /\ At(c, "DeleteKEK", "store")
     /\ CasFindKEK(c, keks[in.kek] # NoRow, IF in.permanent THEN "subjects" ELSE "update")
  \/ /\ At(c, "DeleteKEK", "update")
     /\ CasWriteKEK(c, CasFlagged(in.kek, TRUE))
  \/ /\ At(c, "DeleteKEK", "subjects")
     /\ Goto(c, "batch", {s \in Subjects : <<in.kek, s>> \in byKek})
     /\ UNCHANGED keyVars
  \/ /\ At(c, "DeleteKEK", "batch")
     /\ keks' = [keks EXCEPT ![in.kek] = NoRow]
     /\ RemoveDEKs({d \in deks : d.kek = in.kek /\ d.subj \in call[c].got})
     /\ byKek' = {p \in byKek : p[1] # in.kek}
     /\ Return(c, "nil")
     /\ UNCHANGED kmsGen

CasUndeleteKEK(c) ==
  LET k == call[c].in.kek IN
  \/ At(c, "UndeleteKEK", "store") /\ CasFindKEK(c, keks[k] # NoRow /\ keks[k].deleted, "update")
  \/ At(c, "UndeleteKEK", "update") /\ CasWriteKEK(c, CasFlagged(k, FALSE))

\* Mutant: the listing entry is written after the key.
CasCreateDEKLate(c) ==
  LET in == call[c].in IN
  \/ /\ At(c, "CreateDEK", "store")
     /\ IF keks[in.kek] = NoRow THEN Return(c, "kekNotFound")
        ELSE Goto(c, IF in.ver = 0 THEN "maxVersion" ELSE "insert", in.ver)
     /\ UNCHANGED keyVars
  \/ /\ At(c, "CreateDEK", "maxVersion") /\ NextVersion(in.kek, in.subj) <= MaxVersion
     /\ Goto(c, "insert", NextVersion(in.kek, in.subj))
     /\ UNCHANGED keyVars
  \/ /\ At(c, "CreateDEK", "insert")
     /\ IF \E d \in Rows(in.kek, in.subj) : d.ver = call[c].got
        THEN Return(c, "dekExists") /\ UNCHANGED keyVars
        ELSE deks' = deks \cup {NewRow(in, call[c].got)} /\ Goto(c, "listing", NoRow)
             /\ UNCHANGED <<keks, byKek, kmsGen, given>>
  \/ /\ At(c, "CreateDEK", "listing")
     /\ byKek' = byKek \cup {<<in.kek, in.subj>>}
     /\ Return(c, "nil")
     /\ UNCHANGED <<keks, deks, kmsGen, given>>

\* Is the KEK there?  Which version is next?  The listing entry, and last the
\* conditional insert.
CasCreateDEK(c) ==
  LET in == call[c].in IN
  \/ /\ At(c, "CreateDEK", "store")
     /\ IF keks[in.kek] = NoRow THEN Return(c, "kekNotFound")
        ELSE Goto(c, IF in.ver = 0 THEN "maxVersion" ELSE "listing", in.ver)
     /\ UNCHANGED keyVars
  \/ /\ At(c, "CreateDEK", "maxVersion") /\ NextVersion(in.kek, in.subj) <= MaxVersion
     /\ Goto(c, "listing", NextVersion(in.kek, in.subj))
     /\ UNCHANGED keyVars
  \/ /\ At(c, "CreateDEK", "listing")
     /\ byKek' = byKek \cup {<<in.kek, in.subj>>}
     /\ Goto(c, "insert", call[c].got)
     /\ UNCHANGED <<keks, deks, kmsGen, given>>
  \/ /\ At(c, "CreateDEK", "insert")
     /\ InsertDEK(c, NewRow(in, call[c].got), {d \in Rows(in.kek, in.subj) : d.ver = call[c].got})

\* Rows come in descending order of version: the first that matches.
CasGetDEK(k, s, v, alg, includeDeleted) ==
  LET rows == Filter(Rows(k, s), alg, includeDeleted) IN
  IF v = 0 THEN Latest(rows) ELSE {d \in rows : d.ver = v}

\* From deks_by_kek; the rows are looked at only to leave out deleted ones.
CasListDEKs(k, includeDeleted) ==
  {s \in Subjects : <<k, s>> \in byKek /\ (includeDeleted \/ \E d \in Rows(k, s) : ~d.deleted)}
CasListDEKVersions(k, s, alg, includeDeleted) ==
  {d.ver : d \in Filter(Rows(k, s), alg, includeDeleted)}

\* UPDATE deks SET deleted of the versions read before.
CasFlagDEKs(in, versions, flag) ==
  LET rows == {d \in Rows(in.kek, in.subj) : d.ver \in versions} IN
  Mark(rows, flag) \cup
    {[kek |-> in.kek, subj |-> in.subj, ver |-> v, alg |-> NoAlg, mat |-> NoRow, deleted |-> flag] :
       v \in versions \ {d.ver : d \in rows}}

\* The versions to delete are read; a permanent delete reads again whether
\* other rows remain, and if none does it drops the listing entry too.
CasDeleteDEK(c) ==
  LET in == call[c].in
      versions == {d.ver : d \in Target(in, in.alg)} IN
  \/ /\ At(c, "DeleteDEK", "store")
     /\ IF versions = {} THEN Return(c, "dekNotFound")
        ELSE Goto(c, IF in.permanent THEN "remaining" ELSE "update", versions)
     /\ UNCHANGED keyVars
  \/ /\ At(c, "DeleteDEK", "update")
     /\ deks' = CasFlagDEKs(in, call[c].got, TRUE)
     /\ Return(c, "nil")
     /\ UNCHANGED <<keks, byKek, kmsGen, given>>
  \/ /\ At(c, "DeleteDEK", "remaining")
     /\ LET others == IF in.ver # 0 THEN {d \in Rows(in.kek, in.subj) : d.ver # in.ver}
                      ELSE IF in.alg # AnyAlg THEN {d \in Rows(in.kek, in.subj) : d.alg # in.alg}
                      ELSE {}
        IN Goto(c, IF others = {} THEN "batchAll" ELSE "batch", call[c].got)
     /\ UNCHANGED keyVars
  \/ /\ call[c].op = "DeleteDEK" /\ call[c].at \in {"batch", "batchAll"}
     /\ RemoveDEKs({d \in Rows(in.kek, in.subj) : d.ver \in call[c].got})
     /\ byKek' = IF call[c].at = "batchAll" THEN byKek \ {<<in.kek, in.subj>>} ELSE byKek
     /\ Return(c, "nil")
     /\ UNCHANGED <<keks, kmsGen>>

CasUndeleteDEK(c) ==
  LET in == call[c].in
      versions == {d.ver : d \in {e \in Target(in, in.alg) : e.deleted}} IN
  \/ /\ At(c, "UndeleteDEK", "store")
     /\ IF versions = {} THEN Return(c, "dekNotFound") ELSE Goto(c, "update", versions)
     /\ UNCHANGED keyVars
  \/ /\ At(c, "UndeleteDEK", "update")
     /\ deks' = CasFlagDEKs(in, call[c].got, FALSE)
     /\ Return(c, "nil")
     /\ UNCHANGED <<keks, byKek, kmsGen, given>>

\* A count first, as the update would insert a row.
CasUpdateDEK(c) ==
  LET in == call[c].in
      rows == Target(in, AnyAlg) IN
  \/ /\ At(c, "RewrapDEK", "store")
     /\ IF rows = {} THEN Return(c, "dekNotFound") ELSE Goto(c, "update", NoRow)
     /\ UNCHANGED keyVars
  \/ /\ At(c, "RewrapDEK", "update")
     /\ deks' = (deks \ rows) \cup
          IF rows # {} THEN {[d EXCEPT !.mat = in.mat] : d \in rows}
          ELSE {[kek |-> in.kek, subj |-> in.subj, ver |-> in.ver, alg |-> NoAlg, mat |-> in.mat,
                 deleted |-> FALSE]}
     /\ Return(c, "nil")
     /\ UNCHANGED <<keks, byKek, kmsGen, given>>

CasKeyStep(c) ==
  \/ CasCreateKEK(c) \/ CasUpdateKEK(c) \/ CasDeleteKEK(c) \/ CasUndeleteKEK(c)
  \/ CasCreateDEK(c) \/ CasDeleteDEK(c) \/ CasUndeleteDEK(c) \/ CasUpdateDEK(c)
=============================================================================
