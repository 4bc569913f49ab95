---------------------------- MODULE DEKRegistry ----------------------------
(***************************************************************************)
(* The DEK registry: the handlers of internal/api/handlers/dek.go and the  *)
(* service of internal/registry/registry_dek.go over the four backends.    *)
(* A key service with a provider for every KEK is configured.              *)
(***************************************************************************)
EXTENDS KeyStoreMemory, KeyStoreSQL, KeyStoreCassandra

KeyStoreStep(c) ==
  \/ backend = "memory" /\ MemKeyStep(c)
  \/ backend = "cassandra" /\ CasKeyStep(c)
  \/ backend = "postgres" /\ PgKeyStep(c)
  \/ backend = "mysql" /\ MyKeyStep(c)

\* The answer to GET of a KEK, of the KEKs, of the subjects and versions of its
\* DEKs, and of a DEK: the rows it may come from, none for 404.
GetKEK(k, includeDeleted) ==
  CASE backend = "memory" -> MemGetKEK(k, includeDeleted)
    [] backend = "cassandra" -> CasGetKEK(k, includeDeleted)
    [] backend = "postgres" -> PgGetKEK(k, includeDeleted)
    [] backend = "mysql" -> MyGetKEK(k, includeDeleted)
ListKEKs(includeDeleted) ==
  CASE backend = "memory" -> MemListKEKs(includeDeleted)
    [] backend = "cassandra" -> CasListKEKs(includeDeleted)
    [] backend = "postgres" -> PgListKEKs(includeDeleted)
    [] backend = "mysql" -> MyListKEKs(includeDeleted)
ListDEKs(k, includeDeleted) ==
  CASE keks[k] = NoRow -> {}
    [] backend = "memory" -> MemListDEKs(k, includeDeleted)
    [] backend = "cassandra" -> CasListDEKs(k, includeDeleted)
    [] backend = "postgres" -> PgListDEKs(k, includeDeleted)
    [] backend = "mysql" -> MyListDEKs(k, includeDeleted)
ListDEKVersions(k, s, alg, includeDeleted) ==
  CASE keks[k] = NoRow -> {}
    [] backend = "memory" -> MemListDEKVersions(k, s, alg, includeDeleted)
    [] backend = "cassandra" -> CasListDEKVersions(k, s, alg, includeDeleted)
    [] backend = "postgres" -> PgListDEKVersions(k, s, alg, includeDeleted)
    [] backend = "mysql" -> MyListDEKVersions(k, s, alg, includeDeleted)
FindDEK(k, s, v, alg, includeDeleted) ==
  CASE backend = "memory" -> MemGetDEK(k, s, v, alg, includeDeleted)
    [] backend = "cassandra" -> CasGetDEK(k, s, v, alg, includeDeleted)
    [] backend = "postgres" -> PgGetDEK(k, s, v, alg, includeDeleted)
    [] backend = "mysql" -> MyGetDEK(k, s, v, alg, includeDeleted)
GetDEK(k, s, alg, includeDeleted) == FindDEK(k, s, 0, alg, includeDeleted)
GetDEKVersion(k, s, v, alg, includeDeleted) == FindDEK(k, s, v, alg, includeDeleted)

-----------------------------------------------------------------------------
\* Each handler starts the request and, when the service returns, answers.
\* (What it reads besides, for the audit record, is left out.)
HandleCreateKEK(c) ==
  \/ /\ \E k \in KEKs, shared \in BOOLEAN :
          Begin(c, "CreateKEK", "store",
                [kek |-> k, rec |-> [shared |-> shared, doc |-> FALSE, deleted |-> FALSE]])
     /\ UNCHANGED keyVars

\* The record is read, the fields in the request are set, and it is written back.
HandleUpdateKEK(c) ==
  \/ /\ \E k \in KEKs : Begin(c, "UpdateKEK", "get", [kek |-> k, rec |-> NoRow])
     /\ UNCHANGED keyVars
  \/ /\ At(c, "UpdateKEK", "get")
     /\ LET kek == GetKEK(call[c].in.kek, FALSE) IN
        \/ kek = NoRow /\ Answer(c, 404)
        \/ /\ kek # NoRow
           /\ \E shared \in BOOLEAN :
                call' = [call EXCEPT ![c].at = "store",
                                     ![c].in.rec = [kek EXCEPT !.doc = TRUE, !.shared = shared]]
     /\ UNCHANGED keyVars

HandleDeleteKEK(c) ==
  \/ /\ \E k \in KEKs, permanent \in BOOLEAN :
          /\ permanent => "purge" \in load.ops
          /\ Begin(c, "DeleteKEK", "store", [kek |-> k, permanent |-> permanent])
     /\ UNCHANGED keyVars

HandleUndeleteKEK(c) ==
  \/ /\ \E k \in KEKs : Begin(c, "UndeleteKEK", "store", [kek |-> k])
     /\ UNCHANGED keyVars

\* Material of the client's own goes to the store as it is; without any, the
\* service asks whether the KEK is shared.  CreateDEKWithSubject does the same.
HandleCreateDEK(c) ==
  \/ /\ \E k \in KEKs, s \in Subjects, v \in 0..MaxVersion, alg \in load.algs \ {AnyAlg}, own \in BOOLEAN :
          /\ v = 0 => NextVersion(k, s) <= MaxVersion
          /\ Begin(c, "CreateDEK", IF own THEN "store" ELSE "getKEK",
                   [kek |-> k, subj |-> s, ver |-> v, alg |-> alg,
                    mat |-> IF own THEN [plain |-> FreshPlain, gen |-> kmsGen] ELSE NoRow])
     /\ UNCHANGED keyVars

\* DELETE of a DEK, all its versions, or of one version (a version that is not
\* positive is refused).
BeginDeleteDEK(c, versions) ==
  \E k \in KEKs, s \in Subjects, v \in versions, alg \in load.algs, permanent \in BOOLEAN :
     /\ permanent => "purge" \in load.ops
     /\ Begin(c, "DeleteDEK", "store", [kek |-> k, subj |-> s, ver |-> v, alg |-> alg, permanent |-> permanent])
HandleDeleteDEK(c) == BeginDeleteDEK(c, {0}) /\ UNCHANGED keyVars
HandleDeleteDEKVersion(c) == BeginDeleteDEK(c, 1..MaxVersion) /\ UNCHANGED keyVars

BeginUndeleteDEK(c, versions) ==
  \E k \in KEKs, s \in Subjects, v \in versions, alg \in load.algs :
     Begin(c, "UndeleteDEK", "store", [kek |-> k, subj |-> s, ver |-> v, alg |-> alg])
HandleUndeleteDEK(c) == BeginUndeleteDEK(c, {0}) /\ UNCHANGED keyVars
HandleUndeleteDEKVersion(c) == BeginUndeleteDEK(c, 1..MaxVersion) /\ UNCHANGED keyVars

HandleRewrapDEK(c) ==
  \/ /\ \E k \in KEKs, s \in Subjects, alg \in load.algs :
          Begin(c, "RewrapDEK", "getKEK",
                [kek |-> k, subj |-> s, ver |-> 0, alg |-> alg, mat |-> NoRow])
     /\ UNCHANGED keyVars

-----------------------------------------------------------------------------
\* The material is generated by the key service when the KEK is shared; a KEK
\* that is not shared gets a DEK without material.
CreateDEK(c) ==
  \/ /\ At(c, "CreateDEK", "getKEK")
     /\ LET kek == GetKEK(call[c].in.kek, FALSE) IN
        IF kek = NoRow THEN Return(c, "kekNotFound")
        ELSE Goto(c, IF kek.shared THEN "generate" ELSE "store", NoRow)
     /\ UNCHANGED keyVars
  \/ /\ At(c, "CreateDEK", "generate")
     /\ \/ call' = [call EXCEPT ![c].at = "store",
                                ![c].in.mat = [plain |-> FreshPlain, gen |-> kmsGen]]
        \/ Return(c, "kmsError")
     /\ UNCHANGED keyVars

\* The live KEK, then the latest live DEK; its material is unwrapped and
\* wrapped with the current key, and written back.
RewrapDEK(c) ==
  LET in == call[c].in IN
  \/ /\ At(c, "RewrapDEK", "getKEK")
     /\ IF GetKEK(in.kek, FALSE) = NoRow THEN Return(c, "kekNotFound") ELSE Goto(c, "getDEK", NoRow)
     /\ UNCHANGED keyVars
  \/ /\ At(c, "RewrapDEK", "getDEK")
     /\ LET found == FindDEK(in.kek, in.subj, 0, in.alg, FALSE) IN
        \/ found = {} /\ Return(c, "dekNotFound")
        \/ \E d \in found :
             IF d.mat = NoRow THEN Return(c, "noMaterial")
             ELSE call' = [call EXCEPT ![c].at = "rewrap",
                    ![c].in = [in EXCEPT !.ver = d.ver, !.alg = d.alg, !.mat = d.mat]]
     /\ UNCHANGED keyVars
  \/ /\ At(c, "RewrapDEK", "rewrap")
     /\ \/ call' = [call EXCEPT ![c].at = "store", ![c].in.mat.gen = kmsGen]
        \/ Return(c, "kmsError")
     /\ UNCHANGED keyVars

\* The key service rotates its key; what was wrapped before still unwraps.
KmsRotate ==
  /\ kmsGen < MaxGen
  /\ "rotate" \in load.ops
  /\ kmsGen' = kmsGen + 1
  /\ UNCHANGED <<backend, load, call, keyTables, given>>

KeyStep(c) ==
  \/ HandleCreateKEK(c) \/ HandleUpdateKEK(c) \/ HandleDeleteKEK(c) \/ HandleUndeleteKEK(c)
  \/ HandleCreateDEK(c) \/ HandleDeleteDEK(c) \/ HandleDeleteDEKVersion(c)
  \/ HandleUndeleteDEK(c) \/ HandleUndeleteDEKVersion(c) \/ HandleRewrapDEK(c)
  \/ CreateDEK(c) \/ RewrapDEK(c) \/ KeyStoreStep(c)

-----------------------------------------------------------------------------
KeyTypeOK ==
  /\ keks \in [KEKs -> KEKRow \cup {NoRow}]
  /\ deks \subseteq DEKRow
  /\ byKek \subseteq KEKs \X Subjects
  /\ kmsGen \in 1..MaxGen

\* The plaintext that a creator was given is the one its DEK unwraps to, through
\* rewraps, several at once too, and deletes, and however many creators there were: what a client
\* encrypted with it can be read by whoever fetches the DEK.  (A purge and a new
\* create during a rewrap break it: the rewrap writes the old material.)
KeyMaterialKept == \A d \in deks : d.mat # NoRow => Told(RowOf(d)) \subseteq {d.mat.plain}

\* A DEK has its KEK: a purge of the KEK takes the DEKs with it, those of a
\* create under way included.  In memory, and one request at a time.
NoOrphanDEK == Undisturbed => \A d \in deks : keks[d.kek] # NoRow

\* The subjects listed for a KEK are those that have a live DEK to get, the
\* versions listed are those there are, and the one got is the latest of them.
ListingComplete ==
  \A k \in ListKEKs(TRUE) : \A s \in Subjects :
     /\ (s \in ListDEKs(k, FALSE)) <=> (GetDEK(k, s, AnyAlg, FALSE) # {})
     /\ ListDEKVersions(k, s, AnyAlg, TRUE) =
          {v \in 1..MaxVersion : GetDEKVersion(k, s, v, AnyAlg, TRUE) # {}}
     /\ \A d \in GetDEK(k, s, AnyAlg, FALSE) : d.ver = Max(ListDEKVersions(k, s, AnyAlg, FALSE))

\* A deleted KEK or DEK comes back by an undelete only, not by an update or a
\* rewrap that read it before the delete.
DeletionSticks ==
  [][/\ \A k \in KEKs : (keks[k] # NoRow /\ keks[k].deleted /\ keks'[k] # NoRow /\ ~keks'[k].deleted)
                           => StepOf({"UndeleteKEK"})
     /\ \A d \in deks, e \in deks' : (RowOf(d) = RowOf(e) /\ d.deleted /\ ~e.deleted)
                           => StepOf({"UndeleteDEK"})]_keyTables

\* A row appears by a create only: an update that comes late does not bring a
\* purged record back.  Cassandra's updates insert, so there one request at a time.
AppearsByCreate ==
  [][backend # "cassandra" \/ load.serial =>
       /\ \A k \in KEKs : (keks[k] = NoRow /\ keks'[k] # NoRow) => StepOf({"CreateKEK"})
       /\ {RowOf(d) : d \in deks'} \subseteq {RowOf(d) : d \in deks} \/ StepOf({"CreateDEK"})]_keyTables

\* The clients send one rewrap after the other, as an operator's sweep over the DEKs
\* after a rotation does.
Swept == load.serial \/ "RewrapDEK" \in load.alone

\* In a sweep no DEK is wrapped again with an older key than it was.  (Of two rewraps
\* of one DEK at once the later write may carry the older key: nothing in the handler
\* or the backends compares them.)
RewrapAdvances ==
  [][Swept => \A d \in deks, e \in deks' :
       (RowOf(d) = RowOf(e) /\ d.mat # NoRow /\ e.mat # NoRow) => d.mat.gen <= e.mat.gen]_keyTables
=============================================================================
