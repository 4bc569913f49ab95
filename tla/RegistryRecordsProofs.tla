----------------------- MODULE RegistryRecordsProofs -----------------------
(***************************************************************************)
(* The DEK registry and the exporters, for any number of clients, KEKs,    *)
(* subjects, versions, exporters and workloads, on the four backends.      *)
(*                                                                         *)
(* RecordsInv has three parts: what the tables hold (KeyTableInv,          *)
(* ExporterTableInv); what each request has in hand (CallShape, KeyParams, *)
(* ExporterParams); and how far what it has read still holds when it       *)
(* writes (KeyHeld, ExporterHeld; KeyAlone one request at a time).  The    *)
(* last part is the argument.  A request's step is shown to be good on its *)
(* own (KeyStepGood, ExporterStepGood): it keeps the tables and its own    *)
(* request right, and leaves to the others what they have read (Grows,     *)
(* SameRecords).  OthersKeep and ExporterOthers then give the invariant    *)
(* for the other requests.  The change of a status in memory is the one    *)
(* step that reaches into other requests, since they have the same record  *)
(* in hand, and is treated by itself (ChangeStatusInv).                    *)
(*                                                                         *)
(* Where the code promises less the invariant says so: Steady, Tame,       *)
(* FlagSafe, ResetSafe and Single name the workloads of each clause.       *)
(***************************************************************************)
EXTENDS RegistryRecords, FiniteSetTheorems, WellFoundedInduction, TLAPS

\* Nothing that a request has read of the DEKs is purged before it writes; nothing
\* that a rewrap has read is.
Steady == load.serial \/ "purge" \notin load.ops
Tame == Steady \/ "RewrapDEK" \notin load.ops

\* An update of a KEK does not write a deleted flag it read before a delete.
FlagSafe == load.serial \/ "UpdateKEK" \notin load.ops \/ backend = "postgres"

-----------------------------------------------------------------------------
(* The invariant of the keys.                                              *)

\* The primary key of the DEKs.
UniqueDEK ==
  \A d, e \in deks :
    /\ d.kek = e.kek /\ d.subj = e.subj /\ d.ver = e.ver
    /\ d.alg = e.alg \/ backend \in {"memory", "cassandra"}
    => d = e

\* Every DEK is in the listing of its KEK.
ListedDEK == backend = "cassandra" /\ Steady => \A d \in deks : <<d.kek, d.subj>> \in byKek

\* What the tables hold.
KeyTableInv ==
  /\ KeyTypeOK /\ IsFiniteSet(deks) /\ IsFiniteSet(given)
  /\ \A g \in given : \E d \in deks : RowOf(d) = g.row
  /\ \A d \in deks : d.mat # NoRow => d.mat.gen <= kmsGen
  /\ UniqueDEK /\ ListedDEK /\ NoOrphanDEK
  /\ Tame => KeyMaterialKept

\* The parameters of a request, and what it has read, by its operation.
KeyParams(r) ==
  /\ r.op = "CreateKEK" => r.in \in [kek : KEKs, rec : KEKRow]
  /\ r.op = "UpdateKEK" =>
       /\ r.in \in [kek : KEKs, rec : KEKRow \cup {NoRow}]
       /\ r.at # "get" => r.in.rec \in KEKRow /\ r.in.rec.deleted = FALSE
  /\ r.op = "DeleteKEK" =>
       /\ r.in \in [kek : KEKs, permanent : BOOLEAN]
       /\ r.in.permanent => "purge" \in load.ops
       /\ r.at \in {"subjects", "batch", "deleteKEK"} => r.in.permanent
  /\ r.op = "UndeleteKEK" => r.in \in [kek : KEKs]
  /\ r.op = "CreateDEK" =>
       /\ r.in \in [kek : KEKs, subj : Subjects, ver : 0..MaxVersion, alg : Algorithms,
                    mat : Wrapped \cup {NoRow}]
       /\ r.in.mat # NoRow => r.in.mat.gen <= kmsGen
       /\ r.at \in {"listing", "insert"} => r.got \in 1..MaxVersion
  /\ r.op = "DeleteDEK" =>
       /\ r.in \in [kek : KEKs, subj : Subjects, ver : 0..MaxVersion, alg : Algorithms \cup {AnyAlg},
                    permanent : BOOLEAN]
       /\ r.in.permanent => "purge" \in load.ops
       /\ r.at \in {"remaining", "batch", "batchAll"} => r.in.permanent
       /\ r.at \in {"update", "remaining", "batch", "batchAll"} => r.got \in SUBSET (1..MaxVersion)
  /\ r.op = "UndeleteDEK" =>
       /\ r.in \in [kek : KEKs, subj : Subjects, ver : 0..MaxVersion, alg : Algorithms \cup {AnyAlg}]
       /\ r.at = "update" => r.got \in SUBSET (1..MaxVersion)
  /\ r.op = "RewrapDEK" =>
       /\ r.in \in [kek : KEKs, subj : Subjects, ver : 0..MaxVersion,
                    alg : Algorithms \cup {AnyAlg, NoAlg}, mat : Wrapped \cup {NoRow}]
       /\ r.at \in {"rewrap", "store", "update"} =>
            /\ r.in.mat \in Wrapped /\ r.in.mat.gen <= kmsGen
            /\ r.in.ver # 0 /\ r.in.alg # AnyAlg

\* The DEK that a rewrap has read is there, with the plaintext it read and, in a
\* sweep, no newer a wrapping; the versions a delete or undelete has read are there; the listing
\* entry of a create is there.
KeyHeld(r) ==
  /\ Tame /\ r.op = "RewrapDEK" /\ r.at \in {"rewrap", "store", "update"} =>
       \E d \in deks : /\ RowOf(d) = <<r.in.kek, r.in.subj, r.in.ver, r.in.alg>>
                       /\ d.mat # NoRow /\ d.mat.plain = r.in.mat.plain
                       /\ Swept => d.mat.gen <= r.in.mat.gen
  /\ Steady /\ r.op \in {"DeleteDEK", "UndeleteDEK"} /\ r.at = "update" =>
       r.got \subseteq {d.ver : d \in Rows(r.in.kek, r.in.subj)}
  /\ Steady /\ backend = "cassandra" /\ r.op = "CreateDEK" /\ r.at = "insert" =>
       <<r.in.kek, r.in.subj>> \in byKek

\* One request at a time: what was checked is still so.
KeyAlone(r) ==
  /\ r.op = "CreateDEK" /\ r.at \in {"maxVersion", "listing", "insert"} => keks[r.in.kek] # NoRow
  /\ r.op = "UpdateKEK" /\ r.at \in {"store", "update"} =>
       keks[r.in.kek] # NoRow /\ keks[r.in.kek].deleted = FALSE
  /\ r.op \in {"DeleteKEK", "UndeleteKEK"} /\ r.at = "update" => keks[r.in.kek] # NoRow
  /\ r.op = "DeleteKEK" /\ r.at = "deleteKEK" => \A d \in deks : d.kek # r.in.kek
  /\ r.op = "DeleteKEK" /\ r.at = "batch" => r.got = {s \in Subjects : <<r.in.kek, s>> \in byKek}
  /\ r.op = "DeleteDEK" /\ r.at = "remaining" =>
       r.got # {} /\ r.got = {d.ver : d \in Target(r.in, r.in.alg)}
  /\ r.op = "DeleteDEK" /\ r.at = "batchAll" => \A d \in Rows(r.in.kek, r.in.subj) : d.ver \in r.got

KeyCall(r) == KeyParams(r) /\ KeyHeld(r) /\ (load.serial => KeyAlone(r))

-----------------------------------------------------------------------------
(* The invariant of the exporters.                                         *)

\* The map and the requests agree on the status record of an exporter.
Single == backend = "memory" /\ ~load.serial /\ {"CreateExporter", "DeleteExporter"} \cap load.ops = {}

ExporterTableInv ==
  /\ exporters \in [Names -> Configs \cup {NoRow}]
  /\ statuses \in [Names -> Status \cup {NoRow}]
  /\ Checked => \A n \in Names : statuses[n] # NoRow => exporters[n] # NoRow
  /\ Single => \A n \in Names : exporters[n] # NoRow => statuses[n] # NoRow

\* The exporter runs, as its row says.
RunningRow(n) == exporters[n] # NoRow /\ statuses[n] # NoRow /\ statuses[n].state = "RUNNING"

StatusOps == {"PauseExporter", "ResumeExporter", "ResetExporter"}
ConfigOps == {"CreateExporter", "UpdateExporter", "UpdateExporterConfig"}
InHand == {"set", "write"}

ExporterParams(r) ==
  /\ r.op \in ConfigOps => r.in \in [name : Names, config : Configs]
  /\ r.op \in StatusOps \cup {"DeleteExporter"} => r.in \in [name : Names]
  /\ r.op \in ConfigOps \cup StatusOps \cup {"DeleteExporter"} /\ r.at \in InHand => r.got \in Status

\* A reset that overlaps others is left out in the databases.
ResetSafe == load.serial \/ backend = "memory" \/ "ResetExporter" \notin load.ops

ExporterHeld(r) ==
  /\ ResetSafe /\ (backend # "memory" \/ load.serial) =>
       /\ r.op \in {"CreateExporter", "PauseExporter"} /\ r.at \in InHand => r.got.state # "RUNNING"
  /\ load.serial =>
       /\ r.op = "ResetExporter" /\ r.at \in InHand /\ r.got.state = "RUNNING" => RunningRow(r.in.name)
       /\ r.op \in StatusOps \cup {"CreateExporter"} /\ r.at \in InHand \cup {"status"}
            => exporters[r.in.name] # NoRow
       /\ r.op \in {"UpdateExporter", "UpdateExporterConfig"} /\ r.at = "put" => exporters[r.in.name] # NoRow
  /\ Single /\ r.op \in StatusOps /\ r.at = "set" /\ exporters[r.in.name] # NoRow =>
       r.got.obj = statuses[r.in.name].obj

ExporterCall(r) == ExporterParams(r) /\ ExporterHeld(r)

-----------------------------------------------------------------------------
(* The invariant.                                                          *)

Ops == {"CreateKEK", "UpdateKEK", "DeleteKEK", "UndeleteKEK", "CreateDEK", "DeleteDEK", "UndeleteDEK",
        "RewrapDEK", "DeleteExporter"} \cup ConfigOps \cup StatusOps

Codes == {0, 200, 204, 404, 409, 422, 500}

\* A request, or the answer to one.
CallShape(r) ==
  /\ r = [op |-> r.op, at |-> r.at, in |-> r.in, got |-> r.got, status |-> r.status]
  /\ r.status \in Codes
  /\ \/ r.op = "none" /\ r.at = "done" /\ r.in = NoRow
     \/ r.op \in load.ops \cap Ops /\ r.at # "done"
  /\ r.op # "CreateExporter" /\ r.op \notin StatusOps => r.at \notin InHand

CallsApart ==
  \A c, d \in Clients : c # d =>
    /\ load.serial => call[c].at = "done" \/ call[d].at = "done"
    /\ "RewrapDEK" \in load.alone /\ call[c].op = "RewrapDEK" => call[d].op # "RewrapDEK"

RecordsInv ==
  /\ load \in Loads /\ backend \in load.on
  /\ call = [c \in Clients |-> call[c]]
  /\ \A c \in Clients : CallShape(call[c]) /\ KeyCall(call[c]) /\ ExporterCall(call[c])
  /\ CallsApart
  /\ KeyTableInv /\ ExporterTableInv

-----------------------------------------------------------------------------
(* Facts about the operators.                                              *)

\* What the assumptions on the constants say.
LEMMA KeyConstants ==
  /\ IsFiniteSet(Clients) /\ MaxVersion \in Nat /\ MaxGen \in Nat \ {0}
  /\ AnyAlg \notin Algorithms /\ NoAlg \notin Algorithms
  /\ NoRow \notin KEKRow /\ NoRow \notin Wrapped
BY KeyAssumption

\* A deployment has a backend.
LEMMA HasBackend ==
  ASSUME load \in Loads, backend \in load.on
  PROVE  backend \in Backends /\ load.serial \in BOOLEAN
BY LoadAssumption

\* The image of a finite set is finite.
LEMMA ImageFinite ==
  ASSUME NEW S, IsFiniteSet(S), NEW f, f = [x \in S |-> f[x]]
  PROVE  IsFiniteSet({f[x] : x \in S})
<1>1. f \in Surjection(S, {f[x] : x \in S})
  BY DEF Surjection
<1> QED BY <1>1, FS_Surjection

\* A non-empty set of numbers has a least one.
LEMMA MinInSet ==
  ASSUME NEW S \in SUBSET Nat, S # {}
  PROVE  Min(S) \in S
<1> DEFINE R == OpToRel(<, Nat)
<1>1. IsWellFoundedOn(R, Nat)
  BY NatLessThanWellFounded
<1>2. PICK x \in S : \A y \in S : <<y, x>> \notin R
  <2> HIDE DEF R
  <2> QED BY <1>1, WFMin
<1>3. ASSUME NEW y \in S PROVE x =< y
  <2>1. x \in Nat /\ y \in Nat
    OBVIOUS
  <2>2. ~(y < x)
    BY <1>2, <2>1 DEF OpToRel
  <2> QED BY <2>1, <2>2
<1> QED BY <1>3 DEF Min

\* Of the numbers up to one more than a finite set has elements one is not in it.
LEMMA FreeNumber ==
  ASSUME NEW S, IsFiniteSet(S)
  PROVE  Min((1..(Cardinality(S) + 1)) \ S) \in Nat
<1>1. PICK n \in Nat : n = Cardinality(S)
  BY FS_CardinalityType
<1>2. IsFiniteSet(1..(n + 1)) /\ Cardinality(1..(n + 1)) = n + 1
  BY FS_Interval
<1>3. ~(1..(n + 1) \subseteq S)
  BY <1>1, <1>2, FS_Subset
<1>4. (1..(n + 1)) \ S \in SUBSET Nat /\ (1..(n + 1)) \ S # {}
  BY <1>3
<1>5. Min((1..(n + 1)) \ S) \in (1..(n + 1)) \ S
  BY <1>4, MinInSet
<1> QED BY <1>1, <1>4, <1>5

\* The backends read a KEK alike.
LEMMA KEKRead ==
  ASSUME backend \in Backends, NEW k, NEW b
  PROVE  GetKEK(k, b) = KEKWhere(k, b)
BY DEF Backends, GetKEK, KEKWhere, MemGetKEK, CasGetKEK, PgGetKEK, MyGetKEK

\* The backends read a DEK alike.
LEMMA DEKRead ==
  ASSUME backend \in Backends, NEW k, NEW s, NEW v, NEW alg, NEW b
  PROVE  FindDEK(k, s, v, alg, b) = DEKWhere(k, s, v, alg, b)
BY DEF Backends, FindDEK, DEKWhere, MemGetDEK, CasGetDEK, PgGetDEK, MyGetDEK

-----------------------------------------------------------------------------
(* What a step may do to the key tables.                                   *)

\* Without purges, what other requests than c have read stays so.
Grows(c) ==
  /\ "purge" \notin load.ops =>
       /\ byKek \subseteq byKek'
       /\ \A d \in deks : \E e \in deks' :
            /\ RowOf(e) = RowOf(d)
            /\ d.mat # NoRow =>
                 /\ e.mat # NoRow /\ e.mat.plain = d.mat.plain
                 /\ e.mat.gen = d.mat.gen \/ call[c].op = "RewrapDEK"
  /\ kmsGen <= kmsGen'

\* The steps of KeysChangeAsAsked.
KEKSticks ==
  \A k \in KEKs : (keks[k] # NoRow /\ keks[k].deleted /\ keks'[k] # NoRow /\ ~keks'[k].deleted)
                     => StepOf({"UndeleteKEK"})
DEKSticks ==
  \A d \in deks, e \in deks' : (RowOf(d) = RowOf(e) /\ d.deleted /\ ~e.deleted)
                     => StepOf({"UndeleteDEK"})
Appears ==
  backend # "cassandra" \/ load.serial =>
    /\ \A k \in KEKs : (keks[k] = NoRow /\ keks'[k] # NoRow) => StepOf({"CreateKEK"})
    /\ {RowOf(d) : d \in deks'} \subseteq {RowOf(d) : d \in deks} \/ StepOf({"CreateDEK"})
Advances ==
  \A d \in deks, e \in deks' :
     (RowOf(d) = RowOf(e) /\ d.mat # NoRow /\ e.mat # NoRow) => d.mat.gen <= e.mat.gen
KeysAsked == (FlagSafe => KEKSticks) /\ DEKSticks /\ Appears /\ (Tame /\ Swept => Advances)

\* The tables keep their invariant and change as asked for.
KeyKept(c) == KeyTableInv' /\ Grows(c) /\ KeysAsked

\* A DEK is known by its row.
LEMMA SameRow ==
  ASSUME UniqueDEK, NEW d \in deks, NEW e \in deks, RowOf(d) = RowOf(e)
  PROVE  d = e
BY DEF UniqueDEK, RowOf

\* The material of a DEK.
LEMMA MaterialType ==
  ASSUME KeyTypeOK, NEW d \in deks, d.mat # NoRow
  PROVE  d.mat \in Wrapped /\ d.mat.gen \in 1..MaxGen /\ d.mat.gen \in Int
BY KeyConstants DEF KeyTypeOK, DEKRow, Wrapped

\* A step that leaves the tables alone.
LEMMA TablesRest ==
  ASSUME KeyTableInv, NEW c \in Clients, UNCHANGED <<load, backend>>, UNCHANGED keyVars
  PROVE  KeyKept(c)
<1>1. keks' = keks /\ deks' = deks /\ byKek' = byKek /\ kmsGen' = kmsGen /\ given' = given
  BY DEF keyVars
<1>2. KeyTableInv'
  BY <1>1 DEF KeyTableInv, KeyTypeOK, UniqueDEK, ListedDEK, NoOrphanDEK, Undisturbed, Steady, Tame,
              KeyMaterialKept, Told, RowOf
<1>3. Grows(c)
  <2>1. kmsGen <= kmsGen'
    BY <1>1, KeyConstants DEF KeyTableInv, KeyTypeOK
  <2> QED BY <1>1, <2>1 DEF Grows
<1>4. \A d \in deks, e \in deks' : RowOf(d) = RowOf(e) => d = e
  BY <1>1, SameRow DEF KeyTableInv
<1>5. Advances
  BY <1>4, MaterialType DEF KeyTableInv, Advances
<1>6. KEKSticks /\ DEKSticks /\ Appears
  BY <1>1, <1>4 DEF KEKSticks, DEKSticks, Appears
<1> QED BY <1>2, <1>3, <1>5, <1>6 DEF KeyKept, KeysAsked

\* A KEK is written or removed: removed only without DEKs, brought back by an
\* undelete and made by a create only.
LEMMA KEKWritten ==
  ASSUME KeyTableInv, NEW c \in Clients, UNCHANGED <<load, backend>>,
         NEW k \in KEKs, NEW row \in KEKRow \cup {NoRow},
         keks' = [keks EXCEPT ![k] = row], UNCHANGED <<deks, byKek, kmsGen, given>>,
         row = NoRow /\ Undisturbed => \A d \in deks : d.kek # k,
         FlagSafe /\ keks[k] # NoRow /\ keks[k].deleted /\ row # NoRow /\ ~row.deleted
           => StepOf({"UndeleteKEK"}),
         (backend # "cassandra" \/ load.serial) /\ keks[k] = NoRow /\ row # NoRow
           => StepOf({"CreateKEK"})
  PROVE  KeyKept(c)
<1>1. deks' = deks /\ byKek' = byKek /\ kmsGen' = kmsGen /\ given' = given
  OBVIOUS
<1>2. /\ keks \in [KEKs -> KEKRow \cup {NoRow}] /\ keks' \in [KEKs -> KEKRow \cup {NoRow}]
      /\ keks'[k] = row /\ \A j \in KEKs : j # k => keks'[j] = keks[j]
  BY DEF KeyTableInv, KeyTypeOK
<1>3. NoOrphanDEK'
  <2> SUFFICES ASSUME Undisturbed, NEW d \in deks PROVE keks'[d.kek] # NoRow
    BY <1>1 DEF NoOrphanDEK, Undisturbed
  <2>1. d.kek \in KEKs /\ keks[d.kek] # NoRow
    BY DEF KeyTableInv, KeyTypeOK, DEKRow, NoOrphanDEK
  <2> QED BY <1>2, <2>1
<1>4. KeyTableInv'
  BY <1>1, <1>2, <1>3 DEF KeyTableInv, KeyTypeOK, UniqueDEK, ListedDEK, Steady, Tame,
              KeyMaterialKept, Told, RowOf
<1>5. Grows(c)
  <2>1. kmsGen <= kmsGen'
    BY <1>1, KeyConstants DEF KeyTableInv, KeyTypeOK
  <2> QED BY <1>1, <2>1 DEF Grows
<1>6. \A d \in deks, e \in deks' : RowOf(d) = RowOf(e) => d = e
  BY <1>1, SameRow DEF KeyTableInv
<1>7. Advances
  BY <1>6, MaterialType DEF KeyTableInv, Advances
<1>8. DEKSticks
  BY <1>6 DEF DEKSticks
<1>9. FlagSafe => KEKSticks
  BY <1>2 DEF KEKSticks
<1>10. Appears
  BY <1>1, <1>2 DEF Appears
<1> QED BY <1>4, <1>5, <1>7, <1>8, <1>9, <1>10 DEF KeyKept, KeysAsked

\* A DEK is inserted under a primary key that is free.
LEMMA DEKInserted ==
  ASSUME KeyTableInv, NEW c \in Clients, UNCHANGED <<load, backend>>, NEW row \in DEKRow,
         deks' = deks \cup {row}, UNCHANGED <<keks, byKek, kmsGen>>,
         given' = IF row.mat = NoRow THEN given
                  ELSE given \cup {[row |-> RowOf(row), plain |-> row.mat.plain]},
         \A d \in deks : d.kek = row.kek /\ d.subj = row.subj /\ d.ver = row.ver
                           => d.alg # row.alg /\ backend \notin {"memory", "cassandra"},
         row.mat # NoRow => row.mat.gen <= kmsGen,
         Undisturbed => keks[row.kek] # NoRow,
         backend = "cassandra" /\ Steady => <<row.kek, row.subj>> \in byKek,
         StepOf({"CreateDEK"})
  PROVE  KeyKept(c)
<1>1. keks' = keks /\ byKek' = byKek /\ kmsGen' = kmsGen
  OBVIOUS
<1>2. \A d \in deks : RowOf(d) # RowOf(row)
  BY DEF RowOf
<1>3. KeyTypeOK'
  BY <1>1 DEF KeyTableInv, KeyTypeOK
<1>4. IsFiniteSet(deks') /\ IsFiniteSet(given')
  BY FS_AddElement DEF KeyTableInv
<1>5. \A g \in given' : \E d \in deks' : RowOf(d) = g.row
  BY DEF KeyTableInv
<1>6. \A d \in deks' : d.mat # NoRow => d.mat.gen <= kmsGen'
  BY <1>1 DEF KeyTableInv
<1>7. UniqueDEK'
  BY DEF KeyTableInv, UniqueDEK
<1>8. ListedDEK' /\ NoOrphanDEK'
  BY <1>1 DEF KeyTableInv, ListedDEK, NoOrphanDEK, Undisturbed, Steady
<1>9. KeyMaterialKept => KeyMaterialKept'
  <2> SUFFICES ASSUME KeyMaterialKept, NEW d \in deks', d.mat # NoRow, NEW g \in given', g.row = RowOf(d)
               PROVE  g.plain = d.mat.plain
    BY DEF KeyMaterialKept, Told
  <2>1. CASE d \in deks
    <3>1. g \in given
      BY <1>2, <2>1
    <3> QED BY <2>1, <3>1 DEF KeyMaterialKept, Told
  <2>2. CASE d \notin deks
    <3>1. d = row /\ g \notin given
      BY <1>2, <2>2 DEF KeyTableInv
    <3> QED BY <3>1
  <2> QED BY <2>1, <2>2
<1>10. KeyTableInv'
  BY <1>3, <1>4, <1>5, <1>6, <1>7, <1>8, <1>9 DEF KeyTableInv, Tame, Steady
<1>11. Grows(c)
  <2>1. kmsGen <= kmsGen'
    BY <1>1, KeyConstants DEF KeyTableInv, KeyTypeOK
  <2> QED BY <1>1, <2>1 DEF Grows
<1>12. \A d \in deks, e \in deks' : RowOf(d) = RowOf(e) => d = e
  BY <1>2, SameRow DEF KeyTableInv
<1>13. Advances
  BY <1>12, MaterialType DEF KeyTableInv, Advances
<1>14. KEKSticks /\ DEKSticks /\ Appears
  BY <1>1, <1>12 DEF KEKSticks, DEKSticks, Appears
<1> QED BY <1>10, <1>11, <1>13, <1>14 DEF KeyKept, KeysAsked

\* DEKs are removed, a KEK and listing entries perhaps with them: by purges only.
LEMMA DEKsRemoved ==
  ASSUME KeyTableInv, NEW c \in Clients, UNCHANGED <<load, backend>>, NEW rows,
         RemoveDEKs(rows), "purge" \in load.ops, kmsGen' = kmsGen, byKek' \in SUBSET byKek,
         NEW k \in KEKs, keks' \in {keks, [keks EXCEPT ![k] = NoRow]},
         Undisturbed /\ keks' # keks => \A d \in deks : d.kek = k => d \in rows,
         backend = "cassandra" /\ Steady => \A d \in deks \ rows : <<d.kek, d.subj>> \in byKek'
  PROVE  KeyKept(c)
<1>1. /\ deks' = deks \ rows /\ deks' \subseteq deks
      /\ given' = {g \in given : \A d \in rows : g.row # RowOf(d)} /\ given' \subseteq given
  BY DEF RemoveDEKs
<1>2. /\ keks \in [KEKs -> KEKRow \cup {NoRow}] /\ keks' \in [KEKs -> KEKRow \cup {NoRow}]
      /\ \A j \in KEKs : keks'[j] = keks[j] \/ (keks'[j] = NoRow /\ j = k /\ keks' # keks)
  BY DEF KeyTableInv, KeyTypeOK
<1>3. KeyTypeOK'
  BY <1>1, <1>2 DEF KeyTableInv, KeyTypeOK
<1>4. IsFiniteSet(deks') /\ IsFiniteSet(given')
  BY <1>1, FS_Subset DEF KeyTableInv
<1>5. \A g \in given' : \E d \in deks' : RowOf(d) = g.row
  BY <1>1 DEF KeyTableInv
<1>6. \A d \in deks' : d.mat # NoRow => d.mat.gen <= kmsGen'
  BY <1>1 DEF KeyTableInv
<1>7. UniqueDEK' /\ ListedDEK'
  BY <1>1 DEF KeyTableInv, UniqueDEK, ListedDEK, Steady
<1>8. NoOrphanDEK'
  <2> SUFFICES ASSUME Undisturbed, NEW d \in deks' PROVE keks'[d.kek] # NoRow
    BY DEF NoOrphanDEK, Undisturbed
  <2>1. d.kek \in KEKs /\ keks[d.kek] # NoRow
    BY <1>1 DEF KeyTableInv, KeyTypeOK, DEKRow, NoOrphanDEK
  <2> QED BY <1>1, <1>2, <2>1
<1>9. KeyMaterialKept => KeyMaterialKept'
  BY <1>1 DEF KeyMaterialKept, Told
<1>10. KeyTableInv'
  BY <1>3, <1>4, <1>5, <1>6, <1>7, <1>8, <1>9 DEF KeyTableInv, Tame, Steady
<1>11. Grows(c)
  <2>1. kmsGen <= kmsGen'
    BY KeyConstants DEF KeyTableInv, KeyTypeOK
  <2> QED BY <2>1 DEF Grows
<1>12. \A d \in deks, e \in deks' : RowOf(d) = RowOf(e) => d = e
  BY <1>1, SameRow DEF KeyTableInv
<1>13. Advances
  BY <1>12, MaterialType DEF KeyTableInv, Advances
<1>14. KEKSticks /\ DEKSticks
  BY <1>2, <1>12 DEF KEKSticks, DEKSticks
<1>15. Appears
  BY <1>1, <1>2 DEF Appears
<1> QED BY <1>10, <1>11, <1>13, <1>14, <1>15 DEF KeyKept, KeysAsked

\* The DEKs in rows are rewritten in place, by F; in Cassandra, where something may
\* have been purged meanwhile, rows of nulls may be added.
Rewrites(c, rows, F) ==
  \A d \in rows : /\ RowOf(F[d]) = RowOf(d)
                  /\ F[d].mat # NoRow => F[d].mat.gen <= kmsGen
                  /\ d.deleted /\ ~F[d].deleted => StepOf({"UndeleteDEK"})
                  /\ Tame => \/ F[d].mat = d.mat
                             \/ /\ d.mat # NoRow /\ F[d].mat # NoRow
                                /\ F[d].mat.plain = d.mat.plain /\ (Swept => d.mat.gen <= F[d].mat.gen)
                                /\ call[c].op = "RewrapDEK"
Fills(G) ==
  \A g \in G : /\ backend = "cassandra" /\ ~Steady
               /\ g.mat # NoRow => ~Tame /\ g.mat.gen <= kmsGen
               /\ \A d \in deks : ~(d.kek = g.kek /\ d.subj = g.subj /\ d.ver = g.ver)
               /\ \A h \in G : g.kek = h.kek /\ g.subj = h.subj /\ g.ver = h.ver => g = h

\* DEKs are rewritten or filled in: the tables keep their invariant and change as asked.
LEMMA DEKsReplaced ==
  ASSUME KeyTableInv, NEW c \in Clients, UNCHANGED <<load, backend>>,
         NEW rows \in SUBSET deks, NEW F \in [rows -> DEKRow], NEW G \in SUBSET DEKRow, IsFiniteSet(G),
         deks' = (deks \ rows) \cup {F[d] : d \in rows} \cup G, UNCHANGED <<keks, byKek, kmsGen, given>>,
         Rewrites(c, rows, F), Fills(G)
  PROVE  KeyKept(c)
<1> USE DEF Rewrites, Fills
<1>1. keks' = keks /\ byKek' = byKek /\ kmsGen' = kmsGen /\ given' = given
  OBVIOUS
<1> DEFINE Becomes(d, e) == (d \in rows /\ e = F[d]) \/ (d \notin rows /\ e = d)
\* Where each of the new rows comes from.
<1>2. \A e \in deks' : \/ e \in G
                       \/ \E d \in deks : /\ RowOf(d) = RowOf(e)
                                          /\ Becomes(d, e)
  <2> SUFFICES ASSUME NEW e \in deks', e \notin G
               PROVE  \E d \in deks : RowOf(d) = RowOf(e) /\ Becomes(d, e)
    OBVIOUS
  <2>1. CASE e \in deks \ rows
    BY <2>1
  <2>2. CASE e \notin deks \ rows
    <3>1. PICK d \in rows : e = F[d]
      BY <2>2
    <3> QED BY <3>1
  <2> QED BY <2>1, <2>2
<1>3. \A d \in deks, e \in deks' : RowOf(d) = RowOf(e) => Becomes(d, e)
  <2> SUFFICES ASSUME NEW d \in deks, NEW e \in deks', RowOf(d) = RowOf(e)
               PROVE  Becomes(d, e)
    OBVIOUS
  <2>1. e \notin G
    BY DEF RowOf
  <2>2. PICK b \in deks : RowOf(b) = RowOf(e) /\ Becomes(b, e)
    BY <1>2, <2>1
  <2>3. b = d
    BY <2>2, SameRow DEF KeyTableInv
  <2> QED BY <2>2, <2>3
<1>4. \A d \in deks : \E e \in deks' : RowOf(e) = RowOf(d) /\ Becomes(d, e)
  <2> SUFFICES ASSUME NEW d \in deks PROVE \E e \in deks' : RowOf(e) = RowOf(d) /\ Becomes(d, e)
    OBVIOUS
  <2>1. CASE d \in rows
    <3>1. F[d] \in deks' /\ RowOf(F[d]) = RowOf(d) /\ Becomes(d, F[d])
      BY <2>1
    <3> QED BY <3>1
  <2>2. CASE d \notin rows
    BY <2>2
  <2> QED BY <2>1, <2>2
<1>5. KeyTypeOK'
  BY <1>1 DEF KeyTableInv, KeyTypeOK
<1>6. IsFiniteSet(deks')
  <2>1. IsFiniteSet(rows) /\ IsFiniteSet(deks \ rows)
    BY FS_Subset DEF KeyTableInv
  <2>2. IsFiniteSet({F[d] : d \in rows})
    BY <2>1, ImageFinite
  <2> QED BY <2>1, <2>2, FS_Union
<1>7. \A g \in given' : \E d \in deks' : RowOf(d) = g.row
  BY <1>1, <1>4 DEF KeyTableInv
<1>8. \A d \in deks' : d.mat # NoRow => d.mat.gen <= kmsGen'
  BY <1>1, <1>2 DEF KeyTableInv
<1>9. UniqueDEK'
  <2> SUFFICES ASSUME NEW d \in deks', NEW e \in deks', d.kek = e.kek, d.subj = e.subj, d.ver = e.ver,
                      d.alg = e.alg \/ backend \in {"memory", "cassandra"}
               PROVE  d = e
    BY DEF UniqueDEK
  <2>1. CASE d \in G \/ e \in G
    BY <1>2, <2>1 DEF RowOf
  <2>2. CASE ~(d \in G \/ e \in G)
    <3>1. PICK a \in deks : RowOf(a) = RowOf(d) /\ Becomes(a, d)
      BY <1>2, <2>2
    <3>2. PICK b \in deks : RowOf(b) = RowOf(e) /\ Becomes(b, e)
      BY <1>2, <2>2
    <3>3. a = b
      BY <3>1, <3>2 DEF KeyTableInv, UniqueDEK, RowOf
    <3> QED BY <3>1, <3>2, <3>3
  <2> QED BY <2>1, <2>2
<1>10. ListedDEK'
  BY <1>1, <1>2 DEF KeyTableInv, ListedDEK, Steady, RowOf
<1>11. NoOrphanDEK'
  BY <1>1, <1>2 DEF KeyTableInv, NoOrphanDEK, Undisturbed, Steady, RowOf
<1>12. Tame => KeyMaterialKept'
  <2> SUFFICES ASSUME Tame, NEW e \in deks', e.mat # NoRow, NEW g \in given, g.row = RowOf(e)
               PROVE  g.plain = e.mat.plain
    BY <1>1 DEF KeyMaterialKept, Told
  <2>1. PICK d \in deks : RowOf(d) = RowOf(e) /\ Becomes(d, e)
    BY <1>2
  <2>2. d.mat # NoRow => g.plain = d.mat.plain
    <3>1. KeyMaterialKept
      BY DEF KeyTableInv
    <3>2. g.plain \in Told(RowOf(d))
      BY <2>1 DEF Told
    <3> QED BY <3>1, <3>2 DEF KeyMaterialKept
  <2> QED BY <2>1, <2>2
<1>13. KeyTableInv'
  BY <1>1, <1>5, <1>6, <1>7, <1>8, <1>9, <1>10, <1>11, <1>12 DEF KeyTableInv, Tame, Steady
<1>14. Grows(c)
  <2>1. kmsGen <= kmsGen'
    BY <1>1, KeyConstants DEF KeyTableInv, KeyTypeOK
  <2>2. "purge" \notin load.ops => Tame
    BY DEF Tame, Steady
  <2>3. ASSUME "purge" \notin load.ops, NEW d \in deks
        PROVE  \E e \in deks' : /\ RowOf(e) = RowOf(d)
                                /\ d.mat # NoRow =>
                                     /\ e.mat # NoRow /\ e.mat.plain = d.mat.plain
                                     /\ e.mat.gen = d.mat.gen \/ call[c].op = "RewrapDEK"
    <3>1. PICK e \in deks' : RowOf(e) = RowOf(d) /\ Becomes(d, e)
      BY <1>4
    <3>2. d.mat # NoRow => /\ e.mat # NoRow /\ e.mat.plain = d.mat.plain
                           /\ e.mat.gen = d.mat.gen \/ call[c].op = "RewrapDEK"
      BY <2>2, <2>3, <3>1
    <3> QED BY <3>1, <3>2
  <2> QED BY <1>1, <2>1, <2>3 DEF Grows
<1>15. Tame /\ Swept => Advances
  BY <1>3, MaterialType DEF KeyTableInv, Advances
<1>16. KEKSticks /\ DEKSticks
  BY <1>1, <1>3 DEF KEKSticks, DEKSticks
<1>17. Appears
  <2>1. backend # "cassandra" \/ load.serial => {RowOf(d) : d \in deks'} \subseteq {RowOf(d) : d \in deks}
    BY <1>2 DEF Steady
  <2> QED BY <1>1, <2>1 DEF Appears
<1> QED BY <1>13, <1>14, <1>15, <1>16, <1>17 DEF KeyKept, KeysAsked

-----------------------------------------------------------------------------
(* What a step may do to the requests.                                     *)

CallOK(c) == CallShape(call[c]) /\ KeyCall(call[c]) /\ ExporterCall(call[c])

\* Client c goes on with its request, or begins one.
Moves(c) ==
  /\ call' = [call EXCEPT ![c] = call'[c]]
  /\ \/ call[c].at # "done" /\ call'[c].op \in {call[c].op, "none"}
     \/ /\ call[c].at = "done"
        /\ load.serial => \A d \in Clients : call[d].at = "done"
        /\ "RewrapDEK" \in load.alone /\ call'[c].op = "RewrapDEK" => \A d \in Clients : call[d].op # "RewrapDEK"

KeyRequests == {"CreateKEK", "UpdateKEK", "DeleteKEK", "UndeleteKEK", "CreateDEK", "DeleteDEK", "UndeleteDEK",
           "RewrapDEK"}

\* What a step of the DEK registry preserves.
KeyStepGood(c) == Moves(c) /\ CallOK(c)' /\ KeyKept(c)

\* The parts of the invariant, for citing.
LEMMA InvParts ==
  ASSUME RecordsInv
  PROVE  /\ backend \in Backends /\ load.serial \in BOOLEAN /\ load \in Loads
         /\ call = [c \in Clients |-> call[c]] /\ KeyTableInv /\ KeyTypeOK
         /\ \A c \in Clients : /\ CallShape(call[c]) /\ KeyParams(call[c]) /\ KeyHeld(call[c])
                               /\ load.serial => KeyAlone(call[c])
BY HasBackend DEF RecordsInv, KeyTableInv, KeyCall

\* The request is answered.
LEMMA AnswerGood ==
  ASSUME RecordsInv, NEW c \in Clients, UNCHANGED <<load, backend>>, call[c].at # "done",
         NEW status \in Codes, Answer(c, status)
  PROVE  /\ Moves(c) /\ CallOK(c)' /\ call'[c].at = "done" /\ call'[c].op = "none"
         /\ call'[c].at # call[c].at
<1>1. call = [d \in Clients |-> call[d]]
  BY InvParts
<1>2. PICK r : r = [op |-> "none", at |-> "done", in |-> NoRow, got |-> NoRow, status |-> status]
  OBVIOUS
<1>3. [Idle EXCEPT !.status = status] = r
  BY <1>2 DEF Idle
<1>4. call' = [call EXCEPT ![c] = r]
  BY <1>3 DEF Answer
<1>5. call'[c] = r
  BY <1>1, <1>4
<1>6. CallShape(call[c])'
  BY <1>2, <1>5 DEF CallShape, StatusOps, InHand
<1>7. KeyCall(call[c])' /\ ExporterCall(call[c])'
  BY <1>2, <1>5 DEF KeyCall, KeyParams, KeyHeld, KeyAlone, ExporterCall, ExporterParams, ExporterHeld,
                    StatusOps, ConfigOps
<1>8. Moves(c)
  <2>1. call' = [call EXCEPT ![c] = call'[c]]
    BY <1>4, <1>5
  <2> QED BY <1>2, <1>5, <2>1 DEF Moves
<1> QED BY <1>2, <1>5, <1>6, <1>7, <1>8 DEF CallOK

\* The store returns to the handler.
LEMMA ReturnGood ==
  ASSUME RecordsInv, NEW c \in Clients, UNCHANGED <<load, backend>>, call[c].at # "done",
         NEW err, Return(c, err)
  PROVE  /\ Moves(c) /\ CallOK(c)' /\ call'[c].at = "done" /\ call'[c].op = "none"
         /\ call'[c].at # call[c].at
<1>1. StatusCode(call[c].op, err) \in Codes
  BY DEF StatusCode, Codes
<1> QED BY <1>1, AnswerGood DEF Return

\* The request goes on to another step.
LEMMA GotoFields ==
  ASSUME RecordsInv, NEW c \in Clients, NEW at, NEW got, Goto(c, at, got)
  PROVE  /\ call' = [call EXCEPT ![c] = call'[c]]
         /\ call'[c].op = call[c].op /\ call'[c].at = at /\ call'[c].in = call[c].in
         /\ call'[c].got = got /\ call'[c].status = call[c].status
         /\ call'[c] = [op |-> call'[c].op, at |-> call'[c].at, in |-> call'[c].in, got |-> call'[c].got,
                        status |-> call'[c].status]
<1>1. call = [d \in Clients |-> call[d]] /\ CallShape(call[c])
  BY InvParts
<1>2. PICK r : r = call[c]
  OBVIOUS
<1>3. r = [op |-> r.op, at |-> r.at, in |-> r.in, got |-> r.got, status |-> r.status]
  BY <1>1, <1>2 DEF CallShape
<1>4. PICK q : q = [[r EXCEPT !.at = at] EXCEPT !.got = got]
  OBVIOUS
<1>5. q = [op |-> r.op, at |-> at, in |-> r.in, got |-> got, status |-> r.status]
  BY <1>3, <1>4
<1>6. call' = [call EXCEPT ![c] = q]
  BY <1>2, <1>4 DEF Goto
<1>7. call'[c] = q
  BY <1>1, <1>6
<1>8. call' = [call EXCEPT ![c] = call'[c]]
  BY <1>6, <1>7
<1> QED BY <1>2, <1>5, <1>7, <1>8

\* What of the request that leaves alone.
LEMMA GotoKeeps ==
  ASSUME RecordsInv, NEW c \in Clients, NEW at, NEW got, Goto(c, at, got)
  PROVE  call'[c].op = call[c].op /\ call'[c].at = at /\ call'[c].in = call[c].in /\ call'[c].got = got
<1>1. /\ call' = [call EXCEPT ![c] = call'[c]]
      /\ call'[c].op = call[c].op /\ call'[c].at = at /\ call'[c].in = call[c].in
      /\ call'[c].got = got /\ call'[c].status = call[c].status
      /\ call'[c] = [op |-> call'[c].op, at |-> call'[c].at, in |-> call'[c].in, got |-> call'[c].got,
                     status |-> call'[c].status]
  BY GotoFields, Zenon
<1> QED BY <1>1

\* A request for the DEK registry goes on.
LEMMA GotoGood ==
  ASSUME RecordsInv, NEW c \in Clients, UNCHANGED <<load, backend>>, call[c].op \in KeyRequests,
         NEW at, NEW got, Goto(c, at, got), at \notin {"done", "set", "write"}, KeyCall(call[c])'
  PROVE  Moves(c) /\ CallOK(c)'
<1>1. CallShape(call[c])
  BY InvParts
<1>2. call[c].at # "done" /\ call[c].op \in load.ops \cap Ops
  BY <1>1 DEF CallShape, KeyRequests
<1>3. CallShape(call[c])'
  BY <1>1, <1>2, GotoFields DEF CallShape, KeyRequests, StatusOps, InHand
<1>4. ExporterCall(call[c])'
  BY GotoFields DEF ExporterCall, ExporterParams, ExporterHeld, KeyRequests, StatusOps, ConfigOps
<1> QED BY <1>2, <1>3, <1>4, GotoFields DEF Moves, CallOK

\* A request for the DEK registry begins.
LEMMA BeginGood ==
  ASSUME RecordsInv, NEW c \in Clients, UNCHANGED <<load, backend>>, UNCHANGED keyVars,
         NEW op \in KeyRequests, NEW at, NEW in, Begin(c, op, at, in),
         at \in {"get", "getKEK", "store"}, op = "RewrapDEK" => at = "getKEK",
         op = "UpdateKEK" => at = "get",
         KeyParams([op |-> op, at |-> at, in |-> in, got |-> NoRow, status |-> 0])
  PROVE  KeyStepGood(c)
<1>1. call = [d \in Clients |-> call[d]] /\ KeyTableInv
  BY InvParts
<1>2. PICK r : r = [op |-> op, at |-> at, in |-> in, got |-> NoRow, status |-> 0]
  OBVIOUS
<1>3. /\ r.op = op /\ r.at = at /\ r.in = in /\ r.got = NoRow /\ r.status = 0
      /\ r = [op |-> r.op, at |-> r.at, in |-> r.in, got |-> r.got, status |-> r.status]
  BY <1>2
<1>4. call' = [call EXCEPT ![c] = r] /\ call'[c] = r
  BY <1>1, <1>2 DEF Begin
<1>5. KeyCall(call[c])'
  <2>1. KeyParams(r)
    BY <1>2
  <2>2. KeyParams(call[c])'
    BY <1>4, <2>1 DEF KeyParams, keyVars
  <2>3. KeyHeld(call[c])' /\ KeyAlone(call[c])'
    BY <1>3, <1>4 DEF KeyHeld, KeyAlone
  <2> QED BY <2>2, <2>3 DEF KeyCall
<1>6. CallShape(call[c])'
  BY <1>3, <1>4 DEF CallShape, Begin, KeyRequests, Ops, StatusOps, InHand, Codes
<1>7. ExporterCall(call[c])'
  BY <1>3, <1>4 DEF ExporterCall, ExporterParams, ExporterHeld, KeyRequests, StatusOps, ConfigOps
<1>8. Moves(c)
  BY <1>3, <1>4 DEF Moves, Begin
<1>9. KeyKept(c)
  BY <1>1, TablesRest
<1> QED BY <1>5, <1>6, <1>7, <1>8, <1>9 DEF KeyStepGood, CallOK

-----------------------------------------------------------------------------
(* The steps of the DEK registry.                                          *)

\* A new plaintext is a number.
LEMMA FreshPlainType ==
  ASSUME RecordsInv
  PROVE  FreshPlain \in Nat
<1> DEFINE A == {e \in deks : e.mat # NoRow}
           C == {d \in Clients : call[d].in # NoRow /\ "mat" \in DOMAIN call[d].in /\ call[d].in.mat # NoRow}
<1>1. IsFiniteSet(A) /\ IsFiniteSet(given) /\ IsFiniteSet(C)
  BY InvParts, KeyConstants, FS_Subset DEF KeyTableInv
<1>2. IsFiniteSet({d.mat.plain : d \in A})
  <2> HIDE DEF A
  <2> DEFINE f == [d \in A |-> d.mat.plain]
  <2>1. IsFiniteSet({f[d] : d \in A})
    <3> HIDE DEF f
    <3>1. f = [d \in A |-> f[d]]
      BY DEF f
    <3> QED BY <1>1, <3>1, ImageFinite
  <2> QED BY <2>1
<1>3. IsFiniteSet({g.plain : g \in given})
  <2> DEFINE f == [g \in given |-> g.plain]
  <2>1. IsFiniteSet({f[g] : g \in given})
    <3> HIDE DEF f
    <3>1. f = [d \in given |-> f[d]]
      BY DEF f
    <3> QED BY <1>1, <3>1, ImageFinite
  <2> QED BY <2>1
<1>4. IsFiniteSet({call[c].in.mat.plain : c \in C})
  <2> HIDE DEF C
  <2> DEFINE f == [c \in C |-> call[c].in.mat.plain]
  <2>1. IsFiniteSet({f[c] : c \in C})
    <3> HIDE DEF f
    <3>1. f = [c \in C |-> f[c]]
      BY DEF f
    <3> QED BY <1>1, <3>1, ImageFinite
  <2> QED BY <2>1
<1>5. IsFiniteSet(Plains)
  <2> HIDE DEF A, C
  <2>1. Plains = {d.mat.plain : d \in A} \cup {g.plain : g \in given} \cup {call[c].in.mat.plain : c \in C}
    BY DEF Plains, A, C
  <2> QED BY <1>2, <1>3, <1>4, <2>1, FS_Union
<1> QED BY <1>5, FreeNumber DEF FreshPlain

\* HandleCreateKEK starts a create with a KEK that is not deleted.
LEMMA CreateKEKBegins ==
  ASSUME RecordsInv, NEW c \in Clients, UNCHANGED <<load, backend>>, HandleCreateKEK(c)
  PROVE  KeyStepGood(c)
<1>1. PICK k \in KEKs, shared \in BOOLEAN :
         Begin(c, "CreateKEK", "store",
               [kek |-> k, rec |-> [shared |-> shared, doc |-> FALSE, deleted |-> FALSE]])
  BY DEF HandleCreateKEK
<1>2. PICK in : in = [kek |-> k, rec |-> [shared |-> shared, doc |-> FALSE, deleted |-> FALSE]]
  OBVIOUS
<1>3. in \in [kek : KEKs, rec : KEKRow]
  BY <1>2 DEF KEKRow
<1>4. KeyParams([op |-> "CreateKEK", at |-> "store", in |-> in, got |-> NoRow, status |-> 0])
  BY <1>3 DEF KeyParams
<1>5. UNCHANGED keyVars /\ Begin(c, "CreateKEK", "store", in)
  BY <1>1, <1>2 DEF HandleCreateKEK
<1> QED BY <1>4, <1>5, BeginGood DEF KeyRequests

\* HandleUpdateKEK starts an update; nothing is read yet.
LEMMA UpdateKEKBegins ==
  ASSUME RecordsInv, NEW c \in Clients, UNCHANGED <<load, backend>>, UNCHANGED keyVars,
         NEW k \in KEKs, Begin(c, "UpdateKEK", "get", [kek |-> k, rec |-> NoRow])
  PROVE  KeyStepGood(c)
<1>1. KeyParams([op |-> "UpdateKEK", at |-> "get", in |-> [kek |-> k, rec |-> NoRow], got |-> NoRow,
                 status |-> 0])
  BY DEF KeyParams
<1> QED BY <1>1, BeginGood DEF KeyRequests

\* HandleDeleteKEK starts a delete, permanent only where purges are sent.
LEMMA DeleteKEKBegins ==
  ASSUME RecordsInv, NEW c \in Clients, UNCHANGED <<load, backend>>, HandleDeleteKEK(c)
  PROVE  KeyStepGood(c)
<1>1. PICK k \in KEKs, permanent \in BOOLEAN :
        /\ permanent => "purge" \in load.ops
        /\ Begin(c, "DeleteKEK", "store", [kek |-> k, permanent |-> permanent])
  BY DEF HandleDeleteKEK
<1>2. KeyParams([op |-> "DeleteKEK", at |-> "store", in |-> [kek |-> k, permanent |-> permanent],
                 got |-> NoRow, status |-> 0])
  BY <1>1 DEF KeyParams
<1>3. UNCHANGED keyVars
  BY DEF HandleDeleteKEK
<1> QED BY <1>1, <1>2, <1>3, BeginGood DEF KeyRequests

\* HandleUndeleteKEK starts an undelete.
LEMMA UndeleteKEKBegins ==
  ASSUME RecordsInv, NEW c \in Clients, UNCHANGED <<load, backend>>, HandleUndeleteKEK(c)
  PROVE  KeyStepGood(c)
<1>1. PICK k \in KEKs : Begin(c, "UndeleteKEK", "store", [kek |-> k])
  BY DEF HandleUndeleteKEK
<1>2. KeyParams([op |-> "UndeleteKEK", at |-> "store", in |-> [kek |-> k], got |-> NoRow, status |-> 0])
  BY DEF KeyParams
<1>3. UNCHANGED keyVars
  BY DEF HandleUndeleteKEK
<1> QED BY <1>1, <1>2, <1>3, BeginGood DEF KeyRequests

\* HandleCreateDEK starts a create with one of the algorithms.
LEMMA CreateDEKBegins ==
  ASSUME RecordsInv, NEW c \in Clients, UNCHANGED <<load, backend>>, HandleCreateDEK(c)
  PROVE  KeyStepGood(c)
<1>1. PICK k \in KEKs, s \in Subjects, v \in 0..MaxVersion, alg \in load.algs \ {AnyAlg}, own \in BOOLEAN :
        Begin(c, "CreateDEK", IF own THEN "store" ELSE "getKEK",
              [kek |-> k, subj |-> s, ver |-> v, alg |-> alg,
               mat |-> IF own THEN [plain |-> FreshPlain, gen |-> kmsGen] ELSE NoRow])
  BY DEF HandleCreateDEK
<1>2. PICK at : at = IF own THEN "store" ELSE "getKEK"
  OBVIOUS
<1>3. PICK mat : mat = IF own THEN [plain |-> FreshPlain, gen |-> kmsGen] ELSE NoRow
  OBVIOUS
<1>4. mat \in Wrapped \cup {NoRow} /\ (mat # NoRow => mat.gen <= kmsGen)
  BY <1>3, FreshPlainType, InvParts, KeyConstants DEF Wrapped, KeyTypeOK
<1>5. alg \in Algorithms
  BY InvParts, KeyAssumption
<1>6. PICK in : in = [kek |-> k, subj |-> s, ver |-> v, alg |-> alg, mat |-> mat]
  OBVIOUS
<1>7. /\ in \in [kek : KEKs, subj : Subjects, ver : 0..MaxVersion, alg : Algorithms, mat : Wrapped \cup {NoRow}]
      /\ in.mat = mat
  BY <1>4, <1>5, <1>6
<1>8. at \in {"store", "getKEK"}
  BY <1>2
<1>9. KeyParams([op |-> "CreateDEK", at |-> at, in |-> in, got |-> NoRow, status |-> 0])
  BY <1>4, <1>7, <1>8 DEF KeyParams
<1>10. UNCHANGED keyVars /\ Begin(c, "CreateDEK", at, in)
  BY <1>1, <1>2, <1>3, <1>6 DEF HandleCreateDEK
<1> QED BY <1>8, <1>9, <1>10, BeginGood DEF KeyRequests

\* The two delete handlers of DEKs start a delete.
LEMMA DeleteDEKBegins ==
  ASSUME RecordsInv, NEW c \in Clients, UNCHANGED <<load, backend>>, UNCHANGED keyVars,
         NEW versions \in SUBSET (0..MaxVersion), BeginDeleteDEK(c, versions)
  PROVE  KeyStepGood(c)
<1>1. PICK k \in KEKs, s \in Subjects, v \in versions, alg \in load.algs, permanent \in BOOLEAN :
        /\ permanent => "purge" \in load.ops
        /\ Begin(c, "DeleteDEK", "store",
                 [kek |-> k, subj |-> s, ver |-> v, alg |-> alg, permanent |-> permanent])
  BY DEF BeginDeleteDEK
<1>2. PICK in : in = [kek |-> k, subj |-> s, ver |-> v, alg |-> alg, permanent |-> permanent]
  OBVIOUS
<1>3. alg \in Algorithms \cup {AnyAlg}
  BY InvParts, KeyAssumption
<1>4. /\ in \in [kek : KEKs, subj : Subjects, ver : 0..MaxVersion, alg : Algorithms \cup {AnyAlg},
                 permanent : BOOLEAN]
      /\ in.permanent = permanent
  BY <1>2, <1>3
<1>5. KeyParams([op |-> "DeleteDEK", at |-> "store", in |-> in, got |-> NoRow, status |-> 0])
  BY <1>1, <1>4 DEF KeyParams
<1>6. Begin(c, "DeleteDEK", "store", in)
  BY <1>1, <1>2
<1> QED BY <1>5, <1>6, BeginGood DEF KeyRequests

\* The two undelete handlers of DEKs start an undelete.
LEMMA UndeleteDEKBegins ==
  ASSUME RecordsInv, NEW c \in Clients, UNCHANGED <<load, backend>>, UNCHANGED keyVars,
         NEW versions \in SUBSET (0..MaxVersion), BeginUndeleteDEK(c, versions)
  PROVE  KeyStepGood(c)
<1>1. PICK k \in KEKs, s \in Subjects, v \in versions, alg \in load.algs :
        Begin(c, "UndeleteDEK", "store", [kek |-> k, subj |-> s, ver |-> v, alg |-> alg])
  BY DEF BeginUndeleteDEK
<1>2. PICK in : in = [kek |-> k, subj |-> s, ver |-> v, alg |-> alg]
  OBVIOUS
<1>3. alg \in Algorithms \cup {AnyAlg}
  BY InvParts, KeyAssumption
<1>4. in \in [kek : KEKs, subj : Subjects, ver : 0..MaxVersion, alg : Algorithms \cup {AnyAlg}]
  BY <1>2, <1>3
<1>5. KeyParams([op |-> "UndeleteDEK", at |-> "store", in |-> in, got |-> NoRow, status |-> 0])
  BY <1>4 DEF KeyParams
<1>6. Begin(c, "UndeleteDEK", "store", in)
  BY <1>1, <1>2
<1> QED BY <1>5, <1>6, BeginGood DEF KeyRequests

\* HandleRewrapDEK starts a rewrap.
LEMMA RewrapDEKBegins ==
  ASSUME RecordsInv, NEW c \in Clients, UNCHANGED <<load, backend>>, HandleRewrapDEK(c)
  PROVE  KeyStepGood(c)
<1>1. PICK k \in KEKs, s \in Subjects, alg \in load.algs :
        Begin(c, "RewrapDEK", "getKEK", [kek |-> k, subj |-> s, ver |-> 0, alg |-> alg, mat |-> NoRow])
  BY DEF HandleRewrapDEK
<1>2. PICK in : in = [kek |-> k, subj |-> s, ver |-> 0, alg |-> alg, mat |-> NoRow]
  OBVIOUS
<1>3. alg \in Algorithms \cup {AnyAlg, NoAlg} /\ 0 \in 0..MaxVersion
  BY InvParts, KeyAssumption
<1>4. in \in [kek : KEKs, subj : Subjects, ver : 0..MaxVersion, alg : Algorithms \cup {AnyAlg, NoAlg},
              mat : Wrapped \cup {NoRow}]
  BY <1>2, <1>3
<1>5. KeyParams([op |-> "RewrapDEK", at |-> "getKEK", in |-> in, got |-> NoRow, status |-> 0])
  BY <1>4 DEF KeyParams
<1>6. UNCHANGED keyVars /\ Begin(c, "RewrapDEK", "getKEK", in)
  BY <1>1, <1>2 DEF HandleRewrapDEK
<1> QED BY <1>5, <1>6, BeginGood DEF KeyRequests

\* What a request has read holds on while the tables stay.
LEMMA SameKeys ==
  ASSUME NEW c \in Clients, UNCHANGED <<load, backend>>, UNCHANGED keyVars, NEW r, call'[c] = r, KeyCall(r)
  PROVE  KeyCall(call[c])'
<1>1. keks' = keks /\ deks' = deks /\ byKek' = byKek /\ kmsGen' = kmsGen
  BY DEF keyVars
<1>2. KeyParams(call[c])'
  BY <1>1 DEF KeyCall, KeyParams
<1>3. KeyHeld(call[c])'
  BY <1>1 DEF KeyCall, KeyHeld, Tame, Steady, Swept, Rows
<1>4. load.serial => KeyAlone(call[c])'
  BY <1>1 DEF KeyCall, KeyAlone, Target, Filter, Rows
<1> QED BY <1>2, <1>3, <1>4 DEF KeyCall

\* A step that leaves the tables alone: the request goes on, or is answered.
LEMMA GoStays ==
  ASSUME RecordsInv, NEW c \in Clients, UNCHANGED <<load, backend>>, UNCHANGED keyVars,
         call[c].op \in KeyRequests, NEW at, at \notin {"done", "set", "write"}, NEW in, NEW got,
         NEW r, r = [op |-> call[c].op, at |-> at, in |-> in, got |-> got, status |-> call[c].status],
         call' = [call EXCEPT ![c] = r], KeyCall(r)
  PROVE  KeyStepGood(c)
<1>1. call = [d \in Clients |-> call[d]] /\ KeyTableInv /\ CallShape(call[c])
  BY InvParts
<1>2. call'[c] = r
  BY <1>1
<1>3. /\ r.op = call[c].op /\ r.at = at /\ r.in = in /\ r.got = got /\ r.status = call[c].status
      /\ r = [op |-> r.op, at |-> r.at, in |-> r.in, got |-> r.got, status |-> r.status]
  OBVIOUS
<1>4. KeyCall(call[c])'
  BY <1>2, SameKeys
<1>5. call[c].at # "done" /\ call[c].op \in load.ops \cap Ops
  BY <1>1 DEF CallShape, KeyRequests
<1>6. CallShape(call[c])'
  BY <1>1, <1>2, <1>3, <1>5 DEF CallShape, KeyRequests, StatusOps, InHand
<1>7. ExporterCall(call[c])'
  BY <1>2, <1>3 DEF ExporterCall, ExporterParams, ExporterHeld, KeyRequests, StatusOps, ConfigOps
<1>8. Moves(c)
  <2>1. call' = [call EXCEPT ![c] = call'[c]]
    BY <1>2
  <2> QED BY <1>2, <1>3, <1>5, <2>1 DEF Moves
<1>9. KeyKept(c)
  BY <1>1, TablesRest
<1> QED BY <1>4, <1>6, <1>7, <1>8, <1>9 DEF KeyStepGood, CallOK

\* The same, for a request that keeps its parameters.
LEMMA GotoStays ==
  ASSUME RecordsInv, NEW c \in Clients, UNCHANGED <<load, backend>>, UNCHANGED keyVars,
         call[c].op \in KeyRequests, NEW at, at \notin {"done", "set", "write"}, NEW got, Goto(c, at, got),
         KeyCall([op |-> call[c].op, at |-> at, in |-> call[c].in, got |-> got, status |-> call[c].status])
  PROVE  KeyStepGood(c)
<1>1. PICK r : r = [op |-> call[c].op, at |-> at, in |-> call[c].in, got |-> got, status |-> call[c].status]
  OBVIOUS
<1>2. call' = [call EXCEPT ![c] = r]
  <2>1. PICK q : q = call'[c]
    OBVIOUS
  <2>2. /\ q = [op |-> q.op, at |-> q.at, in |-> q.in, got |-> q.got, status |-> q.status]
        /\ q.op = call[c].op /\ q.at = at /\ q.in = call[c].in /\ q.got = got /\ q.status = call[c].status
        /\ call' = [call EXCEPT ![c] = q]
    BY <2>1, GotoFields
  <2>3. q = r
    BY <1>1, <2>2
  <2> QED BY <2>2, <2>3
<1>3. KeyCall(r)
  BY <1>1
<1> QED BY <1>1, <1>2, <1>3, GoStays

\* The same, for a request that returns.
LEMMA ReturnStays ==
  ASSUME RecordsInv, NEW c \in Clients, UNCHANGED <<load, backend>>, UNCHANGED keyVars,
         call[c].at # "done", NEW err, Return(c, err)
  PROVE  KeyStepGood(c)
BY InvParts, ReturnGood, TablesRest DEF KeyStepGood

\* The update of a KEK reads it.
LEMMA UpdateKEKReads ==
  ASSUME RecordsInv, NEW c \in Clients, UNCHANGED <<load, backend>>, HandleUpdateKEK(c)
  PROVE  KeyStepGood(c)
<1>1. UNCHANGED keyVars
  BY DEF HandleUpdateKEK
<1>2. ASSUME NEW k \in KEKs, Begin(c, "UpdateKEK", "get", [kek |-> k, rec |-> NoRow])
      PROVE  KeyStepGood(c)
  BY <1>1, <1>2, UpdateKEKBegins
<1>3. ASSUME At(c, "UpdateKEK", "get"), GetKEK(call[c].in.kek, FALSE) = NoRow, Answer(c, 404)
      PROVE  KeyStepGood(c)
  <2>1. call[c].at # "done"
    BY <1>3 DEF At
  <2>2. Moves(c) /\ CallOK(c)'
    BY <1>3, <2>1, AnswerGood DEF Codes
  <2> QED BY <1>1, <2>2, InvParts, TablesRest DEF KeyStepGood
<1>4. ASSUME At(c, "UpdateKEK", "get"), GetKEK(call[c].in.kek, FALSE) # NoRow, NEW shared \in BOOLEAN,
             call' = [call EXCEPT ![c].at = "store",
                                  ![c].in.rec = [GetKEK(call[c].in.kek, FALSE) EXCEPT !.doc = TRUE, !.shared = shared]]
      PROVE  KeyStepGood(c)
  <2>1. PICK k : k = call[c].in.kek
    OBVIOUS
  <2>2. PICK kek : kek = GetKEK(k, FALSE)
    OBVIOUS
  <2>3. call[c].in \in [kek : KEKs, rec : KEKRow \cup {NoRow}] /\ k \in KEKs
    BY <1>4, <2>1, InvParts DEF At, KeyParams
  <2>4. kek \in KEKRow /\ kek = keks[k] /\ ~kek.deleted
    <3>1. kek = KEKWhere(k, FALSE) /\ kek # NoRow
      BY <1>4, <2>1, <2>2, KEKRead, InvParts
    <3>2. keks[k] \in KEKRow \cup {NoRow}
      BY <2>3, InvParts DEF KeyTypeOK
    <3> QED BY <3>1, <3>2 DEF KEKWhere
  <2>5. PICK rec : rec = [kek EXCEPT !.doc = TRUE, !.shared = shared]
    OBVIOUS
  <2>6. rec \in KEKRow /\ rec.deleted = FALSE
    BY <2>4, <2>5 DEF KEKRow
  <2>7. PICK in : in = [kek |-> k, rec |-> rec]
    OBVIOUS
  <2>8. PICK r : r = [op |-> call[c].op, at |-> "store", in |-> in, got |-> call[c].got,
                      status |-> call[c].status]
    OBVIOUS
  <2>9. call' = [call EXCEPT ![c] = r]
    <3>1. PICK p : p = call[c]
      OBVIOUS
    <3>2. p = [op |-> p.op, at |-> p.at, in |-> p.in, got |-> p.got, status |-> p.status]
      BY <3>1, InvParts DEF CallShape
    <3>3. [p.in EXCEPT !.rec = rec] = in
      BY <2>1, <2>3, <2>7, <3>1
    <3>4. r = [op |-> p.op, at |-> "store", in |-> in, got |-> p.got, status |-> p.status]
      BY <2>8, <3>1
    <3>5. [p EXCEPT !.at = "store", !.in.rec = rec] = r
      <4>1. PICK q : q = [p EXCEPT !.at = "store", !.in.rec = rec]
        OBVIOUS
      <4>2. q = [op |-> p.op, at |-> "store", in |-> [p.in EXCEPT !.rec = rec], got |-> p.got,
                 status |-> p.status]
        BY <3>2, <4>1
      <4> QED BY <3>3, <3>4, <4>1, <4>2
    <3>6. call' = [call EXCEPT ![c] = [p EXCEPT !.at = "store", !.in.rec = rec]]
      BY <1>4, <2>1, <2>2, <2>5, <3>1
    <3> QED BY <3>5, <3>6
  <2>10. /\ r.op = "UpdateKEK" /\ r.at = "store" /\ r.in = in /\ r.in.kek = k /\ r.in.rec = rec
         /\ r.in \in [kek : KEKs, rec : KEKRow \cup {NoRow}]
    BY <1>4, <2>3, <2>6, <2>7, <2>8 DEF At
  <2>11. keks[k] # NoRow /\ keks[k].deleted = FALSE
    BY <2>4, KeyConstants DEF KEKRow
  <2>12. KeyCall(r)
    BY <2>6, <2>10, <2>11 DEF KeyCall, KeyParams, KeyHeld, KeyAlone
  <2> QED BY <1>1, <1>4, <2>8, <2>9, <2>12, GoStays DEF At, KeyRequests
<1> QED BY <1>2, <1>3, <1>4 DEF HandleUpdateKEK

\* The service of a create reads the KEK and has the material generated.
LEMMA CreateDEKService ==
  ASSUME RecordsInv, NEW c \in Clients, UNCHANGED <<load, backend>>, CreateDEK(c)
  PROVE  KeyStepGood(c)
<1>1. UNCHANGED keyVars /\ call[c].op = "CreateDEK" /\ call[c].at # "done"
  BY DEF CreateDEK, At
<1>2. ASSUME NEW err, Return(c, err) PROVE KeyStepGood(c)
  BY <1>1, <1>2, ReturnStays
<1>3. KeyParams(call[c])
  BY InvParts
<1>4. ASSUME NEW at \in {"generate", "store"}, Goto(c, at, NoRow) PROVE KeyStepGood(c)
  <2>1. PICK r : r = [op |-> call[c].op, at |-> at, in |-> call[c].in, got |-> NoRow, status |-> call[c].status]
    OBVIOUS
  <2>2. r.op = "CreateDEK" /\ r.at = at /\ r.in = call[c].in
    BY <1>1, <2>1
  <2>3. KeyCall(r)
    BY <1>1, <1>3, <2>2 DEF KeyCall, KeyParams, KeyHeld, KeyAlone
  <2> QED BY <1>1, <1>4, <2>1, <2>3, GotoStays DEF KeyRequests
<1>5. ASSUME call' = [call EXCEPT ![c].at = "store",
                                  ![c].in.mat = [plain |-> FreshPlain, gen |-> kmsGen]]
      PROVE  KeyStepGood(c)
  <2>1. PICK mat : mat = [plain |-> FreshPlain, gen |-> kmsGen]
    OBVIOUS
  <2>2. mat \in Wrapped /\ mat.gen <= kmsGen
    BY <2>1, FreshPlainType, InvParts DEF Wrapped, KeyTypeOK
  <2>3. PICK p : p = call[c]
    OBVIOUS
  <2>4. p = [op |-> p.op, at |-> p.at, in |-> p.in, got |-> p.got, status |-> p.status]
    BY <2>3, InvParts DEF CallShape
  <2>5. PICK in : in = [p.in EXCEPT !.mat = mat]
    OBVIOUS
  <2>6. /\ in \in [kek : KEKs, subj : Subjects, ver : 0..MaxVersion, alg : Algorithms,
                   mat : Wrapped \cup {NoRow}]
        /\ in.mat = mat
    BY <1>1, <1>3, <2>2, <2>3, <2>5 DEF KeyParams
  <2>7. PICK r : r = [op |-> p.op, at |-> "store", in |-> in, got |-> p.got, status |-> p.status]
    OBVIOUS
  <2>8. call' = [call EXCEPT ![c] = r]
    <3>1. PICK q : q = [p EXCEPT !.at = "store", !.in.mat = mat]
      OBVIOUS
    <3>2. q = [op |-> p.op, at |-> "store", in |-> [p.in EXCEPT !.mat = mat], got |-> p.got,
               status |-> p.status]
      BY <2>4, <3>1
    <3>3. q = r
      BY <2>5, <2>7, <3>2
    <3> QED BY <1>5, <2>1, <2>3, <3>1, <3>3
  <2>9. r.op = "CreateDEK" /\ r.at = "store" /\ r.in = in
    BY <1>1, <2>3, <2>7
  <2>10. KeyCall(r)
    BY <2>2, <2>6, <2>9 DEF KeyCall, KeyParams, KeyHeld, KeyAlone
  <2> QED BY <1>1, <2>3, <2>7, <2>8, <2>10, GoStays DEF KeyRequests
<1> QED BY <1>2, <1>4, <1>5 DEF CreateDEK

\* The service of a rewrap reads the KEK and the DEK and has the material wrapped
\* again.
LEMMA RewrapDEKService ==
  ASSUME RecordsInv, NEW c \in Clients, UNCHANGED <<load, backend>>, RewrapDEK(c)
  PROVE  KeyStepGood(c)
<1>1. UNCHANGED keyVars /\ call[c].op = "RewrapDEK" /\ call[c].at # "done"
  BY Zenon DEF RewrapDEK, At
<1>2. ASSUME NEW err, Return(c, err) PROVE KeyStepGood(c)
  BY <1>1, <1>2, ReturnStays
<1>3. KeyParams(call[c]) /\ KeyHeld(call[c]) /\ KeyTableInv
  BY InvParts
<1>4. ASSUME Goto(c, "getDEK", NoRow) PROVE KeyStepGood(c)
  <2>1. PICK r : r = [op |-> call[c].op, at |-> "getDEK", in |-> call[c].in, got |-> NoRow,
                      status |-> call[c].status]
    OBVIOUS
  <2>2. r.op = "RewrapDEK" /\ r.at = "getDEK" /\ r.in = call[c].in
    BY <1>1, <2>1
  <2>3. KeyCall(r)
    BY <1>1, <1>3, <2>2 DEF KeyCall, KeyParams, KeyHeld, KeyAlone
  <2> QED BY <1>1, <1>4, <2>1, <2>3, GotoStays DEF KeyRequests
<1>5. PICK p : p = call[c]
  OBVIOUS
<1>6. /\ p = [op |-> p.op, at |-> p.at, in |-> p.in, got |-> p.got, status |-> p.status]
      /\ p.in \in [kek : KEKs, subj : Subjects, ver : 0..MaxVersion,
                   alg : Algorithms \cup {AnyAlg, NoAlg}, mat : Wrapped \cup {NoRow}]
  BY <1>1, <1>3, <1>5, InvParts DEF CallShape, KeyParams
<1>7. ASSUME NEW d \in FindDEK(call[c].in.kek, call[c].in.subj, 0, call[c].in.alg, FALSE), d.mat # NoRow,
             call' = [call EXCEPT ![c].at = "rewrap",
                        ![c].in = [call[c].in EXCEPT !.ver = d.ver, !.alg = d.alg, !.mat = d.mat]]
      PROVE  KeyStepGood(c)
  <2>1. d \in deks /\ d.kek = p.in.kek /\ d.subj = p.in.subj
    <3>1. FindDEK(p.in.kek, p.in.subj, 0, p.in.alg, FALSE) = DEKWhere(p.in.kek, p.in.subj, 0, p.in.alg, FALSE)
      <4>1. backend \in Backends
        BY InvParts
      <4> QED BY <4>1, DEKRead, Zenon
    <3>2. d \in DEKWhere(p.in.kek, p.in.subj, 0, p.in.alg, FALSE)
      BY <1>5, <1>7, <3>1
    <3> QED BY <3>2 DEF DEKWhere, Latest, Filter, Rows
  <2>2. /\ d.ver \in 0..MaxVersion /\ d.ver # 0 /\ d.alg \in Algorithms \cup {AnyAlg, NoAlg}
        /\ d.alg # AnyAlg /\ d.mat \in Wrapped /\ d.mat.gen <= kmsGen
    BY <1>3, <1>7, <2>1, KeyConstants DEF KeyTableInv, KeyTypeOK, DEKRow, AnyAlg, NoAlg
  <2>3. PICK in : in = [kek |-> p.in.kek, subj |-> p.in.subj, ver |-> d.ver, alg |-> d.alg, mat |-> d.mat]
    OBVIOUS
  <2>4. [p.in EXCEPT !.ver = d.ver, !.alg = d.alg, !.mat = d.mat] = in
    <3>1. PICK x : x = p.in
      OBVIOUS
    <3>2. x = [kek |-> x.kek, subj |-> x.subj, ver |-> x.ver, alg |-> x.alg, mat |-> x.mat]
      BY <1>6, <3>1
    <3>3. PICK y : y = [x EXCEPT !.ver = d.ver]
      OBVIOUS
    <3>4. y = [kek |-> x.kek, subj |-> x.subj, ver |-> d.ver, alg |-> x.alg, mat |-> x.mat]
      BY <3>2, <3>3
    <3>5. PICK z : z = [y EXCEPT !.alg = d.alg]
      OBVIOUS
    <3>6. z = [kek |-> x.kek, subj |-> x.subj, ver |-> d.ver, alg |-> d.alg, mat |-> x.mat]
      BY <3>4, <3>5
    <3>7. [z EXCEPT !.mat = d.mat] = in
      BY <2>3, <3>1, <3>6
    <3> QED BY <3>1, <3>3, <3>5, <3>7
  <2>5. in \in [kek : KEKs, subj : Subjects, ver : 0..MaxVersion,
                alg : Algorithms \cup {AnyAlg, NoAlg}, mat : Wrapped \cup {NoRow}]
    BY <1>6, <2>2, <2>3
  <2>6. PICK r : r = [op |-> p.op, at |-> "rewrap", in |-> in, got |-> p.got, status |-> p.status]
    OBVIOUS
  <2>7. call' = [call EXCEPT ![c] = r]
    <3>1. PICK q : q = [p EXCEPT !.at = "rewrap", !.in = in]
      OBVIOUS
    <3>2. q = [op |-> p.op, at |-> "rewrap", in |-> in, got |-> p.got, status |-> p.status]
      BY <1>6, <3>1
    <3>3. q = r
      BY <2>6, <3>2
    <3>4. call' = [call EXCEPT ![c].at = "rewrap", ![c].in = in]
      BY <1>5, <1>7, <2>4
    <3> QED BY <1>5, <3>1, <3>3, <3>4
  <2>8. /\ r.op = "RewrapDEK" /\ r.at = "rewrap" /\ r.in = in /\ in.mat = d.mat /\ in.ver = d.ver
        /\ in.alg = d.alg
    BY <1>1, <1>5, <2>3, <2>6
  <2>9. KeyParams(r)
    BY <2>2, <2>5, <2>8 DEF KeyParams
  <2>10. KeyHeld(r)
    <3>1. RowOf(d) = <<r.in.kek, r.in.subj, r.in.ver, r.in.alg>>
      BY <2>1, <2>3, <2>8 DEF RowOf
    <3>2. d.mat.gen <= r.in.mat.gen
      BY <2>2, <2>8 DEF Wrapped
    <3> QED BY <1>7, <2>1, <2>8, <3>1, <3>2 DEF KeyHeld
  <2>11. KeyCall(r)
    BY <2>8, <2>9, <2>10 DEF KeyCall, KeyAlone
  <2> QED BY <1>1, <1>5, <2>6, <2>7, <2>11, GoStays DEF KeyRequests
<1>8. ASSUME At(c, "RewrapDEK", "rewrap"), call' = [call EXCEPT ![c].at = "store", ![c].in.mat.gen = kmsGen]
      PROVE  KeyStepGood(c)
  <2>1. p.in.mat \in Wrapped /\ p.in.ver # 0 /\ p.in.alg # AnyAlg
    BY <1>3, <1>5, <1>8 DEF KeyParams, At
  <2>2. PICK mat : mat = [p.in.mat EXCEPT !.gen = kmsGen]
    OBVIOUS
  <2>3. mat \in Wrapped /\ mat.gen = kmsGen /\ mat.plain = p.in.mat.plain /\ kmsGen \in Nat
    BY <2>1, <2>2, InvParts DEF Wrapped, KeyTypeOK
  <2>4. PICK in : in = [p.in EXCEPT !.mat = mat]
    OBVIOUS
  <2>5. /\ in \in [kek : KEKs, subj : Subjects, ver : 0..MaxVersion,
                   alg : Algorithms \cup {AnyAlg, NoAlg}, mat : Wrapped \cup {NoRow}]
        /\ in.kek = p.in.kek /\ in.subj = p.in.subj /\ in.ver = p.in.ver /\ in.alg = p.in.alg
        /\ in.mat = mat
    BY <1>6, <2>3, <2>4
  <2>6. PICK r : r = [op |-> p.op, at |-> "store", in |-> in, got |-> p.got, status |-> p.status]
    OBVIOUS
  <2>7. call' = [call EXCEPT ![c] = r]
    <3>1. PICK q : q = [p EXCEPT !.at = "store", !.in.mat.gen = kmsGen]
      OBVIOUS
    <3>2. q = [op |-> p.op, at |-> "store", in |-> [p.in EXCEPT !.mat.gen = kmsGen], got |-> p.got,
               status |-> p.status]
      BY <1>6, <3>1
    <3>3. [p.in EXCEPT !.mat.gen = kmsGen] = in
      BY <1>6, <2>2, <2>4
    <3>4. q = r
      BY <2>6, <3>2, <3>3
    <3> QED BY <1>5, <1>8, <3>1, <3>4
  <2>8. r.op = "RewrapDEK" /\ r.at = "store" /\ r.in = in
    BY <1>1, <1>5, <2>6
  <2>9. KeyParams(r)
    BY <2>1, <2>3, <2>5, <2>8 DEF KeyParams
  <2>10. KeyHeld(r)
    <3>1. ASSUME Tame PROVE \E d \in deks : /\ RowOf(d) = <<in.kek, in.subj, in.ver, in.alg>>
                                            /\ d.mat # NoRow /\ d.mat.plain = in.mat.plain
                                            /\ d.mat.gen <= in.mat.gen
      <4>1. PICK d \in deks : /\ RowOf(d) = <<p.in.kek, p.in.subj, p.in.ver, p.in.alg>>
                              /\ d.mat # NoRow /\ d.mat.plain = p.in.mat.plain
        BY <1>3, <1>5, <1>8, <3>1 DEF KeyHeld, At
      <4>2. d.mat.gen <= kmsGen
        BY <1>3, <4>1 DEF KeyTableInv
      <4> QED BY <2>3, <2>5, <4>1, <4>2
    <3> QED BY <2>8, <3>1 DEF KeyHeld
  <2>11. KeyCall(r)
    BY <2>8, <2>9, <2>10 DEF KeyCall, KeyAlone
  <2> QED BY <1>1, <1>5, <2>6, <2>7, <2>11, GoStays DEF KeyRequests
<1> QED BY <1>2, <1>4, <1>7, <1>8, Zenon DEF RewrapDEK

-----------------------------------------------------------------------------
(* The statements of the backends.                                         *)

\* A step that returns is a step of its operation.
LEMMA ReturnSteps ==
  ASSUME RecordsInv, NEW c \in Clients, UNCHANGED <<load, backend>>, call[c].at # "done",
         NEW err, Return(c, err)
  PROVE  StepOf({call[c].op}) /\ Moves(c) /\ CallOK(c)'
BY ReturnGood DEF StepOf

\* The insert of a KEK finds none of its name, or answers that there is one.
LEMMA InsertKEKGood ==
  ASSUME RecordsInv, NEW c \in Clients, UNCHANGED <<load, backend>>, InsertKEK(c)
  PROVE  KeyStepGood(c)
<1>1. /\ call[c].op = "CreateKEK" /\ call[c].at # "done" /\ KeyTableInv
      /\ UNCHANGED <<deks, byKek, kmsGen, given>>
      /\ call[c].in \in [kek : KEKs, rec : KEKRow]
  BY InvParts DEF InsertKEK, At, KeyParams
<1>2. PICK k \in KEKs, row \in KEKRow : k = call[c].in.kek /\ row = call[c].in.rec
  BY <1>1
<1>3. CASE keks[k] # NoRow
  <2>1. Return(c, "kekExists") /\ UNCHANGED keyVars
    BY <1>1, <1>2, <1>3 DEF InsertKEK, keyVars
  <2> QED BY <1>1, <2>1, ReturnStays
<1>4. CASE keks[k] = NoRow
  <2>1. keks' = [keks EXCEPT ![k] = row] /\ Return(c, "nil")
    BY <1>2, <1>4 DEF InsertKEK
  <2>2. StepOf({"CreateKEK"}) /\ Moves(c) /\ CallOK(c)'
    BY <1>1, <2>1, ReturnSteps
  <2>3. KeyKept(c)
    BY <1>1, <1>4, <2>1, <2>2, KeyConstants, KEKWritten
  <2> QED BY <2>2, <2>3 DEF KeyStepGood
<1> QED BY <1>3, <1>4

\* The UPDATE of one KEK: it removes a KEK without DEKs only, and clears the deleted
\* flag for an undelete only.
LEMMA UpdateKEKRowGood ==
  ASSUME RecordsInv, NEW c \in Clients, UNCHANGED <<load, backend>>, call[c].at # "done",
         NEW k \in KEKs, k = call[c].in.kek, NEW when, NEW row, UpdateKEKRow(c, when, row),
         keks[k] # NoRow /\ when =>
           /\ row \in KEKRow \cup {NoRow}
           /\ row = NoRow /\ Undisturbed => \A d \in deks : d.kek # k
           /\ FlagSafe /\ keks[k].deleted /\ row # NoRow /\ ~row.deleted => call[c].op = "UndeleteKEK"
  PROVE  KeyStepGood(c)
<1>1. KeyTableInv /\ UNCHANGED <<deks, byKek, kmsGen, given>>
  BY InvParts DEF UpdateKEKRow
<1>2. CASE keks[k] = NoRow \/ ~when
  <2>1. Return(c, "kekNotFound") /\ UNCHANGED keyVars
    BY <1>1, <1>2 DEF UpdateKEKRow, keyVars
  <2> QED BY <2>1, ReturnStays
<1>3. CASE ~(keks[k] = NoRow \/ ~when)
  <2>1. keks' = [keks EXCEPT ![k] = row] /\ Return(c, "nil")
    BY <1>3 DEF UpdateKEKRow
  <2>2. StepOf({call[c].op}) /\ Moves(c) /\ CallOK(c)'
    BY <2>1, ReturnSteps
  <2>3. /\ row \in KEKRow \cup {NoRow}
        /\ row = NoRow /\ Undisturbed => \A d \in deks : d.kek # k
        /\ FlagSafe /\ keks[k] # NoRow /\ keks[k].deleted /\ row # NoRow /\ ~row.deleted
             => StepOf({"UndeleteKEK"})
        /\ (backend # "cassandra" \/ load.serial) /\ keks[k] = NoRow /\ row # NoRow => StepOf({"CreateKEK"})
    BY <1>3, <2>2
  <2>4. KeyKept(c)
    BY <1>1, <2>1, <2>3, KEKWritten
  <2> QED BY <2>2, <2>4 DEF KeyStepGood
<1> QED BY <1>2, <1>3

\* The insert of a DEK under a version that is free, and what its creator is told.
LEMMA InsertDEKGood ==
  ASSUME RecordsInv, NEW c \in Clients, UNCHANGED <<load, backend>>,
         call[c].op = "CreateDEK", call[c].at # "done", NEW v \in 1..MaxVersion, NEW conflicts,
         InsertDEK(c, NewRow(call[c].in, v), conflicts),
         conflicts = {} =>
           \A d \in deks : d.kek = call[c].in.kek /\ d.subj = call[c].in.subj /\ d.ver = v
                             => d.alg # call[c].in.alg /\ backend \notin {"memory", "cassandra"},
         Undisturbed => keks[call[c].in.kek] # NoRow,
         backend = "cassandra" /\ Steady => <<call[c].in.kek, call[c].in.subj>> \in byKek
  PROVE  KeyStepGood(c)
<1>1. KeyTableInv /\ KeyParams(call[c])
  BY InvParts
<1>2. PICK in : in = call[c].in
  OBVIOUS
<1>3. /\ in \in [kek : KEKs, subj : Subjects, ver : 0..MaxVersion, alg : Algorithms, mat : Wrapped \cup {NoRow}]
      /\ in.mat # NoRow => in.mat.gen <= kmsGen
  BY <1>1, <1>2 DEF KeyParams
<1>4. PICK row : row = NewRow(in, v)
  OBVIOUS
<1>5. /\ row \in DEKRow /\ row.kek = in.kek /\ row.subj = in.subj /\ row.ver = v /\ row.alg = in.alg
      /\ row.mat = in.mat
  BY <1>3, <1>4 DEF NewRow, DEKRow
<1>6. CASE conflicts # {}
  <2>1. Return(c, "dekExists") /\ UNCHANGED keyVars
    BY <1>6 DEF InsertDEK
  <2> QED BY <2>1, ReturnStays
<1>7. CASE conflicts = {}
  <2>1. /\ deks' = deks \cup {row} /\ UNCHANGED <<keks, byKek, kmsGen>> /\ Return(c, "nil")
        /\ given' = IF row.mat = NoRow THEN given
                    ELSE given \cup {[row |-> RowOf(row), plain |-> row.mat.plain]}
    BY <1>2, <1>4, <1>7 DEF InsertDEK
  <2>2. StepOf({"CreateDEK"}) /\ Moves(c) /\ CallOK(c)'
    BY <2>1, ReturnSteps
  <2>3. /\ \A d \in deks : d.kek = row.kek /\ d.subj = row.subj /\ d.ver = row.ver
                             => d.alg # row.alg /\ backend \notin {"memory", "cassandra"}
        /\ row.mat # NoRow => row.mat.gen <= kmsGen
        /\ Undisturbed => keks[row.kek] # NoRow
        /\ backend = "cassandra" /\ Steady => <<row.kek, row.subj>> \in byKek
    BY <1>2, <1>3, <1>5, <1>7
  <2>4. KeyKept(c)
    BY <1>1, <1>5, <2>1, <2>2, <2>3, DEKInserted
  <2> QED BY <2>2, <2>4 DEF KeyStepGood
<1> QED BY <1>6, <1>7

\* The deleted flag of DEKs is set or, by an undelete, cleared.
LEMMA MarkKeeps ==
  ASSUME KeyTableInv, NEW c \in Clients, UNCHANGED <<load, backend>>, NEW rows \in SUBSET deks,
         NEW flag \in BOOLEAN, ~flag => StepOf({"UndeleteDEK"}),
         deks' = Mark(rows, flag), UNCHANGED <<keks, byKek, kmsGen, given>>
  PROVE  KeyKept(c)
<1>1. PICK F : F = [d \in rows |-> [d EXCEPT !.deleted = flag]]
  OBVIOUS
<1>2. \A d \in rows : /\ d \in DEKRow /\ F[d] \in DEKRow /\ RowOf(F[d]) = RowOf(d) /\ F[d].mat = d.mat
                      /\ F[d].deleted = flag
  BY <1>1 DEF KeyTableInv, KeyTypeOK, DEKRow, RowOf
<1>3. F \in [rows -> DEKRow]
  BY <1>1, <1>2
<1>4. deks' = (deks \ rows) \cup {F[d] : d \in rows} \cup {}
  BY <1>1 DEF Mark
<1>5. \A d \in rows : /\ F[d].mat # NoRow => F[d].mat.gen <= kmsGen
                      /\ d.deleted /\ ~F[d].deleted => StepOf({"UndeleteDEK"})
  BY <1>2 DEF KeyTableInv
<1>6. {} \in SUBSET DEKRow /\ IsFiniteSet({})
  BY FS_EmptySet
<1>7. Rewrites(c, rows, F) /\ Fills({})
  BY <1>2, <1>5 DEF Rewrites, Fills
<1> QED BY <1>3, <1>4, <1>6, <1>7, DEKsReplaced

\* The UPDATE or DELETE of DEKs in memory and in SQL.
LEMMA ChangeDEKsGood ==
  ASSUME RecordsInv, NEW c \in Clients, UNCHANGED <<load, backend>>, call[c].at # "done",
         call[c].in.kek \in KEKs, backend # "cassandra", NEW rows \in SUBSET deks,
         NEW permanent \in BOOLEAN, NEW flag \in BOOLEAN, ChangeDEKs(c, rows, permanent, flag),
         permanent => "purge" \in load.ops, flag \/ call[c].op = "UndeleteDEK"
  PROVE  KeyStepGood(c)
<1>1. KeyTableInv /\ UNCHANGED <<keks, byKek, kmsGen>>
  BY InvParts DEF ChangeDEKs
<1>2. CASE rows = {}
  <2>1. Return(c, "dekNotFound") /\ UNCHANGED keyVars
    BY <1>1, <1>2 DEF ChangeDEKs, keyVars
  <2> QED BY <2>1, ReturnStays
<1>3. CASE rows # {}
  <2>1. Return(c, "nil")
    BY <1>3 DEF ChangeDEKs
  <2>2. StepOf({call[c].op}) /\ Moves(c) /\ CallOK(c)'
    BY <2>1, ReturnSteps
  <2>3. CASE permanent
    <3>1. RemoveDEKs(rows) /\ "purge" \in load.ops
      BY <1>3, <2>3 DEF ChangeDEKs
    <3>2. PICK k \in KEKs : k = call[c].in.kek
      OBVIOUS
    <3>3. KeyKept(c)
      BY <1>1, <3>1, <3>2, DEKsRemoved
    <3> QED BY <2>2, <3>3 DEF KeyStepGood
  <2>4. CASE ~permanent
    <3>1. deks' = Mark(rows, flag) /\ UNCHANGED given
      BY <1>3, <2>4 DEF ChangeDEKs
    <3>2. ~flag => StepOf({"UndeleteDEK"})
      BY <2>2
    <3>3. KeyKept(c)
      BY <1>1, <3>1, <3>2, MarkKeeps
    <3> QED BY <2>2, <3>3 DEF KeyStepGood
  <2> QED BY <2>3, <2>4
<1> QED BY <1>2, <1>3

\* What a rewrap writes over has the plaintext it read, and in a sweep is wrapped no later.
LEMMA RewrapTarget ==
  ASSUME RecordsInv, Tame, NEW c \in Clients, call[c].op = "RewrapDEK", call[c].at \in {"store", "update"},
         NEW alg, alg = call[c].in.alg \/ backend \in {"memory", "cassandra"},
         NEW d \in Target(call[c].in, alg)
  PROVE  /\ d.mat # NoRow /\ d.mat.plain = call[c].in.mat.plain
         /\ Swept => d.mat.gen <= call[c].in.mat.gen
<1>1. PICK in : in = call[c].in
  OBVIOUS
<1>2. PICK e \in deks : /\ RowOf(e) = <<in.kek, in.subj, in.ver, in.alg>>
                        /\ e.mat # NoRow /\ e.mat.plain = in.mat.plain
                        /\ Swept => e.mat.gen <= in.mat.gen
  BY <1>1, InvParts DEF KeyHeld
<1>3. in.ver # 0 /\ in.alg # AnyAlg
  BY <1>1, InvParts DEF KeyParams
<1>4. d \in deks /\ d.kek = in.kek /\ d.subj = in.subj /\ d.ver = in.ver
  BY <1>1, <1>3 DEF Target, Filter, Rows
<1>5. d.alg = in.alg \/ backend \in {"memory", "cassandra"}
  BY <1>1, <1>3 DEF Target, Filter
<1>6. d = e
  BY <1>2, <1>4, <1>5, InvParts DEF KeyTableInv, UniqueDEK, RowOf
<1> QED BY <1>1, <1>2, <1>6

\* The rewrapped material goes into the DEK it was unwrapped from, in a sweep wrapped
\* with a key no older than before.
LEMMA RewriteKeeps ==
  ASSUME RecordsInv, NEW c \in Clients, UNCHANGED <<load, backend>>,
         call[c].op = "RewrapDEK", call[c].at \in {"store", "update"},
         NEW alg, alg = call[c].in.alg \/ backend \in {"memory", "cassandra"},
         NEW rows, rows = Target(call[c].in, alg),
         deks' = (deks \ rows) \cup {[d EXCEPT !.mat = call[c].in.mat] : d \in rows},
         UNCHANGED <<keks, byKek, kmsGen, given>>
  PROVE  KeyKept(c)
<1>1. PICK mat : mat = call[c].in.mat
  OBVIOUS
<1>2. PICK F : F = [d \in rows |-> [d EXCEPT !.mat = mat]]
  OBVIOUS
<1>3. KeyTableInv /\ mat \in Wrapped /\ mat # NoRow /\ mat.gen <= kmsGen
  BY <1>1, InvParts, KeyConstants DEF KeyParams
<1>4. rows \in SUBSET deks
  BY DEF Target, Filter, Rows
<1>5. \A d \in rows : /\ F[d] \in DEKRow /\ RowOf(F[d]) = RowOf(d) /\ F[d].mat = mat
                      /\ d.deleted \in BOOLEAN /\ F[d].deleted = d.deleted
  BY <1>2, <1>3, <1>4 DEF KeyTableInv, KeyTypeOK, DEKRow, RowOf
<1>6. F \in [rows -> DEKRow]
  BY <1>2, <1>5
<1>7. deks' = (deks \ rows) \cup {F[d] : d \in rows} \cup {}
  BY <1>1, <1>2
<1>8. \A d \in rows : /\ F[d].mat # NoRow => F[d].mat.gen <= kmsGen
                      /\ d.deleted /\ ~F[d].deleted => StepOf({"UndeleteDEK"})
                      /\ Tame => /\ d.mat # NoRow /\ F[d].mat # NoRow
                                 /\ F[d].mat.plain = d.mat.plain /\ (Swept => d.mat.gen <= F[d].mat.gen)
                                 /\ call[c].op = "RewrapDEK"
  <2> SUFFICES ASSUME NEW d \in rows
               PROVE  /\ F[d].mat # NoRow => F[d].mat.gen <= kmsGen
                      /\ d.deleted /\ ~F[d].deleted => StepOf({"UndeleteDEK"})
                      /\ Tame => /\ d.mat # NoRow /\ F[d].mat # NoRow
                                 /\ F[d].mat.plain = d.mat.plain /\ (Swept => d.mat.gen <= F[d].mat.gen)
    OBVIOUS
  <2>1. ASSUME Tame PROVE d.mat # NoRow /\ d.mat.plain = mat.plain /\ (Swept => d.mat.gen <= mat.gen)
    BY <1>1, <2>1, RewrapTarget
  <2> QED BY <1>3, <1>5, <2>1
<1>9. {} \in SUBSET DEKRow /\ IsFiniteSet({})
  BY FS_EmptySet
<1>10. Rewrites(c, rows, F) /\ Fills({})
  BY <1>5, <1>8 DEF Rewrites, Fills
<1> QED BY <1>3, <1>4, <1>6, <1>7, <1>9, <1>10, DEKsReplaced

\* The statement that does so and returns.
LEMMA RewriteDEKsGood ==
  ASSUME RecordsInv, NEW c \in Clients, UNCHANGED <<load, backend>>, At(c, "RewrapDEK", "store"),
         NEW alg, alg = call[c].in.alg \/ backend \in {"memory", "cassandra"},
         RewriteDEKs(c, Target(call[c].in, alg))
  PROVE  KeyStepGood(c)
<1>1. PICK rows : rows = Target(call[c].in, alg)
  OBVIOUS
<1>2. call[c].op = "RewrapDEK" /\ call[c].at = "store" /\ UNCHANGED <<keks, byKek, kmsGen, given>>
  BY DEF At, RewriteDEKs
<1>3. CASE rows = {}
  <2>1. Return(c, "dekNotFound") /\ UNCHANGED keyVars
    BY <1>1, <1>2, <1>3 DEF RewriteDEKs, keyVars
  <2> QED BY <1>2, <2>1, ReturnStays
<1>4. CASE rows # {}
  <2>1. deks' = (deks \ rows) \cup {[d EXCEPT !.mat = call[c].in.mat] : d \in rows} /\ Return(c, "nil")
    BY <1>1, <1>4 DEF RewriteDEKs
  <2>2. Moves(c) /\ CallOK(c)'
    BY <1>2, <2>1, ReturnSteps
  <2>3. KeyKept(c)
    BY <1>1, <1>2, <2>1, RewriteKeeps
  <2> QED BY <2>2, <2>3 DEF KeyStepGood
<1> QED BY <1>3, <1>4

\* A non-empty set of numbers with a bound has a greatest one.
LEMMA MaxInSet ==
  ASSUME NEW n \in Nat, NEW S \in SUBSET (0..n), S # {}
  PROVE  Max(S) \in S /\ \A y \in S : y <= Max(S)
<1> DEFINE T == {n - x : x \in S}
<1> DEFINE R == OpToRel(<, Nat)
<1>1. IsWellFoundedOn(R, Nat)
  BY NatLessThanWellFounded, Zenon
<1>2. T \in SUBSET Nat /\ T # {}
  <2>1. \A x \in S : n - x \in Nat
    OBVIOUS
  <2> QED BY <2>1
<1>3. PICK m \in T : \A y \in T : <<y, m>> \notin R
  <2> HIDE DEF R, T
  <2> QED BY <1>1, <1>2, WFMin
<1>4. PICK x \in S : m = n - x
  OBVIOUS
<1>5. ASSUME NEW y \in S PROVE y <= x
  <2>1. x \in 0..n /\ y \in 0..n
    OBVIOUS
  <2>2. n - y \in T /\ n - y \in Nat /\ m \in Nat
    BY <1>2, <2>1
  <2>3. ~(n - y < m)
    BY <1>3, <2>2 DEF OpToRel
  <2> QED BY <1>4, <2>1, <2>3
<1>6. \E z \in S : \A y \in S : z >= y
  BY <1>5
<1>7. Max(S) \in S /\ \A y \in S : Max(S) >= y
  BY <1>6 DEF Max
<1> QED BY <1>7

\* The next version of a DEK is a number, and a new one.
LEMMA NextVersionType ==
  ASSUME RecordsInv, NEW k, NEW s, NextVersion(k, s) <= MaxVersion
  PROVE  NextVersion(k, s) \in 1..MaxVersion
<1> DEFINE S == {0} \cup {d.ver : d \in Rows(k, s)}
<1>1. \A d \in deks : d.ver \in 0..MaxVersion
  BY InvParts, KeyConstants DEF KeyTypeOK, DEKRow
<1>2. S \in SUBSET (0..MaxVersion) /\ S # {}
  BY <1>1, KeyConstants DEF Rows
<1>3. Max(S) \in 0..MaxVersion
  <2> HIDE DEF S
  <2> QED BY <1>2, KeyConstants, MaxInSet
<1> QED BY <1>3, KeyConstants DEF NextVersion

\* An update that writes the flag it read does not clear one that is set.
LEMMA UpdateKEKFlag ==
  ASSUME RecordsInv, NEW c \in Clients, call[c].op = "UpdateKEK", call[c].at \in {"store", "update"},
         FlagSafe, backend # "postgres"
  PROVE  keks[call[c].in.kek] # NoRow /\ keks[call[c].in.kek].deleted = FALSE
<1>1. load.serial
  BY InvParts DEF CallShape, FlagSafe
<1> QED BY <1>1, InvParts DEF KeyAlone

\* The update of a KEK in memory and in MySQL writes the whole record.
LEMMA UpdateKEKWhole ==
  ASSUME RecordsInv, NEW c \in Clients, UNCHANGED <<load, backend>>, At(c, "UpdateKEK", "store"),
         backend # "postgres", UpdateKEKRow(c, TRUE, call[c].in.rec)
  PROVE  KeyStepGood(c)
<1>1. call[c].op = "UpdateKEK" /\ call[c].at = "store"
  BY DEF At
<1>2. call[c].in \in [kek : KEKs, rec : KEKRow \cup {NoRow}] /\ call[c].in.rec \in KEKRow
  BY <1>1, InvParts DEF KeyParams
<1>3. PICK k \in KEKs, row \in KEKRow : k = call[c].in.kek /\ row = call[c].in.rec
  BY <1>2
<1>4. row # NoRow
  BY KeyConstants
<1>5. FlagSafe => keks[k].deleted = FALSE
  BY <1>1, <1>3, UpdateKEKFlag
<1>6. UpdateKEKRow(c, TRUE, row)
  BY <1>3
<1> QED BY <1>1, <1>3, <1>4, <1>5, <1>6, UpdateKEKRowGood

\* The flag of a KEK is set by a delete and cleared by an undelete.
LEMMA KEKFlagged ==
  ASSUME RecordsInv, NEW k \in KEKs, keks[k] # NoRow, NEW flag \in BOOLEAN
  PROVE  /\ [keks[k] EXCEPT !.deleted = flag] \in KEKRow
         /\ [keks[k] EXCEPT !.deleted = flag].deleted = flag
         /\ [keks[k] EXCEPT !.deleted = flag] # NoRow
<1>1. PICK row : row = keks[k]
  OBVIOUS
<1>2. row \in KEKRow
  BY <1>1, InvParts DEF KeyTypeOK
<1> QED BY <1>1, <1>2, KeyConstants DEF KEKRow

\* The soft delete of a KEK sets its flag.
LEMMA DeleteKEKFlag ==
  ASSUME RecordsInv, NEW c \in Clients, UNCHANGED <<load, backend>>, At(c, "DeleteKEK", "store"),
         UpdateKEKRow(c, TRUE, [keks[call[c].in.kek] EXCEPT !.deleted = TRUE])
  PROVE  KeyStepGood(c)
<1>1. call[c].op = "DeleteKEK" /\ call[c].at = "store"
  BY DEF At
<1>2. PICK k \in KEKs : k = call[c].in.kek
  BY <1>1, InvParts DEF KeyParams
<1>3. PICK row : row = [keks[k] EXCEPT !.deleted = TRUE]
  OBVIOUS
<1>4. keks[k] # NoRow => row \in KEKRow /\ row.deleted /\ row # NoRow
  BY <1>3, KEKFlagged
<1>5. UpdateKEKRow(c, TRUE, row)
  BY <1>2, <1>3
<1> QED BY <1>1, <1>2, <1>4, <1>5, UpdateKEKRowGood

\* The undelete of a KEK clears its flag.
LEMMA UndeleteKEKFlag ==
  ASSUME RecordsInv, NEW c \in Clients, UNCHANGED <<load, backend>>, At(c, "UndeleteKEK", "store"),
         UpdateKEKRow(c, keks[call[c].in.kek] # NoRow /\ keks[call[c].in.kek].deleted,
                      [keks[call[c].in.kek] EXCEPT !.deleted = FALSE])
  PROVE  KeyStepGood(c)
<1>1. call[c].op = "UndeleteKEK" /\ call[c].at = "store"
  BY DEF At
<1>2. PICK k \in KEKs : k = call[c].in.kek
  BY <1>1, InvParts DEF KeyParams
<1>3. PICK row : row = [keks[k] EXCEPT !.deleted = FALSE]
  OBVIOUS
<1>4. keks[k] # NoRow => row \in KEKRow /\ row # NoRow
  BY <1>3, KEKFlagged
<1>5. UpdateKEKRow(c, keks[k] # NoRow /\ keks[k].deleted, row)
  BY <1>2, <1>3
<1> QED BY <1>1, <1>2, <1>4, <1>5, UpdateKEKRowGood

\* A purge of a KEK and its DEKs in one step.
LEMMA PurgeKEK ==
  ASSUME RecordsInv, NEW c \in Clients, UNCHANGED <<load, backend>>, At(c, "DeleteKEK", "store"),
         call[c].in.permanent, backend # "cassandra", keks' = [keks EXCEPT ![call[c].in.kek] = NoRow],
         RemoveDEKs({d \in deks : d.kek = call[c].in.kek}), Return(c, "nil"), UNCHANGED <<byKek, kmsGen>>
  PROVE  KeyStepGood(c)
<1>1. call[c].op = "DeleteKEK" /\ call[c].at = "store"
  BY DEF At
<1>2. call[c].in.kek \in KEKs /\ "purge" \in load.ops
  BY <1>1, InvParts DEF KeyParams
<1>3. PICK k \in KEKs : k = call[c].in.kek
  BY <1>2
<1>4. PICK rows : rows = {d \in deks : d.kek = k}
  OBVIOUS
<1>5. RemoveDEKs(rows) /\ keks' \in {keks, [keks EXCEPT ![k] = NoRow]}
  BY <1>3, <1>4
<1>6. /\ Undisturbed /\ keks' # keks => \A d \in deks : d.kek = k => d \in rows
      /\ byKek' \in SUBSET byKek /\ kmsGen' = kmsGen /\ KeyTableInv
  BY <1>4, InvParts
<1>7. KeyKept(c)
  BY <1>2, <1>5, <1>6, DEKsRemoved
<1> QED BY <1>1, <1>7, ReturnSteps DEF KeyStepGood

\* A delete, and an undelete, of DEKs in one step.
LEMMA DeleteDEKWhole ==
  ASSUME RecordsInv, NEW c \in Clients, UNCHANGED <<load, backend>>, backend # "cassandra",
         At(c, "DeleteDEK", "store"),
         ChangeDEKs(c, Target(call[c].in, call[c].in.alg), call[c].in.permanent, TRUE)
  PROVE  KeyStepGood(c)
<1>1. call[c].op = "DeleteDEK" /\ call[c].at # "done"
  BY DEF At
<1>2. PICK rows : rows = Target(call[c].in, call[c].in.alg)
  OBVIOUS
<1>3. rows \in SUBSET deks
  BY <1>2 DEF Target, Filter, Rows
<1>4. PICK permanent : permanent = call[c].in.permanent
  OBVIOUS
<1>5. call[c].in.kek \in KEKs /\ permanent \in BOOLEAN /\ (permanent => "purge" \in load.ops)
  BY <1>1, <1>4, InvParts DEF KeyParams
<1>6. ChangeDEKs(c, rows, permanent, TRUE)
  BY <1>2, <1>4
<1> QED BY <1>1, <1>3, <1>5, <1>6, ChangeDEKsGood

\* The undelete of DEKs in memory and in PostgreSQL.
LEMMA UndeleteDEKWhole ==
  ASSUME RecordsInv, NEW c \in Clients, UNCHANGED <<load, backend>>, backend # "cassandra",
         At(c, "UndeleteDEK", "store"),
         ChangeDEKs(c, {d \in Target(call[c].in, call[c].in.alg) : d.deleted}, FALSE, FALSE)
  PROVE  KeyStepGood(c)
<1>1. call[c].op = "UndeleteDEK" /\ call[c].at # "done"
  BY DEF At
<1>2. PICK rows : rows = {d \in Target(call[c].in, call[c].in.alg) : d.deleted}
  OBVIOUS
<1>3. rows \in SUBSET deks
  BY <1>2 DEF Target, Filter, Rows
<1>4. call[c].in.kek \in KEKs
  BY <1>1, InvParts DEF KeyParams
<1>5. ChangeDEKs(c, rows, FALSE, FALSE)
  BY <1>2
<1> QED BY <1>1, <1>3, <1>4, <1>5, ChangeDEKsGood

\* The steps of the memory backend on keys.
LEMMA MemKeySteps ==
  ASSUME RecordsInv, NEW c \in Clients, UNCHANGED <<load, backend>>, backend = "memory", MemKeyStep(c)
  PROVE  KeyStepGood(c)
<1>1. CASE MemCreateKEK(c)
  BY <1>1, InsertKEKGood DEF MemCreateKEK
<1>2. CASE MemUpdateKEK(c)
  BY <1>2, UpdateKEKWhole DEF MemUpdateKEK
<1>3. CASE MemDeleteKEK(c)
  <2>1. At(c, "DeleteKEK", "store") /\ call[c].at # "done"
    BY <1>3 DEF MemDeleteKEK, At
  <2>2. CASE ~call[c].in.permanent
    BY <1>3, <2>1, <2>2, DeleteKEKFlag DEF MemDeleteKEK
  <2>3. CASE call[c].in.permanent /\ keks[call[c].in.kek] = NoRow
    BY <1>3, <2>1, <2>3, ReturnStays DEF MemDeleteKEK
  <2>4. CASE call[c].in.permanent /\ keks[call[c].in.kek] # NoRow
    BY <1>3, <2>1, <2>4, PurgeKEK DEF MemDeleteKEK
  <2> QED BY <2>2, <2>3, <2>4
<1>4. CASE MemUndeleteKEK(c)
  BY <1>4, UndeleteKEKFlag DEF MemUndeleteKEK
<1>5. CASE MemCreateDEK(c)
  <2>1. call[c].op = "CreateDEK" /\ call[c].at # "done"
    BY <1>5 DEF MemCreateDEK, At
  <2>2. PICK in : in = call[c].in
    OBVIOUS
  <2>3. PICK v : v = IF in.ver = 0 THEN NextVersion(in.kek, in.subj) ELSE in.ver
    OBVIOUS
  <2>4. v <= MaxVersion
    BY <1>5, <2>2, <2>3 DEF MemCreateDEK
  <2>5. v \in 1..MaxVersion
    <3>1. CASE in.ver = 0
      BY <2>3, <2>4, <3>1, NextVersionType
    <3>2. CASE in.ver # 0
      <4>1. in.ver \in 0..MaxVersion
        BY <2>1, <2>2, InvParts DEF KeyParams
      <4> QED BY <2>3, <3>2, <4>1, KeyConstants
    <3> QED BY <3>1, <3>2
  <2>6. CASE keks[in.kek] = NoRow
    BY <1>5, <2>1, <2>2, <2>6, ReturnStays DEF MemCreateDEK
  <2>7. CASE keks[in.kek] # NoRow
    <3>1. PICK conflicts : conflicts = {d \in Rows(in.kek, in.subj) : d.ver = v}
      OBVIOUS
    <3>2. InsertDEK(c, NewRow(call[c].in, v), conflicts)
      BY <1>5, <2>2, <2>3, <2>7, <3>1 DEF MemCreateDEK
    <3>3. conflicts = {} => \A d \in deks : ~(d.kek = in.kek /\ d.subj = in.subj /\ d.ver = v)
      BY <3>1 DEF Rows
    <3> QED BY <2>1, <2>2, <2>5, <2>7, <3>2, <3>3, InsertDEKGood
  <2> QED BY <2>6, <2>7
<1>6. CASE MemDeleteDEK(c)
  BY <1>6, DeleteDEKWhole DEF MemDeleteDEK
<1>7. CASE MemUndeleteDEK(c)
  BY <1>7, UndeleteDEKWhole DEF MemUndeleteDEK
<1>8. CASE MemUpdateDEK(c)
  BY <1>8, RewriteDEKsGood DEF MemUpdateDEK
<1> QED BY <1>1, <1>2, <1>3, <1>4, <1>5, <1>6, <1>7, <1>8 DEF MemKeyStep

\* The steps of a create in the SQL backends.
LEMMA SQLCreateDEK ==
  ASSUME RecordsInv, NEW c \in Clients, UNCHANGED <<load, backend>>, backend \in {"postgres", "mysql"},
         PgCreateDEK(c)
  PROVE  KeyStepGood(c)
<1>1. call[c].op = "CreateDEK" /\ call[c].at # "done"
  BY DEF PgCreateDEK, At
<1>2. PICK in : in = call[c].in
  OBVIOUS
<1>3. /\ KeyParams(call[c]) /\ (load.serial => KeyAlone(call[c])) /\ backend # "cassandra"
      /\ in.ver \in 0..MaxVersion
  BY <1>1, <1>2, InvParts DEF KeyParams
<1>4. ASSUME NEW at \in {"maxVersion", "insert"}, NEW got, UNCHANGED keyVars, Goto(c, at, got),
             at = "insert" => got \in 1..MaxVersion, load.serial => keks[in.kek] # NoRow
      PROVE  KeyStepGood(c)
  <2>1. PICK r : r = [op |-> call[c].op, at |-> at, in |-> call[c].in, got |-> got, status |-> call[c].status]
    OBVIOUS
  <2>2. r.op = "CreateDEK" /\ r.at = at /\ r.in = in /\ r.got = got
    BY <1>1, <1>2, <2>1
  <2>3. KeyParams(r)
    BY <1>1, <1>2, <1>3, <1>4, <2>2 DEF KeyParams
  <2>4. KeyHeld(r) /\ (load.serial => KeyAlone(r))
    BY <1>3, <1>4, <2>2 DEF KeyHeld, KeyAlone
  <2>5. KeyCall(r)
    BY <2>3, <2>4 DEF KeyCall
  <2> QED BY <1>1, <1>4, <2>1, <2>5, GotoStays DEF KeyRequests
<1>5. CASE At(c, "CreateDEK", "store")
  <2>1. CASE keks[in.kek] = NoRow
    BY <1>1, <1>2, <1>5, <2>1, ReturnStays DEF PgCreateDEK, At
  <2>2. CASE keks[in.kek] # NoRow
    <3>1. PICK at : at = IF in.ver = 0 THEN "maxVersion" ELSE "insert"
      OBVIOUS
    <3>2. Goto(c, at, in.ver) /\ UNCHANGED keyVars
      BY <1>2, <1>5, <2>2, <3>1 DEF PgCreateDEK, At
    <3>3. at \in {"maxVersion", "insert"} /\ (at = "insert" => in.ver \in 1..MaxVersion)
      BY <1>3, <3>1, KeyConstants
    <3> QED BY <1>4, <2>2, <3>2, <3>3
  <2> QED BY <2>1, <2>2
<1>6. CASE At(c, "CreateDEK", "maxVersion")
  <2>1. PICK v : v = NextVersion(in.kek, in.subj)
    OBVIOUS
  <2>2. Goto(c, "insert", v) /\ UNCHANGED keyVars /\ v <= MaxVersion
    BY <1>2, <1>6, <2>1 DEF PgCreateDEK, At
  <2>3. v \in 1..MaxVersion
    BY <2>1, <2>2, NextVersionType
  <2>4. load.serial => keks[in.kek] # NoRow
    BY <1>2, <1>3, <1>6 DEF KeyAlone, At
  <2> QED BY <1>4, <2>2, <2>3, <2>4
<1>7. CASE At(c, "CreateDEK", "insert")
  <2>1. PICK v : v = call[c].got
    OBVIOUS
  <2>2. v \in 1..MaxVersion
    BY <1>3, <1>7, <2>1 DEF KeyParams, At
  <2>3. PICK conflicts : conflicts = {d \in Rows(in.kek, in.subj) : d.ver = v /\ d.alg = in.alg}
    OBVIOUS
  <2>4. InsertDEK(c, NewRow(call[c].in, v), conflicts)
    BY <1>2, <1>7, <2>1, <2>3 DEF PgCreateDEK, At
  <2>5. conflicts = {} => \A d \in deks : d.kek = in.kek /\ d.subj = in.subj /\ d.ver = v => d.alg # in.alg
    BY <2>3 DEF Rows
  <2>6. Undisturbed => keks[in.kek] # NoRow
    BY <1>2, <1>3, <1>7 DEF KeyAlone, At, Undisturbed
  <2> QED BY <1>1, <1>2, <2>2, <2>4, <2>5, <2>6, InsertDEKGood
<1> QED BY <1>5, <1>6, <1>7 DEF PgCreateDEK

\* The steps of PostgreSQL on keys.
LEMMA PgKeySteps ==
  ASSUME RecordsInv, NEW c \in Clients, UNCHANGED <<load, backend>>, backend = "postgres", PgKeyStep(c)
  PROVE  KeyStepGood(c)
<1>1. CASE PgCreateKEK(c)
  BY <1>1, InsertKEKGood DEF PgCreateKEK
<1>2. CASE PgUpdateKEK(c)
  <2>1. call[c].op = "UpdateKEK" /\ call[c].at = "store"
    BY <1>2 DEF PgUpdateKEK, At
  <2>2. PICK in : in = call[c].in
    OBVIOUS
  <2>3. in \in [kek : KEKs, rec : KEKRow \cup {NoRow}] /\ in.rec \in KEKRow
    BY <2>1, <2>2, InvParts DEF KeyParams
  <2>4. PICK k \in KEKs : k = in.kek
    BY <2>3
  <2>5. PICK row : row = [in.rec EXCEPT !.deleted = keks[k].deleted]
    OBVIOUS
  <2>6. keks[k] # NoRow => row \in KEKRow /\ row.deleted = keks[k].deleted /\ row # NoRow
    <3>1. keks[k] \in KEKRow \cup {NoRow}
      BY InvParts DEF KeyTypeOK
    <3> QED BY <2>3, <2>5, <3>1, KeyConstants DEF KEKRow
  <2>7. UpdateKEKRow(c, TRUE, row)
    BY <1>2, <2>2, <2>4, <2>5 DEF PgUpdateKEK
  <2> QED BY <2>1, <2>2, <2>4, <2>6, <2>7, UpdateKEKRowGood
<1>3. CASE PgDeleteKEK(c)
  <2>1. call[c].op = "DeleteKEK" /\ call[c].at # "done"
    BY <1>3 DEF PgDeleteKEK, At
  <2>2. /\ call[c].in.kek \in KEKs /\ (call[c].in.permanent => "purge" \in load.ops)
        /\ KeyParams(call[c]) /\ (load.serial => KeyAlone(call[c])) /\ KeyTableInv
    BY <2>1, InvParts DEF KeyParams
  <2>3. PICK k \in KEKs : k = call[c].in.kek
    BY <2>2
  <2>4. CASE At(c, "DeleteKEK", "store") /\ ~call[c].in.permanent
    BY <1>3, <2>4, DeleteKEKFlag DEF PgDeleteKEK, At
  <2>5. CASE At(c, "DeleteKEK", "store") /\ call[c].in.permanent
    <3>1. PICK rows : rows = {d \in deks : d.kek = k}
      OBVIOUS
    <3>2. RemoveDEKs(rows) /\ Goto(c, "deleteKEK", NoRow) /\ UNCHANGED <<keks, byKek, kmsGen>>
      BY <1>3, <2>3, <2>5, <3>1 DEF PgDeleteKEK, At
    <3>3. KeyKept(c)
      BY <2>2, <2>5, <3>2, DEKsRemoved
    <3>4. /\ call'[c].op = "DeleteKEK" /\ call'[c].at = "deleteKEK" /\ call'[c].in = call[c].in
      BY <2>1, <3>2, GotoFields
    <3>5. \A d \in deks' : d.kek # k
      BY <3>1, <3>2 DEF RemoveDEKs
    <3>6. KeyCall(call[c])'
      BY <2>1, <2>2, <2>3, <2>5, <3>4, <3>5 DEF KeyCall, KeyParams, KeyHeld, KeyAlone
    <3>7. Moves(c) /\ CallOK(c)'
      BY <2>1, <3>2, <3>6, GotoGood DEF KeyRequests
    <3> QED BY <3>3, <3>7 DEF KeyStepGood
  <2>6. CASE At(c, "DeleteKEK", "deleteKEK")
    <3>1. UpdateKEKRow(c, TRUE, NoRow)
      BY <1>3, <2>6 DEF PgDeleteKEK, At
    <3>2. Undisturbed => \A d \in deks : d.kek # k
      BY <2>2, <2>3, <2>6 DEF Undisturbed, KeyAlone, At
    <3> QED BY <2>1, <2>3, <3>1, <3>2, UpdateKEKRowGood
  <2> QED BY <1>3, <2>4, <2>5, <2>6 DEF PgDeleteKEK
<1>4. CASE PgUndeleteKEK(c)
  BY <1>4, UndeleteKEKFlag DEF PgUndeleteKEK
<1>5. CASE PgCreateDEK(c)
  BY <1>5, SQLCreateDEK
<1>6. CASE PgDeleteDEK(c)
  BY <1>6, DeleteDEKWhole DEF PgDeleteDEK
<1>7. CASE PgUndeleteDEK(c)
  BY <1>7, UndeleteDEKWhole DEF PgUndeleteDEK
<1>8. CASE PgUpdateDEK(c)
  BY <1>8, RewriteDEKsGood DEF PgUpdateDEK
<1> QED BY <1>1, <1>2, <1>3, <1>4, <1>5, <1>6, <1>7, <1>8 DEF PgKeyStep

\* The steps of MySQL on keys.
LEMMA MyKeySteps ==
  ASSUME RecordsInv, NEW c \in Clients, UNCHANGED <<load, backend>>, backend = "mysql", MyKeyStep(c)
  PROVE  KeyStepGood(c)
<1>1. CASE MyCreateKEK(c)
  BY <1>1, InsertKEKGood DEF MyCreateKEK
<1>2. CASE MyUpdateKEK(c)
  BY <1>2, UpdateKEKWhole DEF MyUpdateKEK
<1>3. CASE MyDeleteKEK(c)
  <2>1. At(c, "DeleteKEK", "store") /\ call[c].at # "done"
    BY <1>3 DEF MyDeleteKEK, At
  <2>2. CASE ~call[c].in.permanent
    BY <1>3, <2>1, <2>2, DeleteKEKFlag DEF MyDeleteKEK
  <2>3. CASE call[c].in.permanent /\ keks[call[c].in.kek] = NoRow
    BY <1>3, <2>1, <2>3, ReturnStays DEF MyDeleteKEK
  <2>4. CASE call[c].in.permanent /\ keks[call[c].in.kek] # NoRow
    BY <1>3, <2>1, <2>4, PurgeKEK DEF MyDeleteKEK
  <2> QED BY <2>2, <2>3, <2>4
<1>4. CASE MyUndeleteKEK(c)
  <2>1. call[c].op = "UndeleteKEK" /\ call[c].at # "done"
    BY <1>4 DEF MyUndeleteKEK, At
  <2>2. /\ call[c].in \in [kek : KEKs] /\ KeyParams(call[c]) /\ (load.serial => KeyAlone(call[c]))
        /\ KeyTableInv
    BY <2>1, InvParts DEF KeyParams
  <2>3. PICK k \in KEKs : k = call[c].in.kek
    BY <2>2
  <2>4. CASE At(c, "UndeleteKEK", "store")
    <3>1. CASE keks[k] = NoRow \/ ~keks[k].deleted
      BY <1>4, <2>1, <2>3, <2>4, <3>1, ReturnStays DEF MyUndeleteKEK, At
    <3>2. CASE ~(keks[k] = NoRow \/ ~keks[k].deleted)
      <4>1. Goto(c, "update", NoRow) /\ UNCHANGED keyVars
        BY <1>4, <2>3, <2>4, <3>2 DEF MyUndeleteKEK, At
      <4>2. PICK r : r = [op |-> call[c].op, at |-> "update", in |-> call[c].in, got |-> NoRow,
                          status |-> call[c].status]
        OBVIOUS
      <4>3. r.op = "UndeleteKEK" /\ r.at = "update" /\ r.in = call[c].in
        BY <2>1, <4>2
      <4>4. KeyCall(r)
        BY <2>2, <2>3, <3>2, <4>3 DEF KeyCall, KeyParams, KeyHeld, KeyAlone
      <4> QED BY <2>1, <4>1, <4>2, <4>4, GotoStays DEF KeyRequests
    <3> QED BY <3>1, <3>2
  <2>5. CASE At(c, "UndeleteKEK", "update")
    <3>1. PICK row : row = IF keks[k] = NoRow THEN NoRow ELSE [keks[k] EXCEPT !.deleted = FALSE]
      OBVIOUS
    <3>2. /\ keks' = [keks EXCEPT ![k] = row] /\ Return(c, "nil") /\ UNCHANGED <<deks, byKek, kmsGen, given>>
      BY <1>4, <2>3, <2>5, <3>1 DEF MyUndeleteKEK, At
    <3>3. row \in KEKRow \cup {NoRow} /\ (row = NoRow <=> keks[k] = NoRow)
      BY <3>1, KEKFlagged
    <3>4. load.serial => keks[k] # NoRow
      BY <2>2, <2>3, <2>5 DEF KeyAlone, At
    <3>5. StepOf({"UndeleteKEK"}) /\ Moves(c) /\ CallOK(c)'
      BY <2>1, <3>2, ReturnSteps
    <3>6. Undisturbed => keks[k] # NoRow
      BY <3>4 DEF Undisturbed
    <3>7. KeyKept(c)
      BY <2>2, <3>2, <3>3, <3>5, <3>6, KEKWritten
    <3> QED BY <3>5, <3>7 DEF KeyStepGood
  <2> QED BY <1>4, <2>4, <2>5 DEF MyUndeleteKEK
<1>5. CASE MyCreateDEK(c)
  <2>1. PgCreateDEK(c)
    BY <1>5 DEF MyCreateDEK, PgCreateDEK
  <2> QED BY <2>1, SQLCreateDEK
<1>6. CASE MyDeleteDEK(c)
  <2>1. call[c].op = "DeleteDEK" /\ call[c].at # "done"
    BY <1>6 DEF MyDeleteDEK, At
  <2>2. /\ call[c].in.kek \in KEKs /\ call[c].in.permanent \in BOOLEAN
        /\ (call[c].in.permanent => "purge" \in load.ops) /\ KeyParams(call[c]) /\ KeyTableInv
    BY <2>1, InvParts DEF KeyParams
  <2>3. PICK rows : rows = Target(call[c].in, MyAlgorithm(call[c].in))
    OBVIOUS
  <2>4. rows \in SUBSET deks
    BY <2>3 DEF Target, Filter, Rows
  <2>5. CASE At(c, "DeleteDEK", "store")
    <3>1. CASE rows = {}
      BY <1>6, <2>1, <2>3, <2>5, <3>1, ReturnStays DEF MyDeleteDEK, At
    <3>2. CASE rows # {}
      <4>1. Goto(c, "change", NoRow) /\ UNCHANGED keyVars
        BY <1>6, <2>3, <2>5, <3>2 DEF MyDeleteDEK, At
      <4>2. PICK r : r = [op |-> call[c].op, at |-> "change", in |-> call[c].in, got |-> NoRow,
                          status |-> call[c].status]
        OBVIOUS
      <4>3. r.op = "DeleteDEK" /\ r.at = "change" /\ r.in = call[c].in
        BY <2>1, <4>2
      <4>4. KeyCall(r)
        BY <2>1, <2>2, <4>3 DEF KeyCall, KeyParams, KeyHeld, KeyAlone
      <4> QED BY <2>1, <4>1, <4>2, <4>4, GotoStays DEF KeyRequests
    <3> QED BY <3>1, <3>2
  <2>6. CASE At(c, "DeleteDEK", "change")
    <3>1. Return(c, "nil") /\ UNCHANGED <<keks, byKek, kmsGen>>
      BY <1>6, <2>6 DEF MyDeleteDEK, At
    <3>2. CASE call[c].in.permanent
      <4>1. RemoveDEKs(rows) /\ "purge" \in load.ops
        BY <1>6, <2>2, <2>3, <2>6, <3>2 DEF MyDeleteDEK, At
      <4>2. PICK k \in KEKs : k = call[c].in.kek
        BY <2>2
      <4>3. KeyKept(c)
        BY <2>2, <3>1, <4>1, <4>2, DEKsRemoved
      <4> QED BY <2>1, <3>1, <4>3, ReturnSteps DEF KeyStepGood
    <3>3. CASE ~call[c].in.permanent
      <4>1. deks' = Mark(rows, TRUE) /\ UNCHANGED given
        BY <1>6, <2>3, <2>6, <3>3 DEF MyDeleteDEK, At
      <4>2. KeyKept(c)
        BY <2>2, <2>4, <3>1, <4>1, MarkKeeps
      <4> QED BY <2>1, <3>1, <4>2, ReturnSteps DEF KeyStepGood
    <3> QED BY <3>2, <3>3
  <2> QED BY <1>6, <2>5, <2>6 DEF MyDeleteDEK
<1>7. CASE MyUndeleteDEK(c)
  <2>1. call[c].op = "UndeleteDEK" /\ call[c].at # "done"
    BY <1>7 DEF MyUndeleteDEK, At
  <2>2. KeyParams(call[c]) /\ KeyTableInv
    BY InvParts
  <2>3. PICK rows : rows = {d \in Target(call[c].in, MyAlgorithm(call[c].in)) : d.deleted}
    OBVIOUS
  <2>4. rows \in SUBSET deks
    BY <2>3 DEF Target, Filter, Rows
  <2>5. CASE At(c, "UndeleteDEK", "store")
    <3>1. CASE rows = {}
      BY <1>7, <2>1, <2>3, <2>5, <3>1, ReturnStays DEF MyUndeleteDEK, At
    <3>2. CASE rows # {}
      <4>1. Goto(c, "change", NoRow) /\ UNCHANGED keyVars
        BY <1>7, <2>3, <2>5, <3>2 DEF MyUndeleteDEK, At
      <4>2. PICK r : r = [op |-> call[c].op, at |-> "change", in |-> call[c].in, got |-> NoRow,
                          status |-> call[c].status]
        OBVIOUS
      <4>3. r.op = "UndeleteDEK" /\ r.at = "change" /\ r.in = call[c].in
        BY <2>1, <4>2
      <4>4. KeyCall(r)
        BY <2>1, <2>2, <4>3 DEF KeyCall, KeyParams, KeyHeld, KeyAlone
      <4> QED BY <2>1, <4>1, <4>2, <4>4, GotoStays DEF KeyRequests
    <3> QED BY <3>1, <3>2
  <2>6. CASE At(c, "UndeleteDEK", "change")
    <3>1. deks' = Mark(rows, FALSE) /\ Return(c, "nil") /\ UNCHANGED <<keks, byKek, kmsGen, given>>
      BY <1>7, <2>3, <2>6 DEF MyUndeleteDEK, At
    <3>2. StepOf({"UndeleteDEK"}) /\ Moves(c) /\ CallOK(c)'
      BY <2>1, <3>1, ReturnSteps
    <3>3. KeyKept(c)
      BY <2>2, <2>4, <3>1, <3>2, MarkKeeps
    <3> QED BY <3>2, <3>3 DEF KeyStepGood
  <2> QED BY <1>7, <2>5, <2>6 DEF MyUndeleteDEK
<1>8. CASE MyUpdateDEK(c)
  BY <1>8, RewriteDEKsGood DEF MyUpdateDEK
<1> QED BY <1>1, <1>2, <1>3, <1>4, <1>5, <1>6, <1>7, <1>8 DEF MyKeyStep

-----------------------------------------------------------------------------
(* The steps of Cassandra.                                                 *)

\* A listing entry is written.
LEMMA ListingAdded ==
  ASSUME KeyTableInv, NEW c \in Clients, UNCHANGED <<load, backend>>, NEW k \in KEKs, NEW s \in Subjects,
         byKek' = byKek \cup {<<k, s>>}, UNCHANGED <<keks, deks, kmsGen, given>>
  PROVE  KeyKept(c)
<1>1. keks' = keks /\ deks' = deks /\ kmsGen' = kmsGen /\ given' = given /\ byKek \subseteq byKek'
  OBVIOUS
<1>2. byKek' \subseteq KEKs \X Subjects
  BY DEF KeyTableInv, KeyTypeOK
<1>3. KeyTableInv'
  BY <1>1, <1>2 DEF KeyTableInv, KeyTypeOK, UniqueDEK, ListedDEK, NoOrphanDEK, Undisturbed, Steady, Tame,
              KeyMaterialKept, Told, RowOf
<1>4. Grows(c)
  <2>1. kmsGen <= kmsGen'
    BY <1>1, KeyConstants DEF KeyTableInv, KeyTypeOK
  <2> QED BY <1>1, <2>1 DEF Grows
<1>5. \A d \in deks, e \in deks' : RowOf(d) = RowOf(e) => d = e
  BY <1>1, SameRow DEF KeyTableInv
<1>6. Advances
  BY <1>5, MaterialType DEF KeyTableInv, Advances
<1>7. KEKSticks /\ DEKSticks /\ Appears
  BY <1>1, <1>5 DEF KEKSticks, DEKSticks, Appears
<1> QED BY <1>3, <1>4, <1>6, <1>7 DEF KeyKept, KeysAsked

\* The row of a KEK is written, whether or not it is there.
LEMMA CasWriteGood ==
  ASSUME RecordsInv, NEW c \in Clients, UNCHANGED <<load, backend>>, backend = "cassandra",
         call[c].at # "done", NEW k \in KEKs, k = call[c].in.kek, NEW row \in KEKRow, CasWriteKEK(c, row),
         FlagSafe /\ keks[k] # NoRow /\ keks[k].deleted /\ ~row.deleted => call[c].op = "UndeleteKEK",
         load.serial => keks[k] # NoRow
  PROVE  KeyStepGood(c)
<1>1. /\ keks' = [keks EXCEPT ![k] = row] /\ Return(c, "nil") /\ UNCHANGED <<deks, byKek, kmsGen, given>>
      /\ KeyTableInv
  BY InvParts DEF CasWriteKEK
<1>2. StepOf({call[c].op}) /\ Moves(c) /\ CallOK(c)'
  BY <1>1, ReturnSteps
<1>3. row # NoRow
  BY KeyConstants
<1>4. KeyKept(c)
  BY <1>1, <1>2, <1>3, KEKWritten
<1> QED BY <1>2, <1>4 DEF KeyStepGood

\* The row that an UPDATE of the flag leaves in Cassandra, where it may insert.
LEMMA CasFlaggedRow ==
  ASSUME RecordsInv, NEW k \in KEKs, NEW flag \in BOOLEAN
  PROVE  CasFlagged(k, flag) \in KEKRow /\ CasFlagged(k, flag).deleted = flag
<1>1. CASE keks[k] = NoRow
  BY <1>1 DEF CasFlagged, KEKRow
<1>2. CASE keks[k] # NoRow
  BY <1>2, KEKFlagged DEF CasFlagged
<1> QED BY <1>1, <1>2

\* The check whether the KEK is there.
LEMMA CasFindGood ==
  ASSUME RecordsInv, NEW c \in Clients, UNCHANGED <<load, backend>>,
         call[c].op \in KeyRequests, call[c].at # "done", NEW when, NEW next, next \notin {"done", "set", "write"},
         CasFindKEK(c, when, next),
         NEW r, r = [op |-> call[c].op, at |-> next, in |-> call[c].in, got |-> NoRow, status |-> call[c].status],
         when => KeyCall(r)
  PROVE  KeyStepGood(c)
<1>1. UNCHANGED keyVars
  BY DEF CasFindKEK
<1>2. CASE when
  BY <1>1, <1>2, GotoStays DEF CasFindKEK
<1>3. CASE ~when
  BY <1>1, <1>3, ReturnStays DEF CasFindKEK
<1> QED BY <1>2, <1>3

\* Cassandra's update of a KEK reads it and writes the whole record.
LEMMA CasUpdateKEKGood ==
  ASSUME RecordsInv, NEW c \in Clients, UNCHANGED <<load, backend>>, backend = "cassandra", CasUpdateKEK(c)
  PROVE  KeyStepGood(c)
<1>1. call[c].op = "UpdateKEK" /\ call[c].at \in {"store", "update"}
  BY DEF CasUpdateKEK, At
<1>2. KeyParams(call[c]) /\ (load.serial => KeyAlone(call[c]))
  BY InvParts
<1>3. call[c].in \in [kek : KEKs, rec : KEKRow \cup {NoRow}] /\ call[c].in.rec \in KEKRow
  BY <1>1, <1>2 DEF KeyParams
<1>4. CASE At(c, "UpdateKEK", "store")
  <2>1. CasFindKEK(c, keks[call[c].in.kek] # NoRow, "update")
    BY <1>4 DEF CasUpdateKEK, At
  <2>2. PICK r : r = [op |-> call[c].op, at |-> "update", in |-> call[c].in, got |-> NoRow,
                      status |-> call[c].status]
    OBVIOUS
  <2>3. r.op = "UpdateKEK" /\ r.at = "update" /\ r.in = call[c].in
    BY <1>1, <2>2
  <2>4. KeyCall(r)
    BY <1>1, <1>2, <2>3 DEF KeyCall, KeyParams, KeyHeld, KeyAlone
  <2> QED BY <1>1, <2>1, <2>2, <2>4, CasFindGood DEF KeyRequests
<1>5. CASE At(c, "UpdateKEK", "update")
  <2>1. PICK k \in KEKs, row \in KEKRow : k = call[c].in.kek /\ row = call[c].in.rec
    BY <1>3
  <2>2. CasWriteKEK(c, row)
    BY <1>5, <2>1 DEF CasUpdateKEK, At
  <2>3. FlagSafe => keks[k].deleted = FALSE
    BY <1>1, <2>1, UpdateKEKFlag
  <2>4. load.serial => keks[k] # NoRow
    BY <1>1, <1>2, <2>1 DEF KeyAlone
  <2> QED BY <1>1, <2>1, <2>2, <2>3, <2>4, CasWriteGood
<1> QED BY <1>4, <1>5 DEF CasUpdateKEK

\* Cassandra's delete of a KEK: the flag, or the DEKs of each subject listed and the
\* KEK last.
LEMMA CasDeleteKEKGood ==
  ASSUME RecordsInv, NEW c \in Clients, UNCHANGED <<load, backend>>, backend = "cassandra", CasDeleteKEK(c)
  PROVE  KeyStepGood(c)
<1>1. call[c].op = "DeleteKEK" /\ call[c].at # "done"
  BY DEF CasDeleteKEK, At
<1>2. KeyParams(call[c]) /\ (load.serial => KeyAlone(call[c])) /\ KeyTableInv
  BY InvParts
<1>3. call[c].in \in [kek : KEKs, permanent : BOOLEAN]
  BY <1>1, <1>2 DEF KeyParams
<1>4. PICK k \in KEKs : k = call[c].in.kek
  BY <1>3
<1>5. CASE At(c, "DeleteKEK", "store")
  <2>1. PICK next : next = IF call[c].in.permanent THEN "subjects" ELSE "update"
    OBVIOUS
  <2>2. CasFindKEK(c, keks[k] # NoRow, next)
    BY <1>4, <1>5, <2>1 DEF CasDeleteKEK, At
  <2>3. next \in {"subjects", "update"} /\ (next = "subjects" => call[c].in.permanent)
    BY <2>1
  <2>4. PICK r : r = [op |-> call[c].op, at |-> next, in |-> call[c].in, got |-> NoRow,
                      status |-> call[c].status]
    OBVIOUS
  <2>5. r.op = "DeleteKEK" /\ r.at = next /\ r.in = call[c].in
    BY <1>1, <2>4
  <2>6. keks[k] # NoRow => KeyCall(r)
    BY <1>1, <1>2, <1>4, <2>3, <2>5 DEF KeyCall, KeyParams, KeyHeld, KeyAlone
  <2> QED BY <1>1, <2>2, <2>3, <2>4, <2>6, CasFindGood DEF KeyRequests
<1>6. CASE At(c, "DeleteKEK", "update")
  <2>1. PICK row \in KEKRow : row = CasFlagged(k, TRUE) /\ row.deleted
    BY CasFlaggedRow
  <2>2. CasWriteKEK(c, row)
    BY <1>4, <1>6, <2>1 DEF CasDeleteKEK, At
  <2>3. load.serial => keks[k] # NoRow
    BY <1>1, <1>2, <1>4, <1>6 DEF KeyAlone, At
  <2> QED BY <1>1, <1>4, <2>1, <2>2, <2>3, CasWriteGood
<1>7. CASE At(c, "DeleteKEK", "subjects")
  <2>1. PICK got : got = {s \in Subjects : <<k, s>> \in byKek}
    OBVIOUS
  <2>2. Goto(c, "batch", got) /\ UNCHANGED keyVars
    BY <1>4, <1>7, <2>1 DEF CasDeleteKEK, At
  <2>3. PICK r : r = [op |-> call[c].op, at |-> "batch", in |-> call[c].in, got |-> got,
                      status |-> call[c].status]
    OBVIOUS
  <2>4. r.op = "DeleteKEK" /\ r.at = "batch" /\ r.in = call[c].in /\ r.got = got
    BY <1>1, <2>3
  <2>5. KeyCall(r)
    BY <1>1, <1>2, <1>4, <1>7, <2>1, <2>4 DEF KeyCall, KeyParams, KeyHeld, KeyAlone, At
  <2> QED BY <1>1, <2>2, <2>3, <2>5, GotoStays DEF KeyRequests
<1>8. CASE At(c, "DeleteKEK", "batch")
  <2>1. PICK rows : rows = {d \in deks : d.kek = k /\ d.subj \in call[c].got}
    OBVIOUS
  <2>2. /\ keks' = [keks EXCEPT ![k] = NoRow] /\ RemoveDEKs(rows) /\ byKek' = {p \in byKek : p[1] # k}
        /\ Return(c, "nil") /\ UNCHANGED kmsGen
    BY <1>4, <1>8, <2>1 DEF CasDeleteKEK, At
  <2>3. "purge" \in load.ops
    BY <1>1, <1>2, <1>8 DEF KeyParams, At
  <2>4. load.serial => \A d \in deks : d.kek = k => d \in rows
    <3> SUFFICES ASSUME load.serial, NEW d \in deks, d.kek = k PROVE d.subj \in call[c].got
      BY <2>1
    <3>1. call[c].got = {s \in Subjects : <<k, s>> \in byKek}
      BY <1>1, <1>2, <1>4, <1>8 DEF KeyAlone, At
    <3>2. d.subj \in Subjects /\ <<d.kek, d.subj>> \in byKek
      BY <1>2 DEF KeyTableInv, KeyTypeOK, DEKRow, ListedDEK, Steady
    <3> QED BY <3>1, <3>2
  <2>5. Undisturbed /\ keks' # keks => \A d \in deks : d.kek = k => d \in rows
    BY <2>4 DEF Undisturbed
  <2>6. Steady => \A d \in deks \ rows : <<d.kek, d.subj>> \in byKek'
    <3> SUFFICES ASSUME Steady, NEW d \in deks \ rows PROVE <<d.kek, d.subj>> \in byKek'
      BY Zenon
    <3>1. d.kek # k
      BY <2>3, <2>4 DEF Steady
    <3>2. <<d.kek, d.subj>> \in byKek
      BY <1>2 DEF KeyTableInv, ListedDEK
    <3> QED BY <2>2, <3>1, <3>2
  <2>7. byKek' \in SUBSET byKek /\ keks' \in {keks, [keks EXCEPT ![k] = NoRow]} /\ kmsGen' = kmsGen
    BY <2>2
  <2>8. KeyKept(c)
    BY <1>2, <2>2, <2>3, <2>5, <2>6, <2>7, DEKsRemoved
  <2> QED BY <1>1, <2>2, <2>8, ReturnSteps DEF KeyStepGood
<1> QED BY <1>5, <1>6, <1>7, <1>8 DEF CasDeleteKEK

\* Cassandra's undelete of a KEK.
LEMMA CasUndeleteKEKGood ==
  ASSUME RecordsInv, NEW c \in Clients, UNCHANGED <<load, backend>>, backend = "cassandra", CasUndeleteKEK(c)
  PROVE  KeyStepGood(c)
<1>1. call[c].op = "UndeleteKEK" /\ call[c].at # "done"
  BY DEF CasUndeleteKEK, At
<1>2. KeyParams(call[c]) /\ (load.serial => KeyAlone(call[c]))
  BY InvParts
<1>3. PICK k \in KEKs : k = call[c].in.kek
  BY <1>1, <1>2 DEF KeyParams
<1>4. CASE At(c, "UndeleteKEK", "store")
  <2>1. CasFindKEK(c, keks[k] # NoRow /\ keks[k].deleted, "update")
    BY <1>3, <1>4 DEF CasUndeleteKEK, At
  <2>2. PICK r : r = [op |-> call[c].op, at |-> "update", in |-> call[c].in, got |-> NoRow,
                      status |-> call[c].status]
    OBVIOUS
  <2>3. r.op = "UndeleteKEK" /\ r.at = "update" /\ r.in = call[c].in
    BY <1>1, <2>2
  <2>4. keks[k] # NoRow => KeyCall(r)
    BY <1>1, <1>2, <1>3, <2>3 DEF KeyCall, KeyParams, KeyHeld, KeyAlone
  <2> QED BY <1>1, <2>1, <2>2, <2>4, CasFindGood DEF KeyRequests
<1>5. CASE At(c, "UndeleteKEK", "update")
  <2>1. PICK row \in KEKRow : row = CasFlagged(k, FALSE)
    BY CasFlaggedRow
  <2>2. CasWriteKEK(c, row)
    BY <1>3, <1>5, <2>1 DEF CasUndeleteKEK, At
  <2>3. load.serial => keks[k] # NoRow
    BY <1>1, <1>2, <1>3, <1>5 DEF KeyAlone, At
  <2> QED BY <1>1, <1>3, <2>1, <2>2, <2>3, CasWriteGood
<1> QED BY <1>4, <1>5 DEF CasUndeleteKEK

\* Cassandra's create of a DEK: the KEK is read, the listing entry written before the
\* conditional insert.
LEMMA CasCreateDEKGood ==
  ASSUME RecordsInv, NEW c \in Clients, UNCHANGED <<load, backend>>, backend = "cassandra", CasCreateDEK(c)
  PROVE  KeyStepGood(c)
<1>1. call[c].op = "CreateDEK" /\ call[c].at # "done"
  BY DEF CasCreateDEK, At
<1>2. PICK in : in = call[c].in
  OBVIOUS
<1>3. /\ KeyParams(call[c]) /\ KeyHeld(call[c]) /\ (load.serial => KeyAlone(call[c])) /\ KeyTableInv
      /\ in.ver \in 0..MaxVersion /\ in.kek \in KEKs /\ in.subj \in Subjects
  BY <1>1, <1>2, InvParts DEF KeyParams
<1>4. ASSUME NEW at \in {"maxVersion", "listing"}, NEW got, UNCHANGED keyVars, Goto(c, at, got),
             at = "listing" => got \in 1..MaxVersion, load.serial => keks[in.kek] # NoRow
      PROVE  KeyStepGood(c)
  <2>1. PICK r : r = [op |-> call[c].op, at |-> at, in |-> call[c].in, got |-> got, status |-> call[c].status]
    OBVIOUS
  <2>2. r.op = "CreateDEK" /\ r.at = at /\ r.in = in /\ r.got = got
    BY <1>1, <1>2, <2>1
  <2>3. KeyParams(r)
    BY <1>1, <1>2, <1>3, <1>4, <2>2 DEF KeyParams
  <2>4. KeyHeld(r) /\ (load.serial => KeyAlone(r))
    BY <1>3, <1>4, <2>2 DEF KeyHeld, KeyAlone
  <2>5. KeyCall(r)
    BY <2>3, <2>4 DEF KeyCall
  <2> QED BY <1>1, <1>4, <2>1, <2>5, GotoStays DEF KeyRequests
<1>5. CASE At(c, "CreateDEK", "store")
  <2>1. CASE keks[in.kek] = NoRow
    BY <1>1, <1>2, <1>5, <2>1, ReturnStays DEF CasCreateDEK, At
  <2>2. CASE keks[in.kek] # NoRow
    <3>1. PICK at : at = IF in.ver = 0 THEN "maxVersion" ELSE "listing"
      OBVIOUS
    <3>2. Goto(c, at, in.ver) /\ UNCHANGED keyVars
      BY <1>2, <1>5, <2>2, <3>1 DEF CasCreateDEK, At
    <3>3. at \in {"maxVersion", "listing"} /\ (at = "listing" => in.ver \in 1..MaxVersion)
      BY <1>3, <3>1, KeyConstants
    <3> QED BY <1>4, <2>2, <3>2, <3>3
  <2> QED BY <2>1, <2>2
<1>6. CASE At(c, "CreateDEK", "maxVersion")
  <2>1. PICK v : v = NextVersion(in.kek, in.subj)
    OBVIOUS
  <2>2. Goto(c, "listing", v) /\ UNCHANGED keyVars /\ v <= MaxVersion
    BY <1>2, <1>6, <2>1 DEF CasCreateDEK, At
  <2>3. v \in 1..MaxVersion
    BY <2>1, <2>2, NextVersionType
  <2>4. load.serial => keks[in.kek] # NoRow
    BY <1>2, <1>3, <1>6 DEF KeyAlone, At
  <2> QED BY <1>4, <2>2, <2>3, <2>4
<1>7. CASE At(c, "CreateDEK", "listing")
  <2>1. PICK got : got = call[c].got
    OBVIOUS
  <2>2. byKek' = byKek \cup {<<in.kek, in.subj>>} /\ Goto(c, "insert", got) /\ UNCHANGED <<keks, deks, kmsGen, given>>
    BY <1>2, <1>7, <2>1 DEF CasCreateDEK, At
  <2>3. KeyKept(c)
    BY <1>3, <2>2, ListingAdded
  <2>4. call'[c].op = "CreateDEK" /\ call'[c].at = "insert" /\ call'[c].in = in /\ call'[c].got = got
    <3>1. Goto(c, "insert", got)
      BY <2>2
    <3> QED BY <1>1, <1>2, <3>1, GotoKeeps
  <2>5. KeyParams(call[c])'
    BY <1>1, <1>2, <1>3, <1>7, <2>1, <2>2, <2>4 DEF KeyParams, At
  <2>6. KeyHeld(call[c])'
    BY <2>2, <2>4 DEF KeyHeld
  <2>7. load.serial => KeyAlone(call[c])'
    BY <1>1, <1>2, <1>3, <1>7, <2>2, <2>4 DEF KeyAlone, At
  <2>8. KeyCall(call[c])'
    BY <2>5, <2>6, <2>7 DEF KeyCall
  <2>9. Moves(c) /\ CallOK(c)'
    BY <1>1, <2>2, <2>8, GotoGood DEF KeyRequests
  <2> QED BY <2>3, <2>9 DEF KeyStepGood
<1>8. CASE At(c, "CreateDEK", "insert")
  <2>1. PICK v : v = call[c].got
    OBVIOUS
  <2>2. v \in 1..MaxVersion
    BY <1>3, <1>8, <2>1 DEF KeyParams, At
  <2>3. PICK conflicts : conflicts = {d \in Rows(in.kek, in.subj) : d.ver = v}
    OBVIOUS
  <2>4. InsertDEK(c, NewRow(call[c].in, v), conflicts)
    BY <1>2, <1>8, <2>1, <2>3 DEF CasCreateDEK, At
  <2>5. conflicts = {} => \A d \in deks : ~(d.kek = in.kek /\ d.subj = in.subj /\ d.ver = v)
    BY <2>3 DEF Rows
  <2>6. /\ Undisturbed => keks[in.kek] # NoRow
        /\ Steady => <<in.kek, in.subj>> \in byKek
    BY <1>2, <1>3, <1>8 DEF KeyAlone, KeyHeld, At, Undisturbed
  <2> QED BY <1>1, <1>2, <2>2, <2>4, <2>5, <2>6, InsertDEKGood
<1> QED BY <1>5, <1>6, <1>7, <1>8 DEF CasCreateDEK

\* The flags of the versions read before are written; rows that were purged
\* meanwhile come to be again.
LEMMA CasFlagKeeps ==
  ASSUME RecordsInv, NEW c \in Clients, UNCHANGED <<load, backend>>, backend = "cassandra",
         call[c].op \in {"DeleteDEK", "UndeleteDEK"}, call[c].at = "update", NEW flag \in BOOLEAN,
         ~flag => StepOf({"UndeleteDEK"}), deks' = CasFlagDEKs(call[c].in, call[c].got, flag),
         UNCHANGED <<keks, byKek, kmsGen, given>>
  PROVE  KeyKept(c)
<1>1. PICK in : in = call[c].in
  OBVIOUS
<1>2. PICK versions : versions = call[c].got
  OBVIOUS
<1>3. KeyTableInv /\ in.kek \in KEKs /\ in.subj \in Subjects /\ versions \in SUBSET (1..MaxVersion)
  BY <1>1, <1>2, InvParts DEF KeyParams
<1>4. Steady => versions \subseteq {d.ver : d \in Rows(in.kek, in.subj)}
  BY <1>1, <1>2, InvParts DEF KeyHeld
<1>5. PICK rows : rows = {d \in Rows(in.kek, in.subj) : d.ver \in versions}
  OBVIOUS
<1>6. rows \in SUBSET deks
  BY <1>5 DEF Rows
<1>7. PICK F : F = [d \in rows |-> [d EXCEPT !.deleted = flag]]
  OBVIOUS
<1>8. PICK V : V = versions \ {d.ver : d \in rows}
  OBVIOUS
<1>9. PICK H : H = [v \in V |-> [kek |-> in.kek, subj |-> in.subj, ver |-> v, alg |-> NoAlg, mat |-> NoRow,
                                 deleted |-> flag]]
  OBVIOUS
<1>10. PICK G : G = {H[v] : v \in V}
  OBVIOUS
<1>11. deks' = (deks \ rows) \cup {F[d] : d \in rows} \cup G
  <2>1. G = {[kek |-> in.kek, subj |-> in.subj, ver |-> v, alg |-> NoAlg, mat |-> NoRow, deleted |-> flag] :
               v \in versions \ {d.ver : d \in rows}}
    BY <1>8, <1>9, <1>10
  <2>2. Mark(rows, flag) = (deks \ rows) \cup {F[d] : d \in rows}
    BY <1>7 DEF Mark
  <2> QED BY <1>1, <1>2, <1>5, <2>1, <2>2 DEF CasFlagDEKs
<1>12. \A v \in V : /\ H[v] \in DEKRow /\ H[v].kek = in.kek /\ H[v].subj = in.subj /\ H[v].ver = v
                    /\ H[v].mat = NoRow
  BY <1>3, <1>8, <1>9 DEF DEKRow
<1>13. G \in SUBSET DEKRow
  BY <1>10, <1>12
<1>14. IsFiniteSet(G)
  <2>1. IsFiniteSet(1..MaxVersion)
    BY KeyConstants, FS_Interval
  <2>2. IsFiniteSet(V)
    BY <1>3, <1>8, <2>1, FS_Subset
  <2> QED BY <1>9, <1>10, <2>2, ImageFinite
<1>15. \A d \in rows : /\ d \in DEKRow /\ F[d] \in DEKRow /\ RowOf(F[d]) = RowOf(d) /\ F[d].mat = d.mat
                       /\ F[d].deleted = flag
  BY <1>3, <1>6, <1>7 DEF KeyTableInv, KeyTypeOK, DEKRow, RowOf
<1>16. F \in [rows -> DEKRow]
  BY <1>7, <1>15
<1>17. Rewrites(c, rows, F)
  <2>1. \A d \in rows : d.mat # NoRow => d.mat.gen <= kmsGen
    BY <1>3, <1>6 DEF KeyTableInv
  <2> QED BY <1>15, <2>1 DEF Rewrites
<1>18. Fills(G)
  <2> SUFFICES ASSUME NEW v \in V
               PROVE  ~Steady /\ \A d \in deks : ~(d.kek = in.kek /\ d.subj = in.subj /\ d.ver = v)
    BY <1>10, <1>12 DEF Fills
  <2>1. \A d \in deks : ~(d.kek = in.kek /\ d.subj = in.subj /\ d.ver = v)
    BY <1>5, <1>8 DEF Rows
  <2> QED BY <1>4, <1>8, <2>1 DEF Rows
<1> QED BY <1>3, <1>6, <1>11, <1>13, <1>14, <1>16, <1>17, <1>18, DEKsReplaced

\* Cassandra's delete of DEKs: the versions are read, then flagged or removed, and the
\* listing entry goes with the last of them.
LEMMA CasDeleteDEKGood ==
  ASSUME RecordsInv, NEW c \in Clients, UNCHANGED <<load, backend>>, backend = "cassandra", CasDeleteDEK(c)
  PROVE  KeyStepGood(c)
<1>1. call[c].op = "DeleteDEK" /\ call[c].at # "done"
  BY DEF CasDeleteDEK, At
<1>2. PICK in : in = call[c].in
  OBVIOUS
<1>3. /\ KeyParams(call[c]) /\ KeyHeld(call[c]) /\ (load.serial => KeyAlone(call[c])) /\ KeyTableInv
      /\ in \in [kek : KEKs, subj : Subjects, ver : 0..MaxVersion, alg : Algorithms \cup {AnyAlg},
                 permanent : BOOLEAN]
      /\ in.permanent => "purge" \in load.ops
  BY <1>1, <1>2, InvParts DEF KeyParams
<1>4. PICK rows : rows = Target(in, in.alg)
  OBVIOUS
<1>5. rows \subseteq Rows(in.kek, in.subj) /\ rows \subseteq deks
  BY <1>4 DEF Target, Filter, Rows
<1>6. PICK versions : versions = {d.ver : d \in rows}
  OBVIOUS
<1>7. versions \in SUBSET (1..MaxVersion) /\ versions \subseteq {d.ver : d \in Rows(in.kek, in.subj)}
  <2>1. \A d \in rows : d.ver \in 1..MaxVersion
    BY <1>3, <1>5 DEF KeyTableInv, KeyTypeOK, DEKRow
  <2> QED BY <1>5, <1>6, <2>1
<1>8. CASE At(c, "DeleteDEK", "store")
  <2>1. CASE versions = {}
    BY <1>1, <1>2, <1>4, <1>6, <1>8, <2>1, ReturnStays DEF CasDeleteDEK, At
  <2>2. CASE versions # {}
    <3>1. PICK at : at = IF in.permanent THEN "remaining" ELSE "update"
      OBVIOUS
    <3>2. Goto(c, at, versions) /\ UNCHANGED keyVars
      BY <1>2, <1>4, <1>6, <1>8, <2>2, <3>1 DEF CasDeleteDEK, At
    <3>3. at \in {"remaining", "update"} /\ (at = "remaining" => in.permanent)
      BY <3>1
    <3>4. PICK r : r = [op |-> call[c].op, at |-> at, in |-> call[c].in, got |-> versions,
                        status |-> call[c].status]
      OBVIOUS
    <3>5. r.op = "DeleteDEK" /\ r.at = at /\ r.in = in /\ r.got = versions
      BY <1>1, <1>2, <3>4
    <3>6. KeyParams(r)
      BY <1>3, <1>7, <3>3, <3>5 DEF KeyParams
    <3>7. KeyHeld(r)
      BY <1>7, <3>5 DEF KeyHeld
    <3>8. KeyAlone(r)
      BY <1>4, <1>6, <2>2, <3>3, <3>5 DEF KeyAlone
    <3>9. KeyCall(r)
      BY <3>6, <3>7, <3>8 DEF KeyCall
    <3> QED BY <1>1, <3>2, <3>3, <3>4, <3>9, GotoStays DEF KeyRequests
  <2> QED BY <2>1, <2>2
<1>9. CASE At(c, "DeleteDEK", "update")
  <2>1. /\ deks' = CasFlagDEKs(call[c].in, call[c].got, TRUE) /\ Return(c, "nil")
        /\ UNCHANGED <<keks, byKek, kmsGen, given>>
    BY <1>9 DEF CasDeleteDEK, At
  <2>2. KeyKept(c)
    BY <1>1, <1>9, <2>1, CasFlagKeeps DEF At
  <2> QED BY <1>1, <2>1, <2>2, ReturnSteps DEF KeyStepGood
<1>10. CASE At(c, "DeleteDEK", "remaining")
  <2>1. PICK others : others = IF in.ver # 0 THEN {d \in Rows(in.kek, in.subj) : d.ver # in.ver}
                               ELSE IF in.alg # AnyAlg THEN {d \in Rows(in.kek, in.subj) : d.alg # in.alg}
                               ELSE {}
    OBVIOUS
  <2>2. PICK at : at = IF others = {} THEN "batchAll" ELSE "batch"
    OBVIOUS
  <2>3. PICK got : got = call[c].got
    OBVIOUS
  <2>4. Goto(c, at, got) /\ UNCHANGED keyVars
    BY <1>2, <1>10, <2>1, <2>2, <2>3 DEF CasDeleteDEK, At
  <2>5. at \in {"batchAll", "batch"} /\ (at = "batchAll" => others = {})
    BY <2>2
  <2>6. PICK r : r = [op |-> call[c].op, at |-> at, in |-> call[c].in, got |-> got, status |-> call[c].status]
    OBVIOUS
  <2>7. r.op = "DeleteDEK" /\ r.at = at /\ r.in = in /\ r.got = got
    BY <1>1, <1>2, <2>6
  <2>8. KeyParams(r)
    BY <1>1, <1>2, <1>3, <1>10, <2>3, <2>5, <2>7 DEF KeyParams, At
  <2>9. KeyHeld(r)
    BY <2>5, <2>7 DEF KeyHeld
  <2>10. ASSUME load.serial, others = {}, NEW d \in Rows(in.kek, in.subj) PROVE d.ver \in got
    <3>1. got # {} /\ got = {e.ver : e \in rows}
      BY <1>1, <1>2, <1>3, <1>4, <1>10, <2>3, <2>10 DEF KeyAlone, At
    <3>2. CASE in.ver # 0
      <4>1. d.ver = in.ver
        BY <2>1, <2>10, <3>2
      <4>2. \A e \in rows : e.ver = in.ver
        BY <1>4, <3>2 DEF Target
      <4> QED BY <3>1, <4>1, <4>2
    <3>3. CASE in.ver = 0
      <4>1. in.alg = AnyAlg \/ d.alg = in.alg
        BY <2>1, <2>10, <3>3
      <4>2. d \in rows
        BY <1>4, <3>3, <4>1 DEF Target, Filter
      <4> QED BY <3>1, <4>2
    <3> QED BY <3>2, <3>3
  <2>11. load.serial => KeyAlone(r)
    BY <2>5, <2>7, <2>10 DEF KeyAlone
  <2>12. KeyCall(r)
    BY <2>8, <2>9, <2>11 DEF KeyCall
  <2> QED BY <1>1, <2>4, <2>5, <2>6, <2>12, GotoStays DEF KeyRequests
<1>11. CASE call[c].at \in {"batch", "batchAll"}
  <2>1. PICK gone : gone = {d \in Rows(in.kek, in.subj) : d.ver \in call[c].got}
    OBVIOUS
  <2>2. /\ RemoveDEKs(gone) /\ Return(c, "nil") /\ UNCHANGED <<keks, kmsGen>>
        /\ byKek' = IF call[c].at = "batchAll" THEN byKek \ {<<in.kek, in.subj>>} ELSE byKek
    BY <1>2, <1>11, <2>1 DEF CasDeleteDEK, At
  <2>3. "purge" \in load.ops
    BY <1>1, <1>3, <1>11 DEF KeyParams
  <2>4. Steady => \A d \in deks \ gone : <<d.kek, d.subj>> \in byKek'
    <3> SUFFICES ASSUME Steady, NEW d \in deks \ gone PROVE <<d.kek, d.subj>> \in byKek'
      BY Zenon
    <3>1. <<d.kek, d.subj>> \in byKek
      BY <1>3 DEF KeyTableInv, ListedDEK
    <3>2. CASE call[c].at = "batchAll"
      <4>1. \A e \in Rows(in.kek, in.subj) : e \in gone
        BY <1>1, <1>2, <1>3, <2>1, <2>3, <3>2 DEF KeyAlone, Steady
      <4>2. ~(d.kek = in.kek /\ d.subj = in.subj)
        BY <4>1 DEF Rows
      <4> QED BY <2>2, <3>1, <3>2, <4>2
    <3>3. CASE call[c].at # "batchAll"
      BY <2>2, <3>1, <3>3
    <3> QED BY <3>2, <3>3
  <2>5. byKek' \in SUBSET byKek /\ keks' = keks /\ kmsGen' = kmsGen
    BY <2>2
  <2>6. PICK k \in KEKs : k = in.kek
    BY <1>3
  <2>7. KeyKept(c)
    BY <1>3, <2>2, <2>3, <2>4, <2>5, <2>6, DEKsRemoved
  <2> QED BY <1>1, <2>2, <2>7, ReturnSteps DEF KeyStepGood
<1> QED BY <1>8, <1>9, <1>10, <1>11 DEF CasDeleteDEK

\* Cassandra's undelete of DEKs: the versions are read, then unflagged.
LEMMA CasUndeleteDEKGood ==
  ASSUME RecordsInv, NEW c \in Clients, UNCHANGED <<load, backend>>, backend = "cassandra", CasUndeleteDEK(c)
  PROVE  KeyStepGood(c)
<1>1. call[c].op = "UndeleteDEK" /\ call[c].at # "done"
  BY DEF CasUndeleteDEK, At
<1>2. PICK in : in = call[c].in
  OBVIOUS
<1>3. /\ KeyTableInv
      /\ in \in [kek : KEKs, subj : Subjects, ver : 0..MaxVersion, alg : Algorithms \cup {AnyAlg}]
  BY <1>1, <1>2, InvParts DEF KeyParams
<1>4. PICK rows : rows = {e \in Target(in, in.alg) : e.deleted}
  OBVIOUS
<1>5. rows \subseteq Rows(in.kek, in.subj) /\ rows \subseteq deks
  BY <1>4 DEF Target, Filter, Rows
<1>6. PICK versions : versions = {d.ver : d \in rows}
  OBVIOUS
<1>7. versions \in SUBSET (1..MaxVersion) /\ versions \subseteq {d.ver : d \in Rows(in.kek, in.subj)}
  <2>1. \A d \in rows : d.ver \in 1..MaxVersion
    BY <1>3, <1>5 DEF KeyTableInv, KeyTypeOK, DEKRow
  <2> QED BY <1>5, <1>6, <2>1
<1>8. CASE At(c, "UndeleteDEK", "store")
  <2>1. CASE versions = {}
    BY <1>1, <1>2, <1>4, <1>6, <1>8, <2>1, ReturnStays DEF CasUndeleteDEK, At
  <2>2. CASE versions # {}
    <3>1. Goto(c, "update", versions) /\ UNCHANGED keyVars
      BY <1>2, <1>4, <1>6, <1>8, <2>2 DEF CasUndeleteDEK, At
    <3>2. PICK r : r = [op |-> call[c].op, at |-> "update", in |-> call[c].in, got |-> versions,
                        status |-> call[c].status]
      OBVIOUS
    <3>3. r.op = "UndeleteDEK" /\ r.at = "update" /\ r.in = in /\ r.got = versions
      BY <1>1, <1>2, <3>2
    <3>4. KeyCall(r)
      BY <1>3, <1>7, <3>3 DEF KeyCall, KeyParams, KeyHeld, KeyAlone
    <3> QED BY <1>1, <3>1, <3>2, <3>4, GotoStays DEF KeyRequests
  <2> QED BY <2>1, <2>2
<1>9. CASE At(c, "UndeleteDEK", "update")
  <2>1. /\ deks' = CasFlagDEKs(call[c].in, call[c].got, FALSE) /\ Return(c, "nil")
        /\ UNCHANGED <<keks, byKek, kmsGen, given>>
    BY <1>9 DEF CasUndeleteDEK, At
  <2>2. StepOf({"UndeleteDEK"}) /\ Moves(c) /\ CallOK(c)'
    BY <1>1, <2>1, ReturnSteps
  <2>3. KeyKept(c)
    BY <1>1, <1>9, <2>1, <2>2, CasFlagKeeps DEF At
  <2> QED BY <2>2, <2>3 DEF KeyStepGood
<1> QED BY <1>8, <1>9 DEF CasUndeleteDEK

\* Cassandra's write of a rewrapped DEK, which inserts a row when there is none.
LEMMA CasUpdateDEKGood ==
  ASSUME RecordsInv, NEW c \in Clients, UNCHANGED <<load, backend>>, backend = "cassandra", CasUpdateDEK(c)
  PROVE  KeyStepGood(c)
<1>1. call[c].op = "RewrapDEK" /\ call[c].at \in {"store", "update"}
  BY DEF CasUpdateDEK, At
<1>2. PICK in : in = call[c].in
  OBVIOUS
<1>3. /\ KeyParams(call[c]) /\ KeyHeld(call[c]) /\ KeyTableInv
      /\ in.kek \in KEKs /\ in.subj \in Subjects /\ in.ver \in 0..MaxVersion /\ in.ver # 0
      /\ in.mat \in Wrapped /\ in.mat.gen <= kmsGen
  BY <1>1, <1>2, InvParts DEF KeyParams
<1>4. PICK rows : rows = Target(in, AnyAlg)
  OBVIOUS
<1>5. CASE At(c, "RewrapDEK", "store")
  <2>1. CASE rows = {}
    BY <1>1, <1>2, <1>4, <1>5, <2>1, ReturnStays DEF CasUpdateDEK, At
  <2>2. CASE rows # {}
    <3>1. Goto(c, "update", NoRow) /\ UNCHANGED keyVars
      BY <1>2, <1>4, <1>5, <2>2 DEF CasUpdateDEK, At
    <3>2. PICK r : r = [op |-> call[c].op, at |-> "update", in |-> call[c].in, got |-> NoRow,
                        status |-> call[c].status]
      OBVIOUS
    <3>3. r.op = "RewrapDEK" /\ r.at = "update" /\ r.in = call[c].in
      BY <1>1, <3>2
    <3>4. KeyCall(r)
      BY <1>1, <1>3, <3>3 DEF KeyCall, KeyParams, KeyHeld, KeyAlone
    <3> QED BY <1>1, <3>1, <3>2, <3>4, GotoStays DEF KeyRequests
  <2> QED BY <2>1, <2>2
<1>6. CASE At(c, "RewrapDEK", "update")
  <2>1. PICK row : row = [kek |-> in.kek, subj |-> in.subj, ver |-> in.ver, alg |-> NoAlg, mat |-> in.mat,
                          deleted |-> FALSE]
    OBVIOUS
  <2>2. /\ deks' = (deks \ rows) \cup (IF rows # {} THEN {[d EXCEPT !.mat = in.mat] : d \in rows} ELSE {row})
        /\ Return(c, "nil") /\ UNCHANGED <<keks, byKek, kmsGen, given>>
    BY <1>2, <1>4, <1>6, <2>1 DEF CasUpdateDEK, At
  <2>3. CASE rows # {}
    <3>1. deks' = (deks \ rows) \cup {[d EXCEPT !.mat = call[c].in.mat] : d \in rows}
      BY <1>2, <2>2, <2>3
    <3>2. KeyKept(c)
      BY <1>1, <1>2, <1>4, <2>2, <3>1, RewriteKeeps
    <3> QED BY <1>1, <2>2, <3>2, ReturnSteps DEF KeyStepGood
  <2>4. CASE rows = {}
    <3>1. PICK F : F = [d \in {} |-> d]
      OBVIOUS
    <3>2. PICK G : G = {row}
      OBVIOUS
    <3>3. {} \in SUBSET deks /\ F \in [{} -> DEKRow] /\ Rewrites(c, {}, F)
      BY <3>1 DEF Rewrites
    <3>4. deks' = (deks \ {}) \cup {F[d] : d \in {}} \cup G
      BY <2>2, <2>4, <3>2
    <3>5. /\ row \in DEKRow /\ row.kek = in.kek /\ row.subj = in.subj /\ row.ver = in.ver /\ row.mat = in.mat
      BY <1>3, <2>1 DEF DEKRow
    <3>6. G \in SUBSET DEKRow /\ IsFiniteSet(G)
      BY <3>2, <3>5, FS_Singleton
    <3>7. \A d \in deks : ~(d.kek = in.kek /\ d.subj = in.subj /\ d.ver = in.ver)
      BY <1>4, <2>4 DEF Target, Filter, Rows
    <3>8. ~Tame
      <4>1. ASSUME Tame PROVE FALSE
        <5>1. PICK e \in deks : RowOf(e) = <<in.kek, in.subj, in.ver, in.alg>>
          BY <1>1, <1>2, <1>3, <4>1 DEF KeyHeld
        <5> QED BY <3>7, <5>1 DEF RowOf
      <4> QED BY <4>1
    <3>9. Fills(G)
      BY <1>3, <3>2, <3>5, <3>7, <3>8 DEF Fills, Tame
    <3>10. KeyKept(c)
      BY <1>3, <2>2, <3>3, <3>4, <3>6, <3>9, DEKsReplaced
    <3> QED BY <1>1, <2>2, <3>10, ReturnSteps DEF KeyStepGood
  <2> QED BY <2>3, <2>4
<1> QED BY <1>5, <1>6 DEF CasUpdateDEK

\* Every step of the DEK registry keeps the tables and its own request right.
LEMMA KeySteps ==
  ASSUME RecordsInv, NEW c \in Clients, UNCHANGED <<load, backend>>, KeyStep(c)
  PROVE  KeyStepGood(c)
<1>1. CASE HandleCreateKEK(c)
  BY <1>1, CreateKEKBegins
<1>2. CASE HandleUpdateKEK(c)
  BY <1>2, UpdateKEKReads
<1>3. CASE HandleDeleteKEK(c)
  BY <1>3, DeleteKEKBegins
<1>4. CASE HandleUndeleteKEK(c)
  BY <1>4, UndeleteKEKBegins
<1>5. CASE HandleCreateDEK(c)
  BY <1>5, CreateDEKBegins
<1>6. CASE HandleDeleteDEK(c) \/ HandleDeleteDEKVersion(c)
  <2>1. {0} \in SUBSET (0..MaxVersion) /\ 1..MaxVersion \in SUBSET (0..MaxVersion)
    BY KeyConstants
  <2> QED BY <1>6, <2>1, DeleteDEKBegins DEF HandleDeleteDEK, HandleDeleteDEKVersion
<1>7. CASE HandleUndeleteDEK(c) \/ HandleUndeleteDEKVersion(c)
  <2>1. {0} \in SUBSET (0..MaxVersion) /\ 1..MaxVersion \in SUBSET (0..MaxVersion)
    BY KeyConstants
  <2> QED BY <1>7, <2>1, UndeleteDEKBegins DEF HandleUndeleteDEK, HandleUndeleteDEKVersion
<1>8. CASE HandleRewrapDEK(c)
  BY <1>8, RewrapDEKBegins
<1>9. CASE CreateDEK(c)
  BY <1>9, CreateDEKService
<1>10. CASE RewrapDEK(c)
  BY <1>10, RewrapDEKService
<1>11. CASE KeyStoreStep(c)
  <2>1. CASE backend = "memory" /\ MemKeyStep(c)
    BY <2>1, MemKeySteps
  <2>2. CASE backend = "cassandra" /\ CasKeyStep(c)
    BY <2>2, InsertKEKGood, CasUpdateKEKGood, CasDeleteKEKGood, CasUndeleteKEKGood, CasCreateDEKGood,
       CasDeleteDEKGood, CasUndeleteDEKGood, CasUpdateDEKGood DEF CasKeyStep, CasCreateKEK
  <2>3. CASE backend = "postgres" /\ PgKeyStep(c)
    BY <2>3, PgKeySteps
  <2>4. CASE backend = "mysql" /\ MyKeyStep(c)
    BY <2>4, MyKeySteps
  <2> QED BY <1>11, <2>1, <2>2, <2>3, <2>4 DEF KeyStoreStep
<1> QED BY <1>1, <1>2, <1>3, <1>4, <1>5, <1>6, <1>7, <1>8, <1>9, <1>10, <1>11 DEF KeyStep

-----------------------------------------------------------------------------
(* The requests of the other clients.                                      *)

\* A request that no request overlaps leaves the others idle.
LEMMA OthersIdle ==
  ASSUME RecordsInv, NEW c \in Clients, Moves(c), load.serial, NEW d \in Clients, d # c
  PROVE  call[d].at = "done" /\ call[d].op = "none"
<1>1. call[d].at = "done"
  BY DEF RecordsInv, CallsApart, Moves
<1> QED BY <1>1, InvParts DEF CallShape

\* A step of the DEK registry leaves what the others have read.
LEMMA OthersKeep ==
  ASSUME RecordsInv, NEW c \in Clients, UNCHANGED <<load, backend>>, KeyStepGood(c),
         NEW d \in Clients, d # c
  PROVE  KeyCall(call[d])' /\ call'[d] = call[d]
<1>1. call'[d] = call[d]
  BY InvParts DEF KeyStepGood, Moves
<1>2. PICK r : r = call[d]
  OBVIOUS
<1>3. CASE load.serial
  <2>1. r.at = "done" /\ r.op = "none"
    BY <1>2, <1>3, OthersIdle DEF KeyStepGood
  <2>2. KeyCall(call[d])'
    BY <1>1, <1>2, <2>1 DEF KeyCall, KeyParams, KeyHeld, KeyAlone
  <2> QED BY <1>1, <2>2
<1>4. CASE ~load.serial
  <2>1. KeyParams(r) /\ KeyHeld(r) /\ CallShape(r) /\ KeyTableInv
    BY <1>2, InvParts
  <2>2. Grows(c) /\ KeyTableInv'
    BY DEF KeyStepGood, KeyKept
  <2>3. kmsGen <= kmsGen' /\ kmsGen \in Int /\ kmsGen' \in Int
    BY <2>1, <2>2 DEF Grows, KeyTableInv, KeyTypeOK
  <2>4. KeyParams(call[d])'
    <3>1. \A m \in Wrapped : m.gen <= kmsGen => m.gen <= kmsGen'
      BY <2>3, KeyConstants DEF Wrapped
    <3> QED BY <1>1, <1>2, <2>1, <3>1 DEF KeyParams
  <2>5. ASSUME Tame, r.op = "RewrapDEK", r.at \in {"rewrap", "store", "update"}
        PROVE  \E e \in deks' : /\ RowOf(e) = <<r.in.kek, r.in.subj, r.in.ver, r.in.alg>>
                                /\ e.mat # NoRow /\ e.mat.plain = r.in.mat.plain
                                /\ Swept => e.mat.gen <= r.in.mat.gen
    <3>1. PICK b \in deks : /\ RowOf(b) = <<r.in.kek, r.in.subj, r.in.ver, r.in.alg>>
                            /\ b.mat # NoRow /\ b.mat.plain = r.in.mat.plain
                            /\ Swept => b.mat.gen <= r.in.mat.gen
      BY <2>1, <2>5 DEF KeyHeld
    <3>2. "purge" \notin load.ops
      BY <1>4, <2>1, <2>5 DEF Tame, Steady, CallShape
    <3>3. Swept => call[c].op # "RewrapDEK"
      BY <1>2, <1>4, <2>5 DEF RecordsInv, CallsApart, Swept
    <3>4. PICK e \in deks' : /\ RowOf(e) = RowOf(b) /\ e.mat # NoRow /\ e.mat.plain = b.mat.plain
                             /\ Swept => e.mat.gen = b.mat.gen
      BY <2>2, <3>1, <3>2, <3>3 DEF Grows
    <3> QED BY <3>1, <3>4
  <2>6. ASSUME Steady, r.op \in {"DeleteDEK", "UndeleteDEK"}, r.at = "update"
        PROVE  r.got \subseteq {e.ver : e \in {f \in deks' : f.kek = r.in.kek /\ f.subj = r.in.subj}}
    <3> SUFFICES ASSUME NEW v \in r.got
                 PROVE  \E e \in deks' : e.kek = r.in.kek /\ e.subj = r.in.subj /\ e.ver = v
      OBVIOUS
    <3>1. PICK b \in deks : b.kek = r.in.kek /\ b.subj = r.in.subj /\ b.ver = v
      BY <2>1, <2>6 DEF KeyHeld, Rows
    <3>2. PICK e \in deks' : RowOf(e) = RowOf(b)
      BY <1>4, <2>2, <2>6 DEF Grows, Steady
    <3> QED BY <3>1, <3>2 DEF RowOf
  <2>7. ASSUME Steady, backend = "cassandra", r.op = "CreateDEK", r.at = "insert"
        PROVE  <<r.in.kek, r.in.subj>> \in byKek'
    BY <1>4, <2>1, <2>2, <2>7 DEF KeyHeld, Grows, Steady
  <2>8. KeyHeld(call[d])'
    BY <1>1, <1>2, <2>5, <2>6, <2>7 DEF KeyHeld, Tame, Steady, Swept, Rows, RowOf
  <2> QED BY <1>1, <1>4, <2>4, <2>8 DEF KeyCall
<1> QED BY <1>3, <1>4

\* The invariant, from its parts.
LEMMA Combine ==
  ASSUME RecordsInv, NEW c \in Clients, UNCHANGED <<load, backend>>,
         call' = [d \in Clients |-> call'[d]],
         \A d \in Clients : d # c => call'[d].op = call[d].op /\ call'[d].at = call[d].at,
         \/ call[c].at # "done" /\ call'[c].op \in {call[c].op, "none"}
         \/ /\ call[c].at = "done"
            /\ load.serial => \A d \in Clients : call[d].at = "done"
            /\ "RewrapDEK" \in load.alone /\ call'[c].op = "RewrapDEK" => \A d \in Clients : call[d].op # "RewrapDEK",
         \A d \in Clients : CallOK(d)', KeyTableInv', ExporterTableInv'
  PROVE  RecordsInv'
<1>1. CallsApart
  BY DEF RecordsInv
<1>2. CallsApart'
  <2> SUFFICES ASSUME NEW d \in Clients, NEW e \in Clients, d # e
               PROVE  /\ load.serial => call'[d].at = "done" \/ call'[e].at = "done"
                      /\ "RewrapDEK" \in load.alone /\ call'[d].op = "RewrapDEK" => call'[e].op # "RewrapDEK"
    BY DEF CallsApart
  <2>1. CASE d # c /\ e # c
    BY <1>1, <2>1 DEF CallsApart
  <2>2. CASE d = c
    BY <1>1, <2>2 DEF CallsApart
  <2>3. CASE e = c
    BY <1>1, <2>3 DEF CallsApart
  <2> QED BY <2>1, <2>2, <2>3
<1>3. \A d \in Clients : (CallShape(call[d]) /\ KeyCall(call[d]) /\ ExporterCall(call[d]))'
  BY DEF CallOK
<1> QED BY <1>2, <1>3 DEF RecordsInv

\* The invariant holds after a step of the DEK registry.
LEMMA KeyStepInv ==
  ASSUME RecordsInv, NEW c \in Clients, UNCHANGED <<load, backend>>, UNCHANGED exporterVars,
         KeyStepGood(c)
  PROVE  RecordsInv'
<1>1. Moves(c) /\ CallOK(c)' /\ KeyTableInv'
  BY DEF KeyStepGood, KeyKept
<1>2. call = [d \in Clients |-> call[d]]
  BY InvParts
<1>3. ASSUME NEW d \in Clients, d # c PROVE CallOK(d)' /\ call'[d] = call[d]
  <2>1. call'[d] = call[d] /\ KeyCall(call[d])'
    BY <1>3, OthersKeep
  <2>2. CallShape(call[d]) /\ ExporterCall(call[d])
    BY DEF RecordsInv
  <2>3. exporters' = exporters /\ statuses' = statuses
    BY DEF exporterVars
  <2>4. CallShape(call[d])'
    BY <2>1, <2>2 DEF CallShape
  <2>5. ExporterCall(call[d])'
    BY <2>1, <2>2, <2>3 DEF ExporterCall, ExporterParams, ExporterHeld, ResetSafe, Single, RunningRow
  <2> QED BY <2>1, <2>4, <2>5 DEF CallOK
<1>4. ExporterTableInv'
  BY DEF RecordsInv, ExporterTableInv, exporterVars, Checked, Single
<1>5. \A d \in Clients : CallOK(d)'
  BY <1>1, <1>3
<1>6. call' = [d \in Clients |-> call'[d]]
  BY <1>1, <1>2 DEF Moves
<1>7. \A d \in Clients : d # c => call'[d].op = call[d].op /\ call'[d].at = call[d].at
  BY <1>3
<1>8. \/ call[c].at # "done" /\ call'[c].op \in {call[c].op, "none"}
      \/ /\ call[c].at = "done"
         /\ load.serial => \A d \in Clients : call[d].at = "done"
         /\ "RewrapDEK" \in load.alone /\ call'[c].op = "RewrapDEK" => \A d \in Clients : call[d].op # "RewrapDEK"
  BY <1>1 DEF Moves
<1> QED BY <1>1, <1>4, <1>5, <1>6, <1>7, <1>8, Combine


-----------------------------------------------------------------------------
(* What a step may do to the exporters.                                    *)

ExporterRequests == ConfigOps \cup StatusOps \cup {"DeleteExporter"}

\* In memory, the map keeps pointing to the record that the requests have in hand.
SameRecords ==
  Single => \A n \in Names : exporters'[n] # NoRow => /\ exporters[n] # NoRow
                                                      /\ statuses'[n].obj = statuses[n].obj

\* The steps of ExportersChangeAsAsked.
ExporterAppears ==
  Checked => \A n \in Names : (exporters[n] = NoRow /\ exporters'[n] # NoRow) => StepOf({"CreateExporter"})
ExporterRuns ==
  ResetSafe /\ Checked /\ OneRecord =>
    \A n \in Names : (~RunningRow(n) /\ RunningRow(n)') => StepOf({"ResumeExporter"})
ExportersAsked == ExporterAppears /\ ExporterRuns

ExportersKept == ExporterTableInv' /\ SameRecords /\ ExportersAsked

\* What a step of the exporters preserves.
ExporterStepGood(c) == Moves(c) /\ CallOK(c)' /\ ExportersKept

\* What the assumptions on the constants say.
LEMMA ExporterConstants ==
  IsFiniteSet(Clients) /\ IsFiniteSet(Names) /\ NoRow \notin Configs /\ NoRow \notin Status
BY ExporterAssumption

\* A step that leaves the tables alone.
LEMMA ExportersRest ==
  ASSUME ExporterTableInv, UNCHANGED <<load, backend>>, UNCHANGED exporterVars
  PROVE  ExportersKept
<1>1. exporters' = exporters /\ statuses' = statuses
  BY DEF exporterVars
<1>2. ExporterTableInv'
  BY <1>1 DEF ExporterTableInv, Checked, Single
<1>3. SameRecords
  BY <1>1 DEF SameRecords
<1>4. ExportersAsked
  BY <1>1 DEF ExportersAsked, ExporterAppears, ExporterRuns, RunningRow
<1> QED BY <1>2, <1>3, <1>4 DEF ExportersKept

\* The row of one exporter is written or removed.
LEMMA ExporterWritten ==
  ASSUME ExporterTableInv, UNCHANGED <<load, backend>>,
         NEW n \in Names, NEW g \in Configs \cup {NoRow}, NEW s \in Status \cup {NoRow},
         exporters' = [exporters EXCEPT ![n] = g], statuses' = [statuses EXCEPT ![n] = s],
         Checked /\ s # NoRow => g # NoRow,
         Single /\ g # NoRow => exporters[n] # NoRow /\ s # NoRow /\ s.obj = statuses[n].obj,
         Checked /\ exporters[n] = NoRow /\ g # NoRow => StepOf({"CreateExporter"}),
         ResetSafe /\ Checked /\ OneRecord /\ ~RunningRow(n) /\ g # NoRow /\ s # NoRow /\ s.state = "RUNNING"
           => StepOf({"ResumeExporter"})
  PROVE  ExportersKept
<1>1. /\ exporters \in [Names -> Configs \cup {NoRow}] /\ exporters' \in [Names -> Configs \cup {NoRow}]
      /\ statuses \in [Names -> Status \cup {NoRow}] /\ statuses' \in [Names -> Status \cup {NoRow}]
      /\ exporters'[n] = g /\ statuses'[n] = s
      /\ \A m \in Names : m # n => exporters'[m] = exporters[m] /\ statuses'[m] = statuses[m]
  BY DEF ExporterTableInv
<1>2. ExporterTableInv'
  BY <1>1 DEF ExporterTableInv, Checked, Single
<1>3. SameRecords
  BY <1>1 DEF SameRecords
<1>4. ExporterAppears
  BY <1>1 DEF ExporterAppears
<1>5. ExporterRuns
  <2> SUFFICES ASSUME ResetSafe, Checked, OneRecord, NEW m \in Names, ~RunningRow(m), RunningRow(m)'
               PROVE  StepOf({"ResumeExporter"})
    BY DEF ExporterRuns
  <2>1. CASE m = n
    BY <1>1, <2>1 DEF RunningRow
  <2>2. CASE m # n
    BY <1>1, <2>2 DEF RunningRow
  <2> QED BY <2>1, <2>2
<1> QED BY <1>2, <1>3, <1>4, <1>5 DEF ExportersKept, ExportersAsked

\* The parts of the invariant that the exporters need.
LEMMA ExporterParts ==
  ASSUME RecordsInv
  PROVE  /\ backend \in Backends /\ load.serial \in BOOLEAN /\ ExporterTableInv
         /\ exporters \in [Names -> Configs \cup {NoRow}] /\ statuses \in [Names -> Status \cup {NoRow}]
         /\ \A c \in Clients : CallShape(call[c]) /\ ExporterParams(call[c]) /\ ExporterHeld(call[c])
BY HasBackend DEF RecordsInv, ExporterTableInv, ExporterCall

\* A request for the exporters begins.
LEMMA ExporterBegins ==
  ASSUME RecordsInv, NEW c \in Clients, UNCHANGED <<load, backend>>, UNCHANGED exporterVars,
         NEW op \in ExporterRequests, NEW at \in {"store", "exists"}, NEW in, Begin(c, op, at, in),
         ExporterParams([op |-> op, at |-> at, in |-> in, got |-> NoRow, status |-> 0])
  PROVE  ExporterStepGood(c)
<1>1. call = [d \in Clients |-> call[d]]
  BY InvParts
<1>2. PICK r : r = [op |-> op, at |-> at, in |-> in, got |-> NoRow, status |-> 0]
  OBVIOUS
<1>3. /\ r.op = op /\ r.at = at /\ r.in = in /\ r.got = NoRow /\ r.status = 0
      /\ r = [op |-> r.op, at |-> r.at, in |-> r.in, got |-> r.got, status |-> r.status]
  BY <1>2
<1>4. call' = [call EXCEPT ![c] = r] /\ call'[c] = r
  BY <1>1, <1>2 DEF Begin
<1>5. op \in Ops /\ op # "RewrapDEK" /\ op \notin KeyRequests
  BY DEF ExporterRequests, Ops, KeyRequests, ConfigOps, StatusOps
<1>6. KeyCall(call[c])'
  BY <1>3, <1>4, <1>5 DEF KeyCall, KeyParams, KeyHeld, KeyAlone, KeyRequests
<1>7. CallShape(call[c])'
  BY <1>3, <1>4, <1>5 DEF CallShape, Begin, InHand, Codes
<1>8. ExporterCall(call[c])'
  <2>1. ExporterParams(r)
    BY <1>2
  <2> QED BY <1>3, <1>4, <2>1 DEF ExporterCall, ExporterParams, ExporterHeld, InHand
<1>9. Moves(c)
  BY <1>3, <1>4, <1>5 DEF Moves, Begin
<1> QED BY <1>6, <1>7, <1>8, <1>9, ExporterParts, ExportersRest DEF ExporterStepGood, CallOK

\* A request for the exporters goes on.
LEMMA ExporterGoes ==
  ASSUME RecordsInv, NEW c \in Clients, UNCHANGED <<load, backend>>, call[c].op \in ExporterRequests,
         NEW at, NEW got, Goto(c, at, got), at # "done", at # call[c].at,
         at \in InHand => call[c].op \in StatusOps \cup {"CreateExporter"}, ExporterCall(call[c])'
  PROVE  Moves(c) /\ CallOK(c)' /\ StepOf({call[c].op})
<1>1. CallShape(call[c])
  BY InvParts
<1>2. call[c].at # "done" /\ call[c].op \in load.ops \cap Ops /\ call[c].op \notin KeyRequests
  BY <1>1 DEF CallShape, ExporterRequests, ConfigOps, StatusOps, KeyRequests
<1>3. CallShape(call[c])'
  BY <1>1, <1>2, GotoFields DEF CallShape
<1>4. KeyCall(call[c])'
  BY <1>2, GotoKeeps DEF KeyCall, KeyParams, KeyHeld, KeyAlone, KeyRequests
<1>5. Moves(c)
  BY <1>2, GotoFields DEF Moves
<1>6. StepOf({call[c].op})
  BY GotoKeeps DEF StepOf
<1> QED BY <1>3, <1>4, <1>5, <1>6 DEF CallOK

\* A request that goes on or returns without a write.
LEMMA ExporterReturns ==
  ASSUME RecordsInv, NEW c \in Clients, UNCHANGED <<load, backend>>, UNCHANGED exporterVars,
         call[c].at # "done", NEW err, Return(c, err)
  PROVE  ExporterStepGood(c)
BY ExporterParts, ReturnGood, ExportersRest DEF ExporterStepGood

\* A new status record is a record.
LEMMA NewStatusType ==
  ASSUME RecordsInv, NEW state \in States
  PROVE  NewStatus(state) \in Status /\ NewStatus(state).state = state
<1> DEFINE A == {m \in Names : statuses[m] # NoRow}
           C == {d \in Clients : call[d].at \in {"set", "write"}}
<1>1. IsFiniteSet(A) /\ IsFiniteSet(C)
  BY ExporterConstants, FS_Subset
<1>2. IsFiniteSet({statuses[n].obj : n \in A})
  <2> HIDE DEF A
  <2> DEFINE f == [n \in A |-> statuses[n].obj]
  <2>1. IsFiniteSet({f[n] : n \in A})
    <3> HIDE DEF f
    <3>1. f = [n \in A |-> f[n]]
      BY DEF f
    <3> QED BY <1>1, <3>1, ImageFinite
  <2> QED BY <2>1
<1>3. IsFiniteSet({call[c].got.obj : c \in C})
  <2> HIDE DEF C
  <2> DEFINE f == [c \in C |-> call[c].got.obj]
  <2>1. IsFiniteSet({f[c] : c \in C})
    <3> HIDE DEF f
    <3>1. f = [c \in C |-> f[c]]
      BY DEF f
    <3> QED BY <1>1, <3>1, ImageFinite
  <2> QED BY <2>1
<1>4. IsFiniteSet(Objects)
  <2>1. Objects = {statuses[n].obj : n \in A} \cup {call[c].got.obj : c \in C}
    BY DEF Objects
  <2> HIDE DEF A, C
  <2> QED BY <1>2, <1>3, <2>1, FS_Union
<1>5. Min((1..(Cardinality(Objects) + 1)) \ Objects) \in Nat
  BY <1>4, FreeNumber
<1>6. PICK o : o = IF backend = "memory" THEN Min((1..(Cardinality(Objects) + 1)) \ Objects) ELSE 0
  OBVIOUS
<1>7. o \in Nat /\ NewStatus(state) = [state |-> state, obj |-> o]
  BY <1>5, <1>6 DEF NewStatus
<1> QED BY <1>7 DEF Status


-----------------------------------------------------------------------------
(* The steps of the exporters.                                             *)

\* The handlers start requests for exporters.
LEMMA ExporterHandlers ==
  ASSUME RecordsInv, NEW c \in Clients, UNCHANGED <<load, backend>>,
         \/ HandleCreateExporter(c) \/ HandleUpdateExporter(c) \/ HandleDeleteExporter(c)
         \/ HandleUpdateExporterConfig(c) \/ HandlePauseExporter(c) \/ HandleResumeExporter(c)
         \/ HandleResetExporter(c)
  PROVE  ExporterStepGood(c)
<1>1. ASSUME NEW op \in ConfigOps, NEW n \in Names, NEW g \in Configs, UNCHANGED exporterVars,
             Begin(c, op, "store", [name |-> n, config |-> g])
      PROVE  ExporterStepGood(c)
  <2>1. PICK in : in = [name |-> n, config |-> g]
    OBVIOUS
  <2>2. op \notin StatusOps \cup {"DeleteExporter"} /\ op \in ExporterRequests
    BY DEF ConfigOps, StatusOps, ExporterRequests
  <2>3. ExporterParams([op |-> op, at |-> "store", in |-> in, got |-> NoRow, status |-> 0])
    BY <2>1, <2>2 DEF ExporterParams, InHand
  <2> QED BY <1>1, <2>1, <2>2, <2>3, ExporterBegins
<1>2. ASSUME NEW op \in StatusOps \cup {"DeleteExporter"}, NEW n \in Names, NEW at \in {"store", "exists"},
             UNCHANGED exporterVars, Begin(c, op, at, [name |-> n])
      PROVE  ExporterStepGood(c)
  <2>1. PICK in : in = [name |-> n]
    OBVIOUS
  <2>2. op \notin ConfigOps /\ op \in ExporterRequests
    BY DEF ConfigOps, StatusOps, ExporterRequests
  <2>3. ExporterParams([op |-> op, at |-> at, in |-> in, got |-> NoRow, status |-> 0])
    BY <2>1, <2>2 DEF ExporterParams, InHand
  <2> QED BY <1>2, <2>1, <2>2, <2>3, ExporterBegins
<1>3. CASE HandleCreateExporter(c)
  BY <1>1, <1>3 DEF HandleCreateExporter, ConfigOps
<1>4. CASE HandleUpdateExporter(c)
  BY <1>1, <1>4 DEF HandleUpdateExporter, ConfigOps
<1>5. CASE HandleUpdateExporterConfig(c)
  BY <1>1, <1>5 DEF HandleUpdateExporterConfig, ConfigOps
<1>6. CASE HandleDeleteExporter(c)
  BY <1>2, <1>6 DEF HandleDeleteExporter
<1>7. CASE HandlePauseExporter(c)
  BY <1>2, <1>7 DEF HandlePauseExporter, StatusOps
<1>8. CASE HandleResumeExporter(c)
  BY <1>2, <1>8 DEF HandleResumeExporter, StatusOps
<1>9. CASE HandleResetExporter(c)
  BY <1>2, <1>9 DEF HandleResetExporter, StatusOps
<1> QED BY <1>3, <1>4, <1>5, <1>6, <1>7, <1>8, <1>9

\* The record is updated or deleted in one statement, or was not there.
LEMMA ChangeExporterGood ==
  ASSUME RecordsInv, NEW c \in Clients, UNCHANGED <<load, backend>>, call[c].at # "done",
         NEW n \in Names, n = call[c].in.name, NEW g, NEW s, IfExporter(c, g, s),
         exporters[n] # NoRow =>
           /\ g \in Configs \cup {NoRow} /\ s \in Status \cup {NoRow}
           /\ g = NoRow => s = NoRow
           /\ Single /\ g # NoRow => s # NoRow /\ s.obj = statuses[n].obj
           /\ (ResetSafe /\ Checked /\ OneRecord /\ ~RunningRow(n) /\ s # NoRow /\ s.state = "RUNNING")
                => call[c].op = "ResumeExporter"
  PROVE  ExporterStepGood(c)
<1>1. CASE exporters[n] = NoRow
  <2>1. Return(c, "notFound") /\ UNCHANGED exporterVars
    BY <1>1 DEF IfExporter
  <2> QED BY <2>1, ExporterReturns
<1>2. CASE exporters[n] # NoRow
  <2>1. /\ exporters' = [exporters EXCEPT ![n] = g] /\ statuses' = [statuses EXCEPT ![n] = s]
        /\ Return(c, "nil")
    BY <1>2 DEF IfExporter
  <2>2. StepOf({call[c].op}) /\ Moves(c) /\ CallOK(c)'
    BY <2>1, ReturnSteps
  <2>3. ExporterTableInv
    BY ExporterParts
  <2>4. ExportersKept
    BY <1>2, <2>1, <2>2, <2>3, ExporterWritten
  <2> QED BY <2>2, <2>4 DEF ExporterStepGood
<1> QED BY <1>1, <1>2

\* The record is updated.
LEMMA UpdateExporterGood ==
  ASSUME RecordsInv, NEW c \in Clients, UNCHANGED <<load, backend>>, call[c].at = "store",
         call[c].op \in {"UpdateExporter", "UpdateExporterConfig"},
         IfExporter(c, call[c].in.config, statuses[call[c].in.name])
  PROVE  ExporterStepGood(c)
<1>1. ExporterParams(call[c]) /\ ExporterTableInv
  BY ExporterParts
<1>2. call[c].in \in [name : Names, config : Configs]
  BY <1>1 DEF ExporterParams, ConfigOps
<1>3. PICK n \in Names, g \in Configs : n = call[c].in.name /\ g = call[c].in.config
  BY <1>2
<1>4. PICK s \in Status \cup {NoRow} : s = statuses[n]
  BY ExporterParts
<1>5. g # NoRow
  BY ExporterConstants
<1>6. IfExporter(c, g, s)
  BY <1>3, <1>4
<1>7. exporters[n] # NoRow /\ Single => s # NoRow
  BY <1>1, <1>4 DEF ExporterTableInv
<1>8. exporters[n] # NoRow /\ s # NoRow /\ s.state = "RUNNING" => RunningRow(n)
  BY <1>4 DEF RunningRow
<1> QED BY <1>3, <1>4, <1>5, <1>6, <1>7, <1>8, ChangeExporterGood

\* The record is deleted.
LEMMA DeleteExporterGood ==
  ASSUME RecordsInv, NEW c \in Clients, UNCHANGED <<load, backend>>, At(c, "DeleteExporter", "store"),
         IfExporter(c, NoRow, NoRow)
  PROVE  ExporterStepGood(c)
<1>1. ExporterParams(call[c])
  BY ExporterParts
<1>2. PICK n \in Names : n = call[c].in.name
  BY <1>1 DEF ExporterParams, At
<1> QED BY <1>2, ChangeExporterGood DEF At

\* A new record is in hand: nothing is known of it but that it is paused.
LEMMA NewInHand ==
  ASSUME RecordsInv, NEW c \in Clients, UNCHANGED <<load, backend>>, call[c].op = "CreateExporter",
         Goto(c, "set", NewStatus("PAUSED")), exporters'[call[c].in.name] # NoRow
  PROVE  ExporterCall(call[c])'
<1>1. ExporterParams(call[c])
  BY ExporterParts
<1>2. PICK s \in Status : s = NewStatus("PAUSED") /\ s.state = "PAUSED"
  BY NewStatusType DEF States
<1>3. call'[c].op = "CreateExporter" /\ call'[c].at = "set" /\ call'[c].in = call[c].in /\ call'[c].got = s
  BY <1>2, GotoKeeps
<1>4. ExporterParams(call[c])'
  BY <1>1, <1>3 DEF ExporterParams, ConfigOps, StatusOps
<1>5. ExporterHeld(call[c])'
  BY <1>2, <1>3 DEF ExporterHeld, StatusOps
<1> QED BY <1>4, <1>5 DEF ExporterCall

\* The record is inserted.
LEMMA InsertExporterGood ==
  ASSUME RecordsInv, NEW c \in Clients, UNCHANGED <<load, backend>>, At(c, "CreateExporter", "store"),
         InsertExporter(c)
  PROVE  ExporterStepGood(c)
<1>1. ExporterParams(call[c]) /\ ExporterTableInv /\ CallShape(call[c])
  BY ExporterParts
<1>2. call[c].in \in [name : Names, config : Configs]
  BY <1>1 DEF ExporterParams, ConfigOps, At
<1>3. PICK n \in Names, g \in Configs : n = call[c].in.name /\ g = call[c].in.config
  BY <1>2
<1>4. CASE exporters[n] # NoRow
  <2>1. Return(c, "exists") /\ UNCHANGED exporterVars
    BY <1>3, <1>4 DEF InsertExporter
  <2> QED BY <2>1, ExporterReturns DEF At
<1>5. CASE exporters[n] = NoRow
  <2>1. /\ exporters' = [exporters EXCEPT ![n] = g] /\ statuses' = statuses
        /\ Goto(c, "set", NewStatus("PAUSED"))
    BY <1>3, <1>5 DEF InsertExporter
  <2>2. g # NoRow /\ exporters'[n] = g
    BY <2>1, ExporterConstants, ExporterParts
  <2>3. ExporterCall(call[c])'
    BY <1>3, <2>1, <2>2, NewInHand DEF At
  <2>4. Moves(c) /\ CallOK(c)' /\ StepOf({"CreateExporter"})
    BY <2>1, <2>3, ExporterGoes DEF At, ExporterRequests, ConfigOps
  <2>5. PICK s \in Status \cup {NoRow} : s = statuses[n]
    BY ExporterParts
  <2>6. statuses' = [statuses EXCEPT ![n] = s]
    BY <2>1, <2>5, ExporterParts
  <2>7. Checked => s = NoRow
    BY <1>1, <1>5, <2>5 DEF ExporterTableInv
  <2>8. ~Single
    BY <1>1 DEF Single, CallShape, At
  <2>9. ExportersKept
    BY <1>1, <2>1, <2>4, <2>6, <2>7, <2>8, ExporterWritten
  <2> QED BY <2>4, <2>9 DEF ExporterStepGood
<1> QED BY <1>4, <1>5


\* The status in hand is stored, if the exporter is there or the store does not ask.
LEMMA StoreStatusGood ==
  ASSUME RecordsInv, NEW c \in Clients, UNCHANGED <<load, backend>>, call[c].at \in InHand,
         NEW n \in Names, n = call[c].in.name, Checked => exporters[n] # NoRow,
         backend # "memory" \/ load.serial,
         exporters' = exporters, statuses' = [statuses EXCEPT ![n] = call[c].got], Return(c, "nil")
  PROVE  ExporterStepGood(c)
<1>1. /\ ExporterTableInv /\ CallShape(call[c]) /\ ExporterParams(call[c]) /\ ExporterHeld(call[c])
      /\ exporters \in [Names -> Configs \cup {NoRow}]
  BY ExporterParts
<1>2. call[c].op \in StatusOps \cup {"CreateExporter"} /\ call[c].at # "done"
  BY <1>1 DEF CallShape, InHand
<1>3. PICK s \in Status : s = call[c].got
  BY <1>1, <1>2 DEF ExporterParams, StatusOps, ConfigOps
<1>4. PICK g \in Configs \cup {NoRow} : g = exporters[n]
  BY <1>1
<1>5. exporters' = [exporters EXCEPT ![n] = g] /\ statuses' = [statuses EXCEPT ![n] = s]
  BY <1>1, <1>3, <1>4
<1>6. StepOf({call[c].op}) /\ Moves(c) /\ CallOK(c)'
  BY <1>2, ReturnSteps
<1>7. ~Single
  BY DEF Single
<1>8. ASSUME ResetSafe, Checked, ~RunningRow(n), s.state = "RUNNING" PROVE call[c].op = "ResumeExporter"
  <2>1. call[c].op \notin {"CreateExporter", "PauseExporter"}
    BY <1>1, <1>3, <1>8 DEF ExporterHeld
  <2>2. call[c].op # "ResetExporter"
    <3>1. CASE load.serial
      BY <1>1, <1>3, <1>8, <3>1 DEF ExporterHeld
    <3>2. CASE ~load.serial
      BY <1>1, <1>8, <3>2 DEF ResetSafe, CallShape, InHand
    <3> QED BY <3>1, <3>2
  <2> QED BY <1>2, <2>1, <2>2 DEF StatusOps
<1>9. ExportersKept
  BY <1>1, <1>4, <1>5, <1>6, <1>7, <1>8, ExporterWritten
<1> QED BY <1>6, <1>9 DEF ExporterStepGood

\* In memory the map points to the record in hand from now on.
LEMMA MemSetGood ==
  ASSUME RecordsInv, NEW c \in Clients, UNCHANGED <<load, backend>>, backend = "memory",
         MemSetExporterStatus(c)
  PROVE  ExporterStepGood(c)
<1>1. /\ ExporterTableInv /\ CallShape(call[c]) /\ ExporterParams(call[c]) /\ ExporterHeld(call[c])
      /\ exporters \in [Names -> Configs \cup {NoRow}] /\ statuses \in [Names -> Status \cup {NoRow}]
      /\ load.serial \in BOOLEAN
  BY ExporterParts
<1>2. call[c].at = "set" /\ call[c].op \in StatusOps \cup {"CreateExporter"} /\ call[c].at \in InHand
  BY <1>1 DEF MemSetExporterStatus, CallShape, InHand
<1>3. PICK h \in Status : h = call[c].got
  BY <1>1, <1>2 DEF ExporterParams, StatusOps, ConfigOps
<1>4. PICK n \in Names : n = call[c].in.name
  BY <1>1, <1>2 DEF ExporterParams, StatusOps, ConfigOps
<1>5. PICK s : s = IF statuses[n] # NoRow /\ statuses[n].obj = h.obj THEN statuses[n] ELSE h
  OBVIOUS
<1>6. PICK g \in Configs \cup {NoRow} : g = exporters[n]
  BY <1>1
<1>7. IfExporter(c, g, s)
  BY <1>3, <1>4, <1>5, <1>6 DEF MemSetExporterStatus
<1>8. s \in Status \cup {NoRow}
  BY <1>1, <1>5
<1>9. ASSUME Single, exporters[n] # NoRow PROVE s # NoRow /\ s = statuses[n]
  <2>1. call[c].op # "CreateExporter"
    BY <1>1, <1>2, <1>9 DEF Single, CallShape
  <2>2. statuses[n] # NoRow
    BY <1>1, <1>9 DEF ExporterTableInv
  <2>3. h.obj = statuses[n].obj
    BY <1>1, <1>2, <1>3, <1>4, <1>9, <2>1 DEF ExporterHeld
  <2> QED BY <1>5, <2>2, <2>3
<1>10. ASSUME exporters[n] # NoRow, ResetSafe, OneRecord, ~RunningRow(n), s # NoRow, s.state = "RUNNING"
       PROVE  call[c].op = "ResumeExporter"
  <2>1. s # statuses[n]
    BY <1>10 DEF RunningRow
  <2>2. s = h
    BY <1>5, <2>1
  <2>3. load.serial
    BY <1>1, <1>9, <1>10, <2>1 DEF OneRecord, Single
  <2>4. call[c].op \notin {"CreateExporter", "PauseExporter"}
    BY <1>1, <1>2, <1>3, <1>10, <2>2, <2>3 DEF ExporterHeld
  <2>5. call[c].op # "ResetExporter"
    BY <1>1, <1>2, <1>3, <1>4, <1>10, <2>2, <2>3 DEF ExporterHeld
  <2> QED BY <1>2, <2>4, <2>5 DEF StatusOps
<1>11. exporters[n] # NoRow => g # NoRow
  BY <1>6
<1> QED BY <1>2, <1>4, <1>6, <1>7, <1>8, <1>9, <1>10, <1>11, ChangeExporterGood

\* The databases ask whether the exporter is there, then write.
LEMMA SetAsksGood ==
  ASSUME RecordsInv, NEW c \in Clients, UNCHANGED <<load, backend>>, backend # "memory",
         call[c].at = "set", UNCHANGED exporterVars,
         IF exporters[call[c].in.name] = NoRow THEN Return(c, "notFound") ELSE Goto(c, "write", call[c].got)
  PROVE  ExporterStepGood(c)
<1>1. /\ ExporterTableInv /\ CallShape(call[c]) /\ ExporterParams(call[c]) /\ ExporterHeld(call[c])
  BY ExporterParts
<1>2. /\ call[c].op \in StatusOps \cup {"CreateExporter"} /\ call[c].op \in ExporterRequests
      /\ call[c].at \in InHand
  BY <1>1 DEF CallShape, InHand, ExporterRequests, ConfigOps
<1>3. CASE Return(c, "notFound")
  BY <1>3, ExporterReturns
<1>4. CASE Goto(c, "write", call[c].got)
  <2>1. /\ call'[c].op = call[c].op /\ call'[c].at = "write" /\ call'[c].in = call[c].in
        /\ call'[c].got = call[c].got
    BY <1>4, GotoKeeps
  <2>2. exporters' = exporters /\ statuses' = statuses
    BY DEF exporterVars
  <2>3. ExporterCall(call[c])'
    <3>1. ExporterParams(call[c])'
      BY <1>1, <1>2, <2>1 DEF ExporterParams, InHand
    <3>2. ExporterHeld(call[c])'
      BY <1>1, <1>2, <2>1, <2>2 DEF ExporterHeld, InHand, ResetSafe, RunningRow
    <3> QED BY <3>1, <3>2 DEF ExporterCall
  <2>4. Moves(c) /\ CallOK(c)'
    BY <1>2, <1>4, <2>3, ExporterGoes
  <2> QED BY <1>1, <2>4, ExportersRest DEF ExporterStepGood
<1> QED BY <1>3, <1>4

\* The steps of the memory backend on exporters.
LEMMA MemExporterGood ==
  ASSUME RecordsInv, NEW c \in Clients, UNCHANGED <<load, backend>>, backend = "memory", MemExporterStep(c)
  PROVE  ExporterStepGood(c)
<1>1. CASE MemCreateExporter(c)
  BY <1>1, InsertExporterGood DEF MemCreateExporter
<1>2. CASE MemUpdateExporter(c)
  BY <1>2, UpdateExporterGood DEF MemUpdateExporter, At
<1>3. CASE MemUpdateExporterConfig(c)
  BY <1>3, UpdateExporterGood DEF MemUpdateExporterConfig, At
<1>4. CASE MemDeleteExporter(c)
  BY <1>4, DeleteExporterGood DEF MemDeleteExporter
<1>5. CASE MemSetExporterStatus(c)
  BY <1>5, MemSetGood
<1> QED BY <1>1, <1>2, <1>3, <1>4, <1>5 DEF MemExporterStep

\* The SQL backends set a status: a read of the exporter, then the upsert.
LEMMA PgSetGood ==
  ASSUME RecordsInv, NEW c \in Clients, UNCHANGED <<load, backend>>, backend # "memory",
         PgSetExporterStatus(c)
  PROVE  ExporterStepGood(c)
<1>1. CASE call[c].at = "set"
  BY <1>1, SetAsksGood DEF PgSetExporterStatus
<1>2. CASE call[c].at = "write"
  <2>1. CallShape(call[c]) /\ ExporterParams(call[c])
    BY ExporterParts
  <2>2. call[c].at \in InHand
    BY <1>2 DEF InHand
  <2>3. PICK n \in Names : n = call[c].in.name
    BY <2>1, <2>2 DEF CallShape, ExporterParams, StatusOps, ConfigOps
  <2>4. CASE exporters[n] = NoRow
    <3>1. Return(c, "foreignKey") /\ UNCHANGED exporterVars
      BY <1>2, <2>3, <2>4 DEF PgSetExporterStatus
    <3> QED BY <1>2, <3>1, ExporterReturns
  <2>5. CASE exporters[n] # NoRow
    <3>1. statuses' = [statuses EXCEPT ![n] = call[c].got] /\ Return(c, "nil") /\ exporters' = exporters
      BY <1>2, <2>3, <2>5 DEF PgSetExporterStatus
    <3> QED BY <2>2, <2>3, <2>5, <3>1, StoreStatusGood
  <2> QED BY <2>4, <2>5
<1> QED BY <1>1, <1>2 DEF PgSetExporterStatus

\* The steps of PostgreSQL on exporters.
LEMMA PgExporterGood ==
  ASSUME RecordsInv, NEW c \in Clients, UNCHANGED <<load, backend>>, backend # "memory", PgExporterStep(c)
  PROVE  ExporterStepGood(c)
<1>1. CASE PgCreateExporter(c)
  BY <1>1, InsertExporterGood DEF PgCreateExporter
<1>2. CASE PgUpdateExporter(c)
  BY <1>2, UpdateExporterGood DEF PgUpdateExporter, At
<1>3. CASE PgUpdateExporterConfig(c)
  BY <1>3, UpdateExporterGood DEF PgUpdateExporterConfig, At
<1>4. CASE PgDeleteExporter(c)
  BY <1>4, DeleteExporterGood DEF PgDeleteExporter
<1>5. CASE PgSetExporterStatus(c)
  BY <1>5, PgSetGood
<1> QED BY <1>1, <1>2, <1>3, <1>4, <1>5 DEF PgExporterStep

\* The steps of MySQL on exporters.
LEMMA MyExporterGood ==
  ASSUME RecordsInv, NEW c \in Clients, UNCHANGED <<load, backend>>, backend # "memory", MyExporterStep(c)
  PROVE  ExporterStepGood(c)
<1>1. PgExporterStep(c)
  BY DEF MyExporterStep, MyCreateExporter, MyUpdateExporter, MyDeleteExporter, MyUpdateExporterConfig,
         MySetExporterStatus, PgExporterStep, PgDeleteExporter
<1> QED BY <1>1, PgExporterGood


\* Cassandra reads whether the record is there.
LEMMA CasExistsGood ==
  ASSUME RecordsInv, NEW c \in Clients, UNCHANGED <<load, backend>>, NEW op \in ExporterRequests,
         NEW found \in BOOLEAN, op \in {"UpdateExporter", "UpdateExporterConfig"} => found, NEW err,
         CasExists(c, op, found, err)
  PROVE  ExporterStepGood(c)
<1>1. /\ ExporterTableInv /\ ExporterParams(call[c]) /\ call[c].op = op /\ call[c].at = "store"
      /\ UNCHANGED exporterVars
  BY ExporterParts DEF CasExists, At
<1>2. CASE Return(c, err)
  BY <1>1, <1>2, ExporterReturns
<1>3. CASE (exporters[call[c].in.name] # NoRow) = found /\ Goto(c, "put", NoRow)
  <2>1. call'[c].op = call[c].op /\ call'[c].at = "put" /\ call'[c].in = call[c].in
    BY <1>3, GotoKeeps
  <2>2. exporters' = exporters /\ statuses' = statuses
    BY <1>1 DEF exporterVars
  <2>3. ExporterCall(call[c])'
    <3>1. ExporterParams(call[c])'
      BY <1>1, <2>1 DEF ExporterParams, InHand
    <3>2. ExporterHeld(call[c])'
      BY <1>1, <1>3, <2>1, <2>2 DEF ExporterHeld, InHand
    <3> QED BY <3>1, <3>2 DEF ExporterCall
  <2>4. Moves(c) /\ CallOK(c)'
    BY <1>1, <1>3, <2>3, ExporterGoes DEF InHand
  <2> QED BY <1>1, <2>4, ExportersRest DEF ExporterStepGood
<1> QED BY <1>2, <1>3 DEF CasExists

\* Cassandra writes the record.
LEMMA CasPutKept ==
  ASSUME RecordsInv, NEW c \in Clients, UNCHANGED <<load, backend>>, backend = "cassandra",
         NEW op \in ConfigOps, CasPut(c, op), StepOf({op})
  PROVE  ExportersKept
<1>1. /\ ExporterTableInv /\ ExporterParams(call[c]) /\ ExporterHeld(call[c]) /\ call[c].op = op
      /\ call[c].at = "put" /\ statuses \in [Names -> Status \cup {NoRow}]
  BY ExporterParts DEF CasPut, At
<1>2. call[c].in \in [name : Names, config : Configs]
  BY <1>1 DEF ExporterParams
<1>3. PICK n \in Names, g \in Configs : n = call[c].in.name /\ g = call[c].in.config
  BY <1>2
<1>4. PICK s \in Status \cup {NoRow} : s = statuses[n]
  BY <1>1
<1>5. exporters' = [exporters EXCEPT ![n] = g] /\ statuses' = [statuses EXCEPT ![n] = s] /\ g # NoRow
  BY <1>1, <1>3, <1>4, ExporterConstants DEF CasPut
<1>6. ~Single
  BY DEF Single
<1>7. Checked /\ exporters[n] = NoRow => StepOf({"CreateExporter"})
  BY <1>1, <1>3 DEF Checked, ExporterHeld, ConfigOps
<1>8. Checked /\ s # NoRow /\ s.state = "RUNNING" => RunningRow(n)
  BY <1>1, <1>4 DEF ExporterTableInv, RunningRow
<1> QED BY <1>1, <1>5, <1>6, <1>7, <1>8, ExporterWritten

\* Cassandra's write of an update returns.
LEMMA CasPutGood ==
  ASSUME RecordsInv, NEW c \in Clients, UNCHANGED <<load, backend>>, backend = "cassandra",
         NEW op \in ConfigOps, CasPut(c, op), Return(c, "nil")
  PROVE  ExporterStepGood(c)
<1>1. call[c].op = op /\ call[c].at # "done"
  BY DEF CasPut, At
<1>2. StepOf({op}) /\ Moves(c) /\ CallOK(c)'
  BY <1>1, ReturnSteps
<1> QED BY <1>2, CasPutKept DEF ExporterStepGood

\* The steps of the Cassandra backend.
LEMMA CasExporterGood ==
  ASSUME RecordsInv, NEW c \in Clients, UNCHANGED <<load, backend>>, backend = "cassandra",
         CasExporterStep(c)
  PROVE  ExporterStepGood(c)
<1>1. CASE CasCreateExporter(c)
  <2>1. CASE CasExists(c, "CreateExporter", FALSE, "exists")
    BY <2>1, CasExistsGood DEF ExporterRequests, ConfigOps
  <2>2. CASE CasPut(c, "CreateExporter") /\ Goto(c, "set", NewStatus("PAUSED"))
    <3>1. /\ call[c].op = "CreateExporter" /\ call[c].at = "put"
          /\ exporters' = [exporters EXCEPT ![call[c].in.name] = call[c].in.config]
      BY <2>2 DEF CasPut, At
    <3>2. ExporterParams(call[c]) /\ exporters \in [Names -> Configs \cup {NoRow}]
      BY ExporterParts
    <3>3. call[c].in \in [name : Names, config : Configs]
      BY <3>1, <3>2 DEF ExporterParams, ConfigOps
    <3>4. exporters'[call[c].in.name] # NoRow
      BY <3>1, <3>2, <3>3, ExporterConstants
    <3>5. ExporterCall(call[c])'
      BY <2>2, <3>1, <3>4, NewInHand
    <3>6. Moves(c) /\ CallOK(c)' /\ StepOf({"CreateExporter"})
      BY <2>2, <3>1, <3>5, ExporterGoes DEF ExporterRequests, ConfigOps
    <3>7. ExportersKept
      BY <2>2, <3>6, CasPutKept DEF ConfigOps
    <3> QED BY <3>6, <3>7 DEF ExporterStepGood
  <2> QED BY <1>1, <2>1, <2>2 DEF CasCreateExporter
<1>2. CASE CasUpdateExporter(c)
  <2>1. CASE CasExists(c, "UpdateExporter", TRUE, "notFound")
    BY <2>1, CasExistsGood DEF ExporterRequests, ConfigOps
  <2>2. CASE CasPut(c, "UpdateExporter") /\ Return(c, "nil")
    BY <2>2, CasPutGood DEF ConfigOps
  <2> QED BY <1>2, <2>1, <2>2 DEF CasUpdateExporter
<1>3. CASE CasUpdateExporterConfig(c)
  <2>1. CASE CasExists(c, "UpdateExporterConfig", TRUE, "notFound")
    BY <2>1, CasExistsGood DEF ExporterRequests, ConfigOps
  <2>2. CASE CasPut(c, "UpdateExporterConfig") /\ Return(c, "nil")
    BY <2>2, CasPutGood DEF ConfigOps
  <2> QED BY <1>3, <2>1, <2>2 DEF CasUpdateExporterConfig
<1>4. CASE CasDeleteExporter(c)
  <2>1. CASE CasExists(c, "DeleteExporter", TRUE, "notFound")
    BY <2>1, CasExistsGood DEF ExporterRequests
  <2>2. CASE At(c, "DeleteExporter", "put")
    <3>1. ExporterParams(call[c]) /\ ExporterTableInv
      BY ExporterParts
    <3>2. PICK n \in Names : n = call[c].in.name
      BY <2>2, <3>1 DEF ExporterParams, At
    <3>3. /\ exporters' = [exporters EXCEPT ![n] = NoRow] /\ statuses' = [statuses EXCEPT ![n] = NoRow]
          /\ Return(c, "nil")
      BY <1>4, <2>2, <3>2 DEF CasDeleteExporter, CasExists, At
    <3>4. Moves(c) /\ CallOK(c)'
      BY <2>2, <3>3, ReturnSteps DEF At
    <3>5. ExportersKept
      BY <3>1, <3>3, ExporterWritten
    <3> QED BY <3>4, <3>5 DEF ExporterStepGood
  <2> QED BY <1>4, <2>1, <2>2 DEF CasDeleteExporter
<1>5. CASE CasSetExporterStatus(c)
  <2>1. CASE call[c].at = "set"
    BY <1>5, <2>1, SetAsksGood DEF CasSetExporterStatus
  <2>2. CASE call[c].at = "write"
    <3>1. CallShape(call[c]) /\ ExporterParams(call[c]) /\ ExporterHeld(call[c])
      BY ExporterParts
    <3>2. call[c].at \in InHand
      BY <2>2 DEF InHand
    <3>3. PICK n \in Names : n = call[c].in.name
      BY <3>1, <3>2 DEF CallShape, ExporterParams, StatusOps, ConfigOps
    <3>4. statuses' = [statuses EXCEPT ![n] = call[c].got] /\ Return(c, "nil") /\ exporters' = exporters
      BY <1>5, <2>2, <3>3 DEF CasSetExporterStatus
    <3>5. Checked => exporters[n] # NoRow
      BY <3>1, <3>2, <3>3 DEF Checked, ExporterHeld, CallShape
    <3> QED BY <3>2, <3>3, <3>4, <3>5, StoreStatusGood
  <2> QED BY <1>5, <2>1, <2>2 DEF CasSetExporterStatus
<1> QED BY <1>1, <1>2, <1>3, <1>4, <1>5 DEF CasExporterStep

\* The record is looked for before its status is changed.
LEMMA StatusAsksGood ==
  ASSUME RecordsInv, NEW c \in Clients, UNCHANGED <<load, backend>>, NEW op \in StatusOps,
         At(c, op, "exists"), UNCHANGED exporterVars,
         IF GetExporter(call[c].in.name) = NoRow THEN Return(c, "notFound") ELSE Goto(c, "status", NoRow)
  PROVE  ExporterStepGood(c)
<1>1. ExporterTableInv /\ ExporterParams(call[c]) /\ call[c].op = op /\ call[c].at = "exists"
  BY ExporterParts DEF At
<1>2. GetExporter(call[c].in.name) = exporters[call[c].in.name]
  BY ExporterParts DEF Backends, GetExporter, MemGetExporter, CasGetExporter, PgGetExporter, MyGetExporter
<1>3. CASE Return(c, "notFound")
  BY <1>1, <1>3, ExporterReturns
<1>4. CASE exporters[call[c].in.name] # NoRow /\ Goto(c, "status", NoRow)
  <2>1. call'[c].op = call[c].op /\ call'[c].at = "status" /\ call'[c].in = call[c].in
    BY <1>4, GotoKeeps
  <2>2. exporters' = exporters /\ statuses' = statuses
    BY DEF exporterVars
  <2>3. ExporterCall(call[c])'
    <3>1. ExporterParams(call[c])'
      BY <1>1, <2>1 DEF ExporterParams, InHand
    <3>2. ExporterHeld(call[c])'
      BY <1>1, <1>4, <2>1, <2>2 DEF ExporterHeld, InHand, StatusOps
    <3> QED BY <3>1, <3>2 DEF ExporterCall
  <2>4. Moves(c) /\ CallOK(c)'
    BY <1>1, <1>4, <2>3, ExporterGoes DEF InHand, ExporterRequests
  <2> QED BY <1>1, <2>4, ExportersRest DEF ExporterStepGood
<1> QED BY <1>2, <1>3, <1>4


\* The status that is read: the row, or a new record.
LEMMA StatusReadIs ==
  ASSUME RecordsInv, NEW n \in Names
  PROVE  /\ StatusRead(n) \in Status
         /\ exporters[n] # NoRow /\ statuses[n] # NoRow => StatusRead(n) = statuses[n]
         /\ StatusRead(n).state = "RUNNING" => RunningRow(n)
<1>1. statuses[n] \in Status \cup {NoRow}
  BY ExporterParts
<1>2. CASE exporters[n] = NoRow
  <2>1. StatusRead(n) = NewStatus("UNSET")
    BY <1>2 DEF StatusRead
  <2> QED BY <1>2, <2>1, NewStatusType DEF States
<1>3. CASE exporters[n] # NoRow /\ statuses[n] = NoRow
  <2>1. StatusRead(n) = NewStatus("PAUSED")
    BY <1>3 DEF StatusRead
  <2> QED BY <1>3, <2>1, NewStatusType DEF States
<1>4. CASE exporters[n] # NoRow /\ statuses[n] # NoRow
  <2>1. StatusRead(n) = statuses[n]
    BY <1>4 DEF StatusRead
  <2> QED BY <1>1, <1>4, <2>1 DEF RunningRow
<1> QED BY <1>2, <1>3, <1>4

\* A request as a record of its fields.
Fields(r) == r = [op |-> r.op, at |-> r.at, in |-> r.in, got |-> r.got, status |-> r.status]

\* Client c has changed the status of n to new: it has the record in hand, and so
\* have those that had it before.
Changed(c, n, new) ==
  /\ call' = [d \in Clients |-> call'[d]]
  /\ \A d \in Clients :
       /\ Fields(call'[d]) /\ call'[d].op = call[d].op /\ call'[d].in = call[d].in
       /\ call'[d].status = call[d].status
  /\ call'[c].at = "set" /\ call'[c].got = new
  /\ \A d \in Clients : d # c =>
       /\ call'[d].at = call[d].at
       /\ call'[d].got = call[d].got \/ (Holds(d, n, new.obj) /\ call'[d].got = new)

\* The row of n is changed too, in memory, if it is that record.
RowChanged(n, new) ==
  /\ exporters' = exporters /\ statuses' \in [Names -> Status \cup {NoRow}]
  /\ \A m \in Names : m # n => statuses'[m] = statuses[m]
  /\ \/ statuses'[n] = statuses[n]
     \/ backend = "memory" /\ statuses[n] # NoRow /\ statuses[n].obj = new.obj /\ statuses'[n] = new

\* The record that is stored next.
NewRecord(n, state, new) ==
  /\ exporters[n] # NoRow /\ statuses[n] # NoRow => new.obj = statuses[n].obj
  /\ state # "same" => new.state = state
  /\ state = "same" => new.state = StatusRead(n).state

\* What the change of a status does to the requests and the rows.
LEMMA StatusStep ==
  ASSUME RecordsInv, NEW c \in Clients, NEW op \in StatusOps, NEW state \in States \cup {"same"},
         ChangeStatus(c, op, state), At(c, op, "status")
  PROVE  \E n \in Names, new \in Status :
           n = call[c].in.name /\ NewRecord(n, state, new) /\ Changed(c, n, new) /\ RowChanged(n, new)
<1>1. ExporterParams(call[c])
  BY ExporterParts
<1>2. PICK n \in Names : n = call[c].in.name
  BY <1>1 DEF ExporterParams, At
<1>3. PICK old \in Status : old = StatusRead(n)
  BY StatusReadIs
<1>4. PICK new : new = [old EXCEPT !.state = IF state = "same" THEN @ ELSE state]
  OBVIOUS
<1>5. PICK v \in States : v = IF state = "same" THEN old.state ELSE state
  BY <1>3 DEF Status
<1>6. new = [state |-> v, obj |-> old.obj] /\ old.obj \in Nat
  BY <1>3, <1>4, <1>5 DEF Status
<1>7. new \in Status /\ new.obj = old.obj /\ new.state = v
  BY <1>6 DEF Status
<1>8. new = [StatusRead(call[c].in.name) EXCEPT !.state = IF state = "same" THEN @ ELSE state]
  BY <1>2, <1>3, <1>4
<1>9. exporters[n] # NoRow /\ statuses[n] # NoRow => old = statuses[n]
  BY <1>3, StatusReadIs
<1>10. /\ call' = [d \in Clients |->
                     IF d = c THEN [call[c] EXCEPT !.at = "set", !.got = new]
                     ELSE IF Holds(d, n, new.obj) THEN [call[d] EXCEPT !.got = new] ELSE call[d]]
       /\ statuses' = IF statuses[n] # NoRow /\ statuses[n].obj = new.obj /\ backend = "memory"
                      THEN [statuses EXCEPT ![n] = new] ELSE statuses
       /\ exporters' = exporters
  BY <1>2, <1>8 DEF ChangeStatus, At
<1>11. call = [d \in Clients |-> call[d]] /\ \A d \in Clients : Fields(call[d])
  BY InvParts DEF CallShape, Fields
<1>12. ASSUME NEW d \in Clients
       PROVE  /\ Fields(call'[d]) /\ call'[d].op = call[d].op /\ call'[d].in = call[d].in
              /\ call'[d].status = call[d].status
              /\ d = c => call'[d].at = "set" /\ call'[d].got = new
              /\ d # c => /\ call'[d].at = call[d].at
                          /\ call'[d].got = call[d].got \/ (Holds(d, n, new.obj) /\ call'[d].got = new)
  <2>1. PICK r : r = call[d]
    OBVIOUS
  <2>2. PICK q : q = [r EXCEPT !.at = "set"]
    OBVIOUS
  <2>3. PICK p : p = [q EXCEPT !.got = new]
    OBVIOUS
  <2>4. PICK t : t = [r EXCEPT !.got = new]
    OBVIOUS
  <2>5. r = [op |-> r.op, at |-> r.at, in |-> r.in, got |-> r.got, status |-> r.status]
    BY <1>11, <2>1 DEF Fields
  <2>6. q = [op |-> r.op, at |-> "set", in |-> r.in, got |-> r.got, status |-> r.status]
    BY <2>2, <2>5
  <2>7. p = [op |-> r.op, at |-> "set", in |-> r.in, got |-> new, status |-> r.status]
    BY <2>3, <2>6
  <2>8. t = [op |-> r.op, at |-> r.at, in |-> r.in, got |-> new, status |-> r.status]
    BY <2>4, <2>5
  <2>9. CASE d = c
    <3>1. call'[d] = p
      BY <1>10, <2>1, <2>2, <2>3, <2>9
    <3> QED BY <2>1, <2>7, <2>9, <3>1 DEF Fields
  <2>10. CASE d # c /\ Holds(d, n, new.obj)
    <3>1. call'[d] = t
      BY <1>10, <2>1, <2>4, <2>10
    <3> QED BY <2>1, <2>8, <2>10, <3>1 DEF Fields
  <2>11. CASE d # c /\ ~Holds(d, n, new.obj)
    <3>1. call'[d] = r
      BY <1>10, <2>1, <2>11
    <3>2. Fields(call'[d])
      BY <2>5, <3>1 DEF Fields
    <3> QED BY <2>1, <2>11, <3>1, <3>2
  <2> QED BY <2>9, <2>10, <2>11
<1>13. call' = [d \in Clients |-> call'[d]]
  BY <1>10
<1>14. Changed(c, n, new)
  BY <1>12, <1>13 DEF Changed
<1>15. RowChanged(n, new)
  <2>1. statuses \in [Names -> Status \cup {NoRow}]
    BY ExporterParts
  <2>2. CASE statuses[n] # NoRow /\ statuses[n].obj = new.obj /\ backend = "memory"
    <3>1. statuses' = [statuses EXCEPT ![n] = new] /\ exporters' = exporters
      BY <1>10, <2>2
    <3> QED BY <1>7, <2>1, <2>2, <3>1 DEF RowChanged
  <2>3. CASE ~(statuses[n] # NoRow /\ statuses[n].obj = new.obj /\ backend = "memory")
    <3>1. statuses' = statuses /\ exporters' = exporters
      BY <1>10, <2>3
    <3> QED BY <2>1, <3>1 DEF RowChanged
  <2> QED BY <2>2, <2>3
<1>16. NewRecord(n, state, new)
  BY <1>3, <1>5, <1>7, <1>9 DEF NewRecord
<1> QED BY <1>2, <1>7, <1>14, <1>15, <1>16


\* The change of a status keeps the rows and starts nothing but what is resumed.
LEMMA ChangeStatusKept ==
  ASSUME RecordsInv, NEW c \in Clients, UNCHANGED <<load, backend>>, NEW op \in StatusOps,
         NEW state \in States \cup {"same"}, state = "RUNNING" => op = "ResumeExporter",
         At(c, op, "status"), NEW n \in Names, NEW new \in Status,
         NewRecord(n, state, new), Changed(c, n, new), RowChanged(n, new)
  PROVE  ExportersKept
<1>1. ExporterTableInv
  BY ExporterParts
<1>2. new # NoRow
  BY ExporterConstants
<1>3. \A m \in Names : /\ statuses'[m] # NoRow <=> statuses[m] # NoRow
                       /\ statuses[m] # NoRow => statuses'[m].obj = statuses[m].obj
  BY <1>2 DEF RowChanged
<1>4. ExporterTableInv'
  BY <1>1, <1>3 DEF ExporterTableInv, RowChanged, Checked, Single
<1>5. SameRecords
  BY <1>1, <1>3 DEF SameRecords, RowChanged, ExporterTableInv
<1>6. ExporterAppears
  BY DEF ExporterAppears, RowChanged
<1>7. ExporterRuns
  <2> SUFFICES ASSUME NEW m \in Names, ~RunningRow(m), RunningRow(m)'
               PROVE  StepOf({"ResumeExporter"})
    BY DEF ExporterRuns
  <2>1. /\ exporters[m] # NoRow /\ statuses'[m] # NoRow /\ statuses'[m].state = "RUNNING"
        /\ statuses'[m] # statuses[m]
    BY DEF RunningRow, RowChanged
  <2>2. m = n /\ statuses[n] # NoRow /\ statuses'[n] = new
    BY <2>1 DEF RowChanged
  <2>3. StatusRead(n) = statuses[n]
    BY <2>1, <2>2, StatusReadIs
  <2>4. state = "RUNNING"
    BY <2>1, <2>2, <2>3 DEF NewRecord, RunningRow
  <2>5. call[c].op = "ResumeExporter" /\ call'[c].at # call[c].at
    BY <2>4 DEF At, Changed
  <2> QED BY <2>5 DEF StepOf
<1> QED BY <1>4, <1>5, <1>6, <1>7 DEF ExportersKept, ExportersAsked

\* The request that changes the status.
LEMMA ChangeStatusOwn ==
  ASSUME RecordsInv, NEW c \in Clients, UNCHANGED <<load, backend>>, NEW op \in StatusOps,
         NEW state \in States \cup {"same"}, state = "RUNNING" => op = "ResumeExporter",
         op = "PauseExporter" => state = "PAUSED",
         At(c, op, "status"), NEW n \in Names, NEW new \in Status, n = call[c].in.name,
         NewRecord(n, state, new), Changed(c, n, new), RowChanged(n, new)
  PROVE  CallOK(c)'
<1>1. CallShape(call[c]) /\ ExporterParams(call[c]) /\ ExporterHeld(call[c]) /\ ExporterTableInv
  BY ExporterParts
<1>2. PICK r : r = call'[c]
  OBVIOUS
<1>3. /\ r = [op |-> r.op, at |-> r.at, in |-> r.in, got |-> r.got, status |-> r.status]
      /\ r.op = op /\ r.in = call[c].in /\ r.status = call[c].status /\ r.at = "set" /\ r.got = new
  BY <1>2 DEF Changed, Fields, At
<1>4. op \in load.ops \cap Ops /\ r.status \in Codes
  BY <1>1, <1>3 DEF CallShape, At
<1>5. CallShape(call[c])'
  BY <1>2, <1>3, <1>4 DEF CallShape
<1>6. op \notin KeyRequests /\ op \notin ConfigOps /\ op # "CreateExporter"
  BY DEF KeyRequests, StatusOps, ConfigOps
<1>7. KeyCall(call[c])'
  BY <1>2, <1>3, <1>6 DEF KeyCall, KeyParams, KeyHeld, KeyAlone, KeyRequests
<1>8. ExporterParams(call[c])'
  BY <1>1, <1>2, <1>3, <1>6 DEF ExporterParams, At
<1>9. ASSUME op = "PauseExporter" PROVE new.state # "RUNNING"
  BY <1>9 DEF NewRecord
<1>10. ASSUME op = "ResetExporter", new.state = "RUNNING" PROVE RunningRow(n)'
  <2>1. StatusRead(n).state = "RUNNING"
    BY <1>10 DEF NewRecord
  <2>2. RunningRow(n)
    BY <2>1, StatusReadIs
  <2> QED BY <1>10, <2>2, ExporterConstants DEF RunningRow, RowChanged
<1>11. load.serial => exporters'[n] # NoRow
  BY <1>1 DEF ExporterHeld, RowChanged, At
<1>12. Single /\ exporters'[n] # NoRow => new.obj = statuses'[n].obj
  BY <1>1 DEF ExporterTableInv, RowChanged, NewRecord
<1>13. ExporterHeld(call[c])'
  BY <1>2, <1>3, <1>6, <1>9, <1>10, <1>11, <1>12 DEF ExporterHeld, Single, InHand
<1> QED BY <1>5, <1>7, <1>8, <1>13 DEF CallOK, ExporterCall

\* The requests that had the record in hand, and the others.
LEMMA ChangeStatusOthers ==
  ASSUME RecordsInv, NEW c \in Clients, UNCHANGED <<load, backend>>, UNCHANGED keyVars,
         NEW op \in StatusOps, NEW state, At(c, op, "status"), NEW n \in Names, NEW new \in Status,
         NewRecord(n, state, new), Changed(c, n, new), RowChanged(n, new), NEW d \in Clients, d # c
  PROVE  CallOK(d)'
<1>1. CallShape(call[d]) /\ ExporterParams(call[d]) /\ ExporterHeld(call[d]) /\ KeyCall(call[d])
  BY ExporterParts DEF RecordsInv
<1>2. PICK r, q : r = call'[d] /\ q = call[d]
  OBVIOUS
<1>3. /\ r = [op |-> r.op, at |-> r.at, in |-> r.in, got |-> r.got, status |-> r.status]
      /\ r.op = q.op /\ r.in = q.in /\ r.status = q.status /\ r.at = q.at
      /\ r.got = q.got \/ (Holds(d, n, new.obj) /\ r.got = new)
  BY <1>2 DEF Changed, Fields
<1>4. q = [op |-> q.op, at |-> q.at, in |-> q.in, got |-> q.got, status |-> q.status] /\ CallShape(q)
  BY <1>1, <1>2 DEF CallShape
<1>5. CallShape(call[d])'
  BY <1>2, <1>3, <1>4 DEF CallShape
<1>6. Holds(d, n, new.obj) =>
        backend = "memory" /\ q.at = "set" /\ q.in.name = n /\ q.got.obj = new.obj
  BY <1>2 DEF Holds
<1>7. CASE r.got = q.got
  <2>1. call'[d] = call[d]
    BY <1>2, <1>3, <1>4, <1>7
  <2>2. KeyCall(call[d])'
    BY <1>1, <2>1, SameKeys
  <2>3. ExporterParams(call[d])'
    BY <1>1, <2>1 DEF ExporterParams
  <2>4. CASE load.serial
    <3>1. q.at = "done"
      BY <1>2, <2>4 DEF RecordsInv, CallsApart, At
    <3>2. q.op = "none"
      BY <1>4, <3>1 DEF CallShape
    <3>3. ExporterHeld(call[d])'
      BY <1>2, <2>1, <3>1, <3>2 DEF ExporterHeld, InHand, StatusOps
    <3> QED BY <1>5, <2>2, <2>3, <3>3 DEF CallOK, ExporterCall
  <2>5. CASE ~load.serial
    <3>1. ASSUME Single, q.op \in StatusOps, q.at = "set", exporters'[q.in.name] # NoRow
          PROVE  q.got.obj = statuses'[q.in.name].obj
      <4>1. q.in.name \in Names /\ exporters[q.in.name] # NoRow
        BY <1>1, <1>2, <3>1 DEF ExporterParams, RowChanged
      <4>2. q.got.obj = statuses[q.in.name].obj
        BY <1>1, <1>2, <3>1, <4>1 DEF ExporterHeld
      <4> QED BY <4>1, <4>2 DEF RowChanged
    <3>2. ExporterHeld(call[d])'
      BY <1>1, <1>2, <2>1, <2>5, <3>1 DEF ExporterHeld, Single, ResetSafe
    <3> QED BY <1>5, <2>2, <2>3, <3>2 DEF CallOK, ExporterCall
  <2> QED BY <2>4, <2>5
<1>8. CASE Holds(d, n, new.obj) /\ r.got = new
  <2>1. q.op \in StatusOps \cup {"CreateExporter"} /\ q.op \notin KeyRequests
    BY <1>4, <1>6, <1>8 DEF CallShape, InHand, StatusOps, KeyRequests
  <2>2. KeyCall(call[d])'
    BY <1>2, <1>3, <2>1 DEF KeyCall, KeyParams, KeyHeld, KeyAlone, KeyRequests
  <2>3. ExporterParams(call[d])'
    BY <1>1, <1>2, <1>3, <1>8 DEF ExporterParams
  <2>4. ~load.serial
    <3>1. ASSUME load.serial PROVE q.at = "done"
      BY <1>2, <3>1 DEF RecordsInv, CallsApart, At
    <3> QED BY <1>6, <1>8, <3>1
  <2>5. ASSUME Single, q.op \in StatusOps, exporters'[n] # NoRow PROVE new.obj = statuses'[n].obj
    <3>1. exporters[n] # NoRow
      BY <2>5 DEF RowChanged
    <3>2. q.got.obj = statuses[n].obj
      BY <1>1, <1>2, <1>6, <1>8, <2>5, <3>1 DEF ExporterHeld
    <3> QED BY <1>6, <1>8, <3>2 DEF RowChanged
  <2>6. ExporterHeld(call[d])'
    BY <1>2, <1>3, <1>6, <1>8, <2>4, <2>5 DEF ExporterHeld, Single
  <2> QED BY <1>5, <2>2, <2>3, <2>6 DEF CallOK, ExporterCall
<1> QED BY <1>3, <1>7, <1>8

\* The invariant holds after the change of a status.
LEMMA ChangeStatusInv ==
  ASSUME RecordsInv, NEW c \in Clients, UNCHANGED <<load, backend>>, UNCHANGED keyVars,
         NEW op \in StatusOps, NEW state \in States \cup {"same"},
         state = "RUNNING" => op = "ResumeExporter", op = "PauseExporter" => state = "PAUSED",
         ChangeStatus(c, op, state), At(c, op, "status")
  PROVE  RecordsInv' /\ ExportersAsked
<1>1. PICK n \in Names, new \in Status :
           n = call[c].in.name /\ NewRecord(n, state, new) /\ Changed(c, n, new) /\ RowChanged(n, new)
  BY StatusStep
<1>2. ExportersKept
  BY <1>1, ChangeStatusKept
<1>3. CallOK(c)'
  BY <1>1, ChangeStatusOwn
<1>4. \A d \in Clients : d # c => CallOK(d)'
  BY <1>1, ChangeStatusOthers
<1>5. \A d \in Clients : CallOK(d)'
  BY <1>3, <1>4
<1>6. KeyTableInv'
  BY InvParts, TablesRest DEF KeyKept
<1>7. /\ call' = [d \in Clients |-> call'[d]]
      /\ \A d \in Clients : d # c => call'[d].op = call[d].op /\ call'[d].at = call[d].at
      /\ call[c].at # "done" /\ call'[c].op = call[c].op
  BY <1>1 DEF Changed, At
<1>8. RecordsInv'
  BY <1>2, <1>5, <1>6, <1>7, Combine DEF ExportersKept
<1> QED BY <1>2, <1>8 DEF ExportersKept


\* The requests of the others, after a step of the exporters.
LEMMA ExporterOthers ==
  ASSUME RecordsInv, NEW c \in Clients, UNCHANGED <<load, backend>>, UNCHANGED keyVars,
         ExporterStepGood(c), NEW d \in Clients, d # c
  PROVE  CallOK(d)' /\ call'[d] = call[d]
<1>1. CallShape(call[d]) /\ ExporterParams(call[d]) /\ ExporterHeld(call[d]) /\ KeyCall(call[d])
  BY ExporterParts DEF RecordsInv
<1>2. call'[d] = call[d]
  BY InvParts DEF ExporterStepGood, Moves
<1>3. CallShape(call[d])'
  BY <1>1, <1>2 DEF CallShape
<1>4. KeyCall(call[d])'
  BY <1>1, <1>2, SameKeys
<1>5. ExporterParams(call[d])'
  BY <1>1, <1>2 DEF ExporterParams
<1>6. PICK q : q = call[d]
  OBVIOUS
<1>7. ExporterHeld(call[d])'
  <2>1. CASE load.serial
    <3>1. q.at = "done" /\ q.op = "none"
      BY <1>6, <2>1, OthersIdle DEF ExporterStepGood
    <3> QED BY <1>2, <1>6, <3>1 DEF ExporterHeld, InHand, StatusOps
  <2>2. CASE ~load.serial
    <3>1. ASSUME Single, q.op \in StatusOps, q.at = "set", exporters'[q.in.name] # NoRow
          PROVE  q.got.obj = statuses'[q.in.name].obj
      <4>1. q.in.name \in Names
        BY <1>1, <1>6, <3>1 DEF ExporterParams
      <4>2. exporters[q.in.name] # NoRow /\ statuses'[q.in.name].obj = statuses[q.in.name].obj
        BY <3>1, <4>1 DEF ExporterStepGood, ExportersKept, SameRecords
      <4> QED BY <1>1, <1>6, <3>1, <4>2 DEF ExporterHeld
    <3> QED BY <1>1, <1>2, <1>6, <2>2, <3>1 DEF ExporterHeld, Single, ResetSafe
  <2> QED BY <2>1, <2>2
<1> QED BY <1>2, <1>3, <1>4, <1>5, <1>7 DEF CallOK, ExporterCall

\* The invariant holds after a step of the exporters.
LEMMA ExporterStepInv ==
  ASSUME RecordsInv, NEW c \in Clients, UNCHANGED <<load, backend>>, UNCHANGED keyVars, ExporterStepGood(c)
  PROVE  RecordsInv' /\ ExportersAsked
<1>1. Moves(c) /\ CallOK(c)' /\ ExporterTableInv' /\ ExportersAsked
  BY DEF ExporterStepGood, ExportersKept
<1>2. call = [d \in Clients |-> call[d]]
  BY InvParts
<1>3. \A d \in Clients : d # c => CallOK(d)' /\ call'[d] = call[d]
  BY ExporterOthers
<1>4. \A d \in Clients : CallOK(d)'
  BY <1>1, <1>3
<1>5. call' = [d \in Clients |-> call'[d]]
  BY <1>1, <1>2 DEF Moves
<1>6. \A d \in Clients : d # c => call'[d].op = call[d].op /\ call'[d].at = call[d].at
  BY <1>3
<1>7. \/ call[c].at # "done" /\ call'[c].op \in {call[c].op, "none"}
      \/ /\ call[c].at = "done"
         /\ load.serial => \A d \in Clients : call[d].at = "done"
         /\ "RewrapDEK" \in load.alone /\ call'[c].op = "RewrapDEK" => \A d \in Clients : call[d].op # "RewrapDEK"
  BY <1>1 DEF Moves
<1>8. KeyTableInv'
  BY InvParts, TablesRest DEF KeyKept
<1>9. RecordsInv'
  BY <1>1, <1>4, <1>5, <1>6, <1>7, <1>8, Combine
<1> QED BY <1>1, <1>9

\* Every step of the exporters.
LEMMA ExporterSteps ==
  ASSUME RecordsInv, NEW c \in Clients, UNCHANGED <<load, backend>>, UNCHANGED keyVars, ExporterStep(c)
  PROVE  RecordsInv' /\ ExportersAsked
<1>1. ASSUME NEW op \in StatusOps, NEW state \in States \cup {"same"},
             state = "RUNNING" => op = "ResumeExporter", op = "PauseExporter" => state = "PAUSED",
             ChangeStatus(c, op, state)
      PROVE  RecordsInv' /\ ExportersAsked
  <2>1. CASE At(c, op, "status")
    BY <1>1, <2>1, ChangeStatusInv
  <2>2. CASE ~At(c, op, "status")
    <3>1. /\ At(c, op, "exists") /\ UNCHANGED exporterVars
          /\ IF GetExporter(call[c].in.name) = NoRow THEN Return(c, "notFound") ELSE Goto(c, "status", NoRow)
      BY <1>1, <2>2 DEF ChangeStatus
    <3> QED BY <3>1, StatusAsksGood, ExporterStepInv
  <2> QED BY <2>1, <2>2
<1>2. CASE PauseExporter(c)
  BY <1>1, <1>2 DEF PauseExporter, StatusOps, States
<1>3. CASE ResumeExporter(c)
  BY <1>1, <1>3 DEF ResumeExporter, StatusOps, States
<1>4. CASE ResetExporter(c)
  BY <1>1, <1>4 DEF ResetExporter, StatusOps, States
<1>5. CASE backend = "memory" /\ MemExporterStep(c)
  BY <1>5, MemExporterGood, ExporterStepInv
<1>6. CASE backend = "cassandra" /\ CasExporterStep(c)
  BY <1>6, CasExporterGood, ExporterStepInv
<1>7. CASE backend = "postgres" /\ PgExporterStep(c)
  BY <1>7, PgExporterGood, ExporterStepInv
<1>8. CASE backend = "mysql" /\ MyExporterStep(c)
  BY <1>8, MyExporterGood, ExporterStepInv
<1>9. CASE \/ HandleCreateExporter(c) \/ HandleUpdateExporter(c) \/ HandleDeleteExporter(c)
           \/ HandleUpdateExporterConfig(c) \/ HandlePauseExporter(c) \/ HandleResumeExporter(c)
           \/ HandleResetExporter(c)
  BY <1>9, ExporterHandlers, ExporterStepInv
<1> QED BY <1>2, <1>3, <1>4, <1>5, <1>6, <1>7, <1>8, <1>9 DEF ExporterStep

-----------------------------------------------------------------------------
(* The invariant.                                                          *)

\* The key service rotates its key.
LEMMA RotateInv ==
  ASSUME RecordsInv, KmsRotate, UNCHANGED exporterVars
  PROVE  RecordsInv' /\ KeysAsked /\ ExportersAsked
<1>1. /\ load' = load /\ backend' = backend /\ call' = call /\ keks' = keks /\ deks' = deks /\ byKek' = byKek
      /\ given' = given /\ exporters' = exporters /\ statuses' = statuses /\ kmsGen' = kmsGen + 1
      /\ kmsGen < MaxGen
  BY DEF KmsRotate, keyTables, exporterVars
<1>2. KeyTableInv /\ KeyTypeOK
  BY InvParts
<1>3. kmsGen \in 1..MaxGen /\ kmsGen' \in 1..MaxGen /\ kmsGen <= kmsGen'
  BY <1>1, <1>2, KeyConstants DEF KeyTypeOK
<1>4. \A m \in Wrapped : m.gen <= kmsGen => m.gen <= kmsGen'
  BY <1>3, KeyConstants DEF Wrapped
<1>5. KeyTypeOK'
  BY <1>1, <1>2, <1>3 DEF KeyTypeOK
<1>6. \A d \in deks : d.mat # NoRow => d.mat.gen <= kmsGen'
  BY <1>2, <1>4, MaterialType DEF KeyTableInv
<1>7. KeyTableInv'
  BY <1>1, <1>2, <1>5, <1>6 DEF KeyTableInv, UniqueDEK, ListedDEK, NoOrphanDEK, Undisturbed, Steady, Tame,
                    KeyMaterialKept, Told, RowOf
<1>8. ExporterTableInv' /\ ExportersAsked
  BY <1>1, ExporterParts, ExportersRest DEF ExportersKept
<1>9. ASSUME NEW c \in Clients PROVE CallOK(c)'
  <2>1. CallShape(call[c]) /\ KeyParams(call[c]) /\ KeyHeld(call[c]) /\ (load.serial => KeyAlone(call[c]))
    BY InvParts
  <2>2. CallShape(call[c])'
    BY <1>1, <2>1 DEF CallShape
  <2>3. PICK q : q = call[c] /\ call'[c] = q
    BY <1>1
  <2>4. KeyParams(q)
    BY <2>1, <2>3
  <2>5. KeyParams(call[c])'
    BY <1>1, <1>4, <2>3, <2>4 DEF KeyParams
  <2>6. KeyHeld(call[c])'
    BY <1>1, <2>1 DEF KeyHeld, Tame, Steady, Swept, Rows, RowOf
  <2>7. load.serial => KeyAlone(call[c])'
    BY <1>1, <2>1 DEF KeyAlone, Target, Filter, Rows
  <2>8. ExporterCall(call[c])
    BY DEF RecordsInv
  <2>9. ExporterCall(call[c])'
    BY <1>1, <2>8 DEF ExporterCall, ExporterParams, ExporterHeld, ResetSafe, Single, RunningRow
  <2> QED BY <1>1, <2>2, <2>5, <2>6, <2>7, <2>9 DEF CallOK, KeyCall
<1>10. RecordsInv'
  BY <1>1, <1>7, <1>8, <1>9 DEF RecordsInv, CallsApart, CallOK
<1>11. \A d \in deks, e \in deks' : RowOf(d) = RowOf(e) => d = e
  BY <1>1, <1>2, SameRow DEF KeyTableInv
<1>12. Advances
  BY <1>2, <1>11, MaterialType DEF Advances
<1>13. KEKSticks /\ DEKSticks /\ Appears
  BY <1>1, <1>11 DEF KEKSticks, DEKSticks, Appears
<1> QED BY <1>8, <1>10, <1>12, <1>13 DEF KeysAsked

\* Every step of the system keeps the invariant, and changes keys and exporters as
\* asked for.
LEMMA RecordsStep ==
  ASSUME RecordsInv, Next
  PROVE  RecordsInv' /\ KeysAsked /\ ExportersAsked
<1>1. ASSUME NEW c \in Clients, KeyStep(c), UNCHANGED <<backend, load, exporterVars>>
      PROVE  RecordsInv' /\ KeysAsked /\ ExportersAsked
  <2>1. UNCHANGED <<load, backend>> /\ UNCHANGED exporterVars
    BY <1>1
  <2>2. KeyStepGood(c)
    BY <1>1, <2>1, KeySteps
  <2>3. RecordsInv'
    BY <2>1, <2>2, KeyStepInv
  <2>4. ExportersAsked
    BY <2>1, ExporterParts, ExportersRest DEF ExportersKept
  <2> QED BY <2>2, <2>3, <2>4 DEF KeyStepGood, KeyKept
<1>2. ASSUME NEW c \in Clients, ExporterStep(c), UNCHANGED <<backend, load, keyVars>>
      PROVE  RecordsInv' /\ KeysAsked /\ ExportersAsked
  <2>1. UNCHANGED <<load, backend>> /\ UNCHANGED keyVars
    BY <1>2
  <2>2. RecordsInv' /\ ExportersAsked
    BY <1>2, <2>1, ExporterSteps
  <2>3. KeysAsked
    BY <1>2, <2>1, InvParts, TablesRest DEF KeyKept
  <2> QED BY <2>2, <2>3
<1>3. ASSUME NEW c \in Clients, Cancel(c), UNCHANGED <<backend, load, keyVars, exporterVars>>
      PROVE  RecordsInv' /\ KeysAsked /\ ExportersAsked
  <2>1. UNCHANGED <<load, backend>> /\ UNCHANGED keyVars /\ UNCHANGED exporterVars
    BY <1>3
  <2>2. call[c].at # "done" /\ Return(c, "cancelled")
    BY <1>3 DEF Cancel
  <2>3. KeyStepGood(c)
    BY <1>3, <2>1, <2>2, ReturnStays
  <2>4. RecordsInv'
    BY <1>3, <2>1, <2>3, KeyStepInv
  <2>5. ExportersAsked
    BY <2>1, ExporterParts, ExportersRest DEF ExportersKept
  <2> QED BY <2>3, <2>4, <2>5 DEF KeyStepGood, KeyKept
<1>4. CASE KmsRotate /\ UNCHANGED exporterVars
  BY <1>4, RotateInv
<1> QED BY <1>1, <1>2, <1>3, <1>4 DEF Next


\* The invariant holds at the start.
LEMMA RecordsStart ==
  ASSUME Init
  PROVE  RecordsInv
<1>1. load \in Loads /\ backend \in load.on /\ call = [c \in Clients |-> Idle]
  BY DEF Init, RecordsInit
<1>2. /\ keks = [k \in KEKs |-> NoRow] /\ deks = {} /\ byKek = {} /\ given = {} /\ kmsGen = 1
  BY DEF Init, KeysInit
<1>3. KeyTypeOK
  BY <1>2, KeyConstants DEF KeyTypeOK
<1>4. KeyTableInv
  BY <1>2, <1>3, FS_EmptySet DEF KeyTableInv, UniqueDEK, ListedDEK, NoOrphanDEK, KeyMaterialKept
<1>5. ExporterTableInv
  <2>1. CASE exporters = [n \in Names |-> NoRow] /\ statuses = [n \in Names |-> NoRow]
    BY <2>1 DEF ExporterTableInv
  <2>2. CASE /\ exporters \in [Names -> Configs]
             /\ statuses = [n \in Names |->
                              [state |-> "PAUSED", obj |-> IF backend = "memory" THEN 1 ELSE 0]]
    <3>1. PICK o \in Nat : o = IF backend = "memory" THEN 1 ELSE 0
      OBVIOUS
    <3>2. PICK s \in Status : s = [state |-> "PAUSED", obj |-> o]
      BY DEF Status, States
    <3>3. statuses = [n \in Names |-> s]
      BY <2>2, <3>1, <3>2
    <3> QED BY <2>2, <3>3, ExporterConstants DEF ExporterTableInv
  <2> QED BY <2>1, <2>2 DEF Init, ExportersInit
<1>6. ASSUME NEW c \in Clients PROVE CallOK(c)
  <2>1. PICK r : r = [op |-> "none", at |-> "done", in |-> NoRow, got |-> NoRow, status |-> 0]
    OBVIOUS
  <2>2. call[c] = r
    BY <1>1, <2>1 DEF Idle
  <2>3. /\ r.op = "none" /\ r.at = "done" /\ r.in = NoRow /\ r.status = 0
        /\ r = [op |-> r.op, at |-> r.at, in |-> r.in, got |-> r.got, status |-> r.status]
    BY <2>1
  <2>4. CallShape(call[c])
    BY <2>2, <2>3 DEF CallShape, StatusOps, InHand, Codes
  <2>5. KeyCall(call[c]) /\ ExporterCall(call[c])
    BY <2>2, <2>3 DEF KeyCall, KeyParams, KeyHeld, KeyAlone, ExporterCall, ExporterParams, ExporterHeld,
                      StatusOps, ConfigOps
  <2> QED BY <2>4, <2>5 DEF CallOK
<1>7. call = [c \in Clients |-> call[c]] /\ CallsApart
  BY <1>1 DEF CallsApart, Idle
<1> QED BY <1>1, <1>4, <1>5, <1>6, <1>7 DEF RecordsInv, CallOK

\* A step that changes nothing.
LEMMA RecordsStutter ==
  ASSUME RecordsInv, UNCHANGED vars
  PROVE  RecordsInv'
<1>1. /\ load' = load /\ backend' = backend /\ call' = call /\ keks' = keks /\ deks' = deks /\ byKek' = byKek
      /\ given' = given /\ kmsGen' = kmsGen /\ exporters' = exporters /\ statuses' = statuses
  BY DEF vars, keyVars, exporterVars
<1>2. KeyTableInv' /\ ExporterTableInv'
  <2>1. KeyTableInv /\ ExporterTableInv
    BY DEF RecordsInv
  <2>2. KeyTableInv'
    BY <1>1, <2>1 DEF KeyTableInv, KeyTypeOK, UniqueDEK, ListedDEK, NoOrphanDEK, Undisturbed, Steady, Tame,
                KeyMaterialKept, Told, RowOf
  <2>3. ExporterTableInv'
    BY <1>1, <2>1 DEF ExporterTableInv, Checked, Single
  <2> QED BY <2>2, <2>3
<1>3. ASSUME NEW c \in Clients PROVE CallOK(c)'
  <2>1. CallShape(call[c]) /\ KeyCall(call[c]) /\ ExporterCall(call[c]) /\ call'[c] = call[c]
    BY <1>1 DEF RecordsInv
  <2>2. CallShape(call[c])'
    BY <1>1, <2>1 DEF CallShape
  <2>3. KeyCall(call[c])'
    BY <1>1, <2>1, SameKeys DEF keyVars
  <2>4. ExporterCall(call[c])'
    BY <1>1, <2>1 DEF ExporterCall, ExporterParams, ExporterHeld, ResetSafe, Single, RunningRow
  <2> QED BY <2>2, <2>3, <2>4 DEF CallOK
<1> QED BY <1>1, <1>2, <1>3 DEF RecordsInv, CallsApart, CallOK

-----------------------------------------------------------------------------
(* What the invariant says of the listings.                                *)

\* The latest of some DEKs is there, and has the highest of their versions.
LEMMA LatestIs ==
  ASSUME NEW rows \in SUBSET DEKRow
  PROVE  /\ rows # {} <=> Latest(rows) # {}
         /\ \A d \in Latest(rows) : d.ver = Max({e.ver : e \in rows})
<1>1. MaxVersion \in Nat /\ \A d \in rows : d.ver \in 1..MaxVersion
  BY KeyConstants DEF DEKRow
<1>2. CASE rows = {}
  BY <1>2 DEF Latest
<1>3. CASE rows # {}
  <2>1. PICK S : S = {e.ver : e \in rows}
    OBVIOUS
  <2>2. S \in SUBSET (0..MaxVersion) /\ S # {}
    BY <1>1, <1>3, <2>1
  <2>3. Max(S) \in S /\ \A y \in S : y <= Max(S)
    BY <1>1, <2>2, MaxInSet
  <2>4. PICK d \in rows : d.ver = Max(S)
    BY <2>1, <2>3
  <2>5. d \in Latest(rows)
    BY <2>1, <2>3, <2>4 DEF Latest
  <2>6. ASSUME NEW e \in Latest(rows) PROVE e.ver = Max(S)
    <3>1. e \in rows /\ d.ver <= e.ver /\ e.ver <= d.ver
      BY <2>1, <2>3, <2>4 DEF Latest
    <3> QED BY <1>1, <2>4, <3>1
  <2> QED BY <1>3, <2>1, <2>5, <2>6
<1> QED BY <1>2, <1>3

\* The listings of the four backends.
LEMMA Listings ==
  ASSUME RecordsInv, NEW k \in KEKs, keks[k] # NoRow, NEW alg, NEW b \in BOOLEAN, NEW s \in Subjects
  PROVE  /\ ListDEKVersions(k, s, alg, b) = {d.ver : d \in Filter(Rows(k, s), alg, b)}
         /\ backend # "cassandra" => (s \in ListDEKs(k, FALSE) <=> \E d \in Rows(k, s) : ~d.deleted)
         /\ backend = "cassandra" => (s \in ListDEKs(k, FALSE) <=>
                                        <<k, s>> \in byKek /\ \E d \in Rows(k, s) : ~d.deleted)
<1>1. backend \in Backends
  BY InvParts
<1>2. ListDEKVersions(k, s, alg, b) = {d.ver : d \in Filter(Rows(k, s), alg, b)}
  BY <1>1 DEF Backends, ListDEKVersions, MemListDEKVersions, CasListDEKVersions, PgListDEKVersions,
              MyListDEKVersions, VersionsWhere
<1>3. /\ backend = "memory" => ListDEKs(k, FALSE) = MemListDEKs(k, FALSE)
      /\ backend = "cassandra" => ListDEKs(k, FALSE) = CasListDEKs(k, FALSE)
      /\ backend = "postgres" => ListDEKs(k, FALSE) = PgListDEKs(k, FALSE)
      /\ backend = "mysql" => ListDEKs(k, FALSE) = MyListDEKs(k, FALSE)
  BY DEF ListDEKs
<1>4. s \in SubjectsWhere(k, FALSE) <=> \E d \in Rows(k, s) : ~d.deleted
  BY DEF SubjectsWhere, Filter
<1>5. s \in MemListDEKs(k, FALSE) <=> \E d \in Rows(k, s) : ~d.deleted
  BY DEF MemListDEKs
<1>6. s \in CasListDEKs(k, FALSE) <=> <<k, s>> \in byKek /\ \E d \in Rows(k, s) : ~d.deleted
  BY DEF CasListDEKs
<1> QED BY <1>1, <1>2, <1>3, <1>4, <1>5, <1>6 DEF Backends, PgListDEKs, MyListDEKs

\* The invariant implies that the tables agree.
LEMMA TablesFromInv ==
  ASSUME PurgesApart, RecordsInv
  PROVE  TablesAgree
<1>1. KeyTableInv /\ KeyTypeOK /\ backend \in Backends /\ ExporterTableInv
  BY InvParts, ExporterParts
<1>2. TypeOK
  BY <1>1 DEF RecordsInv, TypeOK, CallShape, Codes, ExporterTypeOK, ExporterTableInv
<1>3. NoOrphanDEK
  BY <1>1 DEF KeyTableInv
<1>4. StatusHasExporter
  <2>1. ListExporters = {n \in Names : exporters[n] # NoRow}
    BY <1>1 DEF Backends, ListExporters, MemListExporters, CasListExporters, PgListExporters, MyListExporters
  <2> QED BY <1>1, <2>1 DEF StatusHasExporter, ExporterTableInv
<1>5. backend = "cassandra" => Steady
  BY DEF PurgesApart, Steady, RecordsInv
<1>6. ListingComplete
  <2> SUFFICES ASSUME NEW k \in ListKEKs(TRUE), NEW s \in Subjects
               PROVE  /\ (s \in ListDEKs(k, FALSE)) <=> (GetDEK(k, s, AnyAlg, FALSE) # {})
                      /\ ListDEKVersions(k, s, AnyAlg, TRUE) =
                           {v \in 1..MaxVersion : GetDEKVersion(k, s, v, AnyAlg, TRUE) # {}}
                      /\ \A d \in GetDEK(k, s, AnyAlg, FALSE) :
                           d.ver = Max(ListDEKVersions(k, s, AnyAlg, FALSE))
    BY DEF ListingComplete
  <2>1. k \in KEKs /\ keks[k] # NoRow
    <3>1. ListKEKs(TRUE) = {j \in KEKs : KEKWhere(j, TRUE) # NoRow}
      BY <1>1 DEF Backends, ListKEKs, MemListKEKs, CasListKEKs, PgListKEKs, MyListKEKs, KEKWhere,
                  MemGetKEK, CasGetKEK
    <3> QED BY <3>1 DEF KEKWhere
  <2>2. PICK live, rows : /\ live = Filter(Rows(k, s), AnyAlg, FALSE) /\ rows = Filter(Rows(k, s), AnyAlg, TRUE)
    OBVIOUS
  <2>3. /\ live \in SUBSET DEKRow /\ rows \in SUBSET DEKRow /\ rows = Rows(k, s)
        /\ live = {d \in Rows(k, s) : ~d.deleted}
    BY <1>1, <2>2 DEF Filter, Rows, KeyTypeOK
  <2>4. GetDEK(k, s, AnyAlg, FALSE) = Latest(live)
    <3>1. GetDEK(k, s, AnyAlg, FALSE) = DEKWhere(k, s, 0, AnyAlg, FALSE)
      BY <1>1, DEKRead DEF GetDEK
    <3>2. DEKWhere(k, s, 0, AnyAlg, FALSE) = Latest(live)
      BY <2>2 DEF DEKWhere
    <3> QED BY <3>1, <3>2
  <2>5. ASSUME NEW v \in 1..MaxVersion PROVE GetDEKVersion(k, s, v, AnyAlg, TRUE) = {d \in rows : d.ver = v}
    <3>1. v # 0
      BY KeyConstants
    <3>2. GetDEKVersion(k, s, v, AnyAlg, TRUE) = DEKWhere(k, s, v, AnyAlg, TRUE)
      BY <1>1, DEKRead DEF GetDEKVersion
    <3>3. DEKWhere(k, s, v, AnyAlg, TRUE) = {d \in rows : d.ver = v}
      BY <2>2, <3>1 DEF DEKWhere
    <3> QED BY <3>2, <3>3
  <2>6. ListDEKVersions(k, s, AnyAlg, TRUE) = {d.ver : d \in rows}
    BY <2>1, <2>2, Listings
  <2>7. ListDEKVersions(k, s, AnyAlg, FALSE) = {d.ver : d \in live}
    BY <2>1, <2>2, Listings
  <2>8. (s \in ListDEKs(k, FALSE)) <=> live # {}
    <3>1. live # {} <=> \E d \in Rows(k, s) : ~d.deleted
      BY <2>3
    <3>2. CASE backend # "cassandra"
      BY <2>1, <3>1, <3>2, Listings
    <3>3. CASE backend = "cassandra"
      <4>1. live # {} => <<k, s>> \in byKek
        BY <1>1, <1>5, <2>3, <3>3 DEF KeyTableInv, ListedDEK, Rows
      <4> QED BY <2>1, <3>1, <3>3, <4>1, Listings
    <3> QED BY <3>2, <3>3
  <2>9. (s \in ListDEKs(k, FALSE)) <=> (GetDEK(k, s, AnyAlg, FALSE) # {})
    BY <2>3, <2>4, <2>8, LatestIs
  <2>10. {d.ver : d \in rows} = {v \in 1..MaxVersion : GetDEKVersion(k, s, v, AnyAlg, TRUE) # {}}
    <3>1. \A d \in rows : d.ver \in 1..MaxVersion
      BY <2>3 DEF DEKRow
    <3>2. \A v \in 1..MaxVersion : GetDEKVersion(k, s, v, AnyAlg, TRUE) # {} <=> \E d \in rows : d.ver = v
      BY <2>5
    <3> QED BY <3>1, <3>2
  <2>11. \A d \in GetDEK(k, s, AnyAlg, FALSE) : d.ver = Max(ListDEKVersions(k, s, AnyAlg, FALSE))
    <3>1. \A d \in Latest(live) : d.ver = Max({e.ver : e \in live})
      BY <2>3, LatestIs
    <3>2. \A d \in GetDEK(k, s, AnyAlg, FALSE) : d.ver = Max({e.ver : e \in live})
      BY <2>4, <3>1
    <3> QED BY <2>7, <3>2, Zenon
  <2> QED BY <2>6, <2>9, <2>10, <2>11
<1> QED BY <1>2, <1>3, <1>4, <1>6 DEF TablesAgree


-----------------------------------------------------------------------------
(* The theorems.                                                           *)

\* The invariant of the records holds in every state, whatever the workloads: the
\* rows are of their types, a DEK has one row, the plaintexts given belong to rows
\* there are, and what each request under way has read of the tables still holds as
\* far as its next statement relies on it.
THEOREM RecordsIntegrity == Spec => []RecordsInv
<1>1. Init => RecordsInv
  BY RecordsStart
<1>2. RecordsInv /\ [Next]_vars => RecordsInv'
  BY RecordsStep, RecordsStutter
<1> QED BY <1>1, <1>2, PTL DEF Spec

\* TablesAgree holds in every state, for any number of clients, keys, subjects and
\* exporters, on the four backends: a DEK has its KEK, a status its exporter, and
\* the listings show what is there.
THEOREM RecordsTablesAgree ==
  ASSUME PurgesApart
  PROVE  Spec => []TablesAgree
<1>1. RecordsInv => TablesAgree
  BY TablesFromInv
<1> QED BY <1>1, RecordsIntegrity, PTL

\* KeyMaterialKept holds in every state: a DEK unwraps to the plaintext its creator
\* was given, through any interleaving of creates, deletes and rewraps.
THEOREM RecordsKeyMaterialKept ==
  ASSUME RewrapsApart
  PROVE  Spec => []KeyMaterialKept
<1>1. RecordsInv => KeyMaterialKept
  BY DEF RecordsInv, KeyTableInv, RewrapsApart, Tame, Steady
<1> QED BY <1>1, RecordsIntegrity, PTL

\* KeysChangeAsAsked holds of every step: a deleted KEK or DEK comes back by an
\* undelete only, a row appears by a create only, and where rewraps come one after
\* the other (Swept, which the property names) none goes back to an older wrapping key.
THEOREM RecordsKeysChangeAsAsked ==
  ASSUME RewrapsApart, UpdatesApart
  PROVE  Spec => KeysChangeAsAsked
<1>1. ASSUME RecordsInv, Next PROVE KEKSticks /\ DEKSticks /\ Appears /\ (Swept => Advances)
  <2>1. FlagSafe /\ Tame
    BY <1>1 DEF RecordsInv, RewrapsApart, UpdatesApart, FlagSafe, Tame, Steady
  <2> QED BY <1>1, <2>1, RecordsStep DEF KeysAsked
<1>2. UNCHANGED vars => UNCHANGED keyTables
  BY DEF vars, keyVars, keyTables
<1>3. RecordsInv /\ [Next]_vars =>
        [/\ \A k \in KEKs : (keks[k] # NoRow /\ keks[k].deleted /\ keks'[k] # NoRow /\ ~keks'[k].deleted)
                               => StepOf({"UndeleteKEK"})
         /\ \A d \in deks, e \in deks' : (RowOf(d) = RowOf(e) /\ d.deleted /\ ~e.deleted)
                               => StepOf({"UndeleteDEK"})]_keyTables
  BY <1>1, <1>2 DEF KEKSticks, DEKSticks
<1>4. RecordsInv /\ [Next]_vars =>
        [backend # "cassandra" \/ load.serial =>
           /\ \A k \in KEKs : (keks[k] = NoRow /\ keks'[k] # NoRow) => StepOf({"CreateKEK"})
           /\ {RowOf(d) : d \in deks'} \subseteq {RowOf(d) : d \in deks} \/ StepOf({"CreateDEK"})]_keyTables
  BY <1>1, <1>2 DEF Appears
<1>5. RecordsInv /\ [Next]_vars =>
        [Swept => \A d \in deks, e \in deks' :
           (RowOf(d) = RowOf(e) /\ d.mat # NoRow /\ e.mat # NoRow) => d.mat.gen <= e.mat.gen]_keyTables
  BY <1>1, <1>2 DEF Advances
<1>6. Spec => DeletionSticks
  BY <1>3, RecordsIntegrity, PTL DEF Spec, DeletionSticks
<1>7. Spec => AppearsByCreate
  BY <1>4, RecordsIntegrity, PTL DEF Spec, AppearsByCreate
<1>8. Spec => RewrapAdvances
  BY <1>5, RecordsIntegrity, PTL DEF Spec, RewrapAdvances
<1> QED BY <1>6, <1>7, <1>8 DEF KeysChangeAsAsked

\* What the backends answer for an exporter, before and after a step.
LEMMA RunningIs ==
  ASSUME backend \in Backends, backend' = backend, NEW n \in Names
  PROVE  /\ GetExporter(n) = exporters[n] /\ GetExporter(n)' = exporters'[n]
         /\ Running(n) <=> RunningRow(n)
         /\ Running(n)' <=> RunningRow(n)'
<1>1. GetExporter(n) = exporters[n] /\ GetExporter(n)' = exporters'[n]
  BY DEF Backends, GetExporter, MemGetExporter, CasGetExporter, PgGetExporter, MyGetExporter
<1>2. GetExporterStatus(n) = StatusRead(n) /\ GetExporterStatus(n)' = StatusRead(n)'
  BY DEF Backends, GetExporterStatus, MemGetExporterStatus, CasGetExporterStatus, PgGetExporterStatus,
         MyGetExporterStatus
<1>3. Running(n) <=> RunningRow(n)
  <2>1. CASE exporters[n] = NoRow
    BY <1>1, <2>1 DEF Running, RunningRow
  <2>2. CASE exporters[n] # NoRow /\ statuses[n] = NoRow
    <3>1. StatusRead(n).state = "PAUSED"
      BY <2>2 DEF StatusRead, NewStatus
    <3> QED BY <1>2, <2>2, <3>1 DEF Running, RunningRow
  <2>3. CASE exporters[n] # NoRow /\ statuses[n] # NoRow
    <3>1. StatusRead(n) = statuses[n]
      BY <2>3 DEF StatusRead
    <3> QED BY <1>1, <1>2, <2>3, <3>1 DEF Running, RunningRow
  <2> QED BY <2>1, <2>2, <2>3
<1>4. Running(n)' <=> RunningRow(n)'
  <2>1. CASE exporters'[n] = NoRow
    BY <1>1, <2>1 DEF Running, RunningRow
  <2>2. CASE exporters'[n] # NoRow /\ statuses'[n] = NoRow
    <3>1. StatusRead(n)'.state = "PAUSED"
      BY <2>2 DEF StatusRead, NewStatus
    <3> QED BY <1>2, <2>2, <3>1 DEF Running, RunningRow
  <2>3. CASE exporters'[n] # NoRow /\ statuses'[n] # NoRow
    <3>1. StatusRead(n)' = statuses'[n]
      BY <2>3 DEF StatusRead
    <3> QED BY <1>1, <1>2, <2>3, <3>1 DEF Running, RunningRow
  <2> QED BY <2>1, <2>2, <2>3
<1> QED BY <1>1, <1>3, <1>4

\* ExportersChangeAsAsked holds of every step: an exporter comes into being by a
\* create only, and one that is new or paused runs only when it is resumed.
THEOREM RecordsExportersChangeAsAsked ==
  ASSUME ResetsApart
  PROVE  Spec => ExportersChangeAsAsked
<1>1. ASSUME RecordsInv, Next PROVE ExporterAppears /\ ExporterRuns /\ ResetSafe
  <2>1. ResetSafe
    BY <1>1 DEF RecordsInv, ResetsApart, ResetSafe
  <2> QED BY <1>1, <2>1, RecordsStep DEF ExportersAsked
<1>2. UNCHANGED vars => UNCHANGED exporterVars
  BY DEF vars
<1>3. ASSUME RecordsInv, Next, NEW n \in Names
      PROVE  /\ GetExporter(n) = exporters[n] /\ GetExporter(n)' = exporters'[n]
             /\ Running(n) <=> RunningRow(n)
             /\ Running(n)' <=> RunningRow(n)'
  <2>1. backend \in Backends
    BY <1>3, InvParts
  <2>2. backend' = backend
    BY <1>3 DEF Next, KmsRotate
  <2> QED BY <2>1, <2>2, RunningIs
<1>4. RecordsInv /\ [Next]_vars =>
        [Checked /\ OneRecord =>
           \A n \in Names : (~Running(n) /\ Running(n)') => StepOf({"ResumeExporter"})]_exporterVars
  BY <1>1, <1>2, <1>3 DEF ExporterRuns
<1>5. RecordsInv /\ [Next]_vars =>
        [Checked => \A n \in Names : (GetExporter(n) = NoRow /\ GetExporter(n)' # NoRow)
                                        => StepOf({"CreateExporter"})]_exporterVars
  BY <1>1, <1>2, <1>3 DEF ExporterAppears
<1>6. Spec => RunsOnlyIfResumed
  BY <1>4, RecordsIntegrity, PTL DEF Spec, RunsOnlyIfResumed
<1>7. Spec => ExporterByCreate
  BY <1>5, RecordsIntegrity, PTL DEF Spec, ExporterByCreate
<1> QED BY <1>6, <1>7 DEF ExportersChangeAsAsked
=============================================================================
