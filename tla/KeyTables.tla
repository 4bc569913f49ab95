----------------------------- MODULE KeyTables -----------------------------
(***************************************************************************)
(* The key encryption keys (KEKs) and data encryption keys (DEKs) of the   *)
(* DEK registry as every backend keeps them, and the queries on them.      *)
(***************************************************************************)
EXTENDS Records

CONSTANTS KEKs,         \* KEK names
          Subjects,     \* subject names
          Algorithms,   \* the algorithms of the DEKs in use
          MaxVersion,   \* bound: no DEK is created above this version
          MaxGen        \* bound on the rotations of the key service

AnyAlg == "any"    \* no algorithm in the query string
NoAlg == "none"    \* the column is null

VARIABLES keks,     \* name -> record, or NoRow
          deks,     \* the DEK rows
          byKek,    \* deks_by_kek, in Cassandra only: <<kek, subject>>
          kmsGen,   \* the key service's current version of the wrapping key
          given     \* the plaintext keys that creators were given, by row

keyTables == <<keks, deks, byKek>>
keyVars == <<keks, deks, byKek, kmsGen, given>>

\* Wrapped key material: the plaintext it unwraps to, and the version of the
\* wrapping key it is wrapped with.
Wrapped == [plain : Nat, gen : 1..MaxGen]
KEKRow == [shared : BOOLEAN, doc : BOOLEAN, deleted : BOOLEAN]
DEKRow == [kek : KEKs, subj : Subjects, ver : 1..MaxVersion, alg : Algorithms \cup {NoAlg},
           mat : Wrapped \cup {NoRow}, deleted : BOOLEAN]

ASSUME KeyAssumption ==
  /\ IsFiniteSet(Clients) /\ MaxVersion \in Nat /\ MaxGen \in Nat \ {0}
  /\ AnyAlg \notin Algorithms /\ NoAlg \notin Algorithms
  /\ \A l \in Loads : l.algs \subseteq Algorithms \cup {AnyAlg}
  /\ NoRow \notin KEKRow /\ NoRow \notin Wrapped

KeysInit ==
  /\ keks = [k \in KEKs |-> NoRow]
  /\ deks = {} /\ byKek = {} /\ given = {}
  /\ kmsGen = 1

Rows(k, s) == {d \in deks : d.kek = k /\ d.subj = s}
Filter(rows, alg, includeDeleted) ==
  {d \in rows : (alg = AnyAlg \/ d.alg = alg) /\ (includeDeleted \/ ~d.deleted)}
Latest(rows) == {d \in rows : \A e \in rows : e.ver <= d.ver}
NextVersion(k, s) == Max({0} \cup {d.ver : d \in Rows(k, s)}) + 1
Mark(rows, flag) == (deks \ rows) \cup {[d EXCEPT !.deleted = flag] : d \in rows}

\* The rows a request for `version` is about; 0 stands for all of them (-1 in
\* the code).
Target(in, alg) == {d \in Filter(Rows(in.kek, in.subj), alg, TRUE) : in.ver \in {0, d.ver}}

\* A plaintext key nobody has seen.
Plains == {d.mat.plain : d \in {e \in deks : e.mat # NoRow}} \cup {g.plain : g \in given}
          \cup {call[c].in.mat.plain : c \in {d \in Clients :
                   call[d].in # NoRow /\ "mat" \in DOMAIN call[d].in /\ call[d].in.mat # NoRow}}
FreshPlain == Min((1..(Cardinality(Plains) + 1)) \ Plains)

RowOf(d) == <<d.kek, d.subj, d.ver, d.alg>>
Told(row) == {g.plain : g \in {h \in given : h.row = row}}

\* The row a create inserts.
NewRow(in, v) ==
  [kek |-> in.kek, subj |-> in.subj, ver |-> v, alg |-> in.alg, mat |-> in.mat, deleted |-> FALSE]

\* The insert of a create: in `conflicts` are the rows with its primary key.
InsertDEK(c, row, conflicts) ==
  IF conflicts # {} THEN Return(c, "dekExists") /\ UNCHANGED keyVars
  ELSE /\ deks' = deks \cup {row}
       /\ given' = IF row.mat = NoRow THEN given
                   ELSE given \cup {[row |-> RowOf(row), plain |-> row.mat.plain]}
       /\ Return(c, "nil")
       /\ UNCHANGED <<keks, byKek, kmsGen>>

\* Rows leave the table; what was said of them is history.
RemoveDEKs(rows) ==
  /\ deks' = deks \ rows
  /\ given' = {g \in given : \A d \in rows : g.row # RowOf(d)}

InsertKEK(c) ==
  LET in == call[c].in IN
  /\ At(c, "CreateKEK", "store")
  /\ IF keks[in.kek] # NoRow THEN Return(c, "kekExists") /\ UNCHANGED keks
     ELSE keks' = [keks EXCEPT ![in.kek] = in.rec] /\ Return(c, "nil")
  /\ UNCHANGED <<deks, byKek, kmsGen, given>>

\* An UPDATE of one KEK that reports how many rows it changed.
UpdateKEKRow(c, when, row) ==
  LET k == call[c].in.kek IN
  /\ IF keks[k] = NoRow \/ ~when THEN Return(c, "kekNotFound") /\ UNCHANGED keks
     ELSE keks' = [keks EXCEPT ![k] = row] /\ Return(c, "nil")
  /\ UNCHANGED <<deks, byKek, kmsGen, given>>

\* An UPDATE or DELETE of the DEKs in `rows` that fails when there are none.
ChangeDEKs(c, rows, permanent, flag) ==
  /\ IF rows = {} THEN Return(c, "dekNotFound") /\ UNCHANGED <<deks, given>>
     ELSE /\ IF permanent THEN RemoveDEKs(rows) ELSE deks' = Mark(rows, flag) /\ UNCHANGED given
          /\ Return(c, "nil")
  /\ UNCHANGED <<keks, byKek, kmsGen>>

\* The rewrapped material replaces the material of `rows`.
RewriteDEKs(c, rows) ==
  /\ IF rows = {} THEN Return(c, "dekNotFound") /\ UNCHANGED deks
     ELSE /\ deks' = (deks \ rows) \cup {[d EXCEPT !.mat = call[c].in.mat] : d \in rows}
          /\ Return(c, "nil")
  /\ UNCHANGED <<keks, byKek, kmsGen, given>>
=============================================================================
