------------------------- MODULE SQLBackendsProofs -------------------------
(***************************************************************************)
(* Registrations, soft deletes and settings on PostgreSQL and on MySQL,    *)
(* for any number of clients, contents, versions and retries, interleaved  *)
(* statement by statement.                                                 *)
(*                                                                         *)
(* The proof rests on what a transaction has locked.  The allocator row is *)
(* held by one registration at a time, from its read to its commit, so the *)
(* ID it read is still the next one when it commits (Carries), and nobody  *)
(* else can claim a mapping in between (Knows).  The rows it inserted or   *)
(* removed are its own (LocksApart), so a commit does not disturb what the *)
(* others hold (CommitOthers).  Every other statement reads, or marks rows *)
(* as deleted, which the mappings do not depend on.                        *)
(*                                                                         *)
(* That one content gets one live version (FreshInv) has no lock to rest   *)
(* on: versions have no gap, so a registration that inserts version v has  *)
(* read a state with all the versions below v in it, none with its content *)
(* and metadata; and a version above v cannot be there while v is free.    *)
(* A soft delete breaks it, since the purge then frees a version number.   *)
(***************************************************************************)
EXTENDS SQLBackends, WellFoundedInduction, TLAPS

\* The workload registers, soft-deletes and configures: it imports nothing, and
\* deletes nothing for good.
Additive ==
  \A r \in Calls[load] :
    r.op # "import" /\ (r.op \in {"deleteVersion", "deleteSubject"} => r.permanent = FALSE)

\* The workload registers and configures only.
Adding == \A r \in Calls[load] : r.op \in {"create", "set", "unset"}

-----------------------------------------------------------------------------
(* The invariant.                                                          *)

\* Where a registration holds the allocator row; has inserted its version; may
\* have removed others; has a version in hand.
Holding == {"claim", "resolve", "commit"}
Inserting == {"allocShared", "alloc"} \cup Holding
Removing == {"insert"} \cup Inserting
Versioned == {"content", "purge"} \cup Removing
Creates == {"max", "duplicate"} \cup Versioned
Softs == {"softVersion", "softRead", "softSubject"}
Places == {"idle", "setting"} \cup Creates \cup Softs

RowType == [fp : Fingerprints, meta : Metas, deleted : BOOLEAN]

\* What the variables hold.
ClientShape ==
  /\ engine \in Engines /\ load \in Loads
  /\ pc \in [Clients -> Places]
  /\ req \in [Clients -> RequestType \cup {NoRequest}]
  /\ loc \in [Clients -> Locals]

\* The contents in use.
ContentsUsed == {schemas[k].fp : k \in DOMAIN schemas}

\* The references that the contents in use have.
ReferencesUsed == UNION {{fingerprints[f]} \X Refs[f] : f \in DOMAIN fingerprints}

\* The versions are rows, and finitely many in a subject.
RowsInv ==
  /\ DOMAIN schemas \subseteq Subjects \X (Nat \ {0})
  /\ \A k \in DOMAIN schemas : schemas[k] \in RowType
  /\ \A s \in Subjects : \E b \in Nat : \A v \in VersionsOf(s) : v <= b

\* Each content in use has its mapping, to an ID of its own that the allocator
\* has passed, and its references.
MappingInv ==
  /\ nextId \in Nat \ {0}
  /\ DOMAIN fingerprints = ContentsUsed
  /\ \A f \in DOMAIN fingerprints : fingerprints[f] \in 1..(nextId - 1)
  /\ \A f, g \in DOMAIN fingerprints : fingerprints[f] = fingerprints[g] => f = g
  /\ references = ReferencesUsed

TableInv == RowsInv /\ MappingInv /\ settings \subseteq Subjects \X {"configs", "modes"}

\* The subject has the content, under some version.
Holds(s, fp) == \E k \in DOMAIN schemas : k[1] = s /\ schemas[k].fp = fp

\* The versions that a client at place p with locals l has locked.
Held(p, l) == l.purge \cup (IF p \in Inserting THEN {l.version} ELSE {})

\* No version, and not the allocator, is locked twice.
LocksApart ==
  \A c, d \in Clients : c # d =>
    /\ req[c].subject = req[d].subject => Held(pc[c], loc[c]) \cap Held(pc[d], loc[d]) = {}
    /\ loc[c].alloc = 0 \/ loc[d].alloc = 0

\* The request r that is served at place p.
Serves(p, r) ==
  /\ p # "idle" => r \in Calls[load]
  /\ p \in Creates => r.op = "create"
  /\ p \in Softs => r.op \in {"deleteVersion", "deleteSubject"}
  /\ p = "softVersion" => r.op = "deleteVersion"
  /\ p = "setting" => r.op \in {"set", "unset"}

\* What the locals l are at place p.
Carries(p, l) ==
  /\ p \in Holding => l.alloc = nextId
  /\ p \notin Holding => l.alloc = 0
  /\ p \notin {"resolve", "commit"} => l.claimed = FALSE
  /\ p \notin Removing => l.purge = {}
  /\ p \in Versioned => l.version # 0

\* What locals l of request r say of the tables at place p: the versions to remove
\* have the content registered; the version inserted is free or to be removed; and
\* the mapping claimed is not there, that not claimed is.
Knows(p, r, l) ==
  /\ p = "duplicate" => Holds(r.subject, r.fp)
  /\ \A v \in l.purge : /\ <<r.subject, v>> \in DOMAIN schemas
                        /\ schemas[<<r.subject, v>>].fp = r.fp
  /\ p \in Inserting => <<r.subject, l.version>> \notin DOMAIN schemas \/ l.version \in l.purge
  /\ p \in {"resolve", "commit"} => (l.claimed <=> r.fp \notin DOMAIN fingerprints)
  /\ p = "commit" => l.id = IF l.claimed THEN l.alloc ELSE fingerprints[r.fp]

Fits(p, r, l) == Serves(p, r) /\ Carries(p, l) /\ Knows(p, r, l)

\* What was answered is stored.
AnswersStored ==
  \A p \in promised :
    /\ p.fp \in DOMAIN fingerprints /\ fingerprints[p.fp] = p.id
    /\ Holds(p.subject, p.fp)

\* The inductive invariant.
SQLInv ==
  /\ ClientShape /\ TableInv /\ LocksApart /\ AnswersStored
  /\ \A c \in Clients : Fits(pc[c], req[c], loc[c])

-----------------------------------------------------------------------------
(* Without deletes: versions have no gap, and a registration that is past  *)
(* its check knows all the versions below its own.                         *)
Below(s, v) == \A w \in 1..(v - 1) : <<s, w>> \in DOMAIN schemas
NewBelow(r, v) ==
  \A w \in 1..(v - 1) :
    ~(schemas[<<r.subject, w>>].fp = r.fp /\ schemas[<<r.subject, w>>].meta = r.meta)

\* What a registration has in hand.
Past(p, r, l) ==
  /\ p # "purge" /\ l.purge = {}
  /\ p \in Versioned => Below(r.subject, l.version)
  /\ p \in Removing => NewBelow(r, l.version)

OneVersionEach ==
  \A s \in Subjects : \A v, w \in Live(s) :
     schemas[<<s, v>>].fp = schemas[<<s, w>>].fp /\ schemas[<<s, v>>].meta = schemas[<<s, w>>].meta
     => v = w

FreshInv ==
  /\ \A k \in DOMAIN schemas : schemas[k].deleted = FALSE /\ Below(k[1], k[2])
  /\ \A c \in Clients : Past(pc[c], req[c], loc[c])
  /\ OneVersionEach

-----------------------------------------------------------------------------
(* Facts about the operators.                                              *)

\* A bounded non-empty set of numbers has a greatest element, which Highest finds.
LEMMA HighestBounded ==
  ASSUME NEW N \in SUBSET Nat, N # {}, NEW b \in Nat, \A v \in N : v <= b
  PROVE  Highest(N) \in N /\ \A m \in N : m <= Highest(N)
<1> DEFINE U == {u \in Nat : \A m \in N : m <= u}
           R == OpToRel(<, Nat)
<1>1. IsWellFoundedOn(R, Nat)
  BY NatLessThanWellFounded
<1>2. U \subseteq Nat /\ U # {}
  OBVIOUS
<1>3. PICK u \in U : \A y \in U : <<y, u>> \notin R
  <2> HIDE DEF U, R
  <2> QED BY <1>1, <1>2, WFMin
<1>4. \A y \in U : ~(y < u)
  BY <1>3 DEF OpToRel
<1>5. u \in N
  <2> SUFFICES ASSUME u \notin N PROVE FALSE
    OBVIOUS
  <2>1. \A m \in N : m < u
    OBVIOUS
  <2>2. PICK m \in N : TRUE
    OBVIOUS
  <2>3. u - 1 \in U
    BY <2>1, <2>2
  <2> QED BY <1>4, <2>3
<1> QED BY <1>5 DEF Highest

\* The versions of a subject are those that have a row.
LEMMA VersionRows ==
  ASSUME RowsInv, NEW s \in Subjects
  PROVE  /\ VersionsOf(s) = {v \in Nat \ {0} : <<s, v>> \in DOMAIN schemas}
         /\ Live(s) = {v \in VersionsOf(s) : schemas[<<s, v>>].deleted = FALSE}
<1>1. \A v : v \in VersionsOf(s) => v \in Nat \ {0} /\ <<s, v>> \in DOMAIN schemas
  BY DEF RowsInv, VersionsOf
<1>2. \A v \in Nat \ {0} : <<s, v>> \in DOMAIN schemas => v \in VersionsOf(s)
  <2> SUFFICES ASSUME NEW v \in Nat \ {0}, <<s, v>> \in DOMAIN schemas PROVE v \in VersionsOf(s)
    OBVIOUS
  <2>1. <<s, v>>[1] = s /\ <<s, v>>[2] = v
    OBVIOUS
  <2> QED BY <2>1 DEF VersionsOf
<1>3. \A v \in VersionsOf(s) : schemas[<<s, v>>].deleted \in BOOLEAN
  BY <1>1 DEF RowsInv, RowType
<1> QED BY <1>1, <1>2, <1>3 DEF Live

\* The highest version of a subject, if it has any.
LEMMA HighestVersion ==
  ASSUME RowsInv, NEW s \in Subjects
  PROVE  /\ Highest(VersionsOf(s)) \in Nat
         /\ \A v \in VersionsOf(s) : v <= Highest(VersionsOf(s))
         /\ VersionsOf(s) # {} => Highest(VersionsOf(s)) \in VersionsOf(s)
         /\ Live(s) # {} => Highest(Live(s)) \in Live(s) /\ \A v \in Live(s) : v <= Highest(Live(s))
<1>1. VersionsOf(s) \in SUBSET Nat /\ Live(s) \in SUBSET Nat /\ Live(s) \subseteq VersionsOf(s)
  BY VersionRows
<1>2. PICK b \in Nat : \A v \in VersionsOf(s) : v <= b
  BY DEF RowsInv
<1>3. CASE VersionsOf(s) = {}
  BY <1>1, <1>3 DEF Highest
<1>4. CASE VersionsOf(s) # {}
  <2>1. Highest(VersionsOf(s)) \in VersionsOf(s) /\ \A v \in VersionsOf(s) : v <= Highest(VersionsOf(s))
    BY <1>1, <1>2, <1>4, HighestBounded
  <2>2. Live(s) # {} => Highest(Live(s)) \in Live(s) /\ \A v \in Live(s) : v <= Highest(Live(s))
    BY <1>1, <1>2, HighestBounded
  <2> QED BY <1>1, <1>4, <2>1, <2>2
<1> QED BY <1>3, <1>4

-----------------------------------------------------------------------------
(* The read paths.                                                         *)

\* The references listed under an ID in use are those of its content.
LEMMA ReferencesOfID ==
  ASSUME TableInv, NEW f \in DOMAIN fingerprints
  PROVE  LoadReferences(fingerprints[f]) = Refs[f]
<1> DEFINE id == fingerprints[f]
<1>1. f \in Fingerprints /\ Refs[f] \subseteq SubjectVersion
  BY SQLAssumption DEF TableInv, MappingInv, RowsInv, ContentsUsed, RowType
<1>2. ASSUME NEW y \in LoadReferences(id) PROVE y \in Refs[f]
  <2>1. PICK x \in references : x[1] = id /\ x[2] = y
    BY <1>2 DEF LoadReferences
  <2>2. PICK g \in DOMAIN fingerprints : x \in {fingerprints[g]} \X Refs[g]
    BY <2>1 DEF TableInv, MappingInv, ReferencesUsed
  <2>3. g = f
    BY <2>1, <2>2 DEF TableInv, MappingInv
  <2> QED BY <2>1, <2>2, <2>3
<1>3. ASSUME NEW y \in Refs[f] PROVE y \in LoadReferences(id)
  <2>1. <<id, y>> \in references
    BY DEF TableInv, MappingInv, ReferencesUsed
  <2>2. <<id, y>>[1] = id /\ <<id, y>>[2] = y
    OBVIOUS
  <2> QED BY <2>1, <2>2 DEF LoadReferences
<1> QED BY <1>2, <1>3

\* What a row that is listed says: its own subject, version and content, with the
\* ID and the references of the content.
LEMMA RecordOf ==
  ASSUME TableInv, NEW s \in Subjects, NEW v \in VersionsOf(s)
  PROVE  /\ Record(<<s, v>>).subject = s /\ Record(<<s, v>>).version = v
         /\ Record(<<s, v>>).fp = schemas[<<s, v>>].fp
         /\ schemas[<<s, v>>].fp \in DOMAIN fingerprints
         /\ GlobalSchemaID(schemas[<<s, v>>].fp) = fingerprints[schemas[<<s, v>>].fp]
         /\ fingerprints[schemas[<<s, v>>].fp] \in Nat \ {0}
         /\ Record(<<s, v>>).id = fingerprints[schemas[<<s, v>>].fp]
         /\ Record(<<s, v>>).refs = Refs[schemas[<<s, v>>].fp]
<1> DEFINE f == schemas[<<s, v>>].fp
<1>1. <<s, v>> \in DOMAIN schemas
  BY VersionRows DEF TableInv
<1>2. f \in DOMAIN fingerprints
  BY <1>1 DEF TableInv, MappingInv, ContentsUsed
<1>3. GlobalSchemaID(f) = fingerprints[f] /\ fingerprints[f] \in Nat \ {0}
  BY <1>2 DEF GlobalSchemaID, TableInv, MappingInv
<1>4. LoadReferences(fingerprints[f]) = Refs[f]
  BY <1>2, ReferencesOfID
<1> QED BY <1>2, <1>3, <1>4 DEF Record

\* A live version is listed, in its subject and among all, and so are only live versions.
LEMMA ListedRows ==
  ASSUME TableInv
  PROVE  /\ \A s \in Subjects : \A v \in Live(s) :
               Record(<<s, v>>) \in BySubject(s, FALSE) /\ Record(<<s, v>>) \in Listed(FALSE)
         /\ \A s \in Subjects : \A r \in BySubject(s, FALSE) : \E v \in Live(s) : r = Record(<<s, v>>)
         /\ \A r \in Listed(FALSE) : \E s \in Subjects : \E v \in Live(s) : r = Record(<<s, v>>)
<1>1. \A s \in Subjects : \A v \in Live(s) : Record(<<s, v>>) \in BySubject(s, FALSE)
  BY DEF BySubject
<1>2. \A s \in Subjects : \A r \in BySubject(s, FALSE) : \E v \in Live(s) : r = Record(<<s, v>>)
  BY DEF BySubject
<1>3. \A s \in Subjects : \A r \in BySubject(s, FALSE) : r \in Listed(FALSE)
  BY DEF Listed
<1>4. \A r \in Listed(FALSE) : \E s \in Subjects : r \in BySubject(s, FALSE)
  BY DEF Listed
<1> QED BY <1>1, <1>2, <1>3, <1>4

\* Every read path that leads to a live version finds it and agrees on its ID.
LEMMA VersionShown ==
  ASSUME TableInv, NEW s \in Subjects, NEW v \in Live(s)
  PROVE  LET f == schemas[<<s, v>>].fp  id == GlobalSchemaID(f) IN
         /\ \A r \in ByVersion(s, v) : r.id = id
         /\ \E r \in ByContent(s, f, FALSE) : r.version = v
         /\ \E r \in BySubject(s, FALSE) : r.version = v
         /\ \A r \in {q \in Listed(FALSE) : q.fp = f} : r.id = id
         /\ ByID(id) # {} /\ \A r \in ByID(id) : r.fp = f /\ r.refs = Refs[f]
         /\ <<s, v>> \in UsersOfID(id, FALSE) /\ s \in {k[1] : k \in UsersOfID(id, FALSE)}
         /\ \A w \in Refs[f] : <<s, v>> \in ReferencedBy(w[1], w[2])
         /\ Live(s) # {} /\ s \in {r.subject : r \in Listed(FALSE)}
         /\ Latest(s) \subseteq LatestOnly(Listed(FALSE))
         /\ \A r \in Latest(s) : r.version >= v
<1> DEFINE f == schemas[<<s, v>>].fp
           id == GlobalSchemaID(f)
           me == Record(<<s, v>>)
<1>0. RowsInv
  BY DEF TableInv
<1>1. \A t \in Subjects : Live(t) \subseteq VersionsOf(t)
  BY DEF Live
<1>2. \A t \in Subjects : \A u \in Live(t) :
        /\ Record(<<t, u>>).subject = t /\ Record(<<t, u>>).version = u
        /\ Record(<<t, u>>).fp = schemas[<<t, u>>].fp
        /\ Record(<<t, u>>).id = fingerprints[schemas[<<t, u>>].fp]
  <2> SUFFICES ASSUME NEW t \in Subjects, NEW u \in Live(t)
               PROVE  /\ Record(<<t, u>>).subject = t /\ Record(<<t, u>>).version = u
                      /\ Record(<<t, u>>).fp = schemas[<<t, u>>].fp
                      /\ Record(<<t, u>>).id = fingerprints[schemas[<<t, u>>].fp]
    OBVIOUS
  <2>1. u \in VersionsOf(t)
    BY <1>1
  <2> QED BY <2>1, RecordOf
<1>3. /\ f \in DOMAIN fingerprints /\ id = fingerprints[f] /\ id # 0 /\ id # NoMapping
      /\ me.subject = s /\ me.version = v /\ me.fp = f /\ me.id = id /\ me.refs = Refs[f]
  <2>1. v \in VersionsOf(s)
    BY <1>1
  <2> QED BY <2>1, RecordOf DEF NoMapping
<1>4. me \in BySubject(s, FALSE) /\ me \in Listed(FALSE)
  BY ListedRows
<1>5. \A r \in BySubject(s, FALSE) : \E u \in Live(s) : r = Record(<<s, u>>)
  BY ListedRows
<1>6. \A r \in Listed(FALSE) : \E t \in Subjects : \E u \in Live(t) : r = Record(<<t, u>>)
  BY ListedRows
<1>7. <<s, v>> \in DOMAIN schemas /\ ~schemas[<<s, v>>].deleted
  BY VersionRows, <1>0 DEF Live
<1> HIDE DEF f, id, me
<1>8. \A r \in ByVersion(s, v) : r.id = id
  <2> SUFFICES ASSUME NEW r \in ByVersion(s, v) PROVE r.id = id
    OBVIOUS
  <2>1. r \in BySubject(s, FALSE) /\ r.version = v
    BY DEF ByVersion
  <2>2. PICK u \in Live(s) : r = Record(<<s, u>>)
    BY <2>1, <1>5
  <2>3. u = v
    BY <2>1, <2>2, <1>2
  <2> QED BY <2>2, <2>3, <1>3 DEF me
<1>9. /\ \E r \in ByContent(s, f, FALSE) : r.version = v
      /\ \E r \in BySubject(s, FALSE) : r.version = v
  BY <1>3, <1>4 DEF ByContent
<1>10. \A r \in {q \in Listed(FALSE) : q.fp = f} : r.id = id
  <2> SUFFICES ASSUME NEW r \in Listed(FALSE), r.fp = f PROVE r.id = id
    OBVIOUS
  <2>1. PICK t \in Subjects : \E u \in Live(t) : r = Record(<<t, u>>)
    BY <1>6
  <2>2. PICK u \in Live(t) : r = Record(<<t, u>>)
    BY <2>1
  <2>3. r.id = fingerprints[schemas[<<t, u>>].fp] /\ schemas[<<t, u>>].fp = r.fp
    BY <2>2, <1>2
  <2> QED BY <2>3, <1>3
<1>11. ByID(id) # {} /\ \A r \in ByID(id) : r.fp = f /\ r.refs = Refs[f]
  <2> DEFINE all == {k \in DOMAIN schemas : GlobalSchemaID(schemas[k].fp) = id /\ id # NoMapping}
             live == {k \in all : ~schemas[k].deleted}
  <2>1. <<s, v>> \in live
    BY <1>3, <1>7 DEF id, f
  <2>2. ByID(id) = {Record(k) : k \in live}
    BY <2>1 DEF ByID
  <2>3. ASSUME NEW k \in live PROVE Record(k).fp = f /\ Record(k).refs = Refs[f]
    <3>1. k \in DOMAIN schemas /\ GlobalSchemaID(schemas[k].fp) = id
      OBVIOUS
    <3>2. k = <<k[1], k[2]>> /\ k[1] \in Subjects /\ k[2] \in VersionsOf(k[1])
      <4>1. k = <<k[1], k[2]>> /\ k[1] \in Subjects /\ k[2] \in Nat \ {0}
        BY <3>1, <1>0 DEF RowsInv
      <4>2. VersionsOf(k[1]) = {u \in Nat \ {0} : <<k[1], u>> \in DOMAIN schemas}
        BY <4>1, <1>0, VersionRows
      <4>3. <<k[1], k[2]>> \in DOMAIN schemas
        BY <4>1, <3>1
      <4> QED BY <4>1, <4>2, <4>3
    <3>3. /\ Record(k).fp = schemas[k].fp /\ Record(k).refs = Refs[schemas[k].fp]
          /\ schemas[k].fp \in DOMAIN fingerprints
          /\ GlobalSchemaID(schemas[k].fp) = fingerprints[schemas[k].fp]
      BY <3>2, RecordOf
    <3>4. schemas[k].fp = f
      BY <3>1, <3>3, <1>3 DEF TableInv, MappingInv
    <3> QED BY <3>3, <3>4
  <2> HIDE DEF live, all
  <2> QED BY <2>1, <2>2, <2>3
<1>12. <<s, v>> \in UsersOfID(id, FALSE)
  BY <1>3, <1>4 DEF UsersOfID
<1>13. s \in {k[1] : k \in UsersOfID(id, FALSE)}
  <2>1. <<s, v>>[1] = s
    OBVIOUS
  <2> QED BY <1>12, <2>1
<1>14. \A w \in Refs[f] : <<s, v>> \in ReferencedBy(w[1], w[2])
  <2> SUFFICES ASSUME NEW w \in Refs[f] PROVE <<s, v>> \in ReferencedBy(w[1], w[2])
    OBVIOUS
  <2>1. f \in Fingerprints
    BY <1>7 DEF f, TableInv, RowsInv, RowType
  <2>2. w = <<w[1], w[2]>>
    BY <2>1, SQLAssumption DEF SubjectVersion
  <2> QED BY <2>2, <1>3, <1>4 DEF ReferencedBy
<1>15. Live(s) # {} /\ s \in {r.subject : r \in Listed(FALSE)}
  BY <1>3, <1>4
<1>16. \A r \in Latest(s) : \E u \in Live(s) : r = Record(<<s, u>>) /\ r.version = u /\ u = Highest(Live(s))
  <2> SUFFICES ASSUME NEW r \in Latest(s)
               PROVE  \E u \in Live(s) : r = Record(<<s, u>>) /\ r.version = u /\ u = Highest(Live(s))
    OBVIOUS
  <2>1. r \in BySubject(s, FALSE) /\ r.version = Highest(Live(s))
    BY DEF Latest
  <2>2. PICK u \in Live(s) : r = Record(<<s, u>>)
    BY <2>1, <1>5
  <2>3. r.version = u
    BY <2>2, <1>2
  <2> QED BY <2>1, <2>2, <2>3
<1>17. Highest(Live(s)) \in Live(s) /\ \A u \in Live(s) : u <= Highest(Live(s)) /\ u \in Nat
  BY <1>0, HighestVersion, VersionRows
<1>18. \A r \in Latest(s) : r.version >= v
  BY <1>16, <1>17
<1>19. Latest(s) \subseteq LatestOnly(Listed(FALSE))
  <2> SUFFICES ASSUME NEW r \in Latest(s) PROVE r \in LatestOnly(Listed(FALSE))
    OBVIOUS
  <2>1. PICK u \in Live(s) : r = Record(<<s, u>>) /\ r.version = u /\ u = Highest(Live(s))
    BY <1>16
  <2>2. r \in Listed(FALSE) /\ r.subject = s
    BY <2>1, <1>2, ListedRows
  <2>3. ASSUME NEW q \in Listed(FALSE), q.subject = r.subject PROVE q.version <= r.version
    <3>0. PICK t \in Subjects : \E x \in Live(t) : q = Record(<<t, x>>)
      BY <1>6
    <3>1. PICK x \in Live(t) : q = Record(<<t, x>>)
      BY <3>0
    <3>2. q.subject = t /\ q.version = x
      BY <3>1, <1>2
    <3> QED BY <3>2, <2>1, <2>2, <2>3, <1>17
  <2> QED BY <2>2, <2>3 DEF LatestOnly
<1> QED
  BY <1>8, <1>9, <1>10, <1>11, <1>12, <1>13, <1>14, <1>15, <1>18, <1>19 DEF f, id

\* The read paths of both backends agree in the states of the invariant.
LEMMA ReadsAgree ==
  ASSUME TableInv
  PROVE  ReadPathsAgree
<1> SUFFICES ASSUME NEW s \in Subjects, NEW v \in Live(s)
             PROVE  LET id == GlobalSchemaID(schemas[<<s, v>>].fp) IN
                    PgShows(<<s, v>>, id) /\ MyShows(<<s, v>>, id)
  BY DEF ReadPathsAgree
<1> DEFINE f == schemas[<<s, v>>].fp
           id == GlobalSchemaID(f)
<1>1. /\ \A r \in ByVersion(s, v) : r.id = id
      /\ \E r \in ByContent(s, f, FALSE) : r.version = v
      /\ \E r \in BySubject(s, FALSE) : r.version = v
      /\ \A r \in {q \in Listed(FALSE) : q.fp = f} : r.id = id
      /\ ByID(id) # {} /\ \A r \in ByID(id) : r.fp = f /\ r.refs = Refs[f]
      /\ <<s, v>> \in UsersOfID(id, FALSE) /\ s \in {k[1] : k \in UsersOfID(id, FALSE)}
      /\ \A w \in Refs[f] : <<s, v>> \in ReferencedBy(w[1], w[2])
      /\ Live(s) # {} /\ s \in {r.subject : r \in Listed(FALSE)}
      /\ Latest(s) \subseteq LatestOnly(Listed(FALSE))
      /\ \A r \in Latest(s) : r.version >= v
  BY VersionShown
<1>2. <<s, v>>[1] = s /\ <<s, v>>[2] = v
  OBVIOUS
<1>3. PgShows(<<s, v>>, id)
  BY <1>1, <1>2 DEF PgShows, PgGetSchemaBySubjectVersion, PgGetSchemaByFingerprint,
     PgGetSchemasBySubject, PgGetSchemaByGlobalFingerprint, PgGetSchemaByID,
     PgGetVersionsBySchemaID, PgGetSubjectsBySchemaID, PgGetReferencedBy, PgSubjectExists,
     PgListSubjects, PgGetLatestSchema, PgListSchemas
<1>4. MyShows(<<s, v>>, id)
  BY <1>1, <1>2 DEF MyShows, MyGetSchemaBySubjectVersion, MyGetSchemaByFingerprint,
     MyGetSchemasBySubject, MyGetSchemaByGlobalFingerprint, MyGetSchemaByID,
     MyGetVersionsBySchemaID, MyGetSubjectsBySchemaID, MyGetReferencedBy, MySubjectExists,
     MyListSubjects, MyGetLatestSchema, MyListSchemas
<1> QED BY <1>3, <1>4

-----------------------------------------------------------------------------
(* Steps of one client.                                                    *)

\* The fields of a call in progress, by its operation.
LEMMA RequestFields ==
  ASSUME load \in Loads, NEW r \in Calls[load]
  PROVE  /\ r \in RequestType /\ r.subject \in Subjects
         /\ r.op = "create" => r.fp \in Fingerprints /\ r.meta \in Metas
         /\ r.op = "deleteVersion" => r.version \in Nat \ {0}
         /\ r.op \in {"set", "unset"} => r.table \in {"configs", "modes"}
         /\ r.op \in {"create", "import", "deleteVersion", "deleteSubject", "set", "unset"}
<1>1. r \in RequestType
  BY SQLAssumption
<1> QED BY <1>1 DEF RequestType

\* What a client has in hand stays right while tables and workload do.
LEMMA FitsFrame ==
  ASSUME NEW p, NEW r, NEW l, Fits(p, r, l), UNCHANGED <<schemas, fingerprints, nextId, load>>
  PROVE  Fits(p, r, l)'
BY DEF Fits, Serves, Carries, Knows, Holds

\* A step of one client, from what it does to the tables and to what it and the
\* others have in hand.
LEMMA StepFrame ==
  ASSUME SQLInv, NEW c \in Clients, NEW p \in Places, NEW q \in RequestType \cup {NoRequest},
         NEW k \in Locals,
         pc' = [pc EXCEPT ![c] = p], req' = [req EXCEPT ![c] = q], loc' = [loc EXCEPT ![c] = k],
         Deployed, TableInv', AnswersStored', Fits(p, q, k)',
         \A d \in Clients \ {c} : Fits(pc[d], req[d], loc[d])',
         \A d \in Clients \ {c} :
            /\ q.subject = req[d].subject => Held(p, k) \cap Held(pc[d], loc[d]) = {}
            /\ k.alloc = 0 \/ loc[d].alloc = 0
  PROVE  SQLInv'
<1>1. ClientShape
  BY DEF SQLInv
<1>2. ClientShape'
  BY <1>1 DEF ClientShape, Deployed
<1>3. pc'[c] = p /\ req'[c] = q /\ loc'[c] = k
  BY <1>1 DEF ClientShape
<1>4. \A d \in Clients \ {c} : pc'[d] = pc[d] /\ req'[d] = req[d] /\ loc'[d] = loc[d]
  BY <1>1 DEF ClientShape
<1>5. \A d \in Clients : Fits(pc[d], req[d], loc[d])'
  <2>1. Fits(pc[c], req[c], loc[c])'
    BY <1>3 DEF Fits, Serves, Carries, Knows, Holds
  <2> QED BY <2>1
<1>6. LocksApart'
  <2> SUFFICES ASSUME NEW d \in Clients, NEW e \in Clients, d # e
               PROVE  /\ req'[d].subject = req'[e].subject
                            => Held(pc'[d], loc'[d]) \cap Held(pc'[e], loc'[e]) = {}
                      /\ loc'[d].alloc = 0 \/ loc'[e].alloc = 0
    BY DEF LocksApart, Held
  <2>1. CASE d = c
    BY <2>1, <1>3, <1>4
  <2>2. CASE e = c
    BY <2>2, <1>3, <1>4
  <2>3. CASE d # c /\ e # c
    BY <2>3, <1>4 DEF SQLInv, LocksApart
  <2> QED BY <2>1, <2>2, <2>3
<1> QED BY <1>2, <1>5, <1>6 DEF SQLInv

\* The invariant of the tables says nothing of the settings.
LEMMA TablesFrame ==
  ASSUME RowsInv, MappingInv, UNCHANGED <<schemas, fingerprints, references, nextId>>
  PROVE  RowsInv' /\ MappingInv'
<1>1. \A s \in Subjects : VersionsOf(s)' = VersionsOf(s)
  BY DEF VersionsOf
<1>2. RowsInv'
  BY <1>1 DEF RowsInv
<1>3. ContentsUsed' = ContentsUsed /\ ReferencesUsed' = ReferencesUsed
  BY DEF ContentsUsed, ReferencesUsed
<1>4. MappingInv'
  BY <1>3 DEF MappingInv
<1> QED BY <1>2, <1>4

\* A step that writes at most a setting.
LEMMA CalmStep ==
  ASSUME SQLInv, NEW c \in Clients, NEW p \in Places, NEW q \in RequestType \cup {NoRequest},
         NEW k \in Locals,
         pc' = [pc EXCEPT ![c] = p], req' = [req EXCEPT ![c] = q], loc' = [loc EXCEPT ![c] = k],
         Deployed, UNCHANGED <<schemas, fingerprints, references, nextId>>,
         settings' \subseteq Subjects \X {"configs", "modes"}, AnswersStored', Fits(p, q, k),
         \A d \in Clients \ {c} :
            /\ q.subject = req[d].subject => Held(p, k) \cap Held(pc[d], loc[d]) = {}
            /\ k.alloc = 0 \/ loc[d].alloc = 0
  PROVE  SQLInv'
<1>1. UNCHANGED <<schemas, fingerprints, nextId, load>>
  BY DEF Deployed
<1>2. TableInv'
  <2>1. RowsInv' /\ MappingInv'
    BY TablesFrame DEF TableInv, SQLInv
  <2> QED BY <2>1 DEF TableInv
<1>3. Fits(p, q, k)'
  BY <1>1, FitsFrame
<1>4. ASSUME NEW d \in Clients \ {c} PROVE Fits(pc[d], req[d], loc[d])'
  <2>1. PICK x, r, l : x = pc[d] /\ r = req[d] /\ l = loc[d]
    OBVIOUS
  <2>2. pc'[d] = x /\ req'[d] = r /\ loc'[d] = l
    BY <2>1 DEF SQLInv, ClientShape
  <2>3. Fits(x, r, l)'
    <3>1. Fits(x, r, l)
      BY <2>1 DEF SQLInv
    <3> QED BY <3>1, <1>1, FitsFrame
  <2> QED BY <2>2, <2>3 DEF Fits, Serves, Carries, Knows, Holds
<1> QED BY <1>2, <1>3, <1>4, StepFrame

\* A step that leaves the tables alone.
LEMMA QuietStep ==
  ASSUME SQLInv, NEW c \in Clients, NEW p \in Places, NEW q \in RequestType \cup {NoRequest},
         NEW k \in Locals,
         pc' = [pc EXCEPT ![c] = p], req' = [req EXCEPT ![c] = q], loc' = [loc EXCEPT ![c] = k],
         Deployed, UNCHANGED tableVars, AnswersStored', Fits(p, q, k),
         \A d \in Clients \ {c} :
            /\ q.subject = req[d].subject => Held(p, k) \cap Held(pc[d], loc[d]) = {}
            /\ k.alloc = 0 \/ loc[d].alloc = 0
  PROVE  SQLInv'
<1>1. UNCHANGED <<schemas, fingerprints, references, nextId>>
  BY DEF tableVars
<1>2. settings' \subseteq Subjects \X {"configs", "modes"}
  BY DEF SQLInv, TableInv, tableVars
<1> QED BY <1>1, <1>2, CalmStep

\* A call goes on, or ends, without new locks.
LEMMA MoveStep ==
  ASSUME SQLInv, NEW c \in Clients, NEW p \in Places, NEW k \in Locals,
         Goto(c, p), loc' = [loc EXCEPT ![c] = k], Unmoved, UNCHANGED tableVars,
         Fits(p, req[c], k),
         Held(p, k) \subseteq Held(pc[c], loc[c]), k.alloc \in {0, loc[c].alloc}
  PROVE  SQLInv'
<1>1. PICK q \in RequestType \cup {NoRequest} : q = req[c]
  BY DEF SQLInv, ClientShape
<1>2. req' = [req EXCEPT ![c] = q]
  BY <1>1 DEF Unmoved, SQLInv, ClientShape
<1>3. pc' = [pc EXCEPT ![c] = p] /\ Deployed
  BY DEF Goto, Unmoved
<1>4. AnswersStored'
  BY DEF SQLInv, AnswersStored, Holds, Unmoved, tableVars
<1>5. Fits(p, q, k)
  BY <1>1
<1>6. \A d \in Clients \ {c} :
        /\ q.subject = req[d].subject => Held(p, k) \cap Held(pc[d], loc[d]) = {}
        /\ k.alloc = 0 \/ loc[d].alloc = 0
  BY <1>1 DEF SQLInv, LocksApart
<1> QED BY <1>2, <1>3, <1>4, <1>5, <1>6, QuietStep

\* A client between calls holds nothing.
LEMMA IdleFits ==
  ASSUME NEW r
  PROVE  /\ Fits("idle", r, NoLocals) /\ Held("idle", NoLocals) = {}
         /\ NoLocals \in Locals /\ NoLocals.alloc = 0
BY DEF Fits, Serves, Carries, Knows, NoLocals, Locals, Held, Holding, Inserting, Removing, Versioned, Creates, Softs

\* A call ends, with or without an answer.
LEMMA FinishStep ==
  ASSUME SQLInv, NEW c \in Clients, Finish(c), Deployed, UNCHANGED tableVars, AnswersStored'
  PROVE  SQLInv'
<1>1. /\ pc' = [pc EXCEPT ![c] = "idle"] /\ req' = [req EXCEPT ![c] = NoRequest]
      /\ loc' = [loc EXCEPT ![c] = NoLocals]
  BY DEF Finish, Goto
<1>2. "idle" \in Places
  BY DEF Places
<1>3. PICK p \in Places, q \in RequestType \cup {NoRequest}, k \in Locals :
        p = "idle" /\ q = NoRequest /\ k = NoLocals
  BY <1>2, IdleFits
<1>4. Fits(p, q, k) /\ Held(p, k) = {} /\ k.alloc = 0
  BY <1>3, IdleFits
<1>5. pc' = [pc EXCEPT ![c] = p] /\ req' = [req EXCEPT ![c] = q] /\ loc' = [loc EXCEPT ![c] = k]
  BY <1>1, <1>3
<1>6. \A d \in Clients \ {c} :
        /\ q.subject = req[d].subject => Held(p, k) \cap Held(pc[d], loc[d]) = {}
        /\ k.alloc = 0 \/ loc[d].alloc = 0
  BY <1>4
<1> QED BY <1>4, <1>5, <1>6, QuietStep

\* A call that ends without a version keeps the invariant.
LEMMA EndStep ==
  ASSUME SQLInv, NEW c \in Clients, End(c), UNCHANGED tableVars
  PROVE  SQLInv'
<1>1. AnswersStored'
  BY DEF SQLInv, AnswersStored, Holds, End, tableVars
<1> QED BY <1>1, FinishStep DEF End

\* A rolled-back attempt drops its locks and starts over, or the call fails.
LEMMA AgainStep ==
  ASSUME SQLInv, NEW c \in Clients, pc[c] \in Creates, Again(c), UNCHANGED tableVars
  PROVE  SQLInv'
<1>1. CASE End(c)
  BY <1>1, EndStep
<1>2. CASE Keep(c, "max", [NoLocals EXCEPT !.attempt = loc[c].attempt + 1]) /\ Unmoved
  <2>1. loc[c].attempt \in Nat
    BY DEF SQLInv, ClientShape, Locals
  <2>2. PICK n \in Nat : n = loc[c].attempt + 1
    BY <2>1
  <2>3. PICK k : k = [NoLocals EXCEPT !.attempt = n]
    OBVIOUS
  <2>4. k \in Locals /\ k.alloc = 0 /\ k.purge = {} /\ k.claimed = FALSE
    BY <2>3 DEF NoLocals, Locals
  <2>5. "max" \in Places /\ "max" \in Creates /\ "max" \notin Versioned /\ "max" \notin Inserting
        /\ "max" \notin Removing /\ "max" \notin Holding
    BY DEF Places, Creates, Versioned, Removing, Inserting, Holding
  <2>6. Held("max", k) = {}
    BY <2>4, <2>5 DEF Held
  <2>7. Serves(pc[c], req[c])
    BY DEF SQLInv, Fits
  <2>8. Serves("max", req[c])
    BY <2>7 DEF Serves, Creates, Versioned, Removing, Inserting, Holding, Softs
  <2>9. Fits("max", req[c], k)
    BY <2>4, <2>5, <2>8 DEF Fits, Carries, Knows
  <2>10. Goto(c, "max") /\ loc' = [loc EXCEPT ![c] = k] /\ Unmoved
    BY <1>2, <2>2, <2>3 DEF Keep
  <2> QED BY <2>4, <2>5, <2>6, <2>9, <2>10, MoveStep
<1> QED BY <1>1, <1>2 DEF Again

-----------------------------------------------------------------------------
(* The statements of a registration.                                       *)

\* What is known of a client in a registration.
LEMMA InCreate ==
  ASSUME SQLInv, NEW c \in Clients, pc[c] \in Creates
  PROVE  /\ req[c] \in Calls[load] /\ req[c].op = "create" /\ req[c].subject \in Subjects
         /\ req[c].fp \in Fingerprints /\ req[c].meta \in Metas
         /\ loc[c] \in Locals /\ Fits(pc[c], req[c], loc[c])
         /\ \A p \in Creates : Serves(p, req[c]) /\ p \in Places
<1>1. Fits(pc[c], req[c], loc[c]) /\ loc[c] \in Locals /\ load \in Loads
  BY DEF SQLInv, ClientShape
<1>2. \A p \in Creates : p # "idle" /\ p \notin Softs /\ p # "setting" /\ p \in Places
  BY DEF Creates, Versioned, Removing, Inserting, Holding, Softs, Places
<1>3. req[c] \in Calls[load] /\ req[c].op = "create"
  BY <1>1, <1>2 DEF Fits, Serves
<1>4. \A p \in Creates : Serves(p, req[c])
  BY <1>2, <1>3 DEF Serves, Softs
<1> QED BY <1>1, <1>2, <1>3, <1>4, RequestFields

\* The version is chosen: it is never 0.
LEMMA MaxStep ==
  ASSUME SQLInv, NEW c \in Clients, PgMaxVersion(c)
  PROVE  SQLInv'
<1>1. pc[c] = "max" /\ pc[c] \in Creates
  BY DEF PgMaxVersion, Creates
<1>2. SelectMax(req[c].subject) \in Nat \ {0}
  BY <1>1, InCreate, HighestVersion DEF SelectMax, SQLInv, TableInv
<1>3. PICK n \in Nat \ {0} : n = SelectMax(req[c].subject)
  BY <1>2
<1>4. PICK k : k = [loc[c] EXCEPT !.version = n]
  OBVIOUS
<1>5. k \in Locals /\ k.version = n /\ k.alloc = loc[c].alloc /\ k.purge = loc[c].purge
      /\ k.claimed = loc[c].claimed
  BY <1>1, <1>4, InCreate DEF Locals
<1>6. k.alloc = 0 /\ k.purge = {} /\ k.claimed = FALSE
  BY <1>1, <1>5, InCreate DEF Fits, Carries, Removing, Inserting, Holding
<1>7. "content" \in Creates /\ "content" \notin Removing /\ "content" \notin Inserting /\ "content" \notin Holding
  BY DEF Creates, Versioned, Removing, Inserting, Holding
<1>8. Fits("content", req[c], k)
  BY <1>1, <1>5, <1>6, <1>7, InCreate DEF Fits, Carries, Knows
<1>9. Goto(c, "content") /\ loc' = [loc EXCEPT ![c] = k] /\ Unmoved /\ UNCHANGED tableVars
  BY <1>3, <1>4 DEF PgMaxVersion, Keep
<1>10. Held("content", k) = {} /\ "content" \in Places
  BY <1>1, <1>6, <1>7, InCreate DEF Held
<1> QED BY <1>5, <1>6, <1>8, <1>9, <1>10, MoveStep

\* The content is looked up: a version that has it is in the subject.
LEMMA ContentStep ==
  ASSUME SQLInv, NEW c \in Clients, pc[c] \in {"max", "content"}, NEW v \in Nat \ {0},
         SelectContent(c, v), UNCHANGED tableVars, Unmoved
  PROVE  SQLInv'
<1> DEFINE s == req[c].subject
           same == {w \in VersionsOf(s) : schemas[<<s, w>>].fp = req[c].fp}
           full == {w \in same \cap Live(s) : schemas[<<s, w>>].meta = req[c].meta}
<1>1. pc[c] \in Creates /\ pc[c] \notin Removing /\ pc[c] \notin Holding /\ pc[c] \notin {"resolve", "commit"}
  BY DEF Creates, Versioned, Removing, Inserting, Holding
<1>2. /\ s \in Subjects /\ loc[c] \in Locals /\ Fits(pc[c], req[c], loc[c])
      /\ \A p \in Creates : Serves(p, req[c]) /\ p \in Places
  BY <1>1, InCreate
<1>3. loc[c].alloc = 0 /\ loc[c].purge = {} /\ loc[c].claimed = FALSE
  BY <1>1, <1>2 DEF Fits, Carries
<1>4. \A w \in VersionsOf(s) : w \in Nat \ {0} /\ <<s, w>> \in DOMAIN schemas
  BY <1>2, VersionRows DEF SQLInv, TableInv
<1>5. PICK p \in {"duplicate", "insert", "purge"}, w \in Nat \ {0} :
        /\ Keep(c, p, [loc[c] EXCEPT !.version = w])
        /\ p = "duplicate" => Holds(s, req[c].fp)
  <2>1. CASE \E w \in full : Keep(c, "duplicate", [loc[c] EXCEPT !.version = w])
    <3>1. PICK w \in full : Keep(c, "duplicate", [loc[c] EXCEPT !.version = w])
      BY <2>1
    <3>2. w \in Nat \ {0} /\ <<s, w>> \in DOMAIN schemas /\ schemas[<<s, w>>].fp = req[c].fp
      BY <1>4
    <3>3. Holds(s, req[c].fp)
      BY <3>2 DEF Holds
    <3> QED BY <3>1, <3>2, <3>3
  <2>2. CASE Keep(c, IF same \subseteq Live(s) THEN "insert" ELSE "purge", [loc[c] EXCEPT !.version = v])
    BY <2>2
  <2> QED BY <2>1, <2>2 DEF SelectContent
<1>6. PICK k : k = [loc[c] EXCEPT !.version = w]
  OBVIOUS
<1>7. k \in Locals /\ k.version = w /\ k.alloc = 0 /\ k.purge = {} /\ k.claimed = FALSE
  BY <1>2, <1>3, <1>6 DEF Locals
<1>8. p \in Creates /\ p \notin Inserting /\ p \notin Holding /\ p \notin {"resolve", "commit"}
  BY DEF Creates, Versioned, Removing, Inserting, Holding
<1>9. Fits(p, req[c], k)
  <2>1. Carries(p, k)
    BY <1>7, <1>8 DEF Carries
  <2>2. Knows(p, req[c], k)
    BY <1>5, <1>7, <1>8 DEF Knows
  <2> QED BY <1>2, <1>8, <2>1, <2>2 DEF Fits
<1>10. Goto(c, p) /\ loc' = [loc EXCEPT ![c] = k]
  BY <1>5, <1>6 DEF Keep
<1>11. Held(p, k) = {} /\ p \in Places
  BY <1>2, <1>7, <1>8 DEF Held
<1> QED BY <1>7, <1>9, <1>10, <1>11, MoveStep

\* The answer of a call is stored when what is answered is.
LEMMA AnswerStored ==
  ASSUME NEW c, NEW v, NEW id, Answer(c, v, id), NEW s, NEW f,
         s = req[c].subject, f = req[c].fp,
         f \in DOMAIN fingerprints', fingerprints'[f] = id, Holds(s, f)',
         \A p \in promised : /\ p.fp \in DOMAIN fingerprints' /\ fingerprints'[p.fp] = p.id
                             /\ \E k \in DOMAIN schemas' : k[1] = p.subject /\ schemas'[k].fp = p.fp
  PROVE  AnswersStored'
<1> DEFINE new == [subject |-> req[c].subject, version |-> v, id |-> id, fp |-> req[c].fp, meta |-> req[c].meta]
<1>1. promised' = promised \cup {new}
  BY DEF Answer
<1>2. new.fp = f /\ new.id = id /\ new.subject = s
  OBVIOUS
<1>3. \E k \in DOMAIN schemas' : k[1] = s /\ schemas'[k].fp = f
  BY DEF Holds
<1> HIDE DEF new
<1>4. \A p \in promised' : /\ p.fp \in DOMAIN fingerprints' /\ fingerprints'[p.fp] = p.id
                           /\ \E k \in DOMAIN schemas' : k[1] = p.subject /\ schemas'[k].fp = p.fp
  BY <1>1, <1>2, <1>3
<1> QED BY <1>4 DEF AnswersStored, Holds

\* The existing version is answered with the ID of its content.
LEMMA DuplicateStep ==
  ASSUME SQLInv, NEW c \in Clients, Duplicate(c)
  PROVE  SQLInv'
<1>1. CASE End(c)
  BY <1>1, EndStep DEF Duplicate
<1>2. CASE req[c].fp \in DOMAIN fingerprints /\ Answer(c, loc[c].version, fingerprints[req[c].fp])
  <2>1. Finish(c) /\ Deployed /\ UNCHANGED tableVars /\ pc[c] = "duplicate"
    BY <1>2 DEF Answer, Duplicate
  <2>2. Holds(req[c].subject, req[c].fp)
    BY <2>1 DEF SQLInv, Fits, Knows
  <2>3. PICK s, f, v, id : s = req[c].subject /\ f = req[c].fp /\ v = loc[c].version /\ id = fingerprints[f]
    OBVIOUS
  <2>4. Holds(s, f)' /\ f \in DOMAIN fingerprints' /\ fingerprints'[f] = id
    BY <1>2, <2>1, <2>2, <2>3 DEF Holds, tableVars
  <2>5. \A p \in promised : /\ p.fp \in DOMAIN fingerprints' /\ fingerprints'[p.fp] = p.id
                            /\ \E k \in DOMAIN schemas' : k[1] = p.subject /\ schemas'[k].fp = p.fp
    BY <2>1 DEF SQLInv, AnswersStored, Holds, tableVars
  <2>6. AnswersStored'
    BY <1>2, <2>3, <2>4, <2>5, AnswerStored
  <2> QED BY <2>1, <2>6, FinishStep
<1> QED BY <1>1, <1>2 DEF Duplicate

\* A version whose row is free is locked by nobody else.
LEMMA RowFreeHeld ==
  ASSUME NEW c \in Clients, NEW s, NEW v, RowFree(c, <<s, v>>),
         NEW d \in Clients \ {c}, s = req[d].subject
  PROVE  v \notin Held(pc[d], loc[d])
<1>1. <<s, v>> \notin Inserted(d) /\ <<s, v>> \notin Removed(d)
  BY DEF RowFree
<1>2. v \notin loc[d].purge
  BY <1>1 DEF Removed
<1>3. pc[d] \in Inserting => v # loc[d].version
  BY <1>1 DEF Inserted, Inserting, Holding
<1> QED BY <1>2, <1>3 DEF Held

\* The delete locks the versions it removes, all of the content registered.
LEMMA PurgeStep ==
  ASSUME SQLInv, NEW c \in Clients, Purge(c)
  PROVE  SQLInv'
<1>1. pc[c] = "purge" /\ UNCHANGED tableVars /\ Unmoved
  BY DEF Purge
<1>2. pc[c] \in Creates /\ pc[c] \in Versioned /\ pc[c] \notin Removing /\ pc[c] \notin Holding
      /\ pc[c] \notin {"resolve", "commit"}
  BY <1>1 DEF Creates, Versioned, Removing, Inserting, Holding
<1>3. /\ req[c].subject \in Subjects /\ loc[c] \in Locals /\ Fits(pc[c], req[c], loc[c])
      /\ \A p \in Creates : Serves(p, req[c]) /\ p \in Places
  BY <1>2, InCreate
<1>4. PICK s, f : s = req[c].subject /\ f = req[c].fp
  OBVIOUS
<1>5. PICK old : old = {v \in VersionsOf(s) \ Live(s) : schemas[<<s, v>>].fp = f}
  OBVIOUS
<1>6. (\A v \in old : RowFree(c, <<s, v>>)) /\ Keep(c, "insert", [loc[c] EXCEPT !.purge = old])
  BY <1>4, <1>5 DEF Purge
<1>7. \A v \in old : v \in Nat /\ <<s, v>> \in DOMAIN schemas /\ schemas[<<s, v>>].fp = f
  BY <1>3, <1>4, <1>5, VersionRows DEF SQLInv, TableInv
<1>8. PICK k : k = [loc[c] EXCEPT !.purge = old]
  OBVIOUS
<1>9. loc[c].alloc = 0 /\ loc[c].claimed = FALSE /\ loc[c].version # 0
  BY <1>2, <1>3 DEF Fits, Carries
<1>10. k \in Locals /\ k.purge = old /\ k.alloc = 0 /\ k.claimed = FALSE /\ k.version # 0
  BY <1>3, <1>7, <1>8, <1>9 DEF Locals
<1>11. PICK p \in Places : p = "insert"
  BY DEF Places, Creates, Versioned, Removing
<1>12. p \in Creates /\ p \in Removing /\ p \notin Inserting /\ p \notin Holding
  BY <1>11 DEF Creates, Versioned, Removing, Inserting, Holding
<1>13. Fits(p, req[c], k)
  <2>1. Carries(p, k)
    BY <1>10, <1>11, <1>12 DEF Carries
  <2>2. Knows(p, req[c], k)
    BY <1>4, <1>7, <1>10, <1>11, <1>12 DEF Knows
  <2> QED BY <1>3, <1>12, <2>1, <2>2 DEF Fits
<1>14. PICK q \in RequestType \cup {NoRequest} : q = req[c]
  BY DEF SQLInv, ClientShape
<1>15. pc' = [pc EXCEPT ![c] = p] /\ loc' = [loc EXCEPT ![c] = k] /\ Deployed
  BY <1>1, <1>6, <1>8, <1>11 DEF Keep, Goto, Unmoved
<1>16. req' = [req EXCEPT ![c] = q]
  BY <1>1, <1>14 DEF SQLInv, ClientShape, Unmoved
<1>17. Held(p, k) = old
  BY <1>10, <1>12 DEF Held
<1>18. \A d \in Clients \ {c} :
         /\ q.subject = req[d].subject => Held(p, k) \cap Held(pc[d], loc[d]) = {}
         /\ k.alloc = 0 \/ loc[d].alloc = 0
  <2> SUFFICES ASSUME NEW d \in Clients \ {c}, s = req[d].subject, NEW v \in old
               PROVE  v \notin Held(pc[d], loc[d])
    BY <1>4, <1>10, <1>14, <1>17
  <2> QED BY <1>6, RowFreeHeld
<1>19. AnswersStored'
  BY <1>1 DEF SQLInv, AnswersStored, Holds, Unmoved, tableVars
<1>20. Fits(p, q, k)
  BY <1>13, <1>14
<1> QED BY <1>1, <1>10, <1>15, <1>16, <1>18, <1>19, <1>20, QuietStep

\* The insert locks its version, which nobody else has.
LEMMA InsertStep ==
  ASSUME SQLInv, NEW c \in Clients, NEW next \in {"alloc", "allocShared"}, Insert(c, next)
  PROVE  SQLInv'
<1>1. pc[c] = "insert" /\ UNCHANGED tableVars /\ RowFree(c, <<req[c].subject, loc[c].version>>)
  BY DEF Insert
<1>2. pc[c] \in Creates /\ pc[c] \in Versioned /\ pc[c] \in Removing /\ pc[c] \notin Holding
      /\ pc[c] \notin Inserting
  BY <1>1 DEF Creates, Versioned, Removing, Inserting, Holding
<1>3. CASE Again(c)
  BY <1>1, <1>2, <1>3, AgainStep
<1>4. CASE /\ <<req[c].subject, loc[c].version>> \in DOMAIN schemas => loc[c].version \in loc[c].purge
           /\ Continue(c, next) /\ Unmoved
  <2>1. /\ loc[c] \in Locals /\ Fits(pc[c], req[c], loc[c])
        /\ \A p \in Creates : Serves(p, req[c]) /\ p \in Places
    BY <1>2, InCreate
  <2>2. PICK p \in Places : p = next
    BY DEF Places, Creates, Versioned, Removing, Inserting
  <2>3. p \in Creates /\ p \in Versioned /\ p \in Removing /\ p \in Inserting /\ p \notin Holding
        /\ p # "duplicate" /\ p # "commit" /\ p # "resolve"
    BY <2>2 DEF Creates, Versioned, Removing, Inserting, Holding
  <2>4. PICK k \in Locals, q \in RequestType \cup {NoRequest} : k = loc[c] /\ q = req[c]
    BY DEF SQLInv, ClientShape
  <2>5. Carries(p, k) /\ k.alloc = 0
    BY <1>1, <1>2, <2>1, <2>3, <2>4 DEF Fits, Carries
  <2>6. Knows(p, q, k)
    BY <1>4, <2>1, <2>3, <2>4 DEF Fits, Knows
  <2>7. Fits(p, q, k)
    BY <2>1, <2>3, <2>4, <2>5, <2>6 DEF Fits
  <2>8. pc' = [pc EXCEPT ![c] = p] /\ loc' = [loc EXCEPT ![c] = k] /\ req' = [req EXCEPT ![c] = q] /\ Deployed
    BY <1>4, <2>2, <2>4 DEF Continue, Goto, Unmoved, SQLInv, ClientShape
  <2>9. Held(p, k) = Held(pc[c], loc[c]) \cup {loc[c].version}
    BY <1>2, <2>3, <2>4 DEF Held
  <2>10. \A d \in Clients \ {c} :
           /\ q.subject = req[d].subject => Held(p, k) \cap Held(pc[d], loc[d]) = {}
           /\ k.alloc = 0 \/ loc[d].alloc = 0
    <3> SUFFICES ASSUME NEW d \in Clients \ {c}, q.subject = req[d].subject
                 PROVE  Held(p, k) \cap Held(pc[d], loc[d]) = {}
      BY <2>5
    <3>1. Held(pc[c], loc[c]) \cap Held(pc[d], loc[d]) = {}
      BY <2>4 DEF SQLInv, LocksApart
    <3>2. PICK s, v : s = req[c].subject /\ v = loc[c].version
      OBVIOUS
    <3>3. v \notin Held(pc[d], loc[d])
      BY <1>1, <2>4, <3>2, RowFreeHeld
    <3> QED BY <2>9, <3>1, <3>2, <3>3
  <2>11. AnswersStored'
    BY <1>1, <1>4 DEF SQLInv, AnswersStored, Holds, Unmoved, tableVars
  <2> QED BY <1>1, <2>7, <2>8, <2>10, <2>11, QuietStep
<1> QED BY <1>3, <1>4 DEF Insert

\* The allocator row is shared: nothing is learnt from it yet.
LEMMA ShareStep ==
  ASSUME SQLInv, NEW c \in Clients, MyShareAlloc(c)
  PROVE  SQLInv'
<1>1. pc[c] = "allocShared" /\ UNCHANGED tableVars /\ Unmoved /\ Continue(c, "alloc")
  BY DEF MyShareAlloc
<1>2. pc[c] \in Creates /\ pc[c] \in Inserting /\ pc[c] \notin Holding
  BY <1>1 DEF Creates, Versioned, Removing, Inserting, Holding
<1>3. "alloc" \in Creates /\ "alloc" \in Inserting /\ "alloc" \notin Holding /\ "alloc" \in Versioned
      /\ "alloc" \in Removing
  BY DEF Creates, Versioned, Removing, Inserting, Holding
<1>4. /\ loc[c] \in Locals /\ Fits(pc[c], req[c], loc[c])
      /\ \A p \in Creates : Serves(p, req[c]) /\ p \in Places
  BY <1>2, InCreate
<1>5. Carries("alloc", loc[c])
  BY <1>1, <1>2, <1>3, <1>4 DEF Fits, Carries, Versioned, Removing
<1>6. Knows("alloc", req[c], loc[c])
  BY <1>2, <1>3, <1>4 DEF Fits, Knows
<1>7. PICK k \in Locals : k = loc[c]
  BY <1>4
<1>8. Goto(c, "alloc") /\ loc' = [loc EXCEPT ![c] = k]
  BY <1>1, <1>7 DEF Continue, SQLInv, ClientShape
<1>9. Held("alloc", k) = Held(pc[c], loc[c]) /\ Fits("alloc", req[c], k) /\ "alloc" \in Places
  BY <1>2, <1>3, <1>4, <1>5, <1>6, <1>7 DEF Held, Fits
<1> QED BY <1>1, <1>7, <1>8, <1>9, MoveStep

\* The allocator row is locked: nobody else has an ID in hand.
LEMMA AllocateStep ==
  ASSUME SQLInv, NEW c \in Clients, Allocate(c)
  PROVE  SQLInv'
<1>1. pc[c] = "alloc" /\ UNCHANGED tableVars /\ Unmoved /\ AllocReadable(c)
  BY DEF Allocate, AllocFree
<1>2. pc[c] \in Creates /\ pc[c] \in Inserting /\ pc[c] \notin Holding /\ pc[c] \in Versioned /\ pc[c] \in Removing
  BY <1>1 DEF Creates, Versioned, Removing, Inserting, Holding
<1>3. /\ loc[c] \in Locals /\ Fits(pc[c], req[c], loc[c])
      /\ \A p \in Creates : Serves(p, req[c]) /\ p \in Places
  BY <1>2, InCreate
<1>4. nextId \in Nat
  BY DEF SQLInv, TableInv, MappingInv
<1>5. PICK k : k = [loc[c] EXCEPT !.alloc = nextId]
  OBVIOUS
<1>6. k \in Locals /\ k.alloc = nextId /\ k.purge = loc[c].purge /\ k.claimed = loc[c].claimed
      /\ k.version = loc[c].version
  BY <1>3, <1>4, <1>5 DEF Locals
<1>7. PICK p \in Places : p = "claim"
  BY DEF Places, Creates, Versioned, Removing, Inserting, Holding
<1>8. p \in Creates /\ p \in Inserting /\ p \in Holding /\ p \in Versioned /\ p \in Removing
      /\ p \notin {"resolve", "commit", "duplicate"}
  BY <1>7 DEF Creates, Versioned, Removing, Inserting, Holding
<1>9. Carries(p, k)
  BY <1>1, <1>2, <1>3, <1>6, <1>8 DEF Fits, Carries
<1>10. Knows(p, req[c], k)
  BY <1>2, <1>3, <1>6, <1>8 DEF Fits, Knows
<1>11. PICK q \in RequestType \cup {NoRequest} : q = req[c]
  BY DEF SQLInv, ClientShape
<1>12. Fits(p, q, k)
  BY <1>3, <1>8, <1>9, <1>10, <1>11 DEF Fits
<1>13. pc' = [pc EXCEPT ![c] = p] /\ loc' = [loc EXCEPT ![c] = k] /\ Deployed
  BY <1>5, <1>7 DEF Allocate, Keep, Goto, Unmoved
<1>14. req' = [req EXCEPT ![c] = q]
  BY <1>1, <1>11 DEF SQLInv, ClientShape, Unmoved
<1>15. Held(p, k) = Held(pc[c], loc[c])
  BY <1>2, <1>6, <1>8 DEF Held
<1>16. \A d \in Clients \ {c} :
         /\ q.subject = req[d].subject => Held(p, k) \cap Held(pc[d], loc[d]) = {}
         /\ k.alloc = 0 \/ loc[d].alloc = 0
  BY <1>1, <1>11, <1>15 DEF AllocReadable, SQLInv, LocksApart
<1>17. AnswersStored'
  BY <1>1 DEF SQLInv, AnswersStored, Holds, Unmoved, tableVars
<1> QED BY <1>1, <1>6, <1>12, <1>13, <1>14, <1>16, <1>17, QuietStep

\* The ID allocated is not in use, so that the claim fails only where the content
\* has a mapping.
LEMMA NextIsFree ==
  ASSUME MappingInv
  PROVE  nextId \notin IDsInUse
BY DEF MappingInv, IDsInUse

\* The claim succeeds exactly where the content has no mapping.
LEMMA ClaimStep ==
  ASSUME SQLInv, NEW c \in Clients, Claim(c)
  PROVE  SQLInv'
<1>1. pc[c] = "claim" /\ UNCHANGED tableVars /\ Unmoved
  BY DEF Claim
<1>2. pc[c] \in Creates /\ pc[c] \in Inserting /\ pc[c] \in Holding /\ pc[c] \in Versioned
  BY <1>1 DEF Creates, Versioned, Removing, Inserting, Holding
<1>3. /\ loc[c] \in Locals /\ Fits(pc[c], req[c], loc[c])
      /\ \A p \in Creates : Serves(p, req[c]) /\ p \in Places
  BY <1>2, InCreate
<1>4. loc[c].alloc = nextId
  BY <1>2, <1>3 DEF Fits, Carries
<1>5. loc[c].alloc \notin IDsInUse
  BY <1>4, NextIsFree DEF SQLInv, TableInv
<1>6. PICK b \in BOOLEAN : b <=> req[c].fp \notin DOMAIN fingerprints
  OBVIOUS
<1>7. PICK k : k = [loc[c] EXCEPT !.claimed = b]
  OBVIOUS
<1>8. k \in Locals /\ k.alloc = loc[c].alloc /\ k.purge = loc[c].purge /\ k.claimed = b
      /\ k.version = loc[c].version
  BY <1>3, <1>7 DEF Locals
<1>9. "resolve" \in Creates /\ "resolve" \in Inserting /\ "resolve" \in Holding /\ "resolve" \in Versioned
      /\ "resolve" \in Removing
  BY DEF Creates, Versioned, Removing, Inserting, Holding
<1>10. Carries("resolve", k)
  BY <1>2, <1>3, <1>4, <1>8, <1>9 DEF Fits, Carries
<1>11. Knows("resolve", req[c], k)
  BY <1>2, <1>3, <1>6, <1>8, <1>9 DEF Fits, Knows
<1>12. Fits("resolve", req[c], k)
  BY <1>3, <1>9, <1>10, <1>11 DEF Fits
<1>13. Goto(c, "resolve") /\ loc' = [loc EXCEPT ![c] = k]
  <2>1. (req[c].fp \notin DOMAIN fingerprints /\ loc[c].alloc \notin IDsInUse) = b
    BY <1>5, <1>6
  <2> QED BY <2>1, <1>7 DEF Claim, Keep
<1>14. Held("resolve", k) = Held(pc[c], loc[c]) /\ "resolve" \in Places
  BY <1>2, <1>3, <1>8, <1>9 DEF Held
<1> QED BY <1>1, <1>8, <1>12, <1>13, <1>14, MoveStep

\* The ID resolved is the one claimed, or the one of the mapping.
LEMMA ResolveStep ==
  ASSUME SQLInv, NEW c \in Clients, Resolve(c)
  PROVE  SQLInv'
<1>1. pc[c] = "resolve" /\ UNCHANGED tableVars
  BY DEF Resolve
<1>2. pc[c] \in Creates /\ pc[c] \in Inserting /\ pc[c] \in Holding /\ pc[c] \in Versioned
  BY <1>1 DEF Creates, Versioned, Removing, Inserting, Holding
<1>3. /\ loc[c] \in Locals /\ Fits(pc[c], req[c], loc[c])
      /\ \A p \in Creates : Serves(p, req[c]) /\ p \in Places
  BY <1>2, InCreate
<1>4. CASE End(c)
  BY <1>1, <1>4, EndStep
<1>5. CASE ~End(c)
  <2>1. Unmoved
    BY <1>5 DEF Resolve
  <2>2. PICK n : /\ n = IF loc[c].claimed THEN loc[c].alloc ELSE fingerprints[req[c].fp]
                 /\ Keep(c, "commit", [loc[c] EXCEPT !.id = n])
    BY <1>5 DEF Resolve
  <2>3. n \in Nat
    <3>1. CASE loc[c].claimed
      BY <3>1, <2>2, <1>3 DEF Locals
    <3>2. CASE ~loc[c].claimed
      <4>1. req[c].fp \in DOMAIN fingerprints
        BY <3>2, <1>1, <1>3 DEF Fits, Knows
      <4>2. fingerprints[req[c].fp] \in 1..(nextId - 1) /\ nextId \in Nat
        BY <4>1 DEF SQLInv, TableInv, MappingInv
      <4> QED BY <4>2, <3>2, <2>2
    <3> QED BY <3>1, <3>2
  <2>4. PICK k : k = [loc[c] EXCEPT !.id = n]
    OBVIOUS
  <2>5. k \in Locals /\ k.alloc = loc[c].alloc /\ k.purge = loc[c].purge /\ k.claimed = loc[c].claimed
        /\ k.version = loc[c].version /\ k.id = n
    BY <1>3, <2>3, <2>4 DEF Locals
  <2>6. "commit" \in Creates /\ "commit" \in Inserting /\ "commit" \in Holding /\ "commit" \in Versioned
        /\ "commit" \in Removing
    BY DEF Creates, Versioned, Removing, Inserting, Holding
  <2>7. Carries("commit", k)
    BY <1>2, <1>3, <2>5, <2>6 DEF Fits, Carries
  <2>8. Knows("commit", req[c], k)
    BY <1>1, <1>2, <1>3, <2>2, <2>5, <2>6 DEF Fits, Knows
  <2>9. Fits("commit", req[c], k)
    BY <1>3, <2>6, <2>7, <2>8 DEF Fits
  <2>10. Goto(c, "commit") /\ loc' = [loc EXCEPT ![c] = k]
    BY <2>2, <2>4 DEF Keep
  <2>11. Held("commit", k) = Held(pc[c], loc[c]) /\ "commit" \in Places
    BY <1>2, <1>3, <2>5, <2>6 DEF Held
  <2> QED BY <1>1, <2>1, <2>5, <2>9, <2>10, <2>11, MoveStep
<1> QED BY <1>4, <1>5

-----------------------------------------------------------------------------
(* The commit.                                                             *)

\* The rows after a commit: the version inserted, and the others that are not removed.
LEMMA CommitRows ==
  ASSUME NEW c, Commit(c), NEW s, NEW P, NEW v, NEW f,
         s = req[c].subject, P = loc[c].purge, v = loc[c].version, f = req[c].fp
  PROVE  /\ <<s, v>> \in DOMAIN schemas' /\ schemas'[<<s, v>>] = NewRow(c) /\ schemas'[<<s, v>>].fp = f
         /\ \A k \in DOMAIN schemas' :
              k = <<s, v>> \/ (k \in DOMAIN schemas /\ k \notin {s} \X P /\ schemas'[k] = schemas[k])
         /\ \A k \in DOMAIN schemas :
              k = <<s, v>> \/ k \in {s} \X P \/ (k \in DOMAIN schemas' /\ schemas'[k] = schemas[k])
<1>0. NewRow(c).fp = f
  BY DEF NewRow
<1>1. PICK row : row = NewRow(c) /\ row.fp = f
  BY <1>0
<1>2. schemas' = Put(Without(schemas, {s} \X P), <<s, v>>, row)
  BY <1>1 DEF Commit
<1>3. /\ <<s, v>> \in DOMAIN schemas' /\ schemas'[<<s, v>>] = row
      /\ \A k \in DOMAIN schemas' :
           k = <<s, v>> \/ (k \in DOMAIN schemas /\ k \notin {s} \X P /\ schemas'[k] = schemas[k])
      /\ \A k \in DOMAIN schemas :
           k = <<s, v>> \/ k \in {s} \X P \/ (k \in DOMAIN schemas' /\ schemas'[k] = schemas[k])
  BY <1>2 DEF Put, Without
<1> QED BY <1>1, <1>3

\* What a commit knows: the content is what the versions removed had, the ID is
\* the one in the mapping, or it is the next.
LEMMA AtCommit ==
  ASSUME SQLInv, NEW c \in Clients, Commit(c)
  PROVE  /\ pc[c] = "commit" /\ pc[c] \in Creates /\ pc[c] \in Holding /\ pc[c] \in Inserting
         /\ req[c].subject \in Subjects /\ req[c].fp \in Fingerprints /\ req[c].meta \in Metas
         /\ loc[c] \in Locals /\ loc[c].version \in Nat \ {0}
         /\ loc[c].alloc = nextId /\ nextId \in Nat \ {0}
         /\ loc[c].claimed <=> req[c].fp \notin DOMAIN fingerprints
         /\ loc[c].id = IF loc[c].claimed THEN nextId ELSE fingerprints[req[c].fp]
         /\ \A w \in loc[c].purge : /\ <<req[c].subject, w>> \in DOMAIN schemas
                                    /\ schemas[<<req[c].subject, w>>].fp = req[c].fp
         /\ <<req[c].subject, loc[c].version>> \notin DOMAIN schemas \/ loc[c].version \in loc[c].purge
<1>1. pc[c] = "commit"
  BY DEF Commit
<1>2. pc[c] \in Creates /\ pc[c] \in Holding /\ pc[c] \in Inserting /\ pc[c] \in Versioned
  BY <1>1 DEF Creates, Versioned, Removing, Inserting, Holding
<1>3. /\ req[c].subject \in Subjects /\ req[c].fp \in Fingerprints /\ req[c].meta \in Metas
      /\ loc[c] \in Locals /\ Fits(pc[c], req[c], loc[c])
  BY <1>2, InCreate
<1>4. loc[c].alloc = nextId /\ loc[c].version # 0 /\ loc[c].version \in Nat
  BY <1>2, <1>3 DEF Fits, Carries, Locals
<1>5. nextId \in Nat \ {0}
  BY DEF SQLInv, TableInv, MappingInv
<1>6. Knows("commit", req[c], loc[c])
  BY <1>1, <1>3 DEF Fits
<1>7. /\ loc[c].claimed <=> req[c].fp \notin DOMAIN fingerprints
      /\ loc[c].id = IF loc[c].claimed THEN loc[c].alloc ELSE fingerprints[req[c].fp]
  BY <1>6 DEF Knows
<1>8. /\ \A w \in loc[c].purge : /\ <<req[c].subject, w>> \in DOMAIN schemas
                                 /\ schemas[<<req[c].subject, w>>].fp = req[c].fp
      /\ <<req[c].subject, loc[c].version>> \notin DOMAIN schemas \/ loc[c].version \in loc[c].purge
  BY <1>1, <1>2, <1>6 DEF Knows
<1> QED BY <1>1, <1>2, <1>3, <1>4, <1>5, <1>7, <1>8

\* A subject keeps its contents at a commit.
LEMMA CommitHolds ==
  ASSUME SQLInv, NEW c \in Clients, Commit(c), NEW t, NEW g, Holds(t, g)
  PROVE  Holds(t, g)'
<1>1. PICK s, f, v, P : /\ s = req[c].subject /\ f = req[c].fp /\ v = loc[c].version
                        /\ P = loc[c].purge
  OBVIOUS
<1>2. /\ <<s, v>> \in DOMAIN schemas' /\ schemas'[<<s, v>>].fp = f
      /\ \A k \in DOMAIN schemas :
           k = <<s, v>> \/ k \in {s} \X P \/ (k \in DOMAIN schemas' /\ schemas'[k] = schemas[k])
  BY <1>1, CommitRows
<1>3. PICK k \in DOMAIN schemas : k[1] = t /\ schemas[k].fp = g
  BY DEF Holds
<1>4. /\ \A w \in P : schemas[<<s, w>>].fp = f
      /\ <<s, v>> \notin DOMAIN schemas \/ v \in P
  BY <1>1, AtCommit
<1>5. CASE k = <<s, v>> \/ k \in {s} \X P
  <2>1. k[1] = s /\ schemas[k].fp = f
    BY <1>3, <1>4, <1>5
  <2>2. <<s, v>>[1] = s
    OBVIOUS
  <2> QED BY <1>2, <1>3, <2>1, <2>2 DEF Holds
<1>6. CASE k \in DOMAIN schemas' /\ schemas'[k] = schemas[k]
  BY <1>3, <1>6 DEF Holds
<1> QED BY <1>2, <1>5, <1>6

\* A commit keeps the tables in agreement, and adds to the mappings only.
LEMMA CommitTables ==
  ASSUME SQLInv, NEW c \in Clients, Commit(c)
  PROVE  /\ RowsInv' /\ MappingInv' /\ settings' = settings
         /\ DOMAIN fingerprints \subseteq DOMAIN fingerprints'
         /\ \A g \in DOMAIN fingerprints : fingerprints'[g] = fingerprints[g]
         /\ req[c].fp \in DOMAIN fingerprints' /\ fingerprints'[req[c].fp] = loc[c].id
<1>1. PICK s, f, v, P, row, id, b :
        /\ s = req[c].subject /\ f = req[c].fp /\ v = loc[c].version
        /\ P = loc[c].purge /\ row = NewRow(c) /\ id = loc[c].id /\ b = loc[c].claimed
  OBVIOUS
<1>2. /\ fingerprints' = IF b THEN Put(fingerprints, f, id) ELSE fingerprints
      /\ references' = IF \E r \in references : r[1] = id THEN references
                       ELSE references \cup ({id} \X Refs[f])
      /\ settings' = settings
  BY <1>1 DEF Commit, WithReferences
<1>3. nextId' = nextId + 1
  BY AtCommit DEF Commit
<1>4. /\ s \in Subjects /\ f \in Fingerprints /\ v \in Nat \ {0} /\ nextId \in Nat \ {0}
      /\ b <=> f \notin DOMAIN fingerprints
      /\ id = IF b THEN nextId ELSE fingerprints[f]
      /\ \A w \in P : <<s, w>> \in DOMAIN schemas /\ schemas[<<s, w>>].fp = f
      /\ <<s, v>> \notin DOMAIN schemas \/ v \in P
  BY <1>1, AtCommit
<1>5. row \in RowType /\ row.fp = f
  BY <1>1, AtCommit DEF NewRow, RowType
<1>6. RowsInv /\ MappingInv
  BY DEF SQLInv, TableInv
<1>7. /\ <<s, v>> \in DOMAIN schemas' /\ schemas'[<<s, v>>] = row
      /\ \A k \in DOMAIN schemas' :
           k = <<s, v>> \/ (k \in DOMAIN schemas /\ k \notin {s} \X P /\ schemas'[k] = schemas[k])
      /\ \A k \in DOMAIN schemas :
           k = <<s, v>> \/ k \in {s} \X P \/ (k \in DOMAIN schemas' /\ schemas'[k] = schemas[k])
  BY <1>1, CommitRows
<1>8. RowsInv'
  <2>1. DOMAIN schemas' \subseteq Subjects \X (Nat \ {0})
    BY <1>4, <1>6, <1>7 DEF RowsInv
  <2>2. \A k \in DOMAIN schemas' : schemas'[k] \in RowType
    BY <1>5, <1>6, <1>7 DEF RowsInv
  <2>3. ASSUME NEW t \in Subjects
        PROVE  \E e \in Nat : \A w \in VersionsOf(t)' : w <= e
    <3>1. PICK e \in Nat : \A w \in VersionsOf(t) : w <= e
      BY <1>6 DEF RowsInv
    <3>2. VersionsOf(t) \subseteq Nat
      BY <1>6, VersionRows
    <3>3. VersionsOf(t)' \subseteq VersionsOf(t) \cup {v}
      <4> SUFFICES ASSUME NEW k \in DOMAIN schemas', k[1] = t PROVE k[2] \in VersionsOf(t) \cup {v}
        BY DEF VersionsOf
      <4>1. CASE k = <<s, v>>
        BY <4>1
      <4>2. CASE k \in DOMAIN schemas
        BY <4>2 DEF VersionsOf
      <4> QED BY <4>1, <4>2, <1>7
    <3>4. \A w \in VersionsOf(t)' : w <= e + v
      BY <3>1, <3>2, <3>3, <1>4
    <3>5. e + v \in Nat
      BY <1>4
    <3> QED BY <3>4, <3>5
  <2> QED BY <2>1, <2>2, <2>3 DEF RowsInv
<1>9. /\ DOMAIN fingerprints' = DOMAIN fingerprints \cup {f} /\ fingerprints'[f] = id
      /\ \A g \in DOMAIN fingerprints : fingerprints'[g] = fingerprints[g]
  <2>1. CASE b
    BY <2>1, <1>2, <1>4 DEF Put
  <2>2. CASE ~b
    BY <2>2, <1>2, <1>4
  <2> QED BY <2>1, <2>2
<1>10. ContentsUsed' = ContentsUsed \cup {f}
  <2>1. ASSUME NEW k \in DOMAIN schemas' PROVE schemas'[k].fp \in ContentsUsed \cup {f}
    BY <1>5, <1>7 DEF ContentsUsed
  <2>2. f \in ContentsUsed'
    BY <1>5, <1>7 DEF ContentsUsed
  <2>3. ASSUME NEW k \in DOMAIN schemas PROVE schemas[k].fp \in ContentsUsed'
    <3>1. CASE k = <<s, v>> \/ k \in {s} \X P
      <4>1. schemas[k].fp = f
        BY <3>1, <1>4
      <4> QED BY <4>1, <2>2
    <3>2. CASE k \in DOMAIN schemas' /\ schemas'[k] = schemas[k]
      BY <3>2 DEF ContentsUsed
    <3> QED BY <3>1, <3>2, <1>7
  <2>4. ContentsUsed' \subseteq ContentsUsed \cup {f}
    BY <2>1 DEF ContentsUsed
  <2>5. ContentsUsed \subseteq ContentsUsed'
    BY <2>3 DEF ContentsUsed
  <2> QED BY <2>2, <2>4, <2>5
<1>11. id \in 1..nextId
  BY <1>4, <1>6 DEF MappingInv
<1>12. \A g \in DOMAIN fingerprints' : fingerprints'[g] \in 1..nextId
  BY <1>4, <1>6, <1>9, <1>11 DEF MappingInv
<1>13. \A g \in DOMAIN fingerprints : g # f => fingerprints[g] # id
  <2>1. CASE b
    BY <2>1, <1>4, <1>6 DEF MappingInv
  <2>2. CASE ~b
    BY <2>2, <1>4, <1>6 DEF MappingInv
  <2> QED BY <2>1, <2>2
<1>14. \A g, h \in DOMAIN fingerprints' : fingerprints'[g] = fingerprints'[h] => g = h
  BY <1>6, <1>9, <1>13 DEF MappingInv
<1>15. references' = references \cup ({id} \X Refs[f])
  <2>1. CASE ~\E r \in references : r[1] = id
    BY <2>1, <1>2
  <2>2. CASE \E r \in references : r[1] = id
    <3>1. PICK r \in references : r[1] = id
      BY <2>2
    <3>2. PICK g \in DOMAIN fingerprints : r \in {fingerprints[g]} \X Refs[g]
      BY <1>6 DEF MappingInv, ReferencesUsed
    <3>3. g = f
      BY <3>1, <3>2, <1>13
    <3>4. {id} \X Refs[f] \subseteq references
      BY <3>1, <3>2, <3>3, <1>6 DEF MappingInv, ReferencesUsed
    <3> QED BY <2>2, <3>4, <1>2
  <2> QED BY <2>1, <2>2
<1>16. ReferencesUsed' = ReferencesUsed \cup ({id} \X Refs[f])
  <2>1. ReferencesUsed' = UNION {{fingerprints'[g]} \X Refs[g] : g \in DOMAIN fingerprints'}
    BY DEF ReferencesUsed
  <2>2. ASSUME NEW x, x \in ReferencesUsed' PROVE x \in ReferencesUsed \cup ({id} \X Refs[f])
    <3>1. PICK g \in DOMAIN fingerprints' : x \in {fingerprints'[g]} \X Refs[g]
      BY <2>1, <2>2
    <3> QED BY <3>1, <1>9 DEF ReferencesUsed
  <2>3. ASSUME NEW x, x \in ReferencesUsed PROVE x \in ReferencesUsed'
    <3>1. PICK g \in DOMAIN fingerprints : x \in {fingerprints[g]} \X Refs[g]
      BY <2>3 DEF ReferencesUsed
    <3>2. g \in DOMAIN fingerprints' /\ fingerprints'[g] = fingerprints[g]
      BY <1>9
    <3> QED BY <3>1, <3>2, <2>1
  <2>4. ASSUME NEW x, x \in {id} \X Refs[f] PROVE x \in ReferencesUsed'
    <3>1. f \in DOMAIN fingerprints' /\ fingerprints'[f] = id
      BY <1>9
    <3> QED BY <3>1, <2>1, <2>4
  <2> QED BY <2>2, <2>3, <2>4
<1>17. MappingInv'
  <2>1. references' = ReferencesUsed'
    BY <1>6, <1>15, <1>16 DEF MappingInv
  <2>2. DOMAIN fingerprints' = ContentsUsed'
    BY <1>6, <1>9, <1>10 DEF MappingInv
  <2>3. nextId' \in Nat \ {0} /\ nextId' - 1 = nextId
    BY <1>3, <1>4
  <2>4. \A g \in DOMAIN fingerprints' : fingerprints'[g] \in 1..(nextId' - 1)
    BY <1>12, <2>3
  <2> QED BY <1>14, <2>1, <2>2, <2>3, <2>4 DEF MappingInv
<1> QED BY <1>1, <1>2, <1>8, <1>9, <1>17

\* A commit leaves what the others have in hand right: it takes the allocator row
\* and the rows it locked, and those are not theirs.
LEMMA CommitOthers ==
  ASSUME SQLInv, NEW c \in Clients, Commit(c), NEW d \in Clients \ {c}, load' = load,
         NEW p, NEW r, NEW l, p = pc[d], r = req[d], l = loc[d]
  PROVE  Fits(p, r, l)'
<1>1. PICK s, f, v, P : /\ s = req[c].subject /\ f = req[c].fp /\ v = loc[c].version
                        /\ P = loc[c].purge
  OBVIOUS
<1>3. /\ \A k \in DOMAIN schemas' :
           k = <<s, v>> \/ (k \in DOMAIN schemas /\ k \notin {s} \X P /\ schemas'[k] = schemas[k])
      /\ \A k \in DOMAIN schemas :
           k = <<s, v>> \/ k \in {s} \X P \/ (k \in DOMAIN schemas' /\ schemas'[k] = schemas[k])
  <2>1. PICK row : row = NewRow(c)
    OBVIOUS
  <2>2. schemas' = Put(Without(schemas, {s} \X P), <<s, v>>, row)
    BY <1>1, <2>1 DEF Commit
  <2> QED BY <2>2 DEF Put, Without
<1>4. Fits(p, r, l)
  BY DEF SQLInv
<1>5. l.alloc = 0
  BY AtCommit DEF SQLInv, LocksApart
<1>6. p \notin Holding
  BY <1>4, <1>5, AtCommit DEF Fits, Carries
<1>7. Held(pc[c], loc[c]) = P \cup {v}
  BY <1>1, AtCommit DEF Held
<1>8. r.subject = s => \A w \in Held(p, l) : w \notin P /\ w # v
  BY <1>1, <1>7 DEF SQLInv, LocksApart
<1>9. Serves(p, r)'
  BY <1>4 DEF Fits, Serves
<1>10. Carries(p, l)'
  BY <1>4, <1>6 DEF Fits, Carries
<1>11. Knows(p, r, l)'
  <2>1. Knows(p, r, l)
    BY <1>4 DEF Fits
  <2>2. p = "duplicate" => Holds(r.subject, r.fp)'
    <3> SUFFICES ASSUME p = "duplicate" PROVE Holds(r.subject, r.fp)'
      OBVIOUS
    <3>1. PICK t, g : t = r.subject /\ g = r.fp
      OBVIOUS
    <3>2. Holds(t, g)
      BY <2>1, <3>1 DEF Knows
    <3>3. Holds(t, g)'
      BY <3>2, CommitHolds
    <3> QED BY <3>1, <3>3 DEF Holds
  <2>3. ASSUME NEW w \in l.purge
        PROVE  <<r.subject, w>> \in DOMAIN schemas' /\ schemas'[<<r.subject, w>>].fp = r.fp
    <3>1. <<r.subject, w>> \in DOMAIN schemas /\ schemas[<<r.subject, w>>].fp = r.fp
      BY <2>1 DEF Knows
    <3>2. w \in Held(p, l)
      BY DEF Held
    <3>3. <<r.subject, w>> # <<s, v>> /\ <<r.subject, w>> \notin {s} \X P
      BY <3>2, <1>8
    <3> QED BY <3>1, <3>3, <1>3
  <2>4. ASSUME p \in Inserting
        PROVE  <<r.subject, l.version>> \notin DOMAIN schemas' \/ l.version \in l.purge
    <3>1. <<r.subject, l.version>> \notin DOMAIN schemas \/ l.version \in l.purge
      BY <2>1, <2>4 DEF Knows
    <3>2. l.version \in Held(p, l)
      BY <2>4 DEF Held
    <3>3. <<r.subject, l.version>> # <<s, v>>
      BY <3>2, <1>8
    <3> QED BY <3>1, <3>3, <1>3
  <2>5. p \notin {"resolve", "commit"}
    BY <1>6 DEF Holding
  <2> QED BY <2>2, <2>3, <2>4, <2>5 DEF Knows
<1> QED BY <1>9, <1>10, <1>11 DEF Fits

\* What was answered, and what the commit answers, is stored after it.
LEMMA CommitAnswers ==
  ASSUME SQLInv, NEW c \in Clients, Commit(c)
  PROVE  AnswersStored'
<1>0. Answer(c, loc[c].version, loc[c].id)
  BY DEF Commit
<1>1. PICK s, f, v, id : s = req[c].subject /\ f = req[c].fp /\ v = loc[c].version /\ id = loc[c].id
  OBVIOUS
<1>2. f \in DOMAIN fingerprints' /\ fingerprints'[f] = id
  BY <1>1, CommitTables
<1>3. Holds(s, f)'
  <2>1. PICK P : P = loc[c].purge
    OBVIOUS
  <2>2. <<s, v>> \in DOMAIN schemas' /\ schemas'[<<s, v>>].fp = f
    BY <1>1, <2>1, CommitRows
  <2>3. <<s, v>>[1] = s
    OBVIOUS
  <2> QED BY <2>2, <2>3 DEF Holds
<1>4. \A p \in promised : /\ p.fp \in DOMAIN fingerprints' /\ fingerprints'[p.fp] = p.id
                          /\ \E k \in DOMAIN schemas' : k[1] = p.subject /\ schemas'[k].fp = p.fp
  <2> SUFFICES ASSUME NEW p \in promised
               PROVE  /\ p.fp \in DOMAIN fingerprints' /\ fingerprints'[p.fp] = p.id
                      /\ \E k \in DOMAIN schemas' : k[1] = p.subject /\ schemas'[k].fp = p.fp
    OBVIOUS
  <2>1. PICK t, g : t = p.subject /\ g = p.fp
    OBVIOUS
  <2>2. g \in DOMAIN fingerprints /\ fingerprints[g] = p.id /\ Holds(t, g)
    BY <2>1 DEF SQLInv, AnswersStored
  <2>3. g \in DOMAIN fingerprints' /\ fingerprints'[g] = p.id
    BY <2>2, CommitTables
  <2>4. Holds(t, g)'
    BY <2>2, CommitHolds
  <2> QED BY <2>1, <2>3, <2>4 DEF Holds
<1>5. Answer(c, v, id)
  BY <1>0, <1>1
<1> QED BY <1>1, <1>2, <1>3, <1>4, <1>5, AnswerStored

\* A commit keeps the invariant.
LEMMA CommitStep ==
  ASSUME SQLInv, NEW c \in Clients, Commit(c)
  PROVE  SQLInv'
<1>1. Finish(c) /\ Deployed /\ Answer(c, loc[c].version, loc[c].id)
  BY DEF Commit, Answer
<1>2. PICK p \in Places, q \in RequestType \cup {NoRequest}, k \in Locals :
        p = "idle" /\ q = NoRequest /\ k = NoLocals
  BY IdleFits DEF Places
<1>3. pc' = [pc EXCEPT ![c] = p] /\ req' = [req EXCEPT ![c] = q] /\ loc' = [loc EXCEPT ![c] = k]
  BY <1>1, <1>2 DEF Finish, Goto
<1>4. TableInv'
  BY CommitTables DEF SQLInv, TableInv
<1>5. AnswersStored'
  BY CommitAnswers
<1>6. Fits(p, q, k)' /\ Held(p, k) = {} /\ k.alloc = 0
  <2>1. Held(p, k) = {} /\ k.alloc = 0
    BY <1>2, IdleFits
  <2>2. Fits(p, q, k)'
    BY <1>2 DEF Fits, Serves, Carries, Knows, NoLocals, Holding, Inserting, Removing, Versioned, Creates, Softs
  <2> QED BY <2>1, <2>2
<1>7. ASSUME NEW d \in Clients \ {c} PROVE Fits(pc[d], req[d], loc[d])'
  <2>1. PICK x, r, l : x = pc[d] /\ r = req[d] /\ l = loc[d]
    OBVIOUS
  <2>2. pc'[d] = x /\ req'[d] = r /\ loc'[d] = l
    BY <1>3, <2>1 DEF SQLInv, ClientShape
  <2>3. load' = load
    BY <1>1 DEF Deployed
  <2>4. Fits(x, r, l)'
    BY <2>1, <2>3, CommitOthers
  <2> QED BY <2>2, <2>4 DEF Fits, Serves, Carries, Knows, Holds
<1>8. \A d \in Clients \ {c} :
        /\ q.subject = req[d].subject => Held(p, k) \cap Held(pc[d], loc[d]) = {}
        /\ k.alloc = 0 \/ loc[d].alloc = 0
  BY <1>6
<1> QED BY <1>1, <1>3, <1>4, <1>5, <1>6, <1>7, <1>8, StepFrame

-----------------------------------------------------------------------------
(* Soft deletes, settings and new calls.                                   *)

\* A soft delete marks rows: nothing else that the invariant speaks of changes.
LEMMA SoftStep ==
  ASSUME SQLInv, NEW c \in Clients, NEW K, schemas' = SoftDeleted(K), OnlySchemas, End(c)
  PROVE  SQLInv'
<1>1. /\ pc' = [pc EXCEPT ![c] = "idle"] /\ req' = [req EXCEPT ![c] = NoRequest]
      /\ loc' = [loc EXCEPT ![c] = NoLocals] /\ Deployed /\ promised' = promised
  BY DEF End, Finish, Goto
<1>2. UNCHANGED <<fingerprints, references, nextId, settings, load>>
  BY <1>1 DEF OnlySchemas, Deployed
<1>3. RowsInv /\ MappingInv
  BY DEF SQLInv, TableInv
<1>4. DOMAIN schemas' = DOMAIN schemas /\ \A k \in DOMAIN schemas : schemas'[k] \in RowType /\ schemas'[k].fp = schemas[k].fp
  BY <1>3 DEF SoftDeleted, RowsInv, RowType
<1>5. \A s \in Subjects : VersionsOf(s)' = VersionsOf(s)
  BY <1>4 DEF VersionsOf
<1>6. RowsInv'
  BY <1>3, <1>4, <1>5 DEF RowsInv
<1>7. ContentsUsed' = ContentsUsed
  BY <1>4 DEF ContentsUsed
<1>8. ReferencesUsed' = ReferencesUsed
  BY <1>2 DEF ReferencesUsed
<1>9. MappingInv'
  BY <1>2, <1>3, <1>7, <1>8 DEF MappingInv
<1>10. TableInv'
  BY <1>2, <1>6, <1>9 DEF SQLInv, TableInv
<1>11. AnswersStored'
  BY <1>1, <1>2, <1>4 DEF SQLInv, AnswersStored, Holds
<1>12. ASSUME NEW p, NEW r, NEW l, Fits(p, r, l) PROVE Fits(p, r, l)'
  <2>1. Serves(p, r)' /\ Carries(p, l)'
    BY <1>2, <1>12 DEF Fits, Serves, Carries
  <2>2. Knows(p, r, l)'
    BY <1>2, <1>4, <1>12 DEF Fits, Knows, Holds
  <2> QED BY <2>1, <2>2 DEF Fits
<1>13. PICK p \in Places, q \in RequestType \cup {NoRequest}, k \in Locals :
         p = "idle" /\ q = NoRequest /\ k = NoLocals
  BY IdleFits DEF Places
<1>14. Fits(p, q, k) /\ Held(p, k) = {} /\ k.alloc = 0
  BY <1>13, IdleFits
<1>15. Fits(p, q, k)'
  BY <1>12, <1>14
<1>16. pc' = [pc EXCEPT ![c] = p] /\ req' = [req EXCEPT ![c] = q] /\ loc' = [loc EXCEPT ![c] = k]
  BY <1>1, <1>13
<1>17. ASSUME NEW d \in Clients \ {c} PROVE Fits(pc[d], req[d], loc[d])'
  <2>1. PICK x, r, l : x = pc[d] /\ r = req[d] /\ l = loc[d]
    OBVIOUS
  <2>2. pc'[d] = x /\ req'[d] = r /\ loc'[d] = l
    BY <1>16, <2>1 DEF SQLInv, ClientShape
  <2>3. Fits(x, r, l)
    BY <2>1 DEF SQLInv
  <2>4. Fits(x, r, l)'
    BY <2>3, <1>12
  <2> QED BY <2>2, <2>4 DEF Fits, Serves, Carries, Knows, Holds
<1>18. \A d \in Clients \ {c} :
         /\ q.subject = req[d].subject => Held(p, k) \cap Held(pc[d], loc[d]) = {}
         /\ k.alloc = 0 \/ loc[d].alloc = 0
  BY <1>14
<1> QED BY <1>1, <1>10, <1>11, <1>15, <1>16, <1>17, <1>18, StepFrame

\* The check of a soft delete keeps the invariant.
LEMMA SoftReadStep ==
  ASSUME SQLInv, NEW c \in Clients, SoftRead(c)
  PROVE  SQLInv'
<1>1. pc[c] = "softRead" /\ UNCHANGED tableVars
  BY DEF SoftRead
<1>2. CASE End(c)
  BY <1>1, <1>2, EndStep
<1>3. CASE Continue(c, "softSubject") /\ Unmoved
  <2>1. PICK k \in Locals : k = loc[c]
    BY DEF SQLInv, ClientShape
  <2>2. Fits(pc[c], req[c], loc[c])
    BY DEF SQLInv
  <2>3. Serves("softSubject", req[c])
    BY <1>1, <2>2 DEF Fits, Serves, Softs, Creates, Versioned, Removing, Inserting, Holding
  <2>4. Carries("softSubject", k) /\ Knows("softSubject", req[c], k)
    BY <1>1, <2>1, <2>2 DEF Fits, Carries, Knows, Versioned, Removing, Inserting, Holding
  <2>5. Fits("softSubject", req[c], k) /\ "softSubject" \in Places
    BY <2>3, <2>4 DEF Fits, Places, Softs
  <2>6. Held("softSubject", k) \subseteq Held(pc[c], loc[c])
    BY <2>1 DEF Held, Inserting, Holding
  <2>7. Goto(c, "softSubject") /\ loc' = [loc EXCEPT ![c] = k]
    BY <1>3, <2>1 DEF Continue, SQLInv, ClientShape
  <2> QED BY <1>1, <1>3, <2>1, <2>5, <2>6, <2>7, MoveStep
<1> QED BY <1>2, <1>3 DEF SoftRead

\* A setting, and its repeats.
LEMMA SettingStep ==
  ASSUME SQLInv, NEW c \in Clients, pc[c] = "setting", Written(c) \/ UNCHANGED settings,
         UNCHANGED <<schemas, fingerprints, references, nextId>>,
         \/ End(c)
         \/ Keep(c, "setting", [loc[c] EXCEPT !.attempt = @ + 1]) /\ Unmoved
  PROVE  SQLInv'
<1>1. Fits(pc[c], req[c], loc[c]) /\ loc[c] \in Locals /\ load \in Loads /\ req[c] \in RequestType \cup {NoRequest}
  BY DEF SQLInv, ClientShape
<1>2. req[c] \in Calls[load] /\ req[c].op \in {"set", "unset"}
  BY <1>1 DEF Fits, Serves
<1>3. settings' \subseteq Subjects \X {"configs", "modes"}
  BY <1>1, <1>2, RequestFields DEF SQLInv, TableInv, Written
<1>4. AnswersStored'
  BY DEF SQLInv, AnswersStored, Holds, End, Unmoved
<1>5. CASE End(c)
  <2>1. PICK p \in Places, q \in RequestType \cup {NoRequest}, k \in Locals :
          p = "idle" /\ q = NoRequest /\ k = NoLocals
    BY IdleFits DEF Places
  <2>2. Fits(p, q, k) /\ Held(p, k) = {} /\ k.alloc = 0
    BY <2>1, IdleFits
  <2>3. /\ pc' = [pc EXCEPT ![c] = p] /\ req' = [req EXCEPT ![c] = q]
        /\ loc' = [loc EXCEPT ![c] = k] /\ Deployed
    BY <1>5, <2>1 DEF End, Finish, Goto
  <2>4. \A d \in Clients \ {c} :
          /\ q.subject = req[d].subject => Held(p, k) \cap Held(pc[d], loc[d]) = {}
          /\ k.alloc = 0 \/ loc[d].alloc = 0
    BY <2>2
  <2> QED BY <1>3, <1>4, <2>2, <2>3, <2>4, CalmStep
<1>6. CASE Keep(c, "setting", [loc[c] EXCEPT !.attempt = @ + 1]) /\ Unmoved
  <2>1. PICK n \in Nat : n = loc[c].attempt + 1
    BY <1>1 DEF Locals
  <2>2. PICK k : k = [loc[c] EXCEPT !.attempt = n]
    OBVIOUS
  <2>3. k \in Locals /\ k.alloc = loc[c].alloc /\ k.purge = loc[c].purge /\ k.claimed = loc[c].claimed
    BY <1>1, <2>2 DEF Locals
  <2>4. PICK p \in Places, q \in RequestType \cup {NoRequest} : p = "setting" /\ q = req[c]
    BY <1>1 DEF Places
  <2>5. p \notin Inserting /\ p \notin Holding /\ p \notin Removing /\ p \notin Versioned
        /\ p \notin {"resolve", "commit", "duplicate"}
    BY <2>4 DEF Versioned, Removing, Inserting, Holding
  <2>6. k.alloc = 0 /\ k.purge = {} /\ k.claimed = FALSE
    BY <1>1, <2>3, <2>4, <2>5 DEF Fits, Carries
  <2>7. Serves(p, q)
    BY <1>1, <2>4 DEF Fits
  <2>8. Fits(p, q, k)
    BY <2>5, <2>6, <2>7 DEF Fits, Carries, Knows
  <2>9. Held(p, k) = {}
    BY <2>5, <2>6 DEF Held
  <2>10. /\ pc' = [pc EXCEPT ![c] = p] /\ req' = [req EXCEPT ![c] = q]
         /\ loc' = [loc EXCEPT ![c] = k] /\ Deployed
    BY <1>6, <2>1, <2>2, <2>4 DEF Keep, Goto, Unmoved, SQLInv, ClientShape
  <2>11. \A d \in Clients \ {c} :
           /\ q.subject = req[d].subject => Held(p, k) \cap Held(pc[d], loc[d]) = {}
           /\ k.alloc = 0 \/ loc[d].alloc = 0
    BY <2>6, <2>9
  <2> QED BY <1>3, <1>4, <2>3, <2>8, <2>10, <2>11, CalmStep
<1> QED BY <1>5, <1>6

\* A new call starts where its operation does, with nothing in hand.
LEMMA BeginStep ==
  ASSUME SQLInv, Additive, NEW c \in Clients, NEW r \in Calls[load], Begin(c, r)
  PROVE  SQLInv'
<1>1. load \in Loads /\ loc[c] \in Locals /\ Fits(pc[c], req[c], loc[c]) /\ pc[c] = "idle"
  BY DEF SQLInv, ClientShape, Begin
<1>2. /\ r \in RequestType
      /\ r.op \in {"create", "deleteVersion", "deleteSubject", "set", "unset"}
      /\ r.op = "deleteVersion" => r.version \in Nat
      /\ r.op \in {"deleteVersion", "deleteSubject"} => r.permanent = FALSE
  BY <1>1, RequestFields DEF Additive
<1>3. PICK p : p = FirstStep(r)
  OBVIOUS
<1>4. /\ r.op = "create" => p = "max"
      /\ r.op = "deleteVersion" => p = "softVersion"
      /\ r.op = "deleteSubject" => p = "softRead"
      /\ r.op \in {"set", "unset"} => p = "setting"
  BY <1>2, <1>3 DEF FirstStep
<1>5. p \in Places /\ p # "idle" /\ p \notin Versioned /\ p \notin Removing /\ p \notin Inserting /\ p \notin Holding
      /\ p \notin {"resolve", "commit", "duplicate"}
  BY <1>2, <1>4 DEF Places, Creates, Softs, Versioned, Removing, Inserting, Holding
<1>6. Serves(p, r)
  BY <1>2, <1>4 DEF Serves, Creates, Softs, Versioned, Removing, Inserting, Holding
<1>7. PICK n \in Nat : n = IF r.op \in {"import", "deleteVersion"} THEN r.version ELSE 0
  BY <1>2
<1>8. PICK k : k = [loc[c] EXCEPT !.version = n]
  OBVIOUS
<1>9. k \in Locals /\ k.alloc = loc[c].alloc /\ k.purge = loc[c].purge /\ k.claimed = loc[c].claimed
  BY <1>1, <1>8 DEF Locals
<1>10. k.alloc = 0 /\ k.purge = {} /\ k.claimed = FALSE
  BY <1>1, <1>9 DEF Fits, Carries, Removing, Inserting, Holding
<1>11. Fits(p, r, k)
  BY <1>5, <1>6, <1>10 DEF Fits, Carries, Knows
<1>12. pc' = [pc EXCEPT ![c] = p] /\ req' = [req EXCEPT ![c] = r] /\ Deployed /\ UNCHANGED tableVars
       /\ promised' = promised
  BY <1>3 DEF Begin, Goto
<1>13. loc' = [loc EXCEPT ![c] = k]
  BY <1>7, <1>8 DEF Begin
<1>14. Held(p, k) = {}
  BY <1>5, <1>10 DEF Held
<1>15. \A d \in Clients \ {c} :
         /\ r.subject = req[d].subject => Held(p, k) \cap Held(pc[d], loc[d]) = {}
         /\ k.alloc = 0 \/ loc[d].alloc = 0
  BY <1>10, <1>14
<1>16. AnswersStored'
  BY <1>12 DEF SQLInv, AnswersStored, Holds, tableVars
<1>17. r \in RequestType \cup {NoRequest}
  BY <1>2
<1> QED BY <1>5, <1>9, <1>11, <1>12, <1>13, <1>15, <1>16, <1>17, QuietStep

-----------------------------------------------------------------------------
(* The steps of both backends.                                             *)

\* A workload without imports and permanent deletes reaches none of their steps.
LEMMA OtherSteps ==
  ASSUME SQLInv, NEW c \in Clients
  PROVE  /\ ~PgImport(c) /\ ~MyImport(c) /\ ~SetNextID(c)
         /\ ~CheckVersion(c) /\ ~DeleteRow(c) /\ ~CountAll(c) /\ ~ReadAll(c) /\ ~DeleteRows(c)
         /\ ~DropSettings(c) /\ ~Cleanup(c) /\ ~DropMapping(c)
<1>1. pc[c] \in Places
  BY DEF SQLInv, ClientShape
<1>2. pc[c] \notin {"importID", "importVersion", "importInsert", "importClaim", "importAdvance",
                    "importCommit", "importMax", "setNextID", "check", "deleteRow", "countAll",
                    "readAll", "deleteRows", "dropConfig", "dropMode", "cleanup", "cleanupID",
                    "dropReferences", "dropMapping"}
  BY <1>1 DEF Places, Creates, Softs, Versioned, Removing, Inserting, Holding
<1>3. ~PgImport(c) /\ ~MyImport(c) /\ ~SetNextID(c)
  BY <1>2 DEF PgImport, MyImport, ImportInsert, ImportClaim, ImportAdvance, ImportCommit, ImportMax, SetNextID
<1>4. ~CheckVersion(c) /\ ~DeleteRow(c) /\ ~CountAll(c) /\ ~ReadAll(c) /\ ~DeleteRows(c)
  BY <1>2 DEF CheckVersion, DeleteRow, CountAll, ReadAll, DeleteRows
<1>5. ~DropSettings(c) /\ ~Cleanup(c) /\ ~DropMapping(c)
  BY <1>2 DEF DropSettings, Cleanup, CleanupCount, CleanupID, DropReferences, DropMapping
<1> QED BY <1>3, <1>4, <1>5

\* Both soft deletes keep the invariant.
LEMMA SoftSteps ==
  ASSUME SQLInv, NEW c \in Clients, SoftVersion(c) \/ SoftSubject(c)
  PROVE  SQLInv'
<1>1. CASE SoftVersion(c)
  <2>1. PICK K : K = {<<req[c].subject, req[c].version>>}
    OBVIOUS
  <2>2. schemas' = SoftDeleted(K) /\ OnlySchemas /\ End(c)
    BY <1>1, <2>1 DEF SoftVersion
  <2> QED BY <2>2, SoftStep
<1>2. CASE SoftSubject(c)
  <2>1. PICK K : K = {req[c].subject} \X VersionsOf(req[c].subject)
    OBVIOUS
  <2>2. schemas' = SoftDeleted(K) /\ OnlySchemas /\ End(c)
    BY <1>2, <2>1 DEF SoftSubject
  <2> QED BY <2>2, SoftStep
<1> QED BY <1>1, <1>2

\* Every statement of the PostgreSQL backend keeps the invariant.
LEMMA PgInvStep ==
  ASSUME SQLInv, NEW c \in Clients, PgStep(c)
  PROVE  SQLInv'
<1>1. CASE PgMaxVersion(c)
  BY <1>1, MaxStep
<1>2. CASE PgCheckContent(c)
  <2>1. pc[c] = "content" /\ SelectContent(c, loc[c].version) /\ UNCHANGED tableVars /\ Unmoved
    BY <1>2 DEF PgCheckContent
  <2>2. "content" \in Creates /\ "content" \in Versioned
    BY DEF Creates, Versioned
  <2>3. loc[c].version \in Nat \ {0}
    BY <2>1, <2>2, InCreate DEF Fits, Carries, Locals
  <2>4. PICK v \in Nat \ {0} : v = loc[c].version
    BY <2>3
  <2> QED BY <2>1, <2>4, ContentStep
<1>3. CASE Duplicate(c)
  BY <1>3, DuplicateStep
<1>4. CASE Purge(c)
  BY <1>4, PurgeStep
<1>5. CASE Insert(c, "alloc")
  BY <1>5, InsertStep
<1>6. CASE Allocate(c)
  BY <1>6, AllocateStep
<1>7. CASE PgClaim(c)
  <2>1. CASE Claim(c)
    BY <2>1, ClaimStep
  <2>2. CASE End(c) /\ UNCHANGED tableVars
    BY <2>2, EndStep
  <2> QED BY <1>7, <2>1, <2>2 DEF PgClaim
<1>8. CASE Resolve(c)
  BY <1>8, ResolveStep
<1>9. CASE Commit(c)
  BY <1>9, CommitStep
<1>10. CASE SoftVersion(c) \/ SoftSubject(c)
  BY <1>10, SoftSteps
<1>11. CASE SoftRead(c)
  BY <1>11, SoftReadStep
<1>12. CASE PgSetting(c)
  <2>1. /\ pc[c] = "setting" /\ Written(c) /\ UNCHANGED <<schemas, fingerprints, references, nextId>>
        /\ End(c)
    BY <1>12 DEF PgSetting
  <2> QED BY <2>1, SettingStep
<1>13. CASE PgCreateAttempt(c)
  BY <1>13, <1>1, <1>2, <1>3, <1>4, <1>5, <1>6, <1>7, <1>8, <1>9 DEF PgCreateAttempt
<1> QED
  BY <1>10, <1>11, <1>12, <1>13, OtherSteps
  DEF PgStep, PgSetNextID, PgDeleteSchema, PgDeleteSubject, PgCleanup

\* Every statement of the MySQL backend keeps the invariant.
LEMMA MyInvStep ==
  ASSUME SQLInv, NEW c \in Clients, MyStep(c)
  PROVE  SQLInv'
<1>1. CASE MySnapshot(c)
  <2>1. /\ pc[c] = "max" /\ SelectContent(c, SelectMax(req[c].subject))
        /\ UNCHANGED tableVars /\ Unmoved
    BY <1>1 DEF MySnapshot
  <2>2. "max" \in Creates
    BY DEF Creates
  <2>3. SelectMax(req[c].subject) \in Nat \ {0}
    BY <2>1, <2>2, InCreate, HighestVersion DEF SelectMax, SQLInv, TableInv
  <2>4. PICK v \in Nat \ {0} : v = SelectMax(req[c].subject)
    BY <2>3
  <2> QED BY <2>1, <2>4, ContentStep
<1>2. CASE Duplicate(c)
  BY <1>2, DuplicateStep
<1>3. CASE Purge(c)
  BY <1>3, PurgeStep
<1>4. CASE Insert(c, "allocShared")
  BY <1>4, InsertStep
<1>5. CASE MyShareAlloc(c)
  BY <1>5, ShareStep
<1>6. CASE Allocate(c)
  BY <1>6, AllocateStep
<1>7. CASE MyDeadlock(c)
  <2>1. pc[c] = "alloc" /\ UNCHANGED tableVars /\ Again(c)
    BY <1>7 DEF MyDeadlock, SharedAlloc
  <2>2. pc[c] \in Creates
    BY <2>1 DEF Creates, Versioned, Removing, Inserting
  <2> QED BY <2>1, <2>2, AgainStep
<1>8. CASE Claim(c)
  BY <1>8, ClaimStep
<1>9. CASE Resolve(c)
  BY <1>9, ResolveStep
<1>10. CASE Commit(c)
  BY <1>10, CommitStep
<1>11. CASE SoftVersion(c) \/ SoftSubject(c)
  BY <1>11, SoftSteps
<1>12. CASE SoftRead(c)
  BY <1>12, SoftReadStep
<1>13. CASE MySetting(c) \/ MySettingBroken(c)
  <2>1. /\ pc[c] = "setting" /\ (Written(c) \/ UNCHANGED settings)
        /\ UNCHANGED <<schemas, fingerprints, references, nextId>>
        /\ \/ End(c)
           \/ Keep(c, "setting", [loc[c] EXCEPT !.attempt = @ + 1]) /\ Unmoved
    BY <1>13 DEF MySetting, MySettingBroken
  <2> QED BY <2>1, SettingStep
<1>14. CASE MyCreateAttempt(c)
  BY <1>14, <1>1, <1>2, <1>3, <1>4, <1>5, <1>6, <1>7, <1>8, <1>9, <1>10 DEF MyCreateAttempt
<1> QED
  BY <1>11, <1>12, <1>13, <1>14, OtherSteps
  DEF MyStep, MySetNextID, MyDeleteSchema, MyDeleteSubject, MyCleanup

\* The empty tables satisfy the invariant.
LEMMA SQLInit ==
  ASSUME Init
  PROVE  SQLInv
<1>1. /\ engine \in Engines /\ load \in Loads
      /\ schemas = EmptyTable /\ fingerprints = EmptyTable
      /\ references = {} /\ nextId = 1 /\ settings = {} /\ promised = {}
      /\ pc = [c \in Clients |-> "idle"] /\ req = [c \in Clients |-> NoRequest]
      /\ loc = [c \in Clients |-> NoLocals]
  BY DEF Init
<1>2. DOMAIN schemas = {} /\ DOMAIN fingerprints = {}
  BY <1>1 DEF EmptyTable
<1>3. ClientShape
  BY <1>1, IdleFits DEF ClientShape, Places
<1>4. RowsInv
  <2>1. \A s \in Subjects : VersionsOf(s) = {}
    BY <1>2 DEF VersionsOf
  <2> QED BY <1>2, <2>1 DEF RowsInv
<1>5. ContentsUsed = {} /\ ReferencesUsed = {}
  BY <1>2 DEF ContentsUsed, ReferencesUsed
<1>6. MappingInv
  BY <1>1, <1>2, <1>5 DEF MappingInv
<1>7. TableInv /\ AnswersStored
  BY <1>1, <1>4, <1>6 DEF TableInv, AnswersStored
<1>8. \A c \in Clients : Fits(pc[c], req[c], loc[c])
  BY <1>1, IdleFits
<1>9. LocksApart
  BY <1>1, IdleFits DEF LocksApart
<1> QED BY <1>3, <1>7, <1>8, <1>9 DEF SQLInv

\* Every step of an additive workload keeps the invariant.
LEMMA SQLNext ==
  ASSUME SQLInv, Additive, [Next]_vars
  PROVE  SQLInv'
<1>1. CASE UNCHANGED vars
  <2>1. /\ UNCHANGED <<schemas, fingerprints, references, nextId, settings>>
        /\ UNCHANGED <<engine, load, pc, req, loc, promised>>
    BY <1>1 DEF vars, tableVars
  <2>2. TableInv'
    <3>1. RowsInv' /\ MappingInv'
      BY <2>1, TablesFrame DEF TableInv, SQLInv
    <3> QED BY <2>1, <3>1 DEF TableInv, SQLInv
  <2>3. ClientShape' /\ LocksApart' /\ AnswersStored'
    BY <2>1 DEF SQLInv, ClientShape, LocksApart, Held, AnswersStored, Holds
  <2>4. \A c \in Clients : Fits(pc[c], req[c], loc[c])'
    <3> SUFFICES ASSUME NEW c \in Clients PROVE Fits(pc[c], req[c], loc[c])'
      OBVIOUS
    <3>1. PICK x, r, l : x = pc[c] /\ r = req[c] /\ l = loc[c]
      OBVIOUS
    <3>2. Fits(x, r, l)
      BY <3>1 DEF SQLInv
    <3>3. Fits(x, r, l)'
      BY <2>1, <3>2, FitsFrame
    <3> QED BY <2>1, <3>1, <3>3
  <2> QED BY <2>2, <2>3, <2>4 DEF SQLInv
<1>2. ASSUME NEW c \in Clients, Step(c) PROVE SQLInv'
  BY <1>2, PgInvStep, MyInvStep DEF Step
<1>3. ASSUME NEW c \in Clients, NEW r \in Calls[load], Begin(c, r) PROVE SQLInv'
  BY <1>3, BeginStep
<1> QED BY <1>1, <1>2, <1>3 DEF Next

\* The deployment and the workload never change.
LEMMA LoadKept ==
  ASSUME [Next]_vars
  PROVE  load' = load
<1>1. CASE UNCHANGED vars
  BY <1>1 DEF vars
<1>2. ASSUME NEW c \in Clients, NEW r \in Calls[load], Begin(c, r) PROVE load' = load
  BY <1>2 DEF Begin, Deployed
<1>3. ASSUME NEW c \in Clients, PgStep(c) PROVE load' = load
  BY <1>3 DEF PgStep, PgCreateAttempt, PgMaxVersion, PgCheckContent, Duplicate, Purge, Insert,
     Allocate, PgClaim, Claim, Resolve, Commit, PgImport, ImportSelectID, ImportSelectVersion,
     ImportInsert, ImportClaim, ImportAdvance, ImportCommit, ImportMax, PgSetNextID, SetNextID,
     PgDeleteSchema, SoftVersion, CheckVersion, DeleteRow, PgDeleteSubject, SoftRead, SoftSubject,
     CountAll, ReadAll, DeleteRows, DropSettings, PgCleanup, Cleanup, CleanupCount, CleanupID,
     DropReferences, DropMapping, NextContent, PgSetting, Again, End, Answer, Unmoved, Deployed
<1>4. ASSUME NEW c \in Clients, MyStep(c) PROVE load' = load
  BY <1>4 DEF MyStep, MyCreateAttempt, MySnapshot, MyShareAlloc, MyDeadlock, Duplicate, Purge, Insert,
     Allocate, Claim, Resolve, Commit, MyImport, ImportSelectID,
     ImportInsert, ImportClaim, ImportAdvance, ImportCommit, ImportMax, MySetNextID, SetNextID,
     MyDeleteSchema, SoftVersion, CheckVersion, DeleteRow, MyDeleteSubject, SoftRead, SoftSubject,
     CountAll, ReadAll, DeleteRows, DropSettings, MyCleanup, Cleanup, CleanupCount, CleanupID,
     DropReferences, DropMapping, NextContent, MySetting, MySettingBroken, Again, End, Answer, Unmoved, Deployed
<1> QED BY <1>1, <1>2, <1>3, <1>4 DEF Next, Step

\* Whatever the workload registers and soft-deletes, the invariant holds: of the
\* calls in progress on either backend and of the tables.
THEOREM SQLIntegrity == Spec => [](Additive => SQLInv)
<1>1. Init => (Additive => SQLInv)
  BY SQLInit
<1>2. (Additive => SQLInv) /\ [Next]_vars => (Additive => SQLInv)'
  <2> SUFFICES ASSUME Additive => SQLInv, [Next]_vars, Additive' PROVE SQLInv'
    OBVIOUS
  <2>1. Additive
    BY LoadKept DEF Additive
  <2> QED BY <2>1, SQLNext
<1> QED BY <1>1, <1>2, PTL DEF Spec

\* In every state of the invariant the tables hold together.
LEMMA InvTablesAgree ==
  ASSUME SQLInv
  PROVE  TablesAgree
<1>1. RowsInv /\ MappingInv /\ TableInv /\ ClientShape
  BY DEF SQLInv, TableInv
<1>2. ReadPathsAgree
  BY <1>1, ReadsAgree
<1>3. NothingOrphaned
  BY <1>1 DEF NothingOrphaned, MappingInv, ContentsUsed, ReferencesUsed
<1>4. CreateFindsFreeID
  BY <1>1, NextIsFree DEF CreateFindsFreeID
<1>5. DOMAIN schemas \subseteq SubjectVersion
  BY <1>1 DEF RowsInv, SubjectVersion
<1>6. DOMAIN fingerprints \subseteq Fingerprints
  BY <1>1 DEF RowsInv, MappingInv, ContentsUsed, RowType
<1>7. \A f \in DOMAIN fingerprints : fingerprints[f] \in Nat \ {0}
  BY <1>1 DEF MappingInv
<1>8. references \subseteq Nat \X SubjectVersion
  <2> SUFFICES ASSUME NEW x \in references PROVE x \in Nat \X SubjectVersion
    OBVIOUS
  <2>1. PICK f \in DOMAIN fingerprints : x \in {fingerprints[f]} \X Refs[f]
    BY <1>1 DEF MappingInv, ReferencesUsed
  <2>2. f \in Fingerprints /\ fingerprints[f] \in Nat
    BY <1>6, <1>7
  <2>3. Refs[f] \subseteq SubjectVersion
    BY <2>2, SQLAssumption
  <2> QED BY <2>1, <2>2, <2>3
<1>9. TypeOK
  BY <1>1, <1>5, <1>6, <1>7, <1>8
  DEF TypeOK, ClientShape, TableInv, RowsInv, MappingInv, RowType
<1> QED BY <1>2, <1>3, <1>4, <1>9 DEF TablesAgree

\* On PostgreSQL and on MySQL, registrations and soft deletes that interleave
\* statement by statement leave tables that hold together at every moment: the read
\* paths agree, no mapping or reference is an orphan, and the next ID is free.
THEOREM TablesStayInAgreement == Spec => [](Additive => TablesAgree)
<1>1. (Additive => SQLInv) => (Additive => TablesAgree)
  BY InvTablesAgree
<1> QED BY <1>1, SQLIntegrity, PTL

\* An answered registration lasts: its content stays in its subject and under the ID
\* that was answered, and the ID never stands for another content.
THEOREM AnswersLast == Spec => [](Additive => AnswerDurable)
<1>1. ASSUME SQLInv PROVE AnswerDurable
  <2> SUFFICES ASSUME NEW p \in promised
               PROVE  /\ \A fp \in DOMAIN fingerprints : fingerprints[fp] = p.id => fp = p.fp
                      /\ GlobalSchemaID(p.fp) = p.id
                      /\ \E v \in VersionsOf(p.subject) : schemas[<<p.subject, v>>].fp = p.fp
    BY DEF AnswerDurable
  <2>1. p.fp \in DOMAIN fingerprints /\ fingerprints[p.fp] = p.id /\ Holds(p.subject, p.fp)
    BY <1>1 DEF SQLInv, AnswersStored
  <2>2. PICK k \in DOMAIN schemas : k[1] = p.subject /\ schemas[k].fp = p.fp
    BY <2>1 DEF Holds
  <2>3. k = <<k[1], k[2]>>
    BY <1>1 DEF SQLInv, TableInv, RowsInv
  <2>4. k[2] \in VersionsOf(p.subject) /\ schemas[<<p.subject, k[2]>>].fp = p.fp
    BY <2>2, <2>3 DEF VersionsOf
  <2> QED BY <1>1, <2>1, <2>4 DEF SQLInv, TableInv, MappingInv, GlobalSchemaID
<1>2. (Additive => SQLInv) => (Additive => AnswerDurable)
  BY <1>1
<1> QED BY <1>2, SQLIntegrity, PTL

-----------------------------------------------------------------------------
(* Without deletes: one version for each content.                          *)

\* A step that leaves the versions alone, from what the client has in hand after it.
LEMMA FreshStep ==
  ASSUME FreshInv, ClientShape, NEW c \in Clients, NEW p, NEW q, NEW k,
         pc' = [pc EXCEPT ![c] = p], req' = [req EXCEPT ![c] = q], loc' = [loc EXCEPT ![c] = k],
         schemas' = schemas, Past(p, q, k)
  PROVE  FreshInv'
<1>1. \A d \in Clients : Past(pc[d], req[d], loc[d])'
  <2> SUFFICES ASSUME NEW d \in Clients PROVE Past(pc[d], req[d], loc[d])'
    OBVIOUS
  <2>1. PICK x, r, l : x = pc'[d] /\ r = req'[d] /\ l = loc'[d]
    OBVIOUS
  <2>2. Past(x, r, l)
    BY <2>1 DEF FreshInv, ClientShape
  <2>3. Past(x, r, l)'
    BY <2>2 DEF Past, Below, NewBelow
  <2> QED BY <2>1, <2>3 DEF Past, Below, NewBelow
<1>2. \A x \in DOMAIN schemas' : schemas'[x].deleted = FALSE /\ Below(x[1], x[2])'
  BY DEF FreshInv, Below
<1>3. OneVersionEach'
  BY DEF FreshInv, OneVersionEach, Live, VersionsOf
<1> QED BY <1>1, <1>2, <1>3 DEF FreshInv

\* A call that ends has no version in hand.
LEMMA FreshFinish ==
  ASSUME FreshInv, ClientShape, NEW c \in Clients, Finish(c), schemas' = schemas
  PROVE  FreshInv'
<1>1. PICK p, q, k : p = "idle" /\ q = NoRequest /\ k = NoLocals
  OBVIOUS
<1>2. Past(p, q, k)
  BY <1>1 DEF Past, NoLocals, Versioned, Removing, Inserting, Holding
<1>3. pc' = [pc EXCEPT ![c] = p] /\ req' = [req EXCEPT ![c] = q] /\ loc' = [loc EXCEPT ![c] = k]
  BY <1>1 DEF Finish, Goto
<1> QED BY <1>2, <1>3, FreshStep

\* A step that keeps the version in hand and the call.
LEMMA FreshMove ==
  ASSUME FreshInv, ClientShape, NEW c \in Clients, NEW p, NEW k,
         Goto(c, p), loc' = [loc EXCEPT ![c] = k], req' = req, schemas' = schemas,
         p # "purge", k.purge = {},
         p \in Versioned => pc[c] \in Versioned /\ k.version = loc[c].version,
         p \in Removing => pc[c] \in Removing
  PROVE  FreshInv'
<1>1. PICK q : q = req[c]
  OBVIOUS
<1>2. pc' = [pc EXCEPT ![c] = p] /\ req' = [req EXCEPT ![c] = q]
  BY <1>1 DEF Goto, ClientShape
<1>3. Past(pc[c], req[c], loc[c])
  BY DEF FreshInv
<1>4. Removing \subseteq Versioned
  BY DEF Versioned
<1>5. Past(p, q, k)
  BY <1>1, <1>3, <1>4 DEF Past
<1> QED BY <1>2, <1>5, FreshStep

\* A repeated attempt has no version in hand.
LEMMA FreshAgain ==
  ASSUME FreshInv, ClientShape, NEW c \in Clients, Again(c), schemas' = schemas
  PROVE  FreshInv'
<1>1. CASE End(c)
  BY <1>1, FreshFinish DEF End
<1>2. CASE Keep(c, "max", [NoLocals EXCEPT !.attempt = loc[c].attempt + 1]) /\ Unmoved
  <2>1. PICK n : n = loc[c].attempt + 1
    OBVIOUS
  <2>2. PICK k : k = [NoLocals EXCEPT !.attempt = n]
    OBVIOUS
  <2>3. k.purge = {}
    BY <2>2 DEF NoLocals
  <2>4. "max" \notin Versioned /\ "max" \notin Removing
    BY DEF Versioned, Removing, Inserting, Holding
  <2>5. Goto(c, "max") /\ loc' = [loc EXCEPT ![c] = k] /\ req' = req
    BY <1>2, <2>1, <2>2 DEF Keep, Unmoved
  <2> QED BY <2>3, <2>4, <2>5, FreshMove
<1> QED BY <1>1, <1>2 DEF Again

\* The versions up to the highest are all there.
LEMMA BelowNext ==
  ASSUME FreshInv, RowsInv, NEW s \in Subjects
  PROVE  /\ SelectMax(s) \in Nat /\ Below(s, SelectMax(s))
         /\ \A w \in VersionsOf(s) : w < SelectMax(s)
<1>1. PICK h \in Nat : h = Highest(VersionsOf(s))
  BY HighestVersion
<1>2. \A w \in VersionsOf(s) : w <= h /\ w \in Nat
  BY <1>1, HighestVersion, VersionRows
<1>3. SelectMax(s) = h + 1
  BY <1>1 DEF SelectMax
<1>4. \A w \in 1..h : <<s, w>> \in DOMAIN schemas
  <2>1. CASE VersionsOf(s) = {}
    BY <2>1, <1>1 DEF Highest
  <2>2. CASE VersionsOf(s) # {}
    <3>1. h \in VersionsOf(s)
      BY <2>2, <1>1, HighestVersion
    <3>2. <<s, h>> \in DOMAIN schemas /\ <<s, h>>[1] = s /\ <<s, h>>[2] = h
      BY <3>1, VersionRows
    <3>3. Below(s, h)
      BY <3>2 DEF FreshInv
    <3> QED BY <3>2, <3>3 DEF Below
  <2> QED BY <2>1, <2>2
<1>5. Below(s, SelectMax(s))
  BY <1>3, <1>4 DEF Below
<1> QED BY <1>2, <1>3, <1>5

\* A content that no version has is new to all versions below the one chosen.
LEMMA FreshContent ==
  ASSUME FreshInv, SQLInv, NEW c \in Clients, pc[c] \in {"max", "content"}, NEW v \in Nat,
         Below(req[c].subject, v), SelectContent(c, v), UNCHANGED tableVars, Unmoved
  PROVE  FreshInv'
<1> DEFINE s == req[c].subject
           same == {w \in VersionsOf(s) : schemas[<<s, w>>].fp = req[c].fp}
           full == {w \in same \cap Live(s) : schemas[<<s, w>>].meta = req[c].meta}
<1>1. pc[c] \in Creates
  BY DEF Creates, Versioned
<1>2. s \in Subjects /\ loc[c] \in Locals /\ ClientShape /\ RowsInv
  BY <1>1, InCreate DEF SQLInv, TableInv
<1>3. VersionsOf(s) = Live(s)
  BY <1>2, VersionRows DEF FreshInv
<1>4. loc[c].purge = {}
  BY DEF FreshInv, Past
<1>5. schemas' = schemas /\ req' = req
  BY DEF tableVars, Unmoved
<1>6. CASE \E w \in full : Keep(c, "duplicate", [loc[c] EXCEPT !.version = w])
  <2>1. PICK w \in full : Keep(c, "duplicate", [loc[c] EXCEPT !.version = w])
    BY <1>6
  <2>2. PICK k : k = [loc[c] EXCEPT !.version = w]
    OBVIOUS
  <2>3. k.purge = {}
    BY <1>2, <1>4, <2>2 DEF Locals
  <2>4. Goto(c, "duplicate") /\ loc' = [loc EXCEPT ![c] = k]
    BY <2>1, <2>2 DEF Keep
  <2>5. "duplicate" \notin Versioned /\ "duplicate" \notin Removing
    BY DEF Versioned, Removing, Inserting, Holding
  <2> QED BY <1>2, <1>5, <2>3, <2>4, <2>5, FreshMove
<1>7. CASE /\ full = {}
           /\ Keep(c, IF same \subseteq Live(s) THEN "insert" ELSE "purge", [loc[c] EXCEPT !.version = v])
  <2>1. Keep(c, "insert", [loc[c] EXCEPT !.version = v])
    BY <1>3, <1>7
  <2>2. PICK p, q, k : p = "insert" /\ q = req[c] /\ k = [loc[c] EXCEPT !.version = v]
    OBVIOUS
  <2>3. k.purge = {} /\ k.version = v
    BY <1>2, <1>4, <2>2 DEF Locals
  <2>4. pc' = [pc EXCEPT ![c] = p] /\ req' = [req EXCEPT ![c] = q] /\ loc' = [loc EXCEPT ![c] = k]
    BY <1>2, <1>5, <2>1, <2>2 DEF Keep, Goto, ClientShape
  <2>5. NewBelow(q, v)
    <3> SUFFICES ASSUME NEW w \in 1..(v - 1)
                 PROVE  ~(schemas[<<s, w>>].fp = req[c].fp /\ schemas[<<s, w>>].meta = req[c].meta)
      BY <2>2 DEF NewBelow
    <3>1. <<s, w>> \in DOMAIN schemas
      BY DEF Below
    <3>2. w \in VersionsOf(s)
      <4>1. w \in Nat \ {0}
        OBVIOUS
      <4>2. VersionsOf(s) = {u \in Nat \ {0} : <<s, u>> \in DOMAIN schemas}
        BY <1>2, VersionRows
      <4> QED BY <3>1, <4>1, <4>2
    <3> QED BY <1>3, <1>7, <3>2
  <2>6. Past(p, q, k)
    BY <2>2, <2>3, <2>5 DEF Past
  <2> QED BY <1>2, <1>5, <2>4, <2>6, FreshStep
<1> QED BY <1>6, <1>7 DEF SelectContent

\* An insert keeps the version that the check was made for.
LEMMA FreshInsert ==
  ASSUME FreshInv, SQLInv, NEW c \in Clients, NEW next \in {"alloc", "allocShared"}, Insert(c, next)
  PROVE  FreshInv'
<1>1. pc[c] = "insert" /\ schemas' = schemas /\ ClientShape
  BY DEF Insert, tableVars, SQLInv
<1>2. CASE Again(c)
  BY <1>1, <1>2, FreshAgain
<1>3. CASE Continue(c, next) /\ Unmoved
  <2>1. PICK k : k = loc[c]
    OBVIOUS
  <2>2. k.purge = {} /\ k.version = loc[c].version
    BY <2>1 DEF FreshInv, Past
  <2>3. Goto(c, next) /\ loc' = [loc EXCEPT ![c] = k] /\ req' = req
    BY <1>1, <1>3, <2>1 DEF Continue, Unmoved, ClientShape
  <2>4. pc[c] \in Versioned /\ pc[c] \in Removing /\ next # "purge"
    BY <1>1 DEF Versioned, Removing
  <2> QED BY <1>1, <2>2, <2>3, <2>4, FreshMove
<1> QED BY <1>2, <1>3 DEF Insert

\* The statements between the insert and the commit.
LEMMA FreshInserted ==
  ASSUME FreshInv, SQLInv, NEW c \in Clients, MyShareAlloc(c) \/ Allocate(c) \/ Claim(c) \/ Resolve(c)
  PROVE  FreshInv'
<1>1. ClientShape /\ loc[c] \in Locals /\ loc[c].purge = {}
  BY DEF SQLInv, ClientShape, FreshInv, Past
<1>2. schemas' = schemas
  BY DEF MyShareAlloc, Allocate, Claim, Resolve, tableVars
<1>3. CASE End(c)
  BY <1>1, <1>2, <1>3, FreshFinish DEF End
<1>4. CASE ~End(c)
  <2>1. pc[c] \in Removing /\ pc[c] \in Versioned /\ req' = req
    BY <1>4 DEF MyShareAlloc, Allocate, Claim, Resolve, Unmoved, Versioned, Removing, Inserting, Holding
  <2>2. PICK p \in {"alloc", "claim", "resolve", "commit"}, k \in Locals :
          /\ Goto(c, p) /\ loc' = [loc EXCEPT ![c] = k] /\ k.purge = {} /\ k.version = loc[c].version
    <3>1. CASE MyShareAlloc(c)
      <4>1. PICK k : k = loc[c]
        OBVIOUS
      <4>2. Goto(c, "alloc") /\ loc' = [loc EXCEPT ![c] = k]
        BY <1>1, <3>1, <4>1 DEF MyShareAlloc, Continue, ClientShape
      <4> QED BY <1>1, <4>1, <4>2
    <3>2. CASE Allocate(c)
      <4>1. PICK k : k = [loc[c] EXCEPT !.alloc = nextId]
        OBVIOUS
      <4>2. Goto(c, "claim") /\ loc' = [loc EXCEPT ![c] = k]
        BY <3>2, <4>1 DEF Allocate, Keep
      <4>3. nextId \in Nat
        BY DEF SQLInv, TableInv, MappingInv
      <4>4. k \in Locals /\ k.purge = {} /\ k.version = loc[c].version
        BY <1>1, <4>1, <4>3 DEF Locals
      <4> QED BY <4>2, <4>4
    <3>3. CASE Claim(c)
      <4>1. PICK b \in BOOLEAN : b = (req[c].fp \notin DOMAIN fingerprints /\ loc[c].alloc \notin IDsInUse)
        OBVIOUS
      <4>2. PICK k : k = [loc[c] EXCEPT !.claimed = b]
        OBVIOUS
      <4>3. Goto(c, "resolve") /\ loc' = [loc EXCEPT ![c] = k]
        BY <3>3, <4>1, <4>2 DEF Claim, Keep
      <4>4. k \in Locals /\ k.purge = {} /\ k.version = loc[c].version
        BY <1>1, <4>2 DEF Locals
      <4> QED BY <4>3, <4>4
    <3>4. CASE Resolve(c)
      <4>1. PICK n \in Nat : Keep(c, "commit", [loc[c] EXCEPT !.id = n])
        <5>1. loc[c].alloc \in Nat
          BY <1>1 DEF Locals
        <5>2. req[c].fp \in DOMAIN fingerprints => fingerprints[req[c].fp] \in Nat
          BY DEF SQLInv, TableInv, MappingInv
        <5> QED BY <1>4, <3>4, <5>1, <5>2 DEF Resolve
      <4>2. PICK k : k = [loc[c] EXCEPT !.id = n]
        OBVIOUS
      <4>3. Goto(c, "commit") /\ loc' = [loc EXCEPT ![c] = k]
        BY <4>1, <4>2 DEF Keep
      <4>4. k \in Locals /\ k.purge = {} /\ k.version = loc[c].version
        BY <1>1, <4>2 DEF Locals
      <4> QED BY <4>3, <4>4
    <3> QED BY <3>1, <3>2, <3>3, <3>4
  <2>3. p # "purge"
    OBVIOUS
  <2> QED BY <1>1, <1>2, <2>1, <2>2, <2>3, FreshMove
<1> QED BY <1>3, <1>4

\* The versions after a step are those that have a row.
LEMMA VersionRowsAfter ==
  (RowsInv => \A y \in Subjects : VersionsOf(y) = {w \in Nat \ {0} : <<y, w>> \in DOMAIN schemas})'
<1>1. RowsInv => \A y \in Subjects : VersionsOf(y) = {w \in Nat \ {0} : <<y, w>> \in DOMAIN schemas}
  BY VersionRows
<1> QED BY <1>1, PTL

\* The version committed is the first that is free, and no version below has its
\* content and metadata.
LEMMA FreshCommit ==
  ASSUME FreshInv, SQLInv, SQLInv', NEW c \in Clients, Commit(c)
  PROVE  FreshInv'
<1>1. PICK r, s, v, row : r = req[c] /\ s = r.subject /\ v = loc[c].version /\ row = NewRow(c)
  OBVIOUS
<1>2. /\ s \in Subjects /\ v \in Nat \ {0} /\ loc[c].purge = {} /\ <<s, v>> \notin DOMAIN schemas
      /\ pc[c] = "commit" /\ ClientShape
  BY <1>1, AtCommit DEF FreshInv, Past, SQLInv
<1>3. Below(s, v) /\ NewBelow(r, v)
  <2>1. pc[c] \in Versioned /\ pc[c] \in Removing
    BY <1>2 DEF Versioned, Removing, Inserting, Holding
  <2> QED BY <1>1, <2>1 DEF FreshInv, Past
<1>4. row.fp = r.fp /\ row.meta = r.meta /\ row.deleted = FALSE
  BY <1>1 DEF NewRow
<1>5. schemas' = Put(Without(schemas, {s} \X {}), <<s, v>>, row)
  BY <1>1, <1>2 DEF Commit
<1>6. /\ DOMAIN schemas' = DOMAIN schemas \cup {<<s, v>>} /\ schemas'[<<s, v>>] = row
      /\ \A k \in DOMAIN schemas : schemas'[k] = schemas[k]
  BY <1>2, <1>5 DEF Put, Without
<1>7. ASSUME NEW t, NEW w, Below(t, w) PROVE Below(t, w)'
  BY <1>6, <1>7 DEF Below
<1>8. \A k \in DOMAIN schemas' : schemas'[k].deleted = FALSE /\ Below(k[1], k[2])'
  <2> SUFFICES ASSUME NEW k \in DOMAIN schemas'
               PROVE  schemas'[k].deleted = FALSE /\ Below(k[1], k[2])'
    OBVIOUS
  <2>1. CASE k = <<s, v>>
    <3>1. k[1] = s /\ k[2] = v
      BY <2>1
    <3>2. Below(s, v)'
      BY <1>3, <1>7
    <3> QED BY <1>4, <1>6, <2>1, <3>1, <3>2
  <2>2. CASE k \in DOMAIN schemas
    BY <1>6, <1>7, <2>2 DEF FreshInv
  <2> QED BY <1>6, <2>1, <2>2
<1>9. ASSUME NEW p, NEW q, NEW l, Past(p, q, l), p \in Versioned => l.version \in Nat
      PROVE  Past(p, q, l)'
  <2>1. p \in Versioned => Below(q.subject, l.version)'
    BY <1>7, <1>9 DEF Past
  <2>2. ASSUME p \in Removing PROVE NewBelow(q, l.version)'
    <3>1. Below(q.subject, l.version) /\ NewBelow(q, l.version)
      BY <1>9, <2>2 DEF Past, Versioned
    <3>2. \A w \in 1..(l.version - 1) : schemas'[<<q.subject, w>>] = schemas[<<q.subject, w>>]
      BY <1>6, <3>1 DEF Below
    <3> QED BY <3>1, <3>2 DEF NewBelow
  <2> QED BY <1>9, <2>1, <2>2 DEF Past
<1>10. \A d \in Clients : Past(pc[d], req[d], loc[d])'
  <2> SUFFICES ASSUME NEW d \in Clients PROVE Past(pc[d], req[d], loc[d])'
    OBVIOUS
  <2>1. /\ pc' = [pc EXCEPT ![c] = "idle"] /\ req' = [req EXCEPT ![c] = NoRequest]
        /\ loc' = [loc EXCEPT ![c] = NoLocals]
    BY DEF Commit, Answer, Finish, Goto
  <2>2. CASE d = c
    <3>1. pc'[c] = "idle" /\ loc'[c] = NoLocals
      BY <1>2, <2>1 DEF ClientShape
    <3> QED BY <2>2, <3>1 DEF Past, NoLocals, Versioned, Removing, Inserting, Holding
  <2>3. CASE d # c
    <3>1. PICK x, q, l : x = pc[d] /\ q = req[d] /\ l = loc[d]
      OBVIOUS
    <3>2. pc'[d] = x /\ req'[d] = q /\ loc'[d] = l
      BY <1>2, <2>1, <2>3, <3>1 DEF ClientShape
    <3>3. Past(x, q, l) /\ l.version \in Nat
      BY <1>2, <3>1 DEF FreshInv, ClientShape, Locals
    <3>4. Past(x, q, l)'
      BY <1>9, <3>3
    <3> QED BY <3>2, <3>4 DEF Past, Below, NewBelow
  <2> QED BY <2>2, <2>3
<1>11. OneVersionEach'
  <2> SUFFICES ASSUME NEW t \in Subjects, NEW a \in Live(t)', NEW b \in Live(t)',
                      schemas'[<<t, a>>].fp = schemas'[<<t, b>>].fp,
                      schemas'[<<t, a>>].meta = schemas'[<<t, b>>].meta
               PROVE  a = b
    BY DEF OneVersionEach
  <2>1. a \in Nat \ {0} /\ b \in Nat \ {0} /\ <<t, a>> \in DOMAIN schemas' /\ <<t, b>> \in DOMAIN schemas'
    <3>1. RowsInv'
      BY DEF SQLInv, TableInv
    <3>2. \A y \in Subjects : VersionsOf(y)' = {w \in Nat \ {0} : <<y, w>> \in DOMAIN schemas'}
      BY <3>1, VersionRowsAfter
    <3>3. a \in VersionsOf(t)' /\ b \in VersionsOf(t)'
      BY DEF Live
    <3> QED BY <3>1, <3>2, <3>3
  <2>2. ASSUME NEW w \in Nat \ {0}, <<s, w>> \in DOMAIN schemas,
               schemas[<<s, w>>].fp = r.fp, schemas[<<s, w>>].meta = r.meta
        PROVE  FALSE
    <3>1. w \notin 1..(v - 1)
      BY <1>1, <1>3, <2>2 DEF NewBelow
    <3>2. w # v
      BY <1>2, <2>2
    <3>3. v \in 1..(w - 1)
      BY <1>2, <3>1, <3>2
    <3>4. Below(s, w)
      <4>1. <<s, w>>[1] = s /\ <<s, w>>[2] = w
        OBVIOUS
      <4> QED BY <2>2, <4>1 DEF FreshInv
    <3> QED BY <1>2, <3>3, <3>4 DEF Below
  <2>3. CASE <<t, a>> = <<s, v>> /\ <<t, b>> = <<s, v>>
    BY <2>3
  <2>4. CASE <<t, a>> = <<s, v>> /\ <<t, b>> # <<s, v>>
    <3>1. t = s /\ <<s, b>> \in DOMAIN schemas /\ schemas'[<<s, b>>] = schemas[<<s, b>>]
      BY <1>6, <2>1, <2>4
    <3> QED BY <1>4, <1>6, <2>1, <2>2, <2>4, <3>1
  <2>5. CASE <<t, a>> # <<s, v>> /\ <<t, b>> = <<s, v>>
    <3>1. t = s /\ <<s, a>> \in DOMAIN schemas /\ schemas'[<<s, a>>] = schemas[<<s, a>>]
      BY <1>6, <2>1, <2>5
    <3> QED BY <1>4, <1>6, <2>1, <2>2, <2>5, <3>1
  <2>6. CASE <<t, a>> # <<s, v>> /\ <<t, b>> # <<s, v>>
    <3>1. /\ <<t, a>> \in DOMAIN schemas /\ schemas'[<<t, a>>] = schemas[<<t, a>>]
          /\ <<t, b>> \in DOMAIN schemas /\ schemas'[<<t, b>>] = schemas[<<t, b>>]
      BY <1>6, <2>1, <2>6
    <3>2. RowsInv
      BY DEF SQLInv, TableInv
    <3>3. a \in Live(t) /\ b \in Live(t)
      BY <2>1, <3>1, <3>2, VersionRows DEF FreshInv
    <3> QED BY <3>1, <3>3 DEF FreshInv, OneVersionEach
  <2> QED BY <2>3, <2>4, <2>5, <2>6
<1> QED BY <1>8, <1>10, <1>11 DEF FreshInv

\* Every step of a workload without deletes keeps FreshInv.
LEMMA FreshNext ==
  ASSUME FreshInv, SQLInv, SQLInv', Adding, [Next]_vars
  PROVE  FreshInv'
<1>1. ClientShape /\ RowsInv /\ load \in Loads
  BY DEF SQLInv, TableInv, ClientShape
<1>2. CASE UNCHANGED vars
  <2>1. UNCHANGED <<schemas, pc, req, loc>>
    BY <1>2 DEF vars, tableVars
  <2> QED
    BY <2>1 DEF FreshInv, Past, Below, NewBelow, OneVersionEach, Live, VersionsOf
<1>3. ASSUME NEW c \in Clients, NEW r \in Calls[load], Begin(c, r) PROVE FreshInv'
  <2>1. r.op \in {"create", "set", "unset"}
    BY DEF Adding
  <2>2. PICK p, n : p = FirstStep(r) /\ n = IF r.op \in {"import", "deleteVersion"} THEN r.version ELSE 0
    OBVIOUS
  <2>3. p \in {"max", "setting"}
    BY <2>1, <2>2 DEF FirstStep
  <2>4. PICK k : k = [loc[c] EXCEPT !.version = n]
    OBVIOUS
  <2>5. k.purge = {}
    <3>1. loc[c].purge = {} /\ loc[c] \in Locals
      BY <1>1 DEF FreshInv, Past, ClientShape
    <3> QED BY <2>4, <3>1 DEF Locals
  <2>6. Past(p, r, k)
    BY <2>3, <2>5 DEF Past, Versioned, Removing, Inserting, Holding
  <2>7. pc' = [pc EXCEPT ![c] = p] /\ req' = [req EXCEPT ![c] = r] /\ schemas' = schemas
    BY <1>3, <2>2 DEF Begin, Goto, tableVars
  <2>8. loc' = [loc EXCEPT ![c] = k]
    BY <1>3, <2>2, <2>4 DEF Begin
  <2> QED BY <1>1, <2>6, <2>7, <2>8, FreshStep
<1>4. ASSUME NEW c \in Clients PROVE pc[c] \notin Softs /\ pc[c] # "purge"
  <2>1. pc[c] # "purge"
    BY DEF FreshInv, Past
  <2>2. ASSUME pc[c] \in Softs PROVE FALSE
    <3>1. pc[c] # "idle"
      BY <2>2 DEF Softs
    <3>2. req[c] \in Calls[load] /\ req[c].op \in {"deleteVersion", "deleteSubject"}
      BY <2>2, <3>1 DEF SQLInv, Fits, Serves
    <3> QED BY <3>2 DEF Adding
  <2> QED BY <2>1, <2>2
<1>5. ASSUME NEW c \in Clients PROVE ~SoftVersion(c) /\ ~SoftRead(c) /\ ~SoftSubject(c) /\ ~Purge(c)
  BY <1>4 DEF SoftVersion, SoftRead, SoftSubject, Purge, Softs
<1>6. ASSUME NEW c \in Clients, PgMaxVersion(c) PROVE FreshInv'
  <2>1. pc[c] = "max" /\ pc[c] \in Creates /\ schemas' = schemas /\ req' = req
    BY <1>6 DEF PgMaxVersion, Creates, tableVars, Unmoved
  <2>2. req[c].subject \in Subjects /\ loc[c] \in Locals
    BY <2>1, InCreate
  <2>3. PICK p, q, n : p = "content" /\ q = req[c] /\ n = SelectMax(req[c].subject)
    OBVIOUS
  <2>4. n \in Nat /\ Below(q.subject, n)
    BY <1>1, <2>2, <2>3, BelowNext
  <2>5. PICK k : k = [loc[c] EXCEPT !.version = n]
    OBVIOUS
  <2>6. loc[c].purge = {}
    BY DEF FreshInv, Past
  <2>7. k.purge = {} /\ k.version = n
    BY <2>2, <2>5, <2>6 DEF Locals
  <2>8. Past(p, q, k)
    BY <2>3, <2>4, <2>7 DEF Past, Versioned, Removing, Inserting, Holding
  <2>9. pc' = [pc EXCEPT ![c] = p] /\ req' = [req EXCEPT ![c] = q] /\ loc' = [loc EXCEPT ![c] = k]
    BY <1>1, <1>6, <2>1, <2>3, <2>5 DEF PgMaxVersion, Keep, Goto, ClientShape
  <2> QED BY <1>1, <2>1, <2>8, <2>9, FreshStep
<1>7. ASSUME NEW c \in Clients, PgCheckContent(c) PROVE FreshInv'
  <2>1. pc[c] = "content" /\ SelectContent(c, loc[c].version) /\ UNCHANGED tableVars /\ Unmoved
    BY <1>7 DEF PgCheckContent
  <2>2. pc[c] \in Versioned
    BY <2>1 DEF Versioned
  <2>3. PICK v \in Nat : v = loc[c].version
    BY <1>1 DEF ClientShape, Locals
  <2>4. Below(req[c].subject, v)
    BY <2>2, <2>3 DEF FreshInv, Past
  <2> QED BY <2>1, <2>3, <2>4, FreshContent
<1>8. ASSUME NEW c \in Clients, MySnapshot(c) PROVE FreshInv'
  <2>1. /\ pc[c] = "max" /\ SelectContent(c, SelectMax(req[c].subject))
        /\ UNCHANGED tableVars /\ Unmoved
    BY <1>8 DEF MySnapshot
  <2>2. pc[c] \in Creates
    BY <2>1 DEF Creates
  <2>3. req[c].subject \in Subjects
    BY <2>2, InCreate
  <2>4. SelectMax(req[c].subject) \in Nat /\ Below(req[c].subject, SelectMax(req[c].subject))
    BY <1>1, <2>3, BelowNext
  <2>5. PICK v \in Nat : v = SelectMax(req[c].subject)
    BY <2>4
  <2>6. Below(req[c].subject, v)
    BY <2>4, <2>5
  <2> QED BY <2>1, <2>5, <2>6, FreshContent
<1>9. ASSUME NEW c \in Clients, Duplicate(c) PROVE FreshInv'
  <2>1. Finish(c) /\ schemas' = schemas
    BY <1>9 DEF Duplicate, Answer, End, tableVars
  <2> QED BY <1>1, <2>1, FreshFinish
<1>10. ASSUME NEW c \in Clients, PgClaim(c) PROVE FreshInv'
  <2>1. CASE Claim(c)
    BY <2>1, FreshInserted
  <2>2. CASE End(c) /\ UNCHANGED tableVars
    BY <1>1, <2>2, FreshFinish DEF End, tableVars
  <2> QED BY <1>10, <2>1, <2>2 DEF PgClaim
<1>11. ASSUME NEW c \in Clients, MyDeadlock(c) PROVE FreshInv'
  <2>1. Again(c) /\ schemas' = schemas
    BY <1>11 DEF MyDeadlock, tableVars
  <2> QED BY <1>1, <2>1, FreshAgain
<1>12. ASSUME NEW c \in Clients, PgSetting(c) \/ MySetting(c) \/ MySettingBroken(c) PROVE FreshInv'
  <2>1. schemas' = schemas
    BY <1>12 DEF PgSetting, MySetting, MySettingBroken
  <2>2. CASE End(c)
    BY <1>1, <2>1, <2>2, FreshFinish DEF End
  <2>3. CASE Keep(c, "setting", [loc[c] EXCEPT !.attempt = @ + 1]) /\ Unmoved
    <3>1. loc[c] \in Locals /\ loc[c].purge = {}
      BY <1>1 DEF ClientShape, FreshInv, Past
    <3>2. PICK n : n = loc[c].attempt + 1
      OBVIOUS
    <3>3. PICK k : k = [loc[c] EXCEPT !.attempt = n]
      OBVIOUS
    <3>4. k.purge = {}
      BY <3>1, <3>3 DEF Locals
    <3>5. Goto(c, "setting") /\ loc' = [loc EXCEPT ![c] = k] /\ req' = req
      BY <2>3, <3>2, <3>3 DEF Keep, Unmoved
    <3>6. "setting" \notin Versioned /\ "setting" \notin Removing
      BY DEF Versioned, Removing, Inserting, Holding
    <3> QED BY <1>1, <2>1, <3>4, <3>5, <3>6, FreshMove
  <2> QED BY <1>12, <2>2, <2>3 DEF PgSetting, MySetting, MySettingBroken
<1>13. ASSUME NEW c \in Clients, PgStep(c) PROVE FreshInv'
  <2>1. CASE PgCreateAttempt(c)
    BY <2>1, <1>5, <1>6, <1>7, <1>9, <1>10, FreshInsert, FreshInserted, FreshCommit DEF PgCreateAttempt
  <2> QED
    BY <1>5, <1>12, <1>13, <2>1, OtherSteps
    DEF PgStep, PgSetNextID, PgDeleteSchema, PgDeleteSubject, PgCleanup
<1>14. ASSUME NEW c \in Clients, MyStep(c) PROVE FreshInv'
  <2>1. CASE MyCreateAttempt(c)
    BY <2>1, <1>5, <1>8, <1>9, <1>11, FreshInsert, FreshInserted, FreshCommit DEF MyCreateAttempt
  <2> QED
    BY <1>5, <1>12, <1>14, <2>1, OtherSteps
    DEF MyStep, MySetNextID, MyDeleteSchema, MyDeleteSubject, MyCleanup
<1> QED BY <1>2, <1>3, <1>13, <1>14 DEF Next, Step

\* The empty tables have no gap and no duplicate.
LEMMA FreshInit ==
  ASSUME Init
  PROVE  FreshInv
<1>1. DOMAIN schemas = {} /\ pc = [c \in Clients |-> "idle"] /\ loc = [c \in Clients |-> NoLocals]
  BY DEF Init, EmptyTable
<1>2. \A c \in Clients : Past(pc[c], req[c], loc[c])
  BY <1>1 DEF Past, NoLocals, Versioned, Removing, Inserting, Holding
<1>3. OneVersionEach
  BY <1>1 DEF OneVersionEach, Live, VersionsOf
<1> QED BY <1>1, <1>2, <1>3 DEF FreshInv

\* However many registrations of one content race, on either backend, the subject
\* holds it in one live version: the check that no version below had it, and the unique
\* version that is inserted, are enough without a lock over both.
THEOREM OneVersionPerContent == Spec => [](Adding => NoDuplicateVersion)
<1>1. Init => (Adding => FreshInv)
  BY FreshInit
<1>2. /\ Adding => FreshInv
      /\ Additive => SQLInv
      /\ (Additive => SQLInv)'
      /\ [Next]_vars
      => (Adding => FreshInv)'
  <2> SUFFICES ASSUME Adding => FreshInv, Additive => SQLInv, (Additive => SQLInv)', [Next]_vars, Adding'
               PROVE  FreshInv'
    OBVIOUS
  <2>1. Adding /\ Additive /\ Additive'
    BY LoadKept DEF Adding, Additive
  <2> QED BY <2>1, FreshNext
<1>3. (Adding => FreshInv) => (Adding => NoDuplicateVersion)
  BY DEF FreshInv, OneVersionEach, NoDuplicateVersion
<1> QED BY <1>1, <1>2, <1>3, SQLIntegrity, PTL DEF Spec
=============================================================================
