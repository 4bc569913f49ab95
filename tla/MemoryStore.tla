---------------------------- MODULE MemoryStore ----------------------------
(***************************************************************************)
(* The schema tables of one registry context in the in-memory backend      *)
(* (internal/storage/memory/store.go).  Every method of the store runs     *)
(* under one sync.RWMutex, so every method is one action.  A method that   *)
(* returns an error changes nothing, so only the successful calls appear.  *)
(*                                                                         *)
(* A schema's text, type and references are abstracted to its fingerprint: *)
(* computeGlobalFingerprint hashes all of them, so the fingerprint         *)
(* determines what a schema references.  Metadata and rule set are one     *)
(* value, because every comparison the code makes compares both.           *)
(***************************************************************************)
EXTENDS Naturals, FiniteSets, TLC

CONSTANTS Subjects,      \* subject names
          Fingerprints,  \* distinct schema contents
          Metas,         \* metadata and rule set of a version
          NoMeta,        \* no metadata and no rule set (nil pointers)
          Configs,       \* config records a subject or the context may be given
          Modes,         \* modes a subject or the context may be given
          Unset,         \* no config, or no mode, stored
          Ids,           \* schema IDs an import may name
          ImportVersions \* version numbers an import may name

ASSUME StoreAssumption ==
  /\ NoMeta \in Metas
  /\ Unset \notin Configs
  /\ Unset \notin Modes
  /\ Ids \subseteq Nat \ {0}
  /\ ImportVersions \subseteq Nat \ {0}

VARIABLES schemas,             \* schema ID -> its content
          fingerprints,        \* content -> the ID new registrations reuse
          subjectVersions,     \* subject -> version -> subjectVersionInfo
          nextSubjectVersion,  \* subject -> highest version number assigned
          idToSubjectVersions, \* schema ID -> the subject-versions using it
          nextID,              \* next schema ID to assign
          configs,             \* subject -> config record or Unset
          globalConfig,        \* config of the context or Unset
          modes,               \* subject -> mode or Unset
          globalMode           \* mode of the context or Unset

schemaVars == <<schemas, fingerprints, subjectVersions, nextSubjectVersion,
                idToSubjectVersions, nextID>>
settingVars == <<configs, globalConfig, modes, globalMode>>
storeVars == <<schemaVars, settingVars>>

VersionInfo == [id : Nat, deleted : BOOLEAN, meta : Metas]

-----------------------------------------------------------------------------
(* Go maps are functions over a growing and shrinking domain.              *)

Put(f, k, x) == [j \in DOMAIN f \cup {k} |-> IF j = k THEN x ELSE f[j]]
Drop(f, K) == [j \in DOMAIN f \ K |-> f[j]]
EmptyMap == [j \in {} |-> 0]

-----------------------------------------------------------------------------
(* What the read methods return.                                           *)

Versions(s) == DOMAIN subjectVersions[s]
Live(s) == {v \in Versions(s) : ~subjectVersions[s][v].deleted}
HasContent(s, v) == subjectVersions[s][v].id \in DOMAIN schemas
Content(s, v) == schemas[subjectVersions[s][v].id]
LiveVersions == {sv \in UNION {{s} \X Live(s) : s \in Subjects} :
                    HasContent(sv[1], sv[2])}

\* The versions GetSchemaByFingerprint may return: it iterates over a Go map,
\* so when several live versions share a fingerprint any of them may come first.
GetSchemaByFingerprint(s, fp) ==
  {v \in Live(s) : HasContent(s, v) /\ Content(s, v) = fp}

\* The live versions of a subject, as GetSchemasBySubject lists them.
GetSchemasBySubject(s) == {v \in Live(s) : HasContent(s, v)}

MaxOf(V) == CHOOSE v \in V : \A w \in V : w <= v

GetLatestVersion(s) == MaxOf(Live(s))

\* GetReferencedBy scans the live versions for one whose content references
\* version v of subject s; refs gives the references of each content.
GetReferencedBy(refs, s, v) ==
  {sv \in LiveVersions : <<s, v>> \in refs[Content(sv[1], sv[2])]}

SubjectVersionsOf(i) ==
  IF i \in DOMAIN idToSubjectVersions THEN idToSubjectVersions[i] ELSE {}

\* Mutant: the duplicate check under the lock is missing.
NeverDuplicate(s, fp, m) == FALSE

\* A full duplicate: a live version with this content and this metadata.
Duplicate(s, fp, m) ==
  \E v \in GetSchemaByFingerprint(s, fp) : subjectVersions[s][v].meta = m

-----------------------------------------------------------------------------
StoreInit ==
  /\ schemas = EmptyMap
  /\ fingerprints = EmptyMap
  /\ subjectVersions = [s \in Subjects |-> EmptyMap]
  /\ nextSubjectVersion = [s \in Subjects |-> 0]
  /\ idToSubjectVersions = EmptyMap
  /\ nextID = 1
  /\ configs = [s \in Subjects |-> Unset]
  /\ globalConfig = Unset
  /\ modes = [s \in Subjects |-> Unset]
  /\ globalMode = Unset

\* The row and the two indexes CreateSchema and ImportSchema write alike.
LinkVersion(s, v, i, m) ==
  /\ subjectVersions' = [subjectVersions EXCEPT ![s] =
                           Put(@, v, [id |-> i, deleted |-> FALSE, meta |-> m])]
  /\ idToSubjectVersions' =
       Put(idToSubjectVersions, i, SubjectVersionsOf(i) \cup {<<s, v>>})

\* Mutant: the next ID is computed from the contents stored, so a purged ID
\* is given out again.
CreateSchemaReuseID(s, fp, m) ==
  /\ ~Duplicate(s, fp, m)
  /\ LET known == fp \in DOMAIN fingerprints
         i == IF known THEN fingerprints[fp]
              ELSE IF DOMAIN schemas = {} THEN 1 ELSE MaxOf(DOMAIN schemas) + 1
     IN /\ schemas' = Put(schemas, i, fp)
        /\ fingerprints' = Put(fingerprints, fp, i)
        /\ nextID' = IF known THEN nextID ELSE nextID + 1
        /\ nextSubjectVersion' = [nextSubjectVersion EXCEPT ![s] = @ + 1]
        /\ LinkVersion(s, nextSubjectVersion[s] + 1, i, m)
  /\ UNCHANGED settingVars

CreateSchema(s, fp, m) ==
  /\ ~Duplicate(s, fp, m)
  /\ LET known == fp \in DOMAIN fingerprints
         i == IF known THEN fingerprints[fp] ELSE nextID
         v == nextSubjectVersion[s] + 1
     IN /\ IF known
             THEN UNCHANGED <<schemas, fingerprints, nextID>>
             ELSE /\ schemas' = Put(schemas, i, fp)
                  /\ fingerprints' = Put(fingerprints, fp, i)
                  /\ nextID' = nextID + 1
        /\ nextSubjectVersion' = [nextSubjectVersion EXCEPT ![s] = v]
        /\ LinkVersion(s, v, i, m)
  /\ UNCHANGED settingVars

\* ImportSchema refuses an ID that holds other content and a version that
\* exists, but neither consults nor advances nextID.
IDConflict(i, fp) == i \in DOMAIN schemas /\ schemas[i] # fp

\* Mutant: an existing version is not refused.
ImportSchemaOverwrite(s, fp, i, v) ==
  /\ ~IDConflict(i, fp)
  /\ schemas' = IF i \in DOMAIN schemas THEN schemas ELSE Put(schemas, i, fp)
  /\ fingerprints' = Put(fingerprints, fp, i)
  /\ nextSubjectVersion' = [nextSubjectVersion EXCEPT ![s] = IF v >= @ THEN v ELSE @]
  /\ LinkVersion(s, v, i, NoMeta)
  /\ UNCHANGED <<nextID, settingVars>>

ImportSchema(s, fp, i, v) ==
  /\ ~IDConflict(i, fp)
  /\ v \notin Versions(s)
  /\ schemas' = IF i \in DOMAIN schemas THEN schemas ELSE Put(schemas, i, fp)
  /\ fingerprints' = Put(fingerprints, fp, i)
  /\ nextSubjectVersion' = [nextSubjectVersion EXCEPT ![s] = IF v >= @ THEN v ELSE @]
  /\ LinkVersion(s, v, i, NoMeta)
  /\ UNCHANGED <<nextID, settingVars>>

SetNextID(i) ==
  /\ nextID' = i
  /\ UNCHANGED <<schemas, fingerprints, subjectVersions, nextSubjectVersion,
                 idToSubjectVersions, settingVars>>

GetMaxSchemaID == nextID - 1

\* Mutant: the content goes with the first version that is removed.
UnlinkDropContent(gone) ==
  LET touched == {subjectVersions[sv[1]][sv[2]].id : sv \in gone}
      dead == {i \in touched : SubjectVersionsOf(i) \subseteq gone}
  IN /\ fingerprints' =
          Drop(fingerprints, {schemas[i] : i \in touched \cap DOMAIN schemas})
     /\ schemas' = Drop(schemas, touched)
     /\ idToSubjectVersions' =
          [i \in DOMAIN idToSubjectVersions \ dead |-> idToSubjectVersions[i] \ gone]

\* Mutant: the fingerprint entry of a purged content stays.
UnlinkKeepFingerprint(gone) ==
  LET touched == {subjectVersions[sv[1]][sv[2]].id : sv \in gone}
      dead == {i \in touched : SubjectVersionsOf(i) \subseteq gone}
  IN /\ schemas' = Drop(schemas, dead)
     /\ idToSubjectVersions' =
          [i \in DOMAIN idToSubjectVersions \ dead |-> idToSubjectVersions[i] \ gone]
     /\ UNCHANGED fingerprints

\* Removing subject-versions from the reverse index; an ID nobody uses any
\* more loses its content and its fingerprint entry.
Unlink(gone) ==
  LET touched == {subjectVersions[sv[1]][sv[2]].id : sv \in gone}
      dead == {i \in touched : SubjectVersionsOf(i) \subseteq gone}
  IN /\ fingerprints' =
          Drop(fingerprints, {schemas[i] : i \in dead \cap DOMAIN schemas})
     /\ schemas' = Drop(schemas, dead)
     /\ idToSubjectVersions' =
          [i \in (DOMAIN idToSubjectVersions \cup touched) \ dead |->
             IF i \in touched THEN SubjectVersionsOf(i) \ gone
                              ELSE idToSubjectVersions[i]]

SoftDelete(s, V) ==
  subjectVersions' = [subjectVersions EXCEPT ![s] =
     [v \in DOMAIN @ |-> IF v \in V THEN [@[v] EXCEPT !.deleted = TRUE] ELSE @[v]]]

DeleteSchema(s, v) ==
  /\ v \in Versions(s)
  /\ SoftDelete(s, {v})
  /\ UNCHANGED <<schemas, fingerprints, nextSubjectVersion, idToSubjectVersions,
                 nextID, settingVars>>

DeleteSchemaPermanent(s, v) ==
  /\ v \in Versions(s) /\ subjectVersions[s][v].deleted
  /\ Unlink({<<s, v>>})
  /\ subjectVersions' = [subjectVersions EXCEPT ![s] = Drop(@, {v})]
  /\ UNCHANGED <<nextSubjectVersion, nextID, settingVars>>

DeleteSubject(s) ==
  /\ Live(s) # {}
  /\ SoftDelete(s, Versions(s))
  /\ UNCHANGED <<schemas, fingerprints, nextSubjectVersion, idToSubjectVersions,
                 nextID, settingVars>>

DeleteSubjectPermanent(s) ==
  /\ Versions(s) # {} /\ Live(s) = {}
  /\ Unlink({s} \X Versions(s))
  /\ subjectVersions' = [subjectVersions EXCEPT ![s] = EmptyMap]
  /\ nextSubjectVersion' = [nextSubjectVersion EXCEPT ![s] = 0]
  /\ configs' = [configs EXCEPT ![s] = Unset]
  /\ modes' = [modes EXCEPT ![s] = Unset]
  /\ UNCHANGED <<nextID, globalConfig, globalMode>>

SetConfig(s, config) ==
  /\ configs' = [configs EXCEPT ![s] = config]
  /\ UNCHANGED <<schemaVars, globalConfig, modes, globalMode>>

DeleteConfig(s) ==
  /\ configs[s] # Unset
  /\ configs' = [configs EXCEPT ![s] = Unset]
  /\ UNCHANGED <<schemaVars, globalConfig, modes, globalMode>>

SetGlobalConfig(config) ==
  /\ globalConfig' = config
  /\ UNCHANGED <<schemaVars, configs, modes, globalMode>>

DeleteGlobalConfig ==
  /\ globalConfig' = Unset
  /\ UNCHANGED <<schemaVars, configs, modes, globalMode>>

SetMode(s, mode) ==
  /\ modes' = [modes EXCEPT ![s] = mode]
  /\ UNCHANGED <<schemaVars, configs, globalConfig, globalMode>>

DeleteMode(s) ==
  /\ modes[s] # Unset
  /\ modes' = [modes EXCEPT ![s] = Unset]
  /\ UNCHANGED <<schemaVars, configs, globalConfig, globalMode>>

SetGlobalMode(mode) ==
  /\ globalMode' = mode
  /\ UNCHANGED <<schemaVars, configs, globalConfig, modes>>

DeleteGlobalMode ==
  /\ globalMode' = Unset
  /\ UNCHANGED <<schemaVars, configs, globalConfig, modes>>

-----------------------------------------------------------------------------
(* The store under arbitrary callers that keep one promise: a schema is    *)
(* created only when the next ID to assign is not in use.  Registry.tla    *)
(* shows which orders of the service's own calls keep that promise.        *)

CONSTANTS MaxID, MaxVersion   \* bounds on the IDs and versions assigned

ASSUME BoundAssumption == MaxID \in Nat /\ MaxVersion \in Nat

NextIDFree == nextID \notin DOMAIN schemas

StoreNext ==
  \/ \E s \in Subjects, fp \in Fingerprints, m \in Metas :
        /\ nextID <= MaxID /\ nextSubjectVersion[s] < MaxVersion
        /\ NextIDFree
        /\ CreateSchema(s, fp, m)
  \/ \E s \in Subjects, fp \in Fingerprints, i \in Ids, v \in ImportVersions :
        ImportSchema(s, fp, i, v)
  \/ \E i \in Ids : SetNextID(i)
  \/ \E s \in Subjects : \E v \in Versions(s) :
        DeleteSchema(s, v) \/ DeleteSchemaPermanent(s, v)
  \/ \E s \in Subjects : DeleteSubject(s) \/ DeleteSubjectPermanent(s)
  \/ \E s \in Subjects, config \in Configs : SetConfig(s, config)
  \/ \E config \in Configs : SetGlobalConfig(config)
  \/ \E s \in Subjects, mode \in Modes : SetMode(s, mode)
  \/ \E s \in Subjects : DeleteConfig(s) \/ DeleteMode(s)
  \/ \E mode \in Modes : SetGlobalMode(mode)
  \/ DeleteGlobalConfig \/ DeleteGlobalMode

StoreSpec == StoreInit /\ [][StoreNext]_storeVars

-----------------------------------------------------------------------------
(* Type correctness of the store.                                          *)
StoreTypeOK ==
  /\ DOMAIN schemas \subseteq Nat
  /\ \A i \in DOMAIN schemas : schemas[i] \in Fingerprints
  /\ DOMAIN fingerprints \subseteq Fingerprints
  /\ \A fp \in DOMAIN fingerprints : fingerprints[fp] \in Nat
  /\ DOMAIN subjectVersions = Subjects
  /\ \A s \in Subjects : /\ Versions(s) \subseteq Nat \ {0}
                         /\ \A v \in Versions(s) : subjectVersions[s][v] \in VersionInfo
  /\ nextSubjectVersion \in [Subjects -> Nat]
  /\ DOMAIN idToSubjectVersions \subseteq Nat
  /\ \A i \in DOMAIN idToSubjectVersions :
        idToSubjectVersions[i] \subseteq Subjects \X Nat
  /\ nextID \in Nat
  /\ configs \in [Subjects -> Configs \cup {Unset}]
  /\ globalConfig \in Configs \cup {Unset}
  /\ modes \in [Subjects -> Modes \cup {Unset}]
  /\ globalMode \in Modes \cup {Unset}

\* The reverse index is exact: it lists, for each ID, precisely the
\* subject-versions whose row holds that ID, and no entry is empty.  The
\* permanent deletes of store.go trust it when they decide that a schema's
\* content may go.
IndexExact ==
  /\ \A i \in DOMAIN idToSubjectVersions : idToSubjectVersions[i] # {}
  /\ \A s \in Subjects : \A v \in Versions(s) :
        <<s, v>> \in SubjectVersionsOf(subjectVersions[s][v].id)
  /\ \A i \in DOMAIN idToSubjectVersions : \A sv \in idToSubjectVersions[i] :
        /\ sv[1] \in Subjects
        /\ sv[2] \in Versions(sv[1])
        /\ subjectVersions[sv[1]][sv[2]].id = i

\* No permanent delete and no interleaving of creates and imports leaves a
\* version, live or soft-deleted, whose schema content is gone.
NoDanglingVersion ==
  \A s \in Subjects : \A v \in Versions(s) : HasContent(s, v)

\* The version counter of a subject is never behind a stored row, so
\* CreateSchema never writes over an imported or soft-deleted version.
CounterCoversVersions ==
  \A s \in Subjects : \A v \in Versions(s) : v <= nextSubjectVersion[s]

\* Content is stored exactly for the IDs somebody uses, and a fingerprint
\* entry leads to the content it stands for: CreateSchema reuses that ID for a
\* new version without looking at what the ID holds.
FingerprintSound ==
  /\ DOMAIN schemas = DOMAIN idToSubjectVersions
  /\ \A fp \in DOMAIN fingerprints :
        /\ fingerprints[fp] \in DOMAIN schemas
        /\ schemas[fingerprints[fp]] = fp

\* A stored version never changes: not its ID, not its metadata, not the
\* content behind its ID, and a soft delete is never undone.
VersionFrozen ==
  \A s \in Subjects : \A v \in Versions(s) : v \in DOMAIN subjectVersions'[s] =>
     LET old == subjectVersions[s][v]
         new == subjectVersions'[s][v]
     IN /\ new.id = old.id /\ new.meta = old.meta
        /\ old.deleted => new.deleted
        /\ schemas'[new.id] = schemas[old.id]

VersionsImmutable == [][VersionFrozen]_storeVars

-----------------------------------------------------------------------------
(* No method tells one subject or one content from another.                *)

StoreSymmetry == Permutations(Subjects) \cup Permutations(Fingerprints)

=============================================================================
