------------------------- MODULE MemoryStoreProofs -------------------------
(***************************************************************************)
(* The integrity of the in-memory store, proved for every set of subjects, *)
(* contents, IDs and versions.  The inductive invariant is the conjunction *)
(* of the invariants TLC checks: the permanent deletes need the reverse    *)
(* index to be exact to know that a content is unused, a create that       *)
(* reuses an ID needs the fingerprint entry to lead to stored content, and *)
(* a create that assigns a version needs the counter to cover the rows.    *)
(***************************************************************************)
EXTENDS MemoryStore, TLAPS

StoreInv ==
  /\ StoreTypeOK
  /\ IndexExact
  /\ NoDanglingVersion
  /\ CounterCoversVersions
  /\ FingerprintSound

\* The initial store, all maps empty, satisfies the invariant.
LEMMA InitInv == StoreInit => StoreInv
  BY StoreAssumption
  DEF StoreInit, StoreInv, StoreTypeOK, IndexExact, NoDanglingVersion,
      CounterCoversVersions, FingerprintSound, EmptyMap, Versions, HasContent,
      SubjectVersionsOf, VersionInfo

\* Adding the row of a new version, as creates and imports do, keeps the rows
\* well typed and the reverse index exact.
LEMMA LinkExact ==
  ASSUME StoreInv,
         NEW s \in Subjects, NEW v \in Nat \ {0}, NEW i \in Nat, NEW m \in Metas,
         v \notin Versions(s),
         LinkVersion(s, v, i, m)
  PROVE  /\ DOMAIN subjectVersions' = Subjects
         /\ \A t \in Subjects :
              /\ Versions(t)' = IF t = s THEN Versions(t) \cup {v} ELSE Versions(t)
              /\ \A w \in Versions(t) : subjectVersions'[t][w] = subjectVersions[t][w]
         /\ subjectVersions'[s][v] = [id |-> i, deleted |-> FALSE, meta |-> m]
         /\ DOMAIN idToSubjectVersions' = DOMAIN idToSubjectVersions \cup {i}
         /\ \A j \in DOMAIN idToSubjectVersions' :
              idToSubjectVersions'[j] \subseteq Subjects \X Nat
         /\ IndexExact'
<1> DEFINE row == [id |-> i, deleted |-> FALSE, meta |-> m]
<1>1. /\ DOMAIN subjectVersions = Subjects
      /\ \A t \in Subjects : Versions(t) \subseteq Nat \ {0}
      /\ DOMAIN idToSubjectVersions \subseteq Nat
      /\ \A j \in DOMAIN idToSubjectVersions : idToSubjectVersions[j] \subseteq Subjects \X Nat
      /\ IndexExact
  BY DEF StoreInv, StoreTypeOK
<1>2. /\ subjectVersions' = [subjectVersions EXCEPT ![s] = Put(subjectVersions[s], v, row)]
      /\ idToSubjectVersions' =
           Put(idToSubjectVersions, i, SubjectVersionsOf(i) \cup {<<s, v>>})
  BY DEF LinkVersion
<1>3. /\ DOMAIN subjectVersions' = Subjects
      /\ subjectVersions'[s] = Put(subjectVersions[s], v, row)
      /\ \A t \in Subjects : t # s => subjectVersions'[t] = subjectVersions[t]
  BY <1>1, <1>2
<1>4. /\ Versions(s)' = Versions(s) \cup {v}
      /\ subjectVersions'[s][v] = row
      /\ \A w \in Versions(s) : subjectVersions'[s][w] = subjectVersions[s][w]
  <2> HIDE DEF row
  <2> QED BY <1>3, v \notin DOMAIN subjectVersions[s] DEF Versions, Put
<1>5. \A t \in Subjects : t # s => Versions(t)' = Versions(t)
  BY <1>3 DEF Versions
<1>6. /\ DOMAIN idToSubjectVersions' = DOMAIN idToSubjectVersions \cup {i}
      /\ idToSubjectVersions'[i] = SubjectVersionsOf(i) \cup {<<s, v>>}
      /\ \A j \in DOMAIN idToSubjectVersions : j # i =>
            idToSubjectVersions'[j] = idToSubjectVersions[j]
  BY <1>2 DEF Put
<1>7. ASSUME NEW j \in DOMAIN idToSubjectVersions'
      PROVE  /\ idToSubjectVersions'[j] \subseteq Subjects \X Nat
             /\ idToSubjectVersions'[j] # {}
  <2>1. SubjectVersionsOf(i) \subseteq Subjects \X Nat
    BY <1>1 DEF SubjectVersionsOf
  <2>2. <<s, v>> \in Subjects \X Nat
    OBVIOUS
  <2>3. CASE j = i
    BY <2>1, <2>2, <2>3, <1>6
  <2>4. CASE j # i
    BY <2>4, <1>1, <1>6 DEF IndexExact
  <2> QED BY <2>3, <2>4
<1>8. ASSUME NEW t \in Subjects, NEW w \in Versions(t)'
      PROVE  <<t, w>> \in SubjectVersionsOf(subjectVersions[t][w].id)'
  <2>1. CASE t = s /\ w = v
    BY <2>1, <1>4, <1>6 DEF SubjectVersionsOf
  <2>2. CASE w \in Versions(t)
    <3>1. /\ subjectVersions'[t][w] = subjectVersions[t][w]
          /\ <<t, w>> \in SubjectVersionsOf(subjectVersions[t][w].id)
      BY <2>2, <1>1, <1>3, <1>4 DEF IndexExact
    <3> DEFINE k == subjectVersions[t][w].id
    <3>2. /\ k \in DOMAIN idToSubjectVersions
          /\ <<t, w>> \in idToSubjectVersions[k]
      BY <3>1 DEF SubjectVersionsOf
    <3>3. k \in DOMAIN idToSubjectVersions' /\ <<t, w>> \in idToSubjectVersions'[k]
      <4> HIDE DEF k
      <4> QED BY <3>2, <1>6 DEF SubjectVersionsOf
    <3> QED BY <3>1, <3>3 DEF SubjectVersionsOf
  <2> QED BY <2>1, <2>2, <1>4, <1>5
<1>9. \A j \in DOMAIN idToSubjectVersions' : \A sv \in idToSubjectVersions'[j] :
         /\ sv[1] \in Subjects
         /\ sv[2] \in Versions(sv[1])'
         /\ subjectVersions'[sv[1]][sv[2]].id = j
  <2> TAKE j \in DOMAIN idToSubjectVersions'
  <2> TAKE sv \in idToSubjectVersions'[j]
  <2>1. CASE sv = <<s, v>> /\ j = i
    BY <2>1, <1>4
  <2>2. CASE j \in DOMAIN idToSubjectVersions /\ sv \in idToSubjectVersions[j]
    <3>1. /\ sv[1] \in Subjects /\ sv[2] \in Versions(sv[1])
          /\ subjectVersions[sv[1]][sv[2]].id = j
      BY <2>2, <1>1 DEF IndexExact
    <3> QED BY <3>1, <1>3, <1>4, <1>5
  <2> QED BY <2>1, <2>2, <1>6 DEF SubjectVersionsOf
<1> QED
  BY <1>3, <1>4, <1>5, <1>6, <1>7, <1>8, <1>9 DEF IndexExact

\* Adding a version whose ID is bound to its content, old or new, keeps the
\* whole invariant and leaves the versions already stored alone.
LEMMA LinkInv ==
  ASSUME StoreInv,
         NEW s \in Subjects, NEW v \in Nat \ {0}, NEW i \in Nat, NEW m \in Metas,
         NEW fp \in Fingerprints, NEW n \in Nat,
         v \notin Versions(s),
         LinkVersion(s, v, i, m),
         DOMAIN schemas' = DOMAIN schemas \cup {i},
         schemas'[i] = fp,
         \A j \in DOMAIN schemas : schemas'[j] = schemas[j],
         DOMAIN fingerprints' = DOMAIN fingerprints \cup {fp},
         fingerprints'[fp] = i,
         \A g \in DOMAIN fingerprints : g # fp => fingerprints'[g] = fingerprints[g],
         v <= n, nextSubjectVersion[s] <= n,
         nextSubjectVersion' = [nextSubjectVersion EXCEPT ![s] = n],
         nextID' \in Nat,
         UNCHANGED settingVars
  PROVE  StoreInv' /\ VersionFrozen
<1> DEFINE row == [id |-> i, deleted |-> FALSE, meta |-> m]
<1>1. /\ DOMAIN subjectVersions' = Subjects
      /\ \A t \in Subjects :
            /\ Versions(t)' = IF t = s THEN Versions(t) \cup {v} ELSE Versions(t)
            /\ \A w \in Versions(t) : subjectVersions'[t][w] = subjectVersions[t][w]
      /\ subjectVersions'[s][v] = row
      /\ DOMAIN idToSubjectVersions' = DOMAIN idToSubjectVersions \cup {i}
      /\ \A j \in DOMAIN idToSubjectVersions' :
            idToSubjectVersions'[j] \subseteq Subjects \X Nat
      /\ IndexExact'
  BY LinkExact
<1>2. row \in VersionInfo /\ row.id = i
  BY DEF VersionInfo
<1> HIDE DEF row
<1>3. StoreTypeOK /\ NoDanglingVersion /\ CounterCoversVersions /\ FingerprintSound
  BY DEF StoreInv
<1>4. StoreTypeOK'
  <2>1. /\ DOMAIN schemas' \subseteq Nat
        /\ \A j \in DOMAIN schemas' : schemas'[j] \in Fingerprints
        /\ DOMAIN fingerprints' \subseteq Fingerprints
        /\ \A g \in DOMAIN fingerprints' : fingerprints'[g] \in Nat
    BY <1>3 DEF StoreTypeOK
  <2>2. \A t \in Subjects : /\ Versions(t)' \subseteq Nat \ {0}
                            /\ \A w \in Versions(t)' : subjectVersions'[t][w] \in VersionInfo
    BY <1>1, <1>2, <1>3 DEF StoreTypeOK
  <2>3. /\ nextSubjectVersion' \in [Subjects -> Nat]
        /\ DOMAIN idToSubjectVersions' \subseteq Nat
    BY <1>1, <1>3 DEF StoreTypeOK
  <2>4. /\ configs' \in [Subjects -> Configs \cup {Unset}] /\ globalConfig' \in Configs \cup {Unset}
        /\ modes' \in [Subjects -> Modes \cup {Unset}]
        /\ globalMode' \in Modes \cup {Unset}
    BY <1>3 DEF StoreTypeOK, settingVars
  <2> QED BY <1>1, <2>1, <2>2, <2>3, <2>4 DEF StoreTypeOK
<1>5. NoDanglingVersion'
  <2> SUFFICES ASSUME NEW t \in Subjects, NEW w \in Versions(t)'
               PROVE  subjectVersions'[t][w].id \in DOMAIN schemas'
    BY DEF NoDanglingVersion, HasContent
  <2>1. CASE t = s /\ w = v
    BY <2>1, <1>1, <1>2
  <2>2. CASE w \in Versions(t)
    BY <2>2, <1>1, <1>3 DEF NoDanglingVersion, HasContent
  <2> QED BY <2>1, <2>2, <1>1
<1>6. CounterCoversVersions'
  <2> SUFFICES ASSUME NEW t \in Subjects, NEW w \in Versions(t)'
               PROVE  w <= nextSubjectVersion'[t]
    BY DEF CounterCoversVersions
  <2>0. nextSubjectVersion \in [Subjects -> Nat]
    BY <1>3 DEF StoreTypeOK
  <2>1. CASE t = s /\ w = v
    BY <2>0, <2>1
  <2>2. CASE w \in Versions(t)
    <3>1. w \in Nat /\ w <= nextSubjectVersion[t]
      BY <2>2, <1>3 DEF StoreTypeOK, CounterCoversVersions
    <3> QED BY <3>1, <2>0
  <2> QED BY <2>1, <2>2, <1>1
<1>7. FingerprintSound'
  <2>1. DOMAIN schemas' = DOMAIN idToSubjectVersions'
    BY <1>1, <1>3 DEF FingerprintSound
  <2>2. \A g \in DOMAIN fingerprints' : /\ fingerprints'[g] \in DOMAIN schemas'
                                        /\ schemas'[fingerprints'[g]] = g
    BY <1>3 DEF FingerprintSound
  <2> QED BY <2>1, <2>2 DEF FingerprintSound
<1>8. VersionFrozen
  BY <1>1, <1>3 DEF VersionFrozen, NoDanglingVersion, HasContent
<1> QED BY <1>1, <1>4, <1>5, <1>6, <1>7, <1>8 DEF StoreInv

\* CreateSchema keeps the invariant when the next ID is free.
LEMMA CreateInv ==
  ASSUME StoreInv, NextIDFree,
         NEW s \in Subjects, NEW fp \in Fingerprints, NEW m \in Metas,
         CreateSchema(s, fp, m)
  PROVE  StoreInv' /\ VersionFrozen
<1> DEFINE v == nextSubjectVersion[s] + 1
<1>1. /\ nextSubjectVersion[s] \in Nat /\ nextID \in Nat
      /\ v \in Nat \ {0} /\ v \notin Versions(s)
  BY DEF StoreInv, StoreTypeOK, CounterCoversVersions
<1>2. /\ nextSubjectVersion' = [nextSubjectVersion EXCEPT ![s] = v]
      /\ UNCHANGED settingVars
  BY DEF CreateSchema
<1>3. CASE fp \in DOMAIN fingerprints
  <2> DEFINE i == fingerprints[fp]
  <2>1. /\ UNCHANGED <<schemas, fingerprints, nextID>>
        /\ LinkVersion(s, v, i, m)
    BY <1>3 DEF CreateSchema
  <2>2. i \in DOMAIN schemas /\ schemas[i] = fp /\ i \in Nat
    BY <1>3 DEF StoreInv, FingerprintSound, StoreTypeOK
  <2> HIDE DEF i, v
  <2>3. fingerprints[fp] = i
    BY DEF i
  <2>4. v <= v /\ nextSubjectVersion[s] <= v
    BY <1>1 DEF v
  <2> QED BY <1>1, <1>2, <1>3, <2>1, <2>2, <2>3, <2>4, LinkInv
<1>4. CASE fp \notin DOMAIN fingerprints
  <2>1. /\ schemas' = Put(schemas, nextID, fp)
        /\ fingerprints' = Put(fingerprints, fp, nextID)
        /\ nextID' = nextID + 1
        /\ LinkVersion(s, v, nextID, m)
    BY <1>4 DEF CreateSchema
  <2>2. v <= v /\ nextSubjectVersion[s] <= v
    BY <1>1
  <2> HIDE DEF v
  <2>3. /\ DOMAIN schemas' = DOMAIN schemas \cup {nextID}
        /\ schemas'[nextID] = fp
        /\ \A j \in DOMAIN schemas : schemas'[j] = schemas[j]
    BY <2>1 DEF Put, NextIDFree
  <2>4. /\ DOMAIN fingerprints' = DOMAIN fingerprints \cup {fp}
        /\ fingerprints'[fp] = nextID
        /\ \A g \in DOMAIN fingerprints : g # fp => fingerprints'[g] = fingerprints[g]
    BY <2>1 DEF Put
  <2>5. nextID' \in Nat
    BY <1>1, <2>1
  <2> QED BY <1>1, <1>2, <2>1, <2>2, <2>3, <2>4, <2>5, LinkInv
<1> QED BY <1>3, <1>4

\* ImportSchema keeps the invariant: it refuses an ID with other content.
LEMMA ImportInv ==
  ASSUME StoreInv,
         NEW s \in Subjects, NEW fp \in Fingerprints, NEW i \in Nat,
         NEW v \in Nat \ {0},
         ImportSchema(s, fp, i, v)
  PROVE  StoreInv' /\ VersionFrozen
<1> DEFINE n == IF v >= nextSubjectVersion[s] THEN v ELSE nextSubjectVersion[s]
<1>1. i \in Nat /\ v \in Nat \ {0} /\ NoMeta \in Metas
  BY StoreAssumption
<1>2. /\ nextSubjectVersion[s] \in Nat /\ nextID \in Nat
      /\ n \in Nat /\ v <= n /\ nextSubjectVersion[s] <= n
  BY <1>1 DEF StoreInv, StoreTypeOK
<1>3. /\ v \notin Versions(s)
      /\ LinkVersion(s, v, i, NoMeta)
      /\ nextSubjectVersion' = [nextSubjectVersion EXCEPT ![s] = n]
      /\ nextID' = nextID
      /\ UNCHANGED settingVars
  BY DEF ImportSchema
<1> HIDE DEF n
<1>4. /\ DOMAIN schemas' = DOMAIN schemas \cup {i}
      /\ schemas'[i] = fp
      /\ \A j \in DOMAIN schemas : schemas'[j] = schemas[j]
  <2>1. CASE i \in DOMAIN schemas
    BY <2>1 DEF ImportSchema, IDConflict
  <2>2. CASE i \notin DOMAIN schemas
    BY <2>2 DEF ImportSchema, Put
  <2> QED BY <2>1, <2>2
<1>5. /\ DOMAIN fingerprints' = DOMAIN fingerprints \cup {fp}
      /\ fingerprints'[fp] = i
      /\ \A g \in DOMAIN fingerprints : g # fp => fingerprints'[g] = fingerprints[g]
  BY DEF ImportSchema, Put
<1> QED BY <1>1, <1>2, <1>3, <1>4, <1>5, LinkInv

\* Removing the rows V of a subject and unlinking them from the reverse index
\* keeps the invariant: an ID loses its content exactly when no row is left.
LEMMA UnlinkInv ==
  ASSUME StoreInv,
         NEW s \in Subjects, NEW V \in SUBSET Versions(s),
         Unlink({s} \X V),
         subjectVersions' = [subjectVersions EXCEPT ![s] = Drop(subjectVersions[s], V)],
         nextSubjectVersion' \in [Subjects -> Nat],
         \A t \in Subjects : \/ nextSubjectVersion'[t] = nextSubjectVersion[t]
                             \/ t = s /\ V = Versions(s),
         nextID' \in Nat,
         configs' \in [Subjects -> Configs \cup {Unset}] /\ globalConfig' \in Configs \cup {Unset},
         modes' \in [Subjects -> Modes \cup {Unset}],
         globalMode' \in Modes \cup {Unset}
  PROVE  StoreInv' /\ VersionFrozen
<1> DEFINE gone == {s} \X V
           touched == {subjectVersions[sv[1]][sv[2]].id : sv \in gone}
           dead == {i \in touched : SubjectVersionsOf(i) \subseteq gone}
<1>1. StoreTypeOK /\ IndexExact /\ NoDanglingVersion /\ CounterCoversVersions /\ FingerprintSound
  BY DEF StoreInv
<1>2. /\ DOMAIN subjectVersions' = Subjects
      /\ \A t \in Subjects :
           /\ Versions(t)' = IF t = s THEN Versions(t) \ V ELSE Versions(t)
           /\ \A w \in Versions(t)' : subjectVersions'[t][w] = subjectVersions[t][w]
  BY <1>1 DEF StoreTypeOK, Versions, Drop
<1>3. /\ fingerprints' = Drop(fingerprints, {schemas[i] : i \in dead \cap DOMAIN schemas})
      /\ schemas' = Drop(schemas, dead)
      /\ idToSubjectVersions' =
           [i \in (DOMAIN idToSubjectVersions \cup touched) \ dead |->
              IF i \in touched THEN SubjectVersionsOf(i) \ gone
                               ELSE idToSubjectVersions[i]]
  BY DEF Unlink
<1>4. \A w \in V : /\ subjectVersions[s][w].id \in touched
                   /\ <<s, w>> \in gone
  <2> TAKE w \in V
  <2>1. <<s, w>> \in gone /\ <<s, w>>[1] = s /\ <<s, w>>[2] = w
    OBVIOUS
  <2> QED BY <2>1
<1>5. touched \subseteq DOMAIN idToSubjectVersions
  BY <1>1 DEF IndexExact, SubjectVersionsOf, Versions
<1>6. \A j \in DOMAIN idToSubjectVersions : j \notin touched =>
         \A sv \in idToSubjectVersions[j] : sv \notin gone
  BY <1>1 DEF IndexExact
<1>7. \A t \in Subjects : \A w \in Versions(t)' :
         /\ <<t, w>> \notin gone
         /\ subjectVersions[t][w].id \in DOMAIN idToSubjectVersions
         /\ <<t, w>> \in idToSubjectVersions[subjectVersions[t][w].id]
         /\ subjectVersions[t][w].id \notin dead
  <2> TAKE t \in Subjects
  <2> TAKE w \in Versions(t)'
  <2>1. w \in Versions(t) /\ (t = s => w \notin V)
    BY <1>2
  <2>2. <<t, w>> \notin gone
    BY <2>1
  <2>3. <<t, w>> \in SubjectVersionsOf(subjectVersions[t][w].id)
    BY <2>1, <1>1 DEF IndexExact
  <2> QED BY <2>2, <2>3 DEF SubjectVersionsOf
<1> HIDE DEF gone, touched
<1>8. /\ DOMAIN idToSubjectVersions' = DOMAIN idToSubjectVersions \ dead
      /\ \A j \in DOMAIN idToSubjectVersions' :
            idToSubjectVersions'[j] = idToSubjectVersions[j] \ gone
  BY <1>3, <1>5, <1>6 DEF SubjectVersionsOf
<1>9. \A j \in DOMAIN idToSubjectVersions' : idToSubjectVersions'[j] # {}
  <2> TAKE j \in DOMAIN idToSubjectVersions'
  <2>1. CASE j \in touched
    BY <2>1, <1>3, <1>8 DEF SubjectVersionsOf
  <2>2. CASE j \notin touched
    BY <2>2, <1>1, <1>6, <1>8 DEF IndexExact
  <2> QED BY <2>1, <2>2
<1> HIDE DEF dead
<1>10. IndexExact'
  <2>1. ASSUME NEW t \in Subjects, NEW w \in Versions(t)'
        PROVE  <<t, w>> \in SubjectVersionsOf(subjectVersions[t][w].id)'
    <3> DEFINE k == subjectVersions[t][w].id
    <3>1. subjectVersions'[t][w].id = k
      BY <1>2
    <3>2. k \in DOMAIN idToSubjectVersions' /\ <<t, w>> \in idToSubjectVersions'[k]
      BY <1>7, <1>8
    <3> QED BY <3>1, <3>2 DEF SubjectVersionsOf
  <2>2. \A j \in DOMAIN idToSubjectVersions' : \A sv \in idToSubjectVersions'[j] :
           /\ sv[1] \in Subjects
           /\ sv[2] \in Versions(sv[1])'
           /\ subjectVersions'[sv[1]][sv[2]].id = j
    <3> TAKE j \in DOMAIN idToSubjectVersions'
    <3> TAKE sv \in idToSubjectVersions'[j]
    <3>1. /\ j \in DOMAIN idToSubjectVersions
          /\ sv \in idToSubjectVersions[j] /\ sv \notin gone
      BY <1>8
    <3>2. /\ sv[1] \in Subjects /\ sv[2] \in Versions(sv[1])
          /\ subjectVersions[sv[1]][sv[2]].id = j
      BY <3>1, <1>1 DEF IndexExact
    <3>3. sv = <<sv[1], sv[2]>>
      BY <3>1, <1>1 DEF StoreTypeOK
    <3>4. ~(sv[1] = s /\ sv[2] \in V)
      BY <3>1, <3>3, <1>4
    <3> QED BY <3>2, <3>4, <1>2
  <2> QED BY <1>9, <2>1, <2>2 DEF IndexExact
<1>11. StoreTypeOK'
  <2>1. /\ DOMAIN schemas' \subseteq Nat
        /\ \A i \in DOMAIN schemas' : schemas'[i] \in Fingerprints
        /\ DOMAIN fingerprints' \subseteq Fingerprints
        /\ \A fp \in DOMAIN fingerprints' : fingerprints'[fp] \in Nat
    BY <1>1, <1>3 DEF StoreTypeOK, Drop
  <2>2. \A t \in Subjects : /\ Versions(t)' \subseteq Nat \ {0}
                            /\ \A w \in Versions(t)' : subjectVersions'[t][w] \in VersionInfo
    BY <1>1, <1>2 DEF StoreTypeOK
  <2>3. /\ DOMAIN idToSubjectVersions' \subseteq Nat
        /\ \A i \in DOMAIN idToSubjectVersions' :
              idToSubjectVersions'[i] \subseteq Subjects \X Nat
    BY <1>1, <1>8 DEF StoreTypeOK
  <2> QED BY <1>2, <2>1, <2>2, <2>3 DEF StoreTypeOK
<1>12. DOMAIN schemas' = DOMAIN schemas \ dead /\ \A i \in DOMAIN schemas' : schemas'[i] = schemas[i]
  BY <1>3 DEF Drop
<1>13. \A t \in Subjects : \A w \in Versions(t)' :
         /\ w \in Versions(t)
         /\ subjectVersions'[t][w] = subjectVersions[t][w]
         /\ subjectVersions[t][w].id \in DOMAIN schemas'
  <2> TAKE t \in Subjects
  <2> TAKE w \in Versions(t)'
  <2>1. w \in Versions(t) /\ subjectVersions'[t][w] = subjectVersions[t][w]
    BY <1>2
  <2>2. subjectVersions[t][w].id \in DOMAIN schemas
    BY <2>1, <1>1 DEF NoDanglingVersion, HasContent
  <2> QED BY <2>1, <2>2, <1>7, <1>12
<1>14. NoDanglingVersion'
  BY <1>13 DEF NoDanglingVersion, HasContent
<1>15. CounterCoversVersions'
  BY <1>1, <1>2 DEF CounterCoversVersions
<1>16. FingerprintSound'
  <2>1. DOMAIN schemas' = DOMAIN idToSubjectVersions'
    BY <1>1, <1>8, <1>12 DEF FingerprintSound
  <2>2. \A fp \in DOMAIN fingerprints' : /\ fingerprints'[fp] \in DOMAIN schemas'
                                         /\ schemas'[fingerprints'[fp]] = fp
    BY <1>1, <1>3, <1>12 DEF FingerprintSound, Drop
  <2> QED BY <2>1, <2>2 DEF FingerprintSound
<1>17. VersionFrozen
  <2> SUFFICES ASSUME NEW t \in Subjects, NEW w \in Versions(t), w \in Versions(t)'
               PROVE  /\ subjectVersions'[t][w] = subjectVersions[t][w]
                      /\ schemas'[subjectVersions[t][w].id] = schemas[subjectVersions[t][w].id]
    BY DEF VersionFrozen, Versions
  <2> QED BY <1>12, <1>13
<1> QED BY <1>10, <1>11, <1>14, <1>15, <1>16, <1>17 DEF StoreInv

\* A soft delete marks rows and changes nothing else.
LEMMA SoftInv ==
  ASSUME StoreInv, NEW s \in Subjects, NEW V \in SUBSET Versions(s),
         SoftDelete(s, V),
         UNCHANGED <<schemas, fingerprints, nextSubjectVersion, idToSubjectVersions,
                     nextID, settingVars>>
  PROVE  StoreInv' /\ VersionFrozen
<1>1. StoreTypeOK /\ IndexExact /\ NoDanglingVersion /\ CounterCoversVersions /\ FingerprintSound
  BY DEF StoreInv
<1>2. /\ DOMAIN subjectVersions' = Subjects
      /\ \A t \in Subjects : Versions(t)' = Versions(t)
  BY <1>1 DEF SoftDelete, StoreTypeOK, Versions
<1>3. \A t \in Subjects : \A w \in Versions(t) :
         \/ subjectVersions'[t][w] = subjectVersions[t][w]
         \/ subjectVersions'[t][w] = [subjectVersions[t][w] EXCEPT !.deleted = TRUE]
  BY <1>1 DEF SoftDelete, StoreTypeOK, Versions
<1>4. \A t \in Subjects : \A w \in Versions(t) :
         /\ subjectVersions'[t][w] \in VersionInfo
         /\ subjectVersions'[t][w].id = subjectVersions[t][w].id
         /\ subjectVersions'[t][w].meta = subjectVersions[t][w].meta
         /\ subjectVersions[t][w].deleted => subjectVersions'[t][w].deleted
  <2> TAKE t \in Subjects
  <2> TAKE w \in Versions(t)
  <2>1. subjectVersions[t][w] \in VersionInfo
    BY <1>1 DEF StoreTypeOK
  <2> DEFINE old == subjectVersions[t][w]
             new == [old EXCEPT !.deleted = TRUE]
  <2>2. /\ new \in VersionInfo
        /\ new.id = old.id /\ new.meta = old.meta /\ new.deleted
    BY <2>1 DEF VersionInfo
  <2>3. subjectVersions'[t][w] = old \/ subjectVersions'[t][w] = new
    BY <1>3
  <2> HIDE DEF new
  <2> QED BY <2>1, <2>2, <2>3
<1>5. StoreTypeOK'
  BY <1>1, <1>2, <1>4 DEF StoreTypeOK, settingVars
<1>6. IndexExact'
  BY <1>1, <1>2, <1>4 DEF IndexExact, SubjectVersionsOf
<1>7. NoDanglingVersion' /\ CounterCoversVersions'
  BY <1>1, <1>2, <1>4 DEF NoDanglingVersion, HasContent, CounterCoversVersions
<1>8. FingerprintSound'
  BY <1>1 DEF FingerprintSound
<1>9. VersionFrozen
  BY <1>4 DEF VersionFrozen
<1> QED BY <1>5, <1>6, <1>7, <1>8, <1>9 DEF StoreInv

\* A step that leaves the schema tables alone, but for the next ID, and keeps
\* the settings well typed.
LEMMA SettingInv ==
  ASSUME StoreInv,
         UNCHANGED <<schemas, fingerprints, subjectVersions, nextSubjectVersion,
                     idToSubjectVersions>>,
         nextID' \in Nat,
         configs' \in [Subjects -> Configs \cup {Unset}] /\ globalConfig' \in Configs \cup {Unset},
         modes' \in [Subjects -> Modes \cup {Unset}],
         globalMode' \in Modes \cup {Unset}
  PROVE  StoreInv' /\ VersionFrozen
<1>1. StoreInv'
  BY DEF StoreInv, StoreTypeOK, IndexExact, NoDanglingVersion, CounterCoversVersions,
         FingerprintSound, Versions, HasContent, SubjectVersionsOf
<1>2. VersionFrozen
  BY DEF VersionFrozen
<1> QED BY <1>1, <1>2

\* Every step of the store keeps the invariant and every stored version.
LEMMA StepInv ==
  ASSUME StoreInv, [StoreNext]_storeVars
  PROVE  StoreInv' /\ (VersionFrozen \/ UNCHANGED storeVars)
<1> USE DEF schemaVars, settingVars
<1>0. /\ nextID \in Nat
      /\ nextSubjectVersion \in [Subjects -> Nat]
      /\ configs \in [Subjects -> Configs \cup {Unset}] /\ globalConfig \in Configs \cup {Unset}
      /\ modes \in [Subjects -> Modes \cup {Unset}]
      /\ globalMode \in Modes \cup {Unset}
      /\ DOMAIN subjectVersions = Subjects
  BY DEF StoreInv, StoreTypeOK
<1>1. ASSUME NEW s \in Subjects, NEW fp \in Fingerprints, NEW m \in Metas,
             NextIDFree, CreateSchema(s, fp, m)
      PROVE  StoreInv' /\ VersionFrozen
  BY <1>1, CreateInv
<1>2. ASSUME NEW s \in Subjects, NEW fp \in Fingerprints, NEW i \in Ids,
             NEW v \in ImportVersions, ImportSchema(s, fp, i, v)
      PROVE  StoreInv' /\ VersionFrozen
  BY <1>2, ImportInv, StoreAssumption
<1>3. ASSUME NEW i \in Ids, SetNextID(i)
      PROVE  StoreInv' /\ VersionFrozen
  <2>1. nextID' \in Nat
    BY <1>3, StoreAssumption DEF SetNextID
  <2> QED BY <1>0, <1>3, <2>1, SettingInv DEF SetNextID
<1>4. ASSUME NEW s \in Subjects, NEW v \in Versions(s), DeleteSchema(s, v)
      PROVE  StoreInv' /\ VersionFrozen
  <2>1. {v} \in SUBSET Versions(s) /\ SoftDelete(s, {v})
    BY <1>4 DEF DeleteSchema
  <2>2. UNCHANGED <<schemas, fingerprints, nextSubjectVersion, idToSubjectVersions,
                    nextID, settingVars>>
    BY <1>4 DEF DeleteSchema
  <2> QED BY <2>1, <2>2, SoftInv
<1>5. ASSUME NEW s \in Subjects, NEW v \in Versions(s), DeleteSchemaPermanent(s, v)
      PROVE  StoreInv' /\ VersionFrozen
  <2>1. {v} \in SUBSET Versions(s) /\ {<<s, v>>} = {s} \X {v}
    OBVIOUS
  <2>2. Unlink({s} \X {v})
    BY <1>5, <2>1 DEF DeleteSchemaPermanent
  <2>3. /\ subjectVersions' = [subjectVersions EXCEPT ![s] = Drop(subjectVersions[s], {v})]
        /\ UNCHANGED <<nextSubjectVersion, nextID, settingVars>>
    BY <1>5 DEF DeleteSchemaPermanent
  <2> QED BY <1>0, <2>1, <2>2, <2>3, UnlinkInv
<1>6. ASSUME NEW s \in Subjects, DeleteSubject(s)
      PROVE  StoreInv' /\ VersionFrozen
  BY <1>6, SoftInv DEF DeleteSubject
<1>7. ASSUME NEW s \in Subjects, DeleteSubjectPermanent(s)
      PROVE  StoreInv' /\ VersionFrozen
  <2>1. Versions(s) \in SUBSET Versions(s)
    OBVIOUS
  <2>2. EmptyMap = Drop(subjectVersions[s], Versions(s))
    BY DEF EmptyMap, Drop, Versions
  <2>3. subjectVersions' = [subjectVersions EXCEPT ![s] = Drop(subjectVersions[s], Versions(s))]
    BY <1>7, <2>2 DEF DeleteSubjectPermanent
  <2>4. /\ nextSubjectVersion' \in [Subjects -> Nat]
        /\ configs' \in [Subjects -> Configs \cup {Unset}] /\ globalConfig' \in Configs \cup {Unset}
        /\ modes' \in [Subjects -> Modes \cup {Unset}]
        /\ nextID' \in Nat /\ globalMode' \in Modes \cup {Unset}
        /\ \A t \in Subjects : t # s => nextSubjectVersion'[t] = nextSubjectVersion[t]
    BY <1>0, <1>7 DEF DeleteSubjectPermanent
  <2>5. Unlink({s} \X Versions(s))
    BY <1>7 DEF DeleteSubjectPermanent
  <2> QED BY <2>1, <2>3, <2>4, <2>5, UnlinkInv
<1>8. ASSUME NEW s \in Subjects,
             \/ \E config \in Configs : SetConfig(s, config)
             \/ \E mode \in Modes : SetMode(s, mode)
             \/ DeleteConfig(s)
             \/ DeleteMode(s)
      PROVE  StoreInv' /\ VersionFrozen
  <2>1. /\ UNCHANGED <<schemaVars, globalConfig, globalMode>>
        /\ configs' \in [Subjects -> Configs \cup {Unset}]
        /\ modes' \in [Subjects -> Modes \cup {Unset}]
    BY <1>0, <1>8 DEF SetConfig, SetMode, DeleteConfig, DeleteMode
  <2> QED BY <1>0, <2>1, SettingInv
<1>9. ASSUME \/ (\E mode \in Modes : SetGlobalMode(mode)) \/ DeleteGlobalMode
             \/ (\E config \in Configs : SetGlobalConfig(config)) \/ DeleteGlobalConfig
      PROVE  StoreInv' /\ VersionFrozen
  <2>1. /\ UNCHANGED <<schemaVars, configs, modes>>
        /\ globalMode' \in Modes \cup {Unset} /\ globalConfig' \in Configs \cup {Unset}
    BY <1>0, <1>9 DEF SetGlobalMode, DeleteGlobalMode, SetGlobalConfig, DeleteGlobalConfig
  <2> QED BY <1>0, <2>1, SettingInv
<1>10. CASE UNCHANGED storeVars
  BY <1>0, <1>10, SettingInv DEF storeVars
<1> QED
  BY <1>1, <1>2, <1>3, <1>4, <1>5, <1>6, <1>7, <1>8, <1>9, <1>10 DEF StoreNext

\* Every reachable state of the in-memory store satisfies the invariant, for
\* all sets of subjects, contents, IDs and versions.
THEOREM StoreIntegrity == StoreSpec => []StoreInv
<1>1. StoreInit => StoreInv
  BY InitInv
<1>2. StoreInv /\ [StoreNext]_storeVars => StoreInv'
  BY StepInv
<1> QED BY <1>1, <1>2, PTL DEF StoreSpec

\* The state of the in-memory store keeps its types.
THEOREM TypeCorrect == StoreSpec => []StoreTypeOK
<1>1. StoreInv => StoreTypeOK
  BY DEF StoreInv
<1> QED BY <1>1, StoreIntegrity, PTL

\* Permanent deletes of store.go never remove content a version still uses.
THEOREM ContentKept == StoreSpec => []NoDanglingVersion
<1>1. StoreInv => NoDanglingVersion
  BY DEF StoreInv
<1> QED BY <1>1, StoreIntegrity, PTL

\* Content exists exactly for used IDs and a fingerprint entry is never stale.
THEOREM FingerprintsSound == StoreSpec => []FingerprintSound
<1>1. StoreInv => FingerprintSound
  BY DEF StoreInv
<1> QED BY <1>1, StoreIntegrity, PTL

\* No store operation alters a stored version: its ID, metadata and content
\* stay, and a soft delete is final until the row is purged.
THEOREM StoredVersionsImmutable == StoreSpec => VersionsImmutable
<1>1. StoreInv /\ [StoreNext]_storeVars => [VersionFrozen]_storeVars
  BY StepInv
<1> QED BY <1>1, StoreIntegrity, PTL DEF StoreSpec, VersionsImmutable
=============================================================================
