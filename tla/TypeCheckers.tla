---------------------------- MODULE TypeCheckers ----------------------------
(***************************************************************************)
(* The versions of one subject, let in by the checker of its schema type   *)
(* under its compatibility level (internal/compatibility/checker.go), and  *)
(* what that says about the data written with them.  A family holds the    *)
(* schemas of one type that a subject may get; a version is a place in it, *)
(* so that the verdicts are computed once.                                 *)
(***************************************************************************)
EXTENDS Integers, Sequences, SequencesExt, Compatibility

CONSTANTS Families,     \* [name -> [type, schemas]]
          Levels, MaxVersions,
          JSONValues,   \* what JSON schemas are tried on
          Depth         \* how deep Protobuf messages are nested

Avro == INSTANCE AvroCompat
Protobuf == INSTANCE ProtobufCompat
JSON == INSTANCE JSONSchemaCompat

ASSUME TypesAssumption ==
  \A f \in DOMAIN Families : Families[f].type \in {"AVRO", "PROTOBUF", "JSON"}
ASSUME BoundsAssumption == Levels \subseteq AllLevels /\ MaxVersions \in Nat /\ Depth \in Nat

\* Of the checkers registered, the one of the type.
Verdict(type, new, old) ==
  CASE type = "AVRO" -> Avro!CheckSchemas(new, old)
    [] type = "PROTOBUF" -> Protobuf!CheckProtobuf(new, old)
    [] type = "JSON" -> JSON!CheckJSON(new, old)

Library ==
  UNION {{[type |-> Families[f].type, family |-> f, place |-> i, text |-> Families[f].schemas[i]] :
            i \in DOMAIN Families[f].schemas} : f \in DOMAIN Families}
Pairs == {p \in {<<new, old>> : new \in Library, old \in Library} : p[1].family = p[2].family}

\* A version is known by its type, its family and its place there.
Name(s) == [type |-> s.type, family |-> s.family, place |-> s.place]
Names(P) == {<<Name(p[1]), Name(p[2])>> : p \in P}
Schemas == {Name(s) : s \in Library}
Readable == Names({p \in Pairs : Verdict(p[1].type, p[1].text, p[2].text)})

\* Data written with the second really is read with the first.
ReadsAll(type, new, old) ==
  CASE type = "AVRO" -> Avro!AvroReadsAll(new, old)
    [] type = "PROTOBUF" -> Protobuf!ProtobufReadsAll(new, old, Depth)
    [] type = "JSON" -> JSON!JSONReadsAll(new, old, JSONValues)
Read == Names({p \in Pairs : ReadsAll(p[1].type, p[1].text, p[2].text)})

\* The changes a checker does not look at, or sees where there are none.
Overlooks(type, new, old) ==
  CASE type = "AVRO" -> Avro!RefsDecide(new, old)
    [] type = "PROTOBUF" -> Protobuf!Uncompared(new, old)
    [] type = "JSON" -> JSON!JSONUnnoticed(new, old)
Overlooked == Names({p \in Pairs : Overlooks(p[1].type, p[1].text, p[2].text)})

\* Read, and nothing overlooked.
ReadInSight == Read \ Overlooked

\* All of several types at once, which nothing is.
Contradictory == {Name(s) : s \in {x \in Library : x.type = "JSON" /\ JSON!AllOfSeveralTypes(x.text)}}

VARIABLES family, level, versions
vars == <<family, level, versions>>

Init == family \in {s.family : s \in Schemas} /\ level \in Levels /\ versions = <<>>

Allowed(s) == Check(Readable, level, s, versions)

Register(s) ==
  /\ s.family = family
  /\ Len(versions) < MaxVersions
  /\ Allowed(s)
  /\ versions' = Append(versions, s)
  /\ UNCHANGED <<family, level>>

Next == \E s \in Schemas : Register(s)
Spec == Init /\ [][Next]_vars

-----------------------------------------------------------------------------
\* The pairs of versions <<reader, writer>> for which the level makes a promise.
Promised ==
  LET earlier == {<<j, i>> \in (DOMAIN versions) \X (DOMAIN versions) : i < j /\ (IsTransitive(level) \/ i = j - 1)} IN
  (IF level \in {"BACKWARD", "BACKWARD_TRANSITIVE", "FULL", "FULL_TRANSITIVE"} THEN earlier ELSE {})
  \cup (IF level \in {"FORWARD", "FORWARD_TRANSITIVE", "FULL", "FULL_TRANSITIVE"}
        THEN {<<p[2], p[1]>> : p \in earlier} ELSE {})
Kept(p) == <<versions[p[1]], versions[p[2]]>> \in Read
Seen(p) == <<versions[p[1]], versions[p[2]]>> \notin Overlooked
IsOfType(type) == versions # <<>> /\ Last(versions).type = type
PromiseHolds(type) == IsOfType(type) => \A p \in Promised : Seen(p) => Kept(p)

\* What is written with an Avro version that the level covers can be resolved with
\* the other one, datum by datum: checkSchemas and what it calls leave no datum out,
\* but where the verdict hangs on refs, which it does not follow.
AvroPromiseKept == PromiseHolds("AVRO")

\* Bytes of an old Protobuf message are taken by the new one: none of its values
\* is lost, and none that the new kind of the field has is misread, but for the
\* changes checkMessageCompatibility does not look into.
ProtobufPromiseKept == PromiseHolds("PROTOBUF")


\* The Avro checker refuses a schema only if some datum could not be read, but
\* where the verdict hangs on refs.
AvroRefusesRightly ==
  IsOfType("AVRO") =>
    \A s \in {x \in Schemas : x.family = family} :
      (\A v \in DOMAIN versions :
         {<<s, versions[v]>>, <<versions[v], s>>} \subseteq ReadInSight) => Allowed(s)

\* The latest version can be registered again, and so be restored, under a level
\* of both directions, but for a JSON schema that is all of several types at once.
SelfCompatible ==
  versions # <<>> =>
    LET s == Last(versions) IN
    \/ s \in Contradictory
    \/ Check(Readable, "FULL", s, <<s>>)

\* No schema is refused for nothing: by the Avro checker only if some datum could
\* not be read, and by none of the three if it is the latest version again.
RefusesRightly == AvroRefusesRightly /\ SelfCompatible
=============================================================================
