--------------------------- MODULE Compatibility ---------------------------
(***************************************************************************)
(* Compatibility modes and the mode-driven checker                         *)
(* (internal/compatibility/modes.go and checker.go).  Whether one schema   *)
(* can read data written with another is decided by the Avro, Protobuf and *)
(* JSON Schema checkers; here that verdict is the relation Readable.       *)
(***************************************************************************)
EXTENDS Naturals

AllLevels == {"NONE", "BACKWARD", "BACKWARD_TRANSITIVE", "FORWARD",
              "FORWARD_TRANSITIVE", "FULL", "FULL_TRANSITIVE"}

IsTransitive(level) ==
  level \in {"BACKWARD_TRANSITIVE", "FORWARD_TRANSITIVE", "FULL_TRANSITIVE"}

RequiresBackward(level) ==
  level \in {"BACKWARD", "BACKWARD_TRANSITIVE", "FULL", "FULL_TRANSITIVE"}

\* Mutant: the FULL levels only check one direction.
RequiresForwardOnly(level) == level \in {"FORWARD", "FORWARD_TRANSITIVE"}

RequiresForward(level) ==
  level \in {"FORWARD", "FORWARD_TRANSITIVE", "FULL", "FULL_TRANSITIVE"}

\* readable is a set of pairs <<reader, writer>>.
PairCompatible(readable, level, new, old) ==
  /\ RequiresBackward(level) => <<new, old>> \in readable
  /\ RequiresForward(level) => <<old, new>> \in readable

\* existing maps version numbers to contents; GetSchemasBySubject sorts them
\* by version, so the last one of the list is the highest version.
SchemasToCheck(level, existing) ==
  IF IsTransitive(level)
    THEN DOMAIN existing
    ELSE {v \in DOMAIN existing : \A w \in DOMAIN existing : w <= v}

Check(readable, level, new, existing) ==
  \/ level = "NONE"
  \/ \A v \in SchemasToCheck(level, existing) :
        PairCompatible(readable, level, new, existing[v])
=============================================================================
