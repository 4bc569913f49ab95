----------------------------- MODULE AvroCompat -----------------------------
(***************************************************************************)
(* The Avro checker (internal/compatibility/avro/checker.go), and what it  *)
(* is to decide: whether data written with one schema can be read with     *)
(* another.  A schema is a record with a type and the parts of that type:  *)
(*   record: name, aliases, fields (name, aliases, schema, default or not) *)
(*   enum: name, symbols, default or not;  fixed: name, size               *)
(*   array: items;  map: values;  union: types;  ref: the named type       *)
(* A ref is the second and later use of a named type, and every use of one *)
(* that comes from a referenced schema (hamba/avro).                       *)
(***************************************************************************)
EXTENDS Integers, Sequences, SequencesExt

CanPromote(w, r) ==
  \/ w = "int" /\ r \in {"long", "float", "double"}
  \/ w = "long" /\ r \in {"float", "double"}
  \/ w = "float" /\ r = "double"
  \/ {r, w} = {"string", "bytes"}

NamesOf(x) == {x.name} \cup ToSet(x.aliases)

\* Mutant: the aliases of the writer do not count.
RecordNamesMatchReader(r, w) == w.name \in NamesOf(r)

RecordNamesMatch(r, w) == r.name \in NamesOf(w) \/ w.name \in NamesOf(r)

\* The field of the writer for a name: its own or an alias, the last one that has it.
WriterField(w, name) ==
  LET having == {i \in DOMAIN w.fields : name \in NamesOf(w.fields[i])} IN
  IF having = {} THEN 0 ELSE Max(having)

\* By the reader's name, else by one of its aliases; 0 if there is none.
FindWriterField(f, w) ==
  LET names == <<f.name>> \o f.aliases
      known == {k \in DOMAIN names : WriterField(w, names[k]) # 0} IN
  IF known = {} THEN 0 ELSE WriterField(w, names[Min(known)])

RECURSIVE CheckSchemas(_, _)

CheckRecord(r, w) ==
  /\ RecordNamesMatch(r, w)
  /\ \A f \in ToSet(r.fields) :
       LET i == FindWriterField(f, w) IN
       IF i = 0 THEN f.default ELSE CheckSchemas(f.schema, w.fields[i].schema)

CheckEnum(r, w) == r.name = w.name /\ (w.symbols \subseteq r.symbols \/ r.default)

CheckFixed(r, w) == r.name = w.name /\ r.size = w.size

\* Mutant: one type of the writer that can be read is enough.
CheckUnionAny(r, w) == \E wt \in ToSet(w.types), rt \in ToSet(r.types) : CheckSchemas(rt, wt)

CheckUnion(r, w) == \A wt \in ToSet(w.types) : \E rt \in ToSet(r.types) : CheckSchemas(rt, wt)

CheckReaderUnion(r, w) == \E rt \in ToSet(r.types) : CheckSchemas(rt, w)
CheckWriterUnion(r, w) == \A wt \in ToSet(w.types) : CheckSchemas(r, wt)

CheckSameType(r, w) ==
  CASE r.type = "record" -> CheckRecord(r, w)
    [] r.type = "enum" -> CheckEnum(r, w)
    [] r.type = "array" -> CheckSchemas(r.items, w.items)
    [] r.type = "map" -> CheckSchemas(r.values, w.values)
    [] r.type = "union" -> CheckUnion(r, w)
    [] r.type = "fixed" -> CheckFixed(r, w)
    [] OTHER -> TRUE

CheckSchemas(r, w) ==
  IF CanPromote(w.type, r.type) THEN TRUE
  ELSE IF r.type = w.type THEN CheckSameType(r, w)
  ELSE IF r.type = "union" THEN CheckReaderUnion(r, w)
  ELSE w.type = "union" /\ CheckWriterUnion(r, w)

\* The schema with every ref replaced by the type it names.
RECURSIVE SpelledOut(_)
SpelledOut(s) ==
  CASE s.type = "ref" -> SpelledOut(s.schema)
    [] s.type = "record" ->
         [s EXCEPT !.fields = [i \in DOMAIN s.fields |-> [s.fields[i] EXCEPT !.schema = SpelledOut(@)]]]
    [] s.type = "array" -> [s EXCEPT !.items = SpelledOut(@)]
    [] s.type = "map" -> [s EXCEPT !.values = SpelledOut(@)]
    [] s.type = "union" -> [s EXCEPT !.types = [i \in DOMAIN s.types |-> SpelledOut(s.types[i])]]
    [] OTHER -> s

\* The verdict hangs on the refs: two of them are not compared at all, and a ref
\* is a type of its own beside the same type spelled out.
RefsDecide(r, w) == CheckSchemas(r, w) # CheckSchemas(SpelledOut(r), SpelledOut(w))

-----------------------------------------------------------------------------
(* The reference: what is written, and how the Avro specification reads it. *)

RECURSIVE Data(_), RecordData(_)
RecordData(fields) ==
  IF fields = <<>> THEN {<<>>}
  ELSE {<<d>> \o rest : d \in Data(Head(fields).schema), rest \in RecordData(Tail(fields))}

\* The data of a schema, as far as reading tells them apart: an array is empty or
\* has one element, a datum of a union carries its branch.
Data(s) ==
  CASE s.type = "record" -> RecordData(s.fields)
    [] s.type = "enum" -> {<<symbol>> : symbol \in s.symbols}
    [] s.type = "array" -> {<<>>} \cup {<<d>> : d \in Data(s.items)}
    [] s.type = "map" -> {<<>>} \cup {<<d>> : d \in Data(s.values)}
    [] s.type = "union" -> UNION {{<<i, d>> : d \in Data(s.types[i])} : i \in DOMAIN s.types}
    [] OTHER -> {<<>>}

Widened == {<<"int", "long">>, <<"int", "float">>, <<"int", "double">>, <<"long", "float">>, <<"long", "double">>,
            <<"float", "double">>, <<"string", "bytes">>, <<"bytes", "string">>}
\* A record is known to the other schema by its name or under an alias.
Known(r, w) == r.name = w.name \/ r.name \in ToSet(w.aliases) \/ w.name \in ToSet(r.aliases)
Primitive(s) == s.type \notin {"record", "enum", "array", "map", "union", "fixed"}
Named(s) == s.type \in {"record", "enum", "fixed"}

\* Whether a branch of a reader's union is the one for data of schema w.
RECURSIVE Matches(_, _)
Matches(r, w) ==
  CASE Primitive(r) -> r.type = w.type \/ <<w.type, r.type>> \in Widened
    [] r.type = "array" /\ w.type = "array" -> Matches(r.items, w.items) \/ "union" \in {r.items.type, w.items.type}
    [] r.type = "map" /\ w.type = "map" -> Matches(r.values, w.values) \/ "union" \in {r.values.type, w.values.type}
    [] r.type = "record" /\ w.type = "record" -> Known(r, w)
    [] OTHER -> r.type = w.type /\ Named(r) /\ r.name = w.name

RECURSIVE Reads(_, _, _)
ReadsField(f, w, d) ==
  LET named == {i \in DOMAIN w.fields : f.name \in NamesOf(w.fields[i])}
      aliased == {i \in DOMAIN w.fields : NamesOf(f) \cap NamesOf(w.fields[i]) # {}}
      found == IF named # {} THEN named ELSE aliased IN
  IF found = {} THEN f.default ELSE \A i \in found : Reads(f.schema, w.fields[i].schema, d[i])

\* Datum d, written with w, is read with r: the branch of the writer's union is
\* known, the first branch of the reader's union that matches is taken.
Reads(r, w, d) ==
  CASE w.type = "union" -> Reads(r, w.types[d[1]], d[2])
    [] w.type # "union" /\ r.type = "union" ->
         LET fit == {i \in DOMAIN r.types : Matches(r.types[i], w)} IN
         fit # {} /\ Reads(r.types[Min(fit)], w, d)
    [] r.type = "record" /\ w.type = "record" ->
         Known(r, w) /\ \A f \in ToSet(r.fields) : ReadsField(f, w, d)
    [] r.type = "enum" /\ w.type = "enum" -> r.name = w.name /\ (d[1] \in r.symbols \/ r.default)
    [] r.type = "fixed" /\ w.type = "fixed" -> r.name = w.name /\ r.size = w.size
    [] r.type = "array" /\ w.type = "array" -> \A e \in ToSet(d) : Reads(r.items, w.items, e)
    [] r.type = "map" /\ w.type = "map" -> \A e \in ToSet(d) : Reads(r.values, w.values, e)
    [] OTHER -> Matches(r, w)

\* A ref reads and writes like the type it names.
AvroReadsAll(r, w) == \A d \in Data(SpelledOut(w)) : Reads(SpelledOut(r), SpelledOut(w), d)
=============================================================================
