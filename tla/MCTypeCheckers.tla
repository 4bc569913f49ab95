--------------------------- MODULE MCTypeCheckers ---------------------------
(***************************************************************************)
(* Families of schemas for TLC: each holds the variants of one change.     *)
(***************************************************************************)
EXTENDS TypeCheckers, TLC, FiniteSetsExt

Listed(type, S) == [type |-> type, schemas |-> FoldSet(LAMBDA s, list : Append(list, s), <<>>, S)]

\* Avro.
P(t) == [type |-> t]
AvroField(n, as, s, d) == [name |-> n, aliases |-> as, schema |-> s, default |-> d]
AvroRecord(n, as, fs) == [type |-> "record", name |-> n, aliases |-> as, fields |-> fs]
AvroEnum(n, ss, d) == [type |-> "enum", name |-> n, symbols |-> ss, default |-> d]
AvroFixed(n, k) == [type |-> "fixed", name |-> n, size |-> k]
AvroArray(s) == [type |-> "array", items |-> s]
AvroMap(s) == [type |-> "map", values |-> s]
AvroUnion(ts) == [type |-> "union", types |-> ts]
NullOr(s) == AvroUnion(<<P("null"), s>>)
E2 == AvroEnum("E", {"A", "B"}, FALSE)
E1 == AvroEnum("E", {"A"}, FALSE)
AvroScalars ==
  {P(t) : t \in {"null", "int", "long", "double", "string", "bytes"}}
  \cup {AvroEnum("E", ss, d) : ss \in {{"A"}, {"A", "B"}}, d \in BOOLEAN} \cup {AvroEnum("F", {"A"}, FALSE)}
  \cup {AvroFixed("X", 1), AvroFixed("X", 2), AvroFixed("Y", 1)}
  \cup {NullOr(P("int")), NullOr(P("long")), AvroUnion(<<P("int"), P("string")>>), AvroUnion(<<P("string"), P("double")>>),
        AvroUnion(<<E2, P("null")>>), AvroUnion(<<E1, P("null")>>)}
AvroRecords ==
  {AvroRecord("R", <<>>, <<AvroField("a", as, s, d)>>) : as \in {<<>>, <<"b">>}, s \in {P("int"), P("long"), NullOr(P("int"))}, d \in BOOLEAN}
  \cup {AvroRecord("R", <<>>, <<AvroField("a", <<>>, P("int"), FALSE), AvroField("b", <<>>, s, d)>>) : s \in {P("int"), P("string")}, d \in BOOLEAN}
  \cup {AvroRecord("R", <<>>, <<>>), AvroRecord("R", <<>>, <<AvroField("b", <<>>, P("int"), FALSE)>>)}
  \cup {AvroRecord("S", as, <<AvroField("a", <<>>, P("int"), FALSE)>>) : as \in {<<>>, <<"R">>}}
AvroNested ==
  {AvroArray(s) : s \in {P("int"), P("long"), P("string"), NullOr(P("int")), E1, E2}}
  \cup {AvroMap(s) : s \in {P("int"), P("long"), NullOr(P("int")), E1, E2}}
  \cup {AvroRecord("O", <<>>, <<AvroField("x", <<>>, s, FALSE)>>) :
          s \in {NullOr(AvroRecord("R", <<>>, fs)) : fs \in {<<>>, <<AvroField("a", <<>>, P("int"), FALSE)>>}}
                \cup {AvroArray(P("int")), AvroArray(NullOr(P("int"))), AvroArray(P("double"))}}
\* A named type spelled out, used again, and taken from another schema.
AvroRefs ==
  LET RefTo(t) == [type |-> "ref", name |-> t.name, schema |-> t]
      R(s) == AvroRecord("R", <<>>, <<AvroField("a", <<>>, s, FALSE)>>)
      types == {R(P("int")), R(P("long")), R(P("string")), E1, E2}
      Outer(fs) == AvroRecord("O", <<>>, fs) IN
  UNION {{Outer(<<AvroField("y", <<>>, t, FALSE)>>), Outer(<<AvroField("y", <<>>, RefTo(t), FALSE)>>),
          Outer(<<AvroField("y", <<>>, NullOr(RefTo(t)), FALSE)>>),
          Outer(<<AvroField("x", <<>>, t, TRUE), AvroField("y", <<>>, RefTo(t), FALSE)>>)} : t \in types}

\* Protobuf.
F(k, c, o, t) == [kind |-> k, card |-> c, oneof |-> o, type |-> t]
Int32 == F("int32", "optional", "", "")
File == "schema.proto"
Message(fs) == [path |-> File, entry |-> FALSE, fields |-> fs]
ProtoSchema(p, ms) == [package |-> p, path |-> File, messages |-> ms]
ProtoKinds ==
  {ProtoSchema("p", "M" :> Message(1 :> f)) :
     f \in {F(k, c, "", "") : k \in {"int32", "bool", "sint32", "fixed32", "string", "bytes", "float"}, c \in {"optional", "repeated", "required"}}
           \cup {F(k, "optional", "", "") : k \in {"int64", "uint32", "uint64", "sint64", "sfixed32", "double"}}
           \cup {F("enum", "optional", "", t) : t \in {"E1", "E2"}}}
  \cup {ProtoSchema("q", "M" :> Message(1 :> Int32)), ProtoSchema("p", "N" :> Message(1 :> Int32))}
ProtoOneofs ==
  {ProtoSchema("p", "M" :> Message(g)) :
     g \in UNION {[n -> {F("int32", "optional", o, "") : o \in {"", "o", "p"}}] : n \in {{}, {1}, {1, 2}}}
           \cup [{1, 2, 3} -> {F("int32", "optional", o, "") : o \in {"", "o"}}]}
ProtoNested ==
  LET inner == {1 :> Int32, 1 :> F("string", "optional", "", ""), 1 :> F("int64", "optional", "", ""), 1 :> F("int32", "repeated", "", ""),
                1 :> Int32 @@ 2 :> F("int32", "required", "", "")} IN
  {ProtoSchema("p", "M" :> Message(1 :> F("message", c, "", t)) @@ "T" :> Message(a) @@ "U" :> Message(b)) :
     c \in {"optional", "repeated"}, t \in {"T", "U"}, a \in {1 :> Int32, 1 :> F("message", "optional", "", "M")}, b \in inner}
ProtoImported ==
  {ProtoSchema("p", "M" :> Message(1 :> F("message", "repeated", "", "I")) @@ "I" :> [path |-> f, entry |-> e, fields |-> g]) :
     f \in {File, "other.proto"}, e \in BOOLEAN, g \in {1 :> Int32, 1 :> F("string", "optional", "", "")}}

\* JSON Schema.
Plain(S) == {[schema |-> s, defs |-> JSON!Nothing] : s \in S}
Nil == JSON!Nothing
Ty(t) == "type" :> {t}
Num(k) == [t |-> "number", v |-> k]
Str(k) == [t |-> "string", v |-> k]
Integer == Ty("integer")
Number == Ty("number")
String == Ty("string")
B(b) == [bool |-> b]
Some == {Num(1), Num(2), Str(1)}
Values ==
  {Num(k) : k \in 0..4} \cup {Str(k) : k \in 0..2} \cup {[t |-> "null", v |-> 0]}
  \cup {[t |-> "array", elems |-> e] : e \in UNION {[1..n -> Some] : n \in 0..2}}
  \cup {[t |-> "object", props |-> p] : p \in UNION {[d -> Some] : d \in SUBSET {"a", "b"}}}
JSONScalars ==
  {Integer, Number, String, "type" :> {"integer", "string"}, "type" :> {"number", "string"}, Nil}
  \cup {Integer @@ "minimum" :> k : k \in 0..1} \cup {Number @@ "maximum" :> k : k \in 0..1} \cup {Integer @@ "multipleOf" :> k : k \in 1..2}
  \cup {Number @@ "exclusiveMinimum" :> 1, Number @@ "exclusiveMaximum" :> 1}
  \cup {String @@ "minLength" :> k : k \in 0..1} \cup {String @@ "maxLength" :> 1, String @@ "pattern" :> {1}, String @@ "pattern" :> {0, 1}}
  \cup {"enum" :> {Num(2)}, "enum" :> {Num(2), Str(1)}, "const" :> Num(2), "const" :> Str(1)}
  \cup {"not" :> String, "not" :> Integer, "not" :> Number, Number @@ "not" :> Integer}
Additional == {Nil, "additionalProperties" :> B(FALSE), "additionalProperties" :> Integer, "additionalProperties" :> String}
Object(p, r, ap) ==
  Ty("object") @@ (IF p = Nil THEN Nil ELSE "properties" :> p) @@ (IF r = {} THEN Nil ELSE "required" :> r) @@ ap
JSONObjects ==
  {Object(Nil, {}, ap) : ap \in Additional}
  \cup {Object("a" :> s, r, ap) : s \in {Integer, Number}, r \in SUBSET {"a"}, ap \in Additional}
  \cup {Object("a" :> Integer @@ "b" :> String, {"a"}, ap) : ap \in Additional}
  \cup {Object("a" :> B(b), {}, ap) : b \in BOOLEAN, ap \in {Nil, "additionalProperties" :> B(FALSE)}}
JSONObjectRules ==
  {Ty("object") @@ s : s \in
     {Nil, "minProperties" :> 1, "maxProperties" :> 1, "required" :> {"b"},
      "patternProperties" :> ({"a"} :> Integer),
      "dependencies" :> ("a" :> [names |-> {"b"}]), "dependencies" :> ("a" :> ("required" :> {"b"})),
      "dependentRequired" :> ("a" :> [names |-> {"b"}]), "dependentSchemas" :> ("a" :> ("required" :> {"b"}))}}
JSONArrays ==
  {Ty("array") @@ s : s \in
     {Nil, "items" :> Integer, "items" :> Number, "items" :> B(TRUE), "items" :> B(FALSE),
      "minItems" :> 1, "maxItems" :> 1, "uniqueItems" :> B(TRUE), "uniqueItems" :> B(FALSE), "tuple" :> <<Integer, Integer>>}}
  \cup {Ty("array") @@ ("tuple" :> <<t>>) @@ r : t \in {Integer, Number}, r \in {Nil, "additionalItems" :> B(FALSE), "additionalItems" :> Integer}}
  \cup {Ty("array") @@ ("prefixItems" :> <<t>>) @@ r : t \in {Integer, Number}, r \in {Nil, "items" :> B(FALSE), "items" :> Integer}}
JSONComposed ==
  LET options == {Integer, Number, String} IN
  UNION {{k :> <<a>>, k :> <<a, b>>} : k \in {"oneOf", "anyOf", "allOf"}, a \in options, b \in options} \cup {Integer, String}
\* Branches that are more than a type, and keywords beside them.
JSONBranches ==
  LET above == Integer @@ "minimum" :> 1
      two == "enum" :> {Num(2)}
      options == {Integer, above, two, "enum" :> {Num(2), Str(1)}} IN
  UNION {{k :> <<a>> : a \in options} \cup {k :> <<a, b>> : a \in {Integer, two}, b \in options \cup {String}} : k \in {"anyOf", "allOf"}}
  \cup {Integer, above, Nil, "type" :> {"integer", "string"}}
  \cup {"anyOf" :> <<Integer, String>> @@ s : s \in {"minimum" :> 1, "not" :> String, "allOf" :> <<Integer>>, "type" :> {"integer", "string"}}}
  \cup {"anyOf" :> <<Integer, B(b)>> : b \in BOOLEAN} \cup {"oneOf" :> <<o, String>> : o \in {Integer, above}}
  \cup {"not" :> n : n \in {Integer, above, Number, Number @@ "minimum" :> 1, Number @@ "minimum" :> 0, two, B(TRUE), B(FALSE)}}
JSONReferences ==
  {[schema |-> Object("a" :> [ref |-> "X"], {}, Nil), defs |-> "X" :> s] : s \in {Integer, Number, String}}
  \cup {[schema |-> Object("a" :> s, {}, Nil), defs |-> Nil] : s \in {Integer, Number, String}}

MCFamilies ==
  [scalars |-> Listed("AVRO", AvroScalars), records |-> Listed("AVRO", AvroRecords), nested |-> Listed("AVRO", AvroNested),
   refs |-> Listed("AVRO", AvroRefs),
   kinds |-> Listed("PROTOBUF", ProtoKinds), oneofs |-> Listed("PROTOBUF", ProtoOneofs),
   messages |-> Listed("PROTOBUF", ProtoNested), imported |-> Listed("PROTOBUF", ProtoImported),
   plain |-> Listed("JSON", Plain(JSONScalars)), objects |-> Listed("JSON", Plain(JSONObjects)),
   rules |-> Listed("JSON", Plain(JSONObjectRules)), arrays |-> Listed("JSON", Plain(JSONArrays)),
   composed |-> Listed("JSON", Plain(JSONComposed)), branches |-> Listed("JSON", Plain(JSONBranches)),
   references |-> Listed("JSON", JSONReferences)]
=============================================================================
