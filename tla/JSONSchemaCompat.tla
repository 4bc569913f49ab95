-------------------------- MODULE JSONSchemaCompat --------------------------
(***************************************************************************)
(* The JSON Schema checker (internal/compatibility/jsonschema/checker.go). *)
(* A schema is a function of the keywords it has.  A type is the set of    *)
(* its names (one, or the two or more of an array), a boolean schema is    *)
(* [bool |-> b], a $ref is [ref |-> name], a tuple of Draft-07 is under    *)
(* the keyword "tuple" of its own, an array of names of dependencies is    *)
(* [names |-> S], and a pattern is the set of what it matches.             *)
(***************************************************************************)
EXTENDS Integers, Sequences, SequencesExt, FiniteSets

Has(s, k) == k \in DOMAIN s
IsBool(s) == Has(s, "bool")
IsTrue(s) == IsBool(s) /\ s.bool
IsFalse(s) == IsBool(s) /\ ~s.bool
IsSchema(s) == ~IsBool(s) /\ ~Has(s, "names")
HasBool(s, k, b) == Has(s, k) /\ IsBool(s[k]) /\ s[k].bool = b
HasSchema(s, k) == Has(s, k) /\ IsSchema(s[k])

Nothing == [k \in {} |-> 0]
GetProperties(s) == IF Has(s, "properties") THEN s.properties ELSE Nothing
GetRequired(s) == IF Has(s, "required") THEN s.required ELSE {}
Elements(s, k) == IF Has(s, k) THEN SelectSeq(s[k], IsSchema) ELSE <<>>
\* The name of a type that is one; "" for an array of types and for none.
TypeString(s) == IF Has(s, "type") /\ Cardinality(s.type) = 1 THEN CHOOSE t \in s.type : TRUE ELSE ""

IsTypePromotion(old, new) == old = "integer" /\ new = "number"

AreTypesCompatible(new, old) ==
  Has(new, "type") /\ Has(old, "type") =>
    \A ot \in old.type : \E nt \in new.type : nt = ot \/ IsTypePromotion(ot, nt)

HasObjectKeywords(s) == DOMAIN s \cap {"properties", "required", "patternProperties", "additionalProperties"} # {}
HasArrayKeywords(s) ==
  DOMAIN s \cap {"prefixItems", "additionalItems", "items", "tuple", "minItems", "maxItems", "uniqueItems"} # {}

\* checkConstraintChange: a lower bound must not rise, nor an upper one sink, nor be new.
ConstraintKept(new, old, k, min) ==
  Has(new, k) => Has(old, k) /\ IF min THEN new[k] <= old[k] ELSE new[k] >= old[k]

CheckEnum(new, old) == Has(new, "enum") => Has(old, "enum") /\ old.enum \subseteq new.enum
CheckConst(new, old) == Has(new, "const") => Has(old, "const") /\ new.const = old.const
CheckPattern(new, old) == Has(new, "pattern") => Has(old, "pattern") /\ new.pattern = old.pattern
CheckMultipleOf(new, old) == Has(new, "multipleOf") => Has(old, "multipleOf") /\ old.multipleOf % new.multipleOf = 0
CheckUniqueItems(new, old) == HasBool(new, "uniqueItems", TRUE) => HasBool(old, "uniqueItems", TRUE)

Bounds(new, old) ==
  /\ \A k \in {"minLength", "minimum", "exclusiveMinimum", "minProperties"} : ConstraintKept(new, old, k, TRUE)
  /\ \A k \in {"maxLength", "maximum", "exclusiveMaximum", "maxProperties"} : ConstraintKept(new, old, k, FALSE)

CheckNot(new, old) ==
  Has(new, "not") =>
    /\ Has(old, "not")
    /\ IsSchema(new.not) /\ IsSchema(old.not) =>
         LET nt == TypeString(new.not)
             ot == TypeString(old.not) IN
         /\ nt # "" /\ ot # "" /\ nt # ot => IsTypePromotion(nt, ot)
         /\ new.not # old.not /\ nt = ot => Cardinality(DOMAIN new.not) >= Cardinality(DOMAIN old.not)

CheckItemsBoolean(new, old) ==
  HasBool(new, "items", FALSE) => ~Has(old, "tuple") /\ (Has(old, "items") => IsFalse(old.items))

RECURSIVE CheckCompatibility(_, _)

-----------------------------------------------------------------------------
(* Objects.                                                                *)

OpenContent(s) == ~Has(s, "additionalProperties") \/ IsTrue(s.additionalProperties)
APSchema(s) == HasSchema(s, "additionalProperties")
CoveringPatterns(s) == Has(s, "patternProperties") /\ DOMAIN s.patternProperties # {}

PropertyRemoved(new, old, p) ==
  LET was == GetProperties(old)[p] IN
  \/ IsFalse(was) \/ OpenContent(new) \/ CoveringPatterns(new)
  \/ APSchema(new) /\ (IsBool(was) \/ CheckCompatibility(new.additionalProperties, was))


PropertyAdded(new, old, p) ==
  LET is == GetProperties(new)[p] IN
  \/ IsTrue(is)
  \/ /\ p \notin GetRequired(new)
     /\ ~OpenContent(old)
     /\ APSchema(old) /\ IsSchema(is) => CheckCompatibility(is, old.additionalProperties)

PropertyKept(new, old, p) ==
  LET is == GetProperties(new)[p]
      was == GetProperties(old)[p] IN
  /\ p \in GetRequired(new) => p \in GetRequired(old)
  /\ IsSchema(is) /\ IsSchema(was) => CheckCompatibility(is, was)

CheckObject(new, old) ==
  LET is == DOMAIN GetProperties(new)
      was == DOMAIN GetProperties(old) IN
  /\ \A p \in was \ is : PropertyRemoved(new, old, p)
  /\ \A p \in is \ was : PropertyAdded(new, old, p)
  /\ \A p \in is \cap was : PropertyKept(new, old, p)

CheckAdditionalProperties(new, old) ==
  /\ OpenContent(old) => ~HasBool(new, "additionalProperties", FALSE)
  /\ APSchema(new) =>
       /\ ~OpenContent(old)
       /\ APSchema(old) => CheckCompatibility(new.additionalProperties, old.additionalProperties)

-----------------------------------------------------------------------------
(* Arrays.                                                                 *)

TupleItems(s) == IF Has(s, "prefixItems") THEN s.prefixItems ELSE IF Has(s, "tuple") THEN s.tuple ELSE <<>>
\* The keyword for the items after the tuple: of Draft 2020-12, or of Draft-07.
RestKey(s) == IF Has(s, "prefixItems") THEN "items" ELSE "additionalItems"

CheckTupleItems(new, old) ==
  LET nt == TupleItems(new)
      ot == TupleItems(old)
      both(a, b) == IsSchema(a) /\ IsSchema(b) => CheckCompatibility(a, b) IN
  /\ \A i \in DOMAIN nt \cap DOMAIN ot : both(nt[i], ot[i])
  /\ \A i \in DOMAIN nt \ DOMAIN ot : HasSchema(old, RestKey(old)) => both(nt[i], old[RestKey(old)])
  /\ \A i \in DOMAIN ot \ DOMAIN nt : HasSchema(new, RestKey(new)) => both(new[RestKey(new)], ot[i])

CheckArray(new, old) ==
  /\ HasSchema(new, "items") =>
       IF HasSchema(old, "items") THEN CheckCompatibility(new.items, old.items)
       ELSE Has(old, "items") \/ Has(old, "tuple")
  /\ CheckTupleItems(new, old)
  /\ ConstraintKept(new, old, "minItems", TRUE) /\ ConstraintKept(new, old, "maxItems", FALSE)

CheckAdditionalItems(new, old) ==
  /\ ~Has(old, "additionalItems") \/ HasBool(old, "additionalItems", TRUE) => ~HasBool(new, "additionalItems", FALSE)
  /\ HasSchema(new, "additionalItems") /\ HasSchema(old, "additionalItems") =>
       CheckCompatibility(new.additionalItems, old.additionalItems)

-----------------------------------------------------------------------------
(* Dependencies.                                                           *)

CheckDependencies(new, old) ==
  Has(new, "dependencies") =>
    /\ Has(old, "dependencies")
    /\ DOMAIN new.dependencies \subseteq DOMAIN old.dependencies
    /\ \A p \in DOMAIN old.dependencies :
         LET was == old.dependencies[p] IN
         IF p \notin DOMAIN new.dependencies THEN IsSchema(was)
         ELSE IF IsSchema(was) /\ IsSchema(new.dependencies[p]) THEN CheckCompatibility(new.dependencies[p], was)
         ELSE new.dependencies[p] = was

CheckDependentRequired(new, old) ==
  Has(new, "dependentRequired") => Has(old, "dependentRequired") /\ new.dependentRequired = old.dependentRequired

CheckDependentSchemas(new, old) ==
  Has(new, "dependentSchemas") =>
    /\ Has(old, "dependentSchemas")
    /\ DOMAIN new.dependentSchemas \subseteq DOMAIN old.dependentSchemas
    /\ \A p \in DOMAIN new.dependentSchemas : CheckCompatibility(new.dependentSchemas[p], old.dependentSchemas[p])

-----------------------------------------------------------------------------
(* oneOf, anyOf, allOf.                                                    *)

HasComposition(s) == DOMAIN s \cap {"oneOf", "anyOf", "allOf"} # {}
TypeStrings(elements) == {TypeString(e) : e \in ToSet(elements)}

\* The options of a sum type, of which only the types count; {} if there are none.
PlainOptions(s) ==
  IF Elements(s, "oneOf") # <<>> THEN TypeStrings(Elements(s, "oneOf"))
  ELSE IF Elements(s, "anyOf") # <<>> THEN TypeStrings(Elements(s, "anyOf"))
  ELSE IF Has(s, "type") THEN s.type ELSE {}
SumTypeOptions(s) ==
  LET all == TypeStrings(Elements(s, "allOf")) \ {""} IN
  IF Elements(s, "oneOf") = <<>> /\ Elements(s, "anyOf") = <<>> /\ Cardinality(all) = 1 THEN all
  ELSE PlainOptions(s)

CheckSumType(new, old) ==
  \A ot \in SumTypeOptions(old) : \E nt \in SumTypeOptions(new) : nt = ot \/ IsTypePromotion(ot, nt)

\* An element of allOf where there was no allOf.
AllOfAdded(e, old) ==
  LET nt == TypeString(e)
      ot == TypeString(old) IN
  \/ nt # "" /\ ot # "" /\ (nt = ot \/ IsTypePromotion(ot, nt))
  \/ nt # "" /\ \E o \in PlainOptions(old) : nt = o \/ IsTypePromotion(o, nt)
  \/ ~(nt # "" /\ ot # "") /\ e = old

\* An element of allOf among the old ones: the same, or of the same type, or an
\* enum that has grown, or with no keyword that another one has not.
AllOfKept(e, olds) ==
  LET nt == TypeString(e)
      enums == SelectSeq(olds, LAMBDA o : Has(o, "enum")) IN
  \/ e \in ToSet(olds)
  \/ nt # "" /\ \E o \in ToSet(olds) : TypeString(o) = nt \/ IsTypePromotion(TypeString(o), nt)
  \/ IF Has(e, "enum") /\ enums # <<>> THEN CheckEnum(e, Head(enums))
     ELSE DOMAIN e # {} /\ \E o \in ToSet(olds) : DOMAIN e \subseteq DOMAIN o

TypeOnly(e) == DOMAIN e = {"type"} /\ TypeString(e) # ""
CheckAllOf(new, old) ==
  LET news == Elements(new, "allOf")
      olds == Elements(old, "allOf") IN
  IF olds = <<>> THEN \A e \in ToSet(news) : AllOfAdded(e, old)
  ELSE /\ \A e \in ToSet(news) : AllOfKept(e, olds)
       /\ \A e \in ToSet(news), o \in ToSet(olds) : TypeOnly(e) /\ TypeOnly(o) =>
            TypeString(e) = TypeString(o) \/ IsTypePromotion(TypeString(o), TypeString(e))

CheckCompositionSubschemas(new, old) ==
  \A k \in {"oneOf", "anyOf"} :
    LET news == Elements(new, k)
        olds == Elements(old, k) IN
    Len(news) = Len(olds) => \A i \in DOMAIN news : CheckCompatibility(news[i], olds[i])

CheckComposition(new, old) == CheckSumType(new, old) /\ CheckAllOf(new, old) /\ CheckCompositionSubschemas(new, old)

-----------------------------------------------------------------------------
CheckKeywords(new, old) ==
  LET either(type, has(_)) == type \in {TypeString(new), TypeString(old)} \/ has(new) \/ has(old) IN
  /\ AreTypesCompatible(new, old)
  /\ either("object", HasObjectKeywords) => CheckObject(new, old)
  /\ either("array", HasArrayKeywords) => CheckArray(new, old)
  /\ CheckEnum(new, old) /\ CheckConst(new, old) /\ CheckAdditionalProperties(new, old)
  /\ CheckPattern(new, old) /\ CheckMultipleOf(new, old) /\ Bounds(new, old) /\ CheckNot(new, old)
  /\ CheckDependencies(new, old) /\ CheckDependentRequired(new, old) /\ CheckDependentSchemas(new, old)
  /\ CheckUniqueItems(new, old) /\ CheckAdditionalItems(new, old) /\ CheckItemsBoolean(new, old)

Bare(s) == ~Has(s, "type") /\ ~HasObjectKeywords(s)

\* Between schemas of branches alone, nothing else is looked at.
CheckCompatibility(new, old) ==
  LET composed == HasComposition(new) \/ HasComposition(old) IN
  /\ composed => CheckComposition(new, old)
  /\ (composed /\ Bare(new) /\ Bare(old)) \/ CheckKeywords(new, old)

-----------------------------------------------------------------------------
(* References are replaced by what they stand for, a definition or the     *)
(* schema of another subject; not within the definitions themselves.       *)

SchemaValued == {"additionalProperties", "additionalItems", "items", "not"}
MapValued == {"properties", "patternProperties", "dependencies", "dependentSchemas"}
SeqValued == {"oneOf", "anyOf", "allOf", "prefixItems", "tuple"}

RECURSIVE ResolveRefs(_, _)
ResolveRefs(s, defs) ==
  LET Sub(x) == IF Has(x, "ref") THEN IF x.ref \in DOMAIN defs THEN defs[x.ref] ELSE x
                ELSE IF IsSchema(x) THEN ResolveRefs(x, defs) ELSE x IN
  [k \in DOMAIN s |-> IF k \in SchemaValued THEN Sub(s[k])
                      ELSE IF k \in MapValued \cup SeqValued THEN [i \in DOMAIN s[k] |-> Sub(s[k][i])]
                      ELSE s[k]]

\* new and old: schemas with their definitions.
CheckJSON(new, old) == CheckCompatibility(ResolveRefs(new.schema, new.defs), ResolveRefs(old.schema, old.defs))

-----------------------------------------------------------------------------
(* The reference: which values a schema accepts.  Numbers are doubled, so  *)
(* that the odd ones are no integers; a string is its length.              *)

IsOfType(x, t) == IF t = "integer" THEN x.t = "number" /\ x.v % 2 = 0 ELSE x.t = t

ValidNumber(s, x) ==
  /\ Has(s, "minimum") => x.v >= 2 * s.minimum
  /\ Has(s, "maximum") => x.v <= 2 * s.maximum
  /\ Has(s, "exclusiveMinimum") => x.v > 2 * s.exclusiveMinimum
  /\ Has(s, "exclusiveMaximum") => x.v < 2 * s.exclusiveMaximum
  /\ Has(s, "multipleOf") => x.v % (2 * s.multipleOf) = 0
ValidString(s, x) ==
  /\ Has(s, "minLength") => x.v >= s.minLength
  /\ Has(s, "maxLength") => x.v <= s.maxLength
  /\ Has(s, "pattern") => x.v \in s.pattern

RECURSIVE Valid(_, _, _)
ValidObject(s, x, defs) ==
  LET present == DOMAIN x.props
      patterns == IF Has(s, "patternProperties") THEN s.patternProperties ELSE Nothing
      other == {p \in present : p \notin DOMAIN GetProperties(s) /\ \A pat \in DOMAIN patterns : p \notin pat}
      Follow(deps) == \A p \in present \cap DOMAIN deps :
        IF Has(deps[p], "names") THEN deps[p].names \subseteq present ELSE Valid(deps[p], x, defs) IN
  /\ GetRequired(s) \subseteq present
  /\ \A p \in present \cap DOMAIN GetProperties(s) : Valid(s.properties[p], x.props[p], defs)
  /\ \A pat \in DOMAIN patterns : \A p \in present \cap pat : Valid(patterns[pat], x.props[p], defs)
  /\ Has(s, "additionalProperties") => \A p \in other : Valid(s.additionalProperties, x.props[p], defs)
  /\ Has(s, "minProperties") => Cardinality(present) >= s.minProperties
  /\ Has(s, "maxProperties") => Cardinality(present) <= s.maxProperties
  /\ \A k \in {"dependencies", "dependentRequired", "dependentSchemas"} : Has(s, k) => Follow(s[k])
ValidArray(s, x, defs) ==
  LET tuple == TupleItems(s)
      rest == IF Has(s, "tuple") THEN "additionalItems" ELSE "items" IN
  /\ \A i \in DOMAIN x.elems :
       IF i \in DOMAIN tuple THEN Valid(tuple[i], x.elems[i], defs)
       ELSE Has(s, rest) => Valid(s[rest], x.elems[i], defs)
  /\ Has(s, "minItems") => Len(x.elems) >= s.minItems
  /\ Has(s, "maxItems") => Len(x.elems) <= s.maxItems
  /\ HasBool(s, "uniqueItems", TRUE) => IsInjective(x.elems)

\* Schema s accepts value x.
Valid(s, x, defs) ==
  LET accepting(k) == {i \in DOMAIN s[k] : Valid(s[k][i], x, defs)} IN
  IF IsBool(s) THEN s.bool
  ELSE IF Has(s, "ref") THEN Valid(defs[s.ref], x, defs)
  ELSE /\ Has(s, "type") => \E t \in s.type : IsOfType(x, t)
       /\ Has(s, "enum") => x \in s.enum
       /\ Has(s, "const") => x = s.const
       /\ x.t = "number" => ValidNumber(s, x)
       /\ x.t = "string" => ValidString(s, x)
       /\ x.t = "object" => ValidObject(s, x, defs)
       /\ x.t = "array" => ValidArray(s, x, defs)
       /\ Has(s, "not") => ~Valid(s.not, x, defs)
       /\ Has(s, "oneOf") => Cardinality(accepting("oneOf")) = 1
       /\ Has(s, "anyOf") => accepting("anyOf") # {}
       /\ Has(s, "allOf") => accepting("allOf") = DOMAIN s.allOf

\* What the checker does not notice, in a schema and in what it compares in it.
RECURSIVE Unnoticed(_, _)

\* A name that is required but no property; patterns of properties; closing what
\* was open under a schema.
UnnoticedInObject(new, old) ==
  LET is == GetProperties(new)
      was == GetProperties(old) IN
  \/ ~(GetRequired(new) \subseteq GetRequired(old) \cup DOMAIN is)
  \/ Has(new, "patternProperties") \/ Has(old, "patternProperties")
  \/ APSchema(old) /\ HasBool(new, "additionalProperties", FALSE)
  \/ APSchema(new) /\ \E p \in DOMAIN was \ DOMAIN is : Unnoticed(new.additionalProperties, was[p])
  \/ APSchema(old) /\ \E p \in DOMAIN is \ DOMAIN was : Unnoticed(is[p], old.additionalProperties)
  \/ \E p \in DOMAIN is \cap DOMAIN was : Unnoticed(is[p], was[p])
  \/ APSchema(new) /\ APSchema(old) /\ Unnoticed(new.additionalProperties, old.additionalProperties)
  \/ \E k \in {"dependencies", "dependentSchemas"} : Has(new, k) /\ Has(old, k) /\
       \E p \in DOMAIN new[k] \cap DOMAIN old[k] :
         IsSchema(new[k][p]) /\ IsSchema(old[k][p]) /\ Unnoticed(new[k][p], old[k][p])

\* The items that follow a tuple, where they were others.
UnnoticedInArray(new, old) ==
  LET nt == TupleItems(new)
      ot == TupleItems(old)
      nrest == RestKey(new)
      orest == RestKey(old) IN
  \/ Len(nt) > Len(ot) \/ Has(new, "prefixItems") # Has(old, "prefixItems")
  \/ nt # <<>> /\ Has(new, nrest) /\
       \/ ~(Has(old, orest) /\ IsBool(new[nrest]) = IsBool(old[orest]))
       \/ Unnoticed(new[nrest], old[orest]) /\ new[nrest] # old[orest]
       \/ \E i \in DOMAIN ot \ DOMAIN nt : Unnoticed(new[nrest], ot[i])
  \/ HasBool(new, "items", FALSE) /\ ~Has(old, "items")
  \/ HasSchema(new, "items") /\ (HasBool(old, "items", TRUE) \/ Has(old, "tuple"))
  \/ HasSchema(new, "items") /\ HasSchema(old, "items") /\ Unnoticed(new.items, old.items)
  \/ \E i \in DOMAIN nt \cap DOMAIN ot : Unnoticed(nt[i], ot[i])

\* Whatever is in a branch beside its type, when branches are matched by their
\* types: those of anyOf unless there are as many as before, those of allOf always
\* (but for a bare enum).  That oneOf takes one branch only.  A keyword beside the
\* branches of a schema without a type, and a branch that is a boolean.
UnnoticedInBranches(new, old) ==
  LET covers(e, t) == TypeOnly(e) /\ (t = TypeString(e) \/ IsTypePromotion(t, TypeString(e)))
      kept(e) == e \in ToSet(old.allOf) \/ DOMAIN e = {"enum"} \/ \E o \in ToSet(old.allOf) : covers(e, TypeString(o))
      added(e) == e = old \/ \A t \in PlainOptions(old) : covers(e, t) IN
  \/ \E k \in {"oneOf", "anyOf", "allOf"}, s \in {new, old} : Has(s, k) /\ Elements(s, k) # s[k]
  \/ Has(new, "oneOf") /\ ~(Has(old, "oneOf") /\ new.oneOf = old.oneOf)
  \/ Has(new, "anyOf") /\
       IF Has(old, "anyOf") /\ Len(new.anyOf) = Len(old.anyOf)
       THEN \E i \in DOMAIN new.anyOf : Unnoticed(new.anyOf[i], old.anyOf[i])
       ELSE Has(new, "oneOf") \/ SumTypeOptions(old) = {} \/ \E e \in ToSet(new.anyOf) : ~TypeOnly(e)
  \/ Has(new, "allOf") /\
       \E e \in ToSet(new.allOf) : IF Has(old, "allOf") THEN ~kept(e) ELSE ~added(e)
  \/ (HasComposition(new) \/ HasComposition(old))
     /\ Bare(new) /\ Bare(old)
     /\ \E k \in DOMAIN new \ {"oneOf", "anyOf", "allOf"} : ~(Has(old, k) /\ old[k] = new[k])

\* Also a type where there was none, what a boolean schema is changed from or into,
\* and a not whose schemas are more than types.
Unnoticed(new, old) ==
  IF IsBool(new) \/ IsBool(old) THEN ~IsTrue(new) /\ ~IsFalse(old)
  ELSE \/ Has(new, "type") /\ ~Has(old, "type")
       \/ UnnoticedInObject(new, old)
       \/ UnnoticedInArray(new, old)
       \/ UnnoticedInBranches(new, old)
       \/ Has(new, "not") /\ Has(old, "not") /\ new.not # old.not
            /\ ~(TypeOnly(old.not) /\ TypeString(new.not) # "")

\* With references replaced; one within a definition is not.
JSONUnnoticed(new, old) ==
  \/ Unnoticed(ResolveRefs(new.schema, new.defs), ResolveRefs(old.schema, old.defs))
  \/ \E d \in DOMAIN new.defs : ResolveRefs(new.defs[d], new.defs) # new.defs[d]

AllOfSeveralTypes(s) == Cardinality(TypeStrings(Elements(s.schema, "allOf"))) > 1

\* Every value that the old schema accepts, the new one accepts.
JSONReadsAll(new, old, values) ==
  \A x \in values : Valid(old.schema, x, old.defs) => Valid(new.schema, x, new.defs)
=============================================================================
