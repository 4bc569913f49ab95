--------------------------- MODULE ProtobufCompat ---------------------------
(***************************************************************************)
(* The Protobuf checker (internal/compatibility/protobuf/checker.go), and  *)
(* what it is to decide: whether bytes of an old schema parse with a new   *)
(* one.  A schema is its package and its messages, nested and imported     *)
(* ones too, under their full names:                                       *)
(*   message: path of its file, entry (of a map) or not, fields by number  *)
(*   field: kind, card ("optional", "repeated", "required"), oneof (or "", *)
(*     also for the synthetic one of a proto3 optional), type (full name   *)
(*     of the message or enum, or "")                                      *)
(* Enums and services have no bearing on the verdict.                      *)
(***************************************************************************)
EXTENDS Integers, Sequences, FiniteSets

Varint == {"int32", "uint32", "int64", "uint64", "bool"}
WireGroups == {Varint, {"sint32", "sint64"}, {"fixed32", "sfixed32"}, {"fixed64", "sfixed64"}, {"string", "bytes"}}

AreKindsWireCompatible(new, old) ==
  \/ \E group \in WireGroups : {new, old} \subseteq group
  \/ "enum" \in {new, old} /\ {new, old} \cap Varint # {}

Common(N, O, new, old) == DOMAIN N.messages[new].fields \cap DOMAIN O.messages[old].fields

RECURSIVE AreMessagesStructurallyCompatible(_, _, _, _, _)
\* Of message new of schema N and message old of schema O: the kinds of the
\* fields they share.  Messages of one name in files of one name are not looked
\* into, and a pair that is being compared is taken to be compatible.
AreMessagesStructurallyCompatible(N, O, new, old, visited) ==
  \/ new = old /\ N.messages[new].path = O.messages[old].path
  \/ <<new, old>> \in visited
  \/ \A num \in Common(N, O, new, old) :
       LET nf == N.messages[new].fields[num]
           of == O.messages[old].fields[num] IN
       IF nf.kind # of.kind THEN AreKindsWireCompatible(nf.kind, of.kind)
       ELSE nf.kind = "message" =>
              AreMessagesStructurallyCompatible(N, O, nf.type, of.type, visited \cup {<<new, old>>})

AreTypesCompatible(N, O, nf, of) ==
  IF nf.kind # of.kind THEN AreKindsWireCompatible(nf.kind, of.kind)
  ELSE /\ nf.kind = "message" => AreMessagesStructurallyCompatible(N, O, nf.type, of.type, {})
       /\ nf.kind = "enum" => nf.type = of.type

LengthDelimited == {"string", "bytes", "message"}

\* required -> repeated is among the compatible changes, whatever the kind.
CardinalityCompatible(nf, of) ==
  /\ of.card = "optional" /\ nf.card = "repeated" => of.kind \in LengthDelimited
  /\ of.card = "repeated" /\ nf.card = "optional" => nf.kind \in LengthDelimited
  /\ nf.card = "required" => of.card = "required"

CheckFieldCompatibility(N, O, nf, of) ==
  /\ AreTypesCompatible(N, O, nf, of)
  /\ CardinalityCompatible(nf, of)
  /\ of.oneof # "" => nf.oneof # ""

\* Mutant: it matters only if two fields are moved at a time.
MovedIntoOneofApart(new, old) ==
  \A num, other \in DOMAIN new.fields \cap DOMAIN old.fields :
    num # other /\ new.fields[num].oneof # "" /\ old.fields[num].oneof = "" /\ old.fields[other].oneof = ""
      => new.fields[other].oneof # new.fields[num].oneof

\* A field is moved into a oneof only if no other old field is in it.
MovedIntoOneof(new, old) ==
  \A num \in DOMAIN new.fields \cap DOMAIN old.fields :
    new.fields[num].oneof # "" /\ old.fields[num].oneof = ""
      => \A other \in (DOMAIN new.fields \cap DOMAIN old.fields) \ {num} :
           new.fields[other].oneof # new.fields[num].oneof

CheckMessageCompatibility(N, O, name) ==
  LET new == N.messages[name]
      old == O.messages[name] IN
  /\ \A num \in DOMAIN new.fields \ DOMAIN old.fields : new.fields[num].card # "required"
  /\ \A num \in Common(N, O, name, name) : CheckFieldCompatibility(N, O, new.fields[num], old.fields[num])
  /\ MovedIntoOneof(new, old)
  /\ \A num \in DOMAIN old.fields \ DOMAIN new.fields :
       old.fields[num].card # "required" /\ old.fields[num].oneof = ""

\* The messages of the file itself, nested ones with it, entries of maps left out.
Declared(S) == {m \in DOMAIN S.messages : S.messages[m].path = S.path /\ ~S.messages[m].entry}

CheckProtobuf(N, O) ==
  /\ N.package = O.package
  /\ Declared(O) \subseteq Declared(N)
  /\ \A name \in Declared(O) : CheckMessageCompatibility(N, O, name)

-----------------------------------------------------------------------------
(* The reference: what old messages look like on the wire, and whether the *)
(* new schema takes them without misreading or losing a value.             *)

\* Numbers of 32 and of 64 bits, scaled down to what shows signs and cuts.
SmallBits == 3
LargeBits == 4
Large == {"int64", "uint64", "sint64", "fixed64", "sfixed64"}
Zigzag == {"sint32", "sint64"}
Signed == {"int32", "int64", "sfixed32", "sfixed64", "enum"} \cup Zigzag
Bits(kind) == IF kind \in Large THEN LargeBits ELSE SmallBits

WireType(kind) ==
  CASE kind \in {"fixed32", "sfixed32", "float"} -> 5
    [] kind \in {"fixed64", "sfixed64", "double"} -> 1
    [] kind \in LengthDelimited -> 2
    [] OTHER -> 0
\* What the bits mean; integers of all kinds are numbers.
Sort(kind) ==
  CASE kind \in {"string", "bytes"} -> "text"
    [] kind \in {"float", "double", "message"} -> kind
    [] OTHER -> "number"

\* The values of a kind.  Text is 1, and bytes that are no UTF-8 are 2.
Holds(kind) ==
  CASE kind = "bool" -> {0, 1}
    [] kind = "bytes" -> {1, 2}
    [] kind \in {"string", "float", "double"} -> {1}
    [] kind \in Signed -> -(2^(Bits(kind) - 1))..(2^(Bits(kind) - 1) - 1)
    [] OTHER -> 0..(2^Bits(kind) - 1)

\* A value on the wire: zigzag, or in two's complement, of which a varint has all
\* the bits; and how a kind reads what is on the wire.
Raw(kind, v) ==
  IF kind \in Zigzag THEN IF v >= 0 THEN 2 * v ELSE -2 * v - 1
  ELSE v % 2^(IF WireType(kind) = 0 THEN LargeBits ELSE Bits(kind))
Decode(kind, raw) ==
  LET cut == raw % 2^Bits(kind) IN
  CASE kind = "bool" -> IF raw = 0 THEN 0 ELSE 1
    [] kind \in Zigzag -> IF cut % 2 = 0 THEN cut \div 2 ELSE -((cut + 1) \div 2)
    [] kind \in Signed \ Zigzag -> IF cut >= 2^(Bits(kind) - 1) THEN cut - 2^Bits(kind) ELSE cut
    [] OTHER -> cut

\* A value that the new kind has is read as it was; one that it has not may be cut
\* or refused (a long number, a number as a bool, bytes as a string).
ReadsValue(new, old, v) ==
  /\ WireType(new) = WireType(old) /\ Sort(new) = Sort(old)
  /\ v \in Holds(new) => Decode(new, Raw(old, v)) = v

\* Repeated numbers are packed into one record, of a wire type of its own; the
\* elements of other repeated fields are a record each.
Packed(f) == f.card = "repeated" /\ f.kind \notin LengthDelimited

Samples == {-8, -1, 1, 2, 7, 15}
RECURSIVE Encodings(_, _, _)
\* The encodings of a message, as the numbers present with the elements under
\* them, of a repeated field one or two of a value; messages are nested to the
\* given depth.
Encodings(S, name, depth) ==
  LET fields == S.messages[name].fields
      Elements(f) == IF f.kind = "message" THEN Encodings(S, f.type, depth - 1) ELSE Holds(f.kind) \cap Samples
      Values(f) == {[kind |-> f.kind, packed |-> Packed(f), elems |-> [i \in 1..k |-> x]] :
                      k \in IF f.card = "repeated" THEN 1..2 ELSE {1}, x \in Elements(f)}
      Sets == {nums \in SUBSET DOMAIN fields :
                 /\ \A n \in DOMAIN fields : fields[n].card = "required" => n \in nums
                 /\ \A n \in nums : fields[n].kind = "message" => depth > 0
                 /\ \A n, m \in nums : n # m /\ fields[n].oneof # "" => fields[m].oneof # fields[n].oneof} IN
  UNION {{e \in [nums -> UNION {Values(fields[n]) : n \in nums}] : \A n \in nums : e[n] \in Values(fields[n])} : nums \in Sets}

RECURSIVE Parses(_, _, _)
\* A field that is not repeated takes no packed record, and of several records
\* only the last; a repeated one takes both.
ParsesField(S, f, sent) ==
  /\ f.card # "repeated" => ~sent.packed /\ Len(sent.elems) = 1
  /\ \A i \in DOMAIN sent.elems :
       IF "message" \in {f.kind, sent.kind} THEN f.kind = sent.kind /\ Parses(S, f.type, sent.elems[i])
       ELSE ReadsValue(f.kind, sent.kind, sent.elems[i])
Parses(S, name, e) ==
  LET fields == S.messages[name].fields
      known == DOMAIN e \cap DOMAIN fields IN
  /\ \A n \in DOMAIN fields : fields[n].card = "required" => n \in DOMAIN e
  /\ \A n \in known : ParsesField(S, fields[n], e[n])
  /\ \A n, m \in known : n # m /\ fields[n].oneof # "" => fields[m].oneof # fields[n].oneof

ProtobufReadsAll(N, O, depth) ==
  \A name \in Declared(O) : name \in Declared(N) /\ \A e \in Encodings(O, name, depth) : Parses(N, name, e)

\* The labels of the fields that two messages share are alike, down through the
\* messages in them, and no field is required anew.
RECURSIVE LabelsAlike(_, _, _, _, _)
LabelsAlike(N, O, new, old, visited) ==
  LET nfs == N.messages[new].fields
      ofs == O.messages[old].fields IN
  \/ <<new, old>> \in visited
  \/ /\ \A num \in DOMAIN nfs \ DOMAIN ofs : nfs[num].card # "required"
     /\ \A num \in Common(N, O, new, old) :
          /\ nfs[num].card = ofs[num].card /\ nfs[num].oneof = ofs[num].oneof
          /\ nfs[num].kind = "message" /\ ofs[num].kind = "message" =>
               LabelsAlike(N, O, nfs[num].type, ofs[num].type, visited \cup {<<new, old>>})

\* What the checker does not look into: a message that is imported, or the entry
\* of a map, and has changed under its name; the labels in a message whose name
\* has changed; a field that goes from one oneof to another.  And what it lets
\* pass as Protobuf does: a repeated field that keeps only the last of its values.
Uncompared(N, O) ==
  \/ \E m \in (DOMAIN N.messages \cap DOMAIN O.messages) \ Declared(O) : N.messages[m] # O.messages[m]
  \/ \E name \in Declared(O) \cap Declared(N) : \E num \in Common(N, O, name, name) :
       LET nf == N.messages[name].fields[num]
           of == O.messages[name].fields[num] IN
       \/ nf.kind = "message" /\ of.kind = "message" /\ nf.type # of.type
            /\ ~LabelsAlike(N, O, nf.type, of.type, {})
       \/ nf.oneof # "" /\ of.oneof # "" /\ nf.oneof # of.oneof
       \/ of.card = "repeated" /\ nf.card = "optional"
=============================================================================
