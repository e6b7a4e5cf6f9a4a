------------------------------ MODULE CodecDart ------------------------------
(***************************************************************************)
(* Programs of the Dart backend, around jsonEncode and jsonDecode.         *)
(***************************************************************************)
EXTENDS Codec

RECURSIVE DartEncode(_, _), DartDecode(_, _)

(* An int of Dart has 64 bits, and a number beyond them is read as a double. *)
DartBounds == Signed(Bits64)
DartObject(t) == t.k \in {"array", "map", "type", "tuple", "enum", "interface"}

(* encode_fn *)
DartEncodeFields(fields, v) ==
    Object([n \in Names(fields) |->
               LET f == WithName(fields, n)
               IN  IF f.ident \in DOMAIN v THEN DartEncode(f.type, v[f.ident])
                   ELSE IF f.optional THEN Missing ELSE Failed])

(* decode_fn: absent and null are the same, and refused for a required field.*)
DartDecodeField(f, has, e) ==
    IF has /\ e # Null THEN DartDecode(f.type, e)
    ELSE IF f.optional THEN Missing ELSE Failed

DartDecodeFields(fields, d) ==
    IF d.k # "object" THEN Failed
    ELSE Struct([x \in Idents(fields) |->
                    LET f == WithIdent(fields, x)
                        has == f.name \in DOMAIN d.v
                    IN  DartDecodeField(f, has, IF has THEN d.v[f.name] ELSE Null)])

(* encode_tuple_fn: an optional element without a value is null, unless it   *)
(* has to be encoded by a method of its own, which null does not have.       *)
DartEncodeTuple(fields, v) ==
    Array([i \in DOMAIN fields |->
              IF fields[i].ident \in DOMAIN v THEN DartEncode(fields[i].type, v[fields[i].ident])
              ELSE IF DartObject(fields[i].type) THEN Failed ELSE Null])

DartDecodeTuple(fields, d) ==
    IF d.k # "array" \/ (d.k = "array" /\ Len(d.v) # Len(fields)) THEN Failed
    ELSE Struct([x \in Idents(fields) |->
                    LET i == CHOOSE i \in DOMAIN fields : fields[i].ident = x
                    IN  DartDecodeField(fields[i], TRUE, d.v[i])])

(* process_enum *)
DartEncodeEnum(decl, x) == ValueOf(decl, x)
DartDecodeEnum(decl, d) == VariantFor(decl, d)

(* process_interface: the tag is written before the fields.                  *)
DartEncodeInterface(decl, v) ==
    LET sub == SubWithIdent(decl, v.of)
        fields == DartEncodeFields(AllFields(decl, sub), v.v)
    IN  IF fields = Failed \/ decl.strategy = "untagged" THEN fields
        ELSE Object([n \in DOMAIN fields.v \cup {decl.tag} |->
                        IF n \in DOMAIN fields.v THEN fields.v[n] ELSE Str(sub.name)])

(* decode_interface_fn: an unknown tag is refused, but without a sub-type of *)
(* an untagged interface the function ends without a value.                  *)
DartSubTypes(decl, d) ==
    IF decl.strategy = "tagged"
    THEN {i \in DOMAIN decl.subs : decl.tag \in DOMAIN d.v /\ Same(d.v[decl.tag], Str(decl.subs[i].name))}
    ELSE {i \in DOMAIN decl.subs : Names(Discriminating(decl.subs[i])) \subseteq DOMAIN d.v}

DartDecodeInterface(decl, d) ==
    LET found == DartSubTypes(decl, d)
        sub == decl.subs[First(found)]
    IN  IF d.k # "object" THEN Failed
        ELSE IF found = {} THEN IF decl.strategy = "tagged" THEN Failed ELSE Null
        ELSE SubType(sub.ident, DartDecodeFields(AllFields(decl, sub), d))

(* Type::encode; a double is written with its point.                         *)
DartEncode(t, v) ==
    CASE t.k \in Fractional -> Decimal(v.v)
      [] t.k = "array" -> Array([i \in DOMAIN v.v |-> DartEncode(t.of, v.v[i])])
      [] t.k = "map" -> Object([x \in DOMAIN v.v |-> DartEncode(t.of, v.v[x])])
      [] t.k = "type" -> DartEncodeFields(t.fields, v.v)
      [] t.k = "tuple" -> DartEncodeTuple(t.fields, v.v)
      [] t.k = "enum" -> DartEncodeEnum(t, v.v)
      [] t.k = "interface" -> DartEncodeInterface(t, v)
      [] OTHER -> v

(* Type::decode: a number without a point is an int, which is no double.     *)
DartDecode(t, d) ==
    CASE t.k \in Integral -> Within(d, DartBounds)
      [] t.k \in Fractional -> IF d.k = "decimal" THEN Float(d.v) ELSE Failed
      [] t.k = "boolean" -> OfKind(d, "bool")
      [] t.k \in {"string", "bytes", "datetime"} -> OfKind(d, "string")
      [] t.k = "any" -> d
      [] t.k = "array" -> IF d.k # "array" THEN Failed
                          ELSE Array([i \in DOMAIN d.v |-> DartDecode(t.of, d.v[i])])
      [] t.k = "map" -> IF d.k # "object" THEN Failed
                        ELSE Object([x \in DOMAIN d.v |-> DartDecode(t.of, d.v[x])])
      [] t.k = "type" -> DartDecodeFields(t.fields, d)
      [] t.k = "tuple" -> DartDecodeTuple(t.fields, d)
      [] t.k = "enum" -> DartDecodeEnum(t, d)
      [] t.k = "interface" -> DartDecodeInterface(t, d)
=============================================================================
