------------------------------- MODULE CodecJs -------------------------------
(***************************************************************************)
(* Programs of the JavaScript backend, around JSON.parse and               *)
(* JSON.stringify.  Every number is a double.                              *)
(***************************************************************************)
EXTENDS Codec

RECURSIVE JsEncode(_, _), JsDecode(_, _), JsCompiles(_)

(* JSON.parse: an integer of more than 53 bits becomes the closest double,   *)
(* and of two equally close ones the even one.                               *)
JsNumber(n) ==
    IF n \in -(2 ^ Bits53) .. 2 ^ Bits53 \/ n % 2 = 0 THEN n
    ELSE IF (n \div 2) % 2 = 0 THEN n - 1 ELSE n + 1

(* encode_method and throw_if_null *)
JsEncodeFields(fields, v) ==
    Object([n \in Names(fields) |->
               LET f == WithName(fields, n)
               IN  CASE f.ident \in DOMAIN v /\ v[f.ident] # Null -> JsEncode(f.type, v[f.ident])
                     [] f.ident \notin DOMAIN v /\ f.optional -> Missing
                     [] OTHER -> Failed])

(* Without the check of a required field.                                    *)
JsDecodeField_Unchecked(f, has, e) == IF has /\ e # Null THEN JsDecode(f.type, e) ELSE Missing

(* decode_method: absent and null are the same.                              *)
JsDecodeField(f, has, e) ==
    IF has /\ e # Null THEN JsDecode(f.type, e)
    ELSE IF f.optional THEN Missing ELSE Failed

JsDecodeFields(fields, d) ==
    IF d.k # "object" THEN Failed
    ELSE Struct([x \in Idents(fields) |->
                    LET f == WithIdent(fields, x)
                        has == f.name \in DOMAIN d.v
                    IN  JsDecodeField(f, has, IF has THEN d.v[f.name] ELSE Null)])

(* encode_tuple_method: every field is required.  field_by_index: what is    *)
(* left over is ignored, and what is missing is undefined.                   *)
JsEncodeTuple(fields, v) ==
    Array([i \in DOMAIN fields |->
              IF fields[i].ident \in DOMAIN v
              THEN JsEncode(fields[i].type, v[fields[i].ident]) ELSE Failed])

JsDecodeTuple(fields, d) ==
    IF d.k # "array" THEN Failed
    ELSE Struct([x \in Idents(fields) |->
                    LET i == CHOOSE i \in DOMAIN fields : fields[i].ident = x
                        has == i \in DOMAIN d.v
                    IN  JsDecodeField(fields[i], has, IF has THEN d.v[i] ELSE Null)])

(* enum_encode and decode_enum_method *)
JsEncodeEnum(decl, x) == ValueOf(decl, x)
JsDecodeEnum(decl, d) == VariantFor(decl, d)

(* process_interface: the tag is written before the fields; decode takes the *)
(* sub-type of that name, decode_untagged the first one of which all the     *)
(* required fields are there.                                                *)
JsEncodeInterface(decl, v) ==
    LET sub == SubWithIdent(decl, v.of)
        fields == JsEncodeFields(AllFields(decl, sub), v.v)
    IN  IF fields = Failed \/ decl.strategy = "untagged" THEN fields
        ELSE Object([n \in DOMAIN fields.v \cup {decl.tag} |->
                        IF n \in DOMAIN fields.v THEN fields.v[n] ELSE Str(sub.name)])

JsSubTypes(decl, d) ==
    IF d.k # "object" THEN {}
    ELSE IF decl.strategy = "tagged"
         THEN {i \in DOMAIN decl.subs :
                  decl.tag \in DOMAIN d.v /\ Same(d.v[decl.tag], Str(decl.subs[i].name))}
         ELSE {i \in DOMAIN decl.subs : Names(Discriminating(decl.subs[i])) \subseteq DOMAIN d.v}

JsDecodeInterface(decl, d) ==
    LET found == JsSubTypes(decl, d)
        sub == decl.subs[First(found)]
    IN  IF found = {} THEN Failed
        ELSE SubType(sub.ident, JsDecodeFields(AllFields(decl, sub), d))

(* Type::encode; JSON.stringify writes whole numbers without a point.        *)
JsEncode(t, v) ==
    CASE t.k \in Fractional -> Shortest(v.v)
      [] t.k = "array" -> Array([i \in DOMAIN v.v |-> JsEncode(t.of, v.v[i])])
      [] t.k = "map" -> Object([x \in DOMAIN v.v |-> JsEncode(t.of, v.v[x])])
      [] t.k = "type" -> JsEncodeFields(t.fields, v.v)
      [] t.k = "tuple" -> JsEncodeTuple(t.fields, v.v)
      [] t.k = "enum" -> JsEncodeEnum(t, v.v)
      [] t.k = "interface" -> JsEncodeInterface(t, v)
      [] OTHER -> v

(* Type::decode_depth: Number.isInteger, Number.isFinite, typeof.  A list is *)
(* an object, too, for a map to be decoded.                                  *)
JsDecode(t, d) ==
    CASE t.k \in Integral /\ d.k = "int" -> Whole(JsNumber(d.v))
      [] t.k \in Integral /\ d.k = "decimal" -> IF d.v % 2 = 0 THEN Whole(d.v \div 2) ELSE Failed
      [] t.k \in Integral /\ d.k \notin {"int", "decimal"} -> Failed
      [] t.k \in Fractional -> AnyNumber(d)
      [] t.k = "boolean" -> OfKind(d, "bool")
      [] t.k \in {"string", "bytes", "datetime"} -> OfKind(d, "string")
      [] t.k = "any" -> d
      [] t.k = "array" -> IF d.k # "array" THEN Failed
                          ELSE Array([i \in DOMAIN d.v |-> JsDecode(t.of, d.v[i])])
      [] t.k = "map" -> IF d.k # "object" THEN Failed
                        ELSE Object([x \in DOMAIN d.v |-> JsDecode(t.of, d.v[x])])
      [] t.k = "type" -> JsDecodeFields(t.fields, d)
      [] t.k = "tuple" -> JsDecodeTuple(t.fields, d)
      [] t.k = "enum" -> JsDecodeEnum(t, d)
      [] t.k = "interface" -> JsDecodeInterface(t, d)

(* decode_untagged writes `if ()` for a sub-type without required fields.    *)
JsCompiles(t) ==
    CASE t.k \in {"array", "map"} -> JsCompiles(t.of)
      [] t.k \in {"type", "tuple"} -> \A i \in DOMAIN t.fields : JsCompiles(t.fields[i].type)
      [] t.k = "interface" ->
           \A j \in DOMAIN t.subs :
               LET fs == AllFields(t, t.subs[j])
               IN  /\ t.strategy = "untagged" => Discriminating(t.subs[j]) # <<>>
                   /\ \A i \in DOMAIN fs : JsCompiles(fs[i].type)
      [] OTHER -> TRUE
=============================================================================
