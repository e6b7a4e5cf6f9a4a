------------------------------ MODULE CodecSwift ------------------------------
(***************************************************************************)
(* Programs of the Swift backend: with the simple module, around           *)
(* JSONSerialization, and with the codable module, around JSONEncoder and  *)
(* JSONDecoder.  `m` is the module, "simple" or "codable".                 *)
(***************************************************************************)
EXTENDS Codec

CONSTANT Instant  \* the texts that are points in time

RECURSIVE SwiftEncode(_, _, _), SwiftDecode(_, _, _), SwiftAnyDecode(_), SwiftAnyEncode(_)

(* encode_field, and what is synthesized for CodingKeys: an optional field   *)
(* is left out when it is nil.                                               *)
SwiftEncodeFields(m, fields, v) ==
    Object([n \in Names(fields) |->
               LET f == WithName(fields, n)
               IN  IF f.ident \in DOMAIN v THEN SwiftEncode(m, f.type, v[f.ident]) ELSE Missing])

(* decode_field: for the simple module a null is a value, which is no value  *)
(* of the type.                                                              *)
SwiftDecodeField(m, f, d) ==
    IF f.optional /\ (f.name \notin DOMAIN d.v \/ (m = "codable" /\ d.v[f.name] = Null)) THEN Missing
    ELSE IF f.name \notin DOMAIN d.v THEN Failed
    ELSE SwiftDecode(m, f.type, d.v[f.name])

SwiftDecodeFields(m, fields, d) ==
    IF d.k # "object" THEN Failed
    ELSE Struct([x \in Idents(fields) |-> SwiftDecodeField(m, WithIdent(fields, x), d)])

(* tuple_added: an element that is nil is left out, and the ones after it    *)
(* move up.                                                                  *)
SwiftEncodeTuple(m, fields, v) ==
    LET present == SelectSeq(fields, LAMBDA f : f.ident \in DOMAIN v)
    IN  Array([i \in DOMAIN present |-> SwiftEncode(m, present[i].type, v[present[i].ident])])

(* The simple module reads by index, also past the end, which is a trap; the *)
(* codable one reads the next element, and for an optional one nil at the    *)
(* end.  What is left over is ignored.                                       *)
SwiftDecodeTuple(m, fields, d) ==
    LET element(i) ==
            IF i \notin DOMAIN d.v
            THEN IF m = "codable" /\ fields[i].optional THEN Missing ELSE Failed
            ELSE IF m = "codable" /\ fields[i].optional /\ d.v[i] = Null THEN Missing
            ELSE SwiftDecode(m, fields[i].type, d.v[i])
    IN  IF d.k # "array" THEN Failed
        ELSE Struct([x \in Idents(fields) |->
                        element(CHOOSE i \in DOMAIN fields : fields[i].ident = x)])

(* enum_added *)
SwiftEncodeEnum(decl, x) == ValueOf(decl, x)
SwiftDecodeEnum(decl, d) == VariantFor(decl, d)

(* encode_tag and encode_tagged; encode_untagged *)
SwiftEncodeInterface(m, decl, v) ==
    LET sub == SubWithIdent(decl, v.of)
        fields == SwiftEncodeFields(m, AllFields(decl, sub), v.v)
    IN  IF fields = Failed \/ decl.strategy = "untagged" THEN fields
        ELSE Object([n \in DOMAIN fields.v \cup {decl.tag} |->
                        IF n = decl.tag THEN Str(sub.name) ELSE fields.v[n]])

(* decode_untagged of the simple module: the keys, less those of optional    *)
(* fields, are those of required ones and no others.                         *)
SwiftSimpleUntagged(decl, d) ==
    LET named(fields, optional) == {fields[i].name : i \in {j \in DOMAIN fields : fields[j].optional = optional}}
    IN  {i \in DOMAIN decl.subs :
            LET all == AllFields(decl, decl.subs[i])
            IN  DOMAIN d.v \ named(all, TRUE) = named(all, FALSE)}

(* untagged_init of the codable module: of the names that some sub-type      *)
(* requires, those that are there are those of the sub-type.                 *)
SwiftCodableUntagged(decl, d) ==
    LET all == UNION {Names(Discriminating(decl.subs[i])) : i \in DOMAIN decl.subs}
    IN  {i \in DOMAIN decl.subs : DOMAIN d.v \cap all = Names(Discriminating(decl.subs[i]))}

SwiftDecodeInterface(m, decl, d) ==
    LET found == IF decl.strategy = "tagged"
                 THEN {i \in DOMAIN decl.subs :
                          decl.tag \in DOMAIN d.v /\ Same(d.v[decl.tag], Str(decl.subs[i].name))}
                 ELSE IF m = "simple" THEN SwiftSimpleUntagged(decl, d)
                 ELSE SwiftCodableUntagged(decl, d)
        sub == decl.subs[First(found)]
    IN  IF d.k # "object" THEN Failed
        ELSE IF found = {} THEN Failed
        ELSE SubType(sub.ident, SwiftDecodeFields(m, AllFields(decl, sub), d))

(* encode_value; a number without a fraction is written without a point.     *)
SwiftEncode(m, t, v) ==
    CASE t.k \in Fractional -> Shortest(v.v)
      [] t.k = "array" -> Array([i \in DOMAIN v.v |-> SwiftEncode(m, t.of, v.v[i])])
      [] t.k = "map" -> Object([x \in DOMAIN v.v |-> SwiftEncode(m, t.of, v.v[x])])
      [] t.k = "type" -> SwiftEncodeFields(m, t.fields, v.v)
      [] t.k = "tuple" -> SwiftEncodeTuple(m, t.fields, v.v)
      [] t.k = "enum" -> SwiftEncodeEnum(t, v.v)
      [] t.k = "interface" -> SwiftEncodeInterface(m, t, v)
      [] t.k = "any" /\ m = "codable" -> SwiftAnyEncode(v)
      [] OTHER -> v

(* unbox of the simple module takes a number of any width if it is exactly   *)
(* one of the type, and one with a fraction without its fraction.            *)
SwiftUnbox(kind, d) ==
    CASE d.k = "decimal" -> Within(Whole(IF d.v < 0 THEN -((-d.v) \div 2) ELSE d.v \div 2), Bounds(kind))
      [] OTHER -> Within(d, Bounds(kind))

(* AnyCodable: what comes is a list, a dictionary or the first of the        *)
(* primitive types that takes it.  An integer takes 1.0 as well, so that it  *)
(* is written without a point when it is handed on; an AnyNull is a null.    *)
SwiftAnyDecode(d) ==
    CASE d.k = "array" -> Array([i \in DOMAIN d.v |-> SwiftAnyDecode(d.v[i])])
      [] d.k = "object" -> Object([x \in DOMAIN d.v |-> SwiftAnyDecode(d.v[x])])
      [] d.k = "decimal" -> IF d.v % 2 = 0 THEN Whole(d.v \div 2) ELSE d
      [] OTHER -> d
SwiftAnyEncode(v) ==
    CASE v.k = "array" -> Array([i \in DOMAIN v.v |-> SwiftAnyEncode(v.v[i])])
      [] v.k = "object" -> Object([x \in DOMAIN v.v |-> SwiftAnyEncode(v.v[x])])
      [] OTHER -> v

(* decode_value; a Date for datetime, Data for bytes.                        *)
SwiftDecode(m, t, d) ==
    CASE t.k \in Integral -> IF m = "simple" THEN SwiftUnbox(t.k, d) ELSE Within(d, Bounds(t.k))
      [] t.k \in Fractional -> AnyNumber(d)
      [] t.k = "boolean" -> OfKind(d, "bool")
      [] t.k \in {"string", "bytes"} -> OfKind(d, "string")
      [] t.k = "datetime" -> IF d.k = "string" /\ d \in Instant THEN d ELSE Failed
      [] t.k = "any" -> IF m = "codable" THEN SwiftAnyDecode(d) ELSE d
      [] t.k = "array" -> IF d.k # "array" THEN Failed
                          ELSE Array([i \in DOMAIN d.v |-> SwiftDecode(m, t.of, d.v[i])])
      [] t.k = "map" -> IF d.k # "object" THEN Failed
                        ELSE Object([x \in DOMAIN d.v |-> SwiftDecode(m, t.of, d.v[x])])
      [] t.k = "type" -> SwiftDecodeFields(m, t.fields, d)
      [] t.k = "tuple" -> SwiftDecodeTuple(m, t.fields, d)
      [] t.k = "enum" -> SwiftDecodeEnum(t, d)
      [] t.k = "interface" -> SwiftDecodeInterface(m, t, d)
=============================================================================
