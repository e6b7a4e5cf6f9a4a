------------------------------ MODULE CodecJava ------------------------------
(***************************************************************************)
(* Programs of the Java backend with the jackson module, and the mapper    *)
(* its users configure as JacksonSupport does: empty values are left out,  *)
(* unknown ones ignored.                                                   *)
(***************************************************************************)
EXTENDS Codec

CONSTANT Instant  \* the texts that are points in time

RECURSIVE JavaEncode(_, _), JavaDecode(_, _), JavaCompiles(_)

(* translate_number: an int holds u32, a long u64.                           *)
JavaBounds(kind) == Signed(Width(kind))
JavaPrimitive(kind) == kind \in Integral \cup Fractional \cup {"boolean"}

(* class_field and class_getter: every field under its name, an optional one *)
(* as an Optional.                                                           *)
JavaEncodeFields(fields, v) ==
    Object([n \in Names(fields) |->
               LET f == WithName(fields, n)
               IN  IF f.ident \in DOMAIN v THEN JavaEncode(f.type, v[f.ident]) ELSE Missing])

(* constructor: what is absent or null is an empty Optional; requireNonNull  *)
(* refuses it for a field that is not optional, unless that is a primitive,  *)
(* which becomes zero.                                                       *)
JavaZero(kind) ==
    CASE kind \in Integral -> Whole(0)
      [] kind \in Fractional -> Float(0)
      [] OTHER -> Boolean(FALSE)
JavaDecodeField(f, d) ==
    IF f.name \in DOMAIN d.v /\ d.v[f.name] # Null THEN JavaDecode(f.type, d.v[f.name])
    ELSE IF f.optional THEN Missing
    ELSE IF JavaPrimitive(f.type.k) THEN JavaZero(f.type.k) ELSE Failed

JavaDecodeFields(fields, d) ==
    IF d.k # "object" THEN Failed
    ELSE Struct([x \in Idents(fields) |-> JavaDecodeField(WithIdent(fields, x), d)])

(* The Serializer and Deserializer of a tuple: serialize_type and            *)
(* deserialize_type for each of its fields.  A number with a fraction has to *)
(* be two kinds of token at once, and is refused.                            *)
JavaEncodeTuple(fields, v) ==
    Array([i \in DOMAIN fields |-> JavaEncode(fields[i].type, v[fields[i].ident])])

JavaDecodeElement(type, e) == IF type.k \in Fractional THEN Failed ELSE JavaDecode(type, e)

JavaDecodeTuple(fields, d) ==
    IF d.k # "array" \/ (d.k = "array" /\ Len(d.v) # Len(fields)) THEN Failed
    ELSE Struct([x \in Idents(fields) |->
                    LET i == CHOOSE i \in DOMAIN fields : fields[i].ident = x
                    IN  JavaDecodeElement(fields[i].type, d.v[i])])

(* toValue and fromValue.                                                    *)
JavaEncodeEnum(decl, x) == ValueOf(decl, x)
JavaDecodeEnum(decl, d) == VariantFor(decl, d)

(* @JsonTypeInfo and @JsonSubTypes, or the Deserializer of an untagged       *)
(* interface, which looks for the identifiers of fields and not for their    *)
(* names.                                                                    *)
JavaEncodeInterface(decl, v) ==
    LET sub == SubWithIdent(decl, v.of)
        fields == JavaEncodeFields(AllFields(decl, sub), v.v)
    IN  IF fields = Failed \/ decl.strategy = "untagged" THEN fields
        ELSE Object([n \in DOMAIN fields.v \cup {decl.tag} |->
                        IF n = decl.tag THEN Str(sub.name) ELSE fields.v[n]])

JavaSubTypes(decl, d) ==
    IF d.k # "object" THEN {}
    ELSE IF decl.strategy = "tagged"
         THEN {i \in DOMAIN decl.subs :
                  decl.tag \in DOMAIN d.v /\ Same(d.v[decl.tag], Str(decl.subs[i].name))}
         ELSE {i \in DOMAIN decl.subs : Idents(Discriminating(decl.subs[i])) \subseteq DOMAIN d.v}

JavaDecodeInterface(decl, d) ==
    LET found == JavaSubTypes(decl, d)
        sub == decl.subs[First(found)]
    IN  IF found = {} THEN Failed
        ELSE SubType(sub.ident, JavaDecodeFields(AllFields(decl, sub), d))

JavaEncode(t, v) ==
    CASE t.k \in Fractional -> Decimal(v.v)
      [] t.k = "array" -> Array([i \in DOMAIN v.v |-> JavaEncode(t.of, v.v[i])])
      [] t.k = "map" -> Object([x \in DOMAIN v.v |-> JavaEncode(t.of, v.v[x])])
      [] t.k = "type" -> JavaEncodeFields(t.fields, v.v)
      [] t.k = "tuple" -> JavaEncodeTuple(t.fields, v.v)
      [] t.k = "enum" -> JavaEncodeEnum(t, v.v)
      [] t.k = "interface" -> JavaEncodeInterface(t, v)
      [] OTHER -> v

(* JavaFlavorTranslator: an Instant for datetime, a ByteBuffer for bytes,    *)
(* Object for any.                                                           *)
JavaDecode(t, d) ==
    CASE t.k \in Integral -> Within(d, JavaBounds(t.k))
      [] t.k \in Fractional -> AnyNumber(d)
      [] t.k = "boolean" -> OfKind(d, "bool")
      [] t.k \in {"string", "bytes"} -> OfKind(d, "string")
      [] t.k = "datetime" -> IF d.k = "string" /\ d \in Instant THEN d ELSE Failed
      [] t.k = "any" -> d
      [] t.k = "array" -> IF d.k # "array" THEN Failed
                          ELSE Array([i \in DOMAIN d.v |-> JavaDecode(t.of, d.v[i])])
      [] t.k = "map" -> IF d.k # "object" THEN Failed
                        ELSE Object([x \in DOMAIN d.v |-> JavaDecode(t.of, d.v[x])])
      [] t.k = "type" -> JavaDecodeFields(t.fields, d)
      [] t.k = "tuple" -> JavaDecodeTuple(t.fields, d)
      [] t.k = "enum" -> JavaDecodeEnum(t, d)
      [] t.k = "interface" -> JavaDecodeInterface(t, d)

(* What is generated is not always Java: deserialize_type writes `bool` for  *)
(* boolean, reads a double for a float and does not know of Optional; the    *)
(* Deserializer of an interface is declared to return `Untagged`, and has    *)
(* an empty condition for a sub-type without required fields.                *)
JavaTupleCompiles(t) ==
    \A i \in DOMAIN t.fields : /\ t.fields[i].type.k \notin {"boolean", "float"}
                               /\ ~t.fields[i].optional
JavaUntaggedCompiles(t) ==
    /\ t.ident = "Untagged"
    /\ \A i \in DOMAIN t.subs : Discriminating(t.subs[i]) # <<>>
JavaCompiles(t) ==
    CASE t.k \in {"array", "map"} -> JavaCompiles(t.of)
      [] t.k = "type" -> \A i \in DOMAIN t.fields : JavaCompiles(t.fields[i].type)
      [] t.k = "tuple" -> /\ JavaTupleCompiles(t)
                          /\ \A i \in DOMAIN t.fields : JavaCompiles(t.fields[i].type)
      [] t.k = "interface" -> /\ t.strategy = "untagged" => JavaUntaggedCompiles(t)
                              /\ \A j \in DOMAIN t.subs :
                                   LET fs == AllFields(t, t.subs[j])
                                   IN  \A i \in DOMAIN fs : JavaCompiles(fs[i].type)
      [] OTHER -> TRUE
=============================================================================
