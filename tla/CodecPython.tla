----------------------------- MODULE CodecPython -----------------------------
(***************************************************************************)
(* Programs of the Python backend, which hand what they encode to          *)
(* json.dumps and decode what json.loads returns.                          *)
(***************************************************************************)
EXTENDS Codec

RECURSIVE PythonEncode(_, _), PythonDecode(_, _)

(* encode_method: a required field that is None is an exception, an optional *)
(* one is left out.                                                          *)
PythonEncodeFields(fields, v) ==
    Object([n \in Names(fields) |->
               LET f == WithName(fields, n)
               IN  CASE f.ident \in DOMAIN v /\ v[f.ident] # Null -> PythonEncode(f.type, v[f.ident])
                     [] f.ident \notin DOMAIN v /\ f.optional -> Missing
                     [] OTHER -> Failed])

(* decode_method: data[key], where the key of a required field has to be     *)
(* there.  A field that is native has no decoder.                            *)
PythonDecodeField(f, key, d) ==
    IF f.optional /\ (key \in DOMAIN d.v => d.v[key] = Null) THEN Missing
    ELSE IF key \notin DOMAIN d.v THEN Failed
    ELSE PythonDecode(f.type, d.v[key])

PythonDecodeFields(fields, d) ==
    IF d.k # "object" THEN Failed
    ELSE Struct([x \in Idents(fields) |->
                    LET f == WithIdent(fields, x) IN PythonDecodeField(f, f.name, d)])
(* process_interface: the key of a field of a sub-type is its identifier.    *)
PythonDecodeSubType(fields, d) ==
    IF d.k # "object" THEN Failed
    ELSE Struct([x \in Idents(fields) |->
                    LET f == WithIdent(fields, x) IN PythonDecodeField(f, f.ident, d)])

(* encode_tuple_method: every field is required.  `return (x)` is no tuple:  *)
(* a tuple of one element is that element.                                   *)
PythonEncodeTuple(fields, v) ==
    LET element(f) == IF f.ident \in DOMAIN v THEN PythonEncode(f.type, v[f.ident]) ELSE Failed
    IN  IF Len(fields) = 1 THEN element(fields[1])
        ELSE Array([i \in DOMAIN fields |-> element(fields[i])])

(* Elements are read by their index, and what is left over is ignored; for   *)
(* an optional one `if index in data` looks for the index among the elements.*)
PythonDecodeTuple(fields, d) ==
    LET element(i) ==
            IF fields[i].optional /\ ~\E j \in DOMAIN d.v : Same(d.v[j], Whole(i - 1)) THEN Missing
            ELSE IF i \notin DOMAIN d.v THEN Failed
            ELSE IF fields[i].optional /\ d.v[i] = Null THEN Missing
            ELSE PythonDecode(fields[i].type, d.v[i])
    IN  IF d.k # "array" THEN Failed
        ELSE Struct([x \in Idents(fields) |->
                        element(CHOOSE i \in DOMAIN fields : fields[i].ident = x)])

(* process_enum *)
PythonEncodeEnum(decl, x) == ValueOf(decl, x)
PythonDecodeEnum(decl, d) == VariantFor(decl, d)

(* The tag is written before the fields, and decoded by decode_from_tag;     *)
(* decode_from_untagged compares sets of keys, in the order of the sub-types.*)
PythonEncodeInterface(decl, v) ==
    LET sub == SubWithIdent(decl, v.of)
        fields == PythonEncodeFields(AllFields(decl, sub), v.v)
    IN  IF fields = Failed \/ decl.strategy = "untagged" THEN fields
        ELSE Object([n \in DOMAIN fields.v \cup {decl.tag} |->
                        IF n \in DOMAIN fields.v THEN fields.v[n] ELSE Str(sub.name)])

PythonDecodeTagged(decl, d) ==
    LET named == {i \in DOMAIN decl.subs : Same(d.v[decl.tag], Str(decl.subs[i].name))}
    IN  IF d.k # "object" \/ decl.tag \notin DOMAIN d.v THEN Failed
        ELSE IF named = {} THEN Failed
        ELSE LET sub == decl.subs[First(named)]
             IN  SubType(sub.ident, PythonDecodeSubType(AllFields(decl, sub), d))

(* The keys have to be those of fields, and not only to include them.        *)
PythonDecodeUntagged_Exact(decl, d) ==
    LET fits == {i \in DOMAIN decl.subs :
                    /\ Names(Discriminating(decl.subs[i])) \subseteq DOMAIN d.v
                    /\ DOMAIN d.v \subseteq Names(AllFields(decl, decl.subs[i]))}
    IN  IF d.k # "object" \/ fits = {} THEN Failed
        ELSE LET sub == decl.subs[First(fits)]
             IN  SubType(sub.ident, PythonDecodeSubType(AllFields(decl, sub), d))

PythonDecodeUntagged(decl, d) ==
    LET fits == {i \in DOMAIN decl.subs : Names(Discriminating(decl.subs[i])) \subseteq DOMAIN d.v}
    IN  IF d.k # "object" THEN Failed
        ELSE IF fits = {} THEN Failed
        ELSE LET sub == decl.subs[First(fits)]
             IN  SubType(sub.ident, PythonDecodeSubType(AllFields(decl, sub), d))

(* Type::encode; json.dumps writes a float with its point.                   *)
PythonEncode(t, v) ==
    CASE t.k \in Fractional -> Decimal(v.v)
      [] t.k = "array" -> Array([i \in DOMAIN v.v |-> PythonEncode(t.of, v.v[i])])
      [] t.k = "map" -> Object([x \in DOMAIN v.v |-> PythonEncode(t.of, v.v[x])])
      [] t.k = "type" -> PythonEncodeFields(t.fields, v.v)
      [] t.k = "tuple" -> PythonEncodeTuple(t.fields, v.v)
      [] t.k = "enum" -> PythonEncodeEnum(t, v.v)
      [] t.k = "interface" -> PythonEncodeInterface(t, v)
      [] OTHER -> v

(* Type::decode: an int of any width, to which a bool belongs as well; a     *)
(* number without a point is loaded as an int, which is no float.  Bytes and *)
(* points in time are strings.                                               *)
PythonDecode(t, d) ==
    CASE t.k \in Integral -> IF d.k \in {"int", "bool"} THEN d ELSE Failed
      [] t.k \in Fractional -> IF d.k = "decimal" THEN Float(d.v) ELSE Failed
      [] t.k = "boolean" -> OfKind(d, "bool")
      [] t.k \in {"string", "bytes", "datetime"} -> OfKind(d, "string")
      [] t.k = "any" -> d
      [] t.k = "array" -> IF d.k # "array" THEN Failed
                          ELSE Array([i \in DOMAIN d.v |-> PythonDecode(t.of, d.v[i])])
      [] t.k = "map" -> IF d.k # "object" THEN Failed
                        ELSE Object([x \in DOMAIN d.v |-> PythonDecode(t.of, d.v[x])])
      [] t.k = "type" -> PythonDecodeFields(t.fields, d)
      [] t.k = "tuple" -> PythonDecodeTuple(t.fields, d)
      [] t.k = "enum" -> PythonDecodeEnum(t, d)
      [] t.k = "interface" -> IF t.strategy = "tagged" THEN PythonDecodeTagged(t, d)
                              ELSE PythonDecodeUntagged(t, d)
=============================================================================
