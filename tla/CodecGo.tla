------------------------------- MODULE CodecGo -------------------------------
(***************************************************************************)
(* Programs of the Go backend with the encoding/json module.               *)
(***************************************************************************)
EXTENDS Codec

RECURSIVE GoEncode(_, _), GoDecode(_, _), GoCompiles(_)

(* FieldCodegen: every field under its name, an optional one as a pointer    *)
(* that is omitted when it is nil.                                           *)
GoEncodeFields(fields, v) ==
    Object([n \in Names(fields) |->
               LET f == WithName(fields, n)
               IN  IF f.ident \in DOMAIN v THEN GoEncode(f.type, v[f.ident]) ELSE Missing])

(* json.Unmarshal leaves the zero value in a field that is absent or null.   *)
GoZero == [k |-> "zero"]
GoDecodeField(f, d) ==
    IF f.name \in DOMAIN d.v /\ (f.type.k = "any" \/ d.v[f.name] # Null)
    THEN IF f.optional /\ d.v[f.name] = Null THEN Missing ELSE GoDecode(f.type, d.v[f.name])
    ELSE IF f.optional THEN Missing ELSE GoZero

GoDecodeFields(fields, d) ==
    IF d.k # "object" THEN Failed
    ELSE Struct([x \in Idents(fields) |-> GoDecodeField(WithIdent(fields, x), d)])

(* TupleCodegen: a list of raw messages.  Without an element the list is nil *)
(* and written as null; with too few, array[i] panics.                       *)
GoEncodeTuple(fields, v) ==
    IF fields = <<>> THEN Null
    ELSE Array([i \in DOMAIN fields |-> GoEncode(fields[i].type, v[fields[i].ident])])

GoDecodeTuple(fields, d) ==
    LET elements == IF d = Null THEN <<>> ELSE d.v
    IN  IF (d.k # "array" /\ d # Null) \/ Len(elements) < Len(fields) THEN Failed
        ELSE Struct([x \in Idents(fields) |->
                        LET i == CHOOSE i \in DOMAIN fields : fields[i].ident = x
                        IN  GoDecode(fields[i].type, elements[i])])

(* EnumCodegen *)
GoEncodeEnum(decl, x) == ValueOf(decl, x)
GoDecodeEnum(decl, d) == VariantFor(decl, d)

(* InterfaceCodegen: marshal_tagged writes the tag over the fields.          *)
GoEncodeInterface(decl, v) ==
    LET sub == SubWithIdent(decl, v.of)
        fields == GoEncodeFields(AllFields(decl, sub), v.v)
    IN  IF fields = Failed \/ decl.strategy = "untagged" THEN fields
        ELSE Object([n \in DOMAIN fields.v \cup {decl.tag} |->
                        IF n = decl.tag THEN Str(sub.name) ELSE fields.v[n]])

(* unmarshal_untagged: `all` is set before the loops and kept between them,  *)
(* so that a sub-type without required fields is taken only when no loop     *)
(* before it failed, which is when it is the first.                          *)
GoUntagged(decl, d) ==
    {i \in DOMAIN decl.subs :
        LET required == Names(Discriminating(decl.subs[i]))
        IN  IF required = {} THEN i = 1 ELSE required \subseteq DOMAIN d.v}
GoTagged(decl, d) ==
    {i \in DOMAIN decl.subs : decl.tag \in DOMAIN d.v /\ Same(d.v[decl.tag], Str(decl.subs[i].name))}

GoDecodeInterface(decl, d) ==
    LET found == IF decl.strategy = "tagged" THEN GoTagged(decl, d) ELSE GoUntagged(decl, d)
        sub == decl.subs[First(found)]
    IN  IF d.k # "object" THEN Failed
        ELSE IF found = {} THEN Failed
        ELSE SubType(sub.ident, GoDecodeFields(AllFields(decl, sub), d))

GoEncode(t, v) ==
    CASE t.k \in Fractional -> Shortest(v.v)
      [] t.k = "array" -> Array([i \in DOMAIN v.v |-> GoEncode(t.of, v.v[i])])
      [] t.k = "map" -> Object([x \in DOMAIN v.v |-> GoEncode(t.of, v.v[x])])
      [] t.k = "type" -> GoEncodeFields(t.fields, v.v)
      [] t.k = "tuple" -> GoEncodeTuple(t.fields, v.v)
      [] t.k = "enum" -> GoEncodeEnum(t, v.v)
      [] t.k = "interface" -> GoEncodeInterface(t, v)
      [] OTHER -> v

(* GoFlavorTranslator: uint32 and its like; datetime and bytes are strings,  *)
(* any is interface{}.                                                       *)
GoDecode(t, d) ==
    CASE t.k \in Integral -> Within(d, Bounds(t.k))
      [] t.k \in Fractional -> AnyNumber(d)
      [] t.k = "boolean" -> OfKind(d, "bool")
      [] t.k \in {"string", "bytes", "datetime"} -> OfKind(d, "string")
      [] t.k = "any" -> d
      [] t.k = "array" -> IF d.k # "array" THEN Failed
                          ELSE Array([i \in DOMAIN d.v |-> GoDecode(t.of, d.v[i])])
      [] t.k = "map" -> IF d.k # "object" THEN Failed
                        ELSE Object([x \in DOMAIN d.v |-> GoDecode(t.of, d.v[x])])
      [] t.k = "type" -> GoDecodeFields(t.fields, d)
      [] t.k = "tuple" -> GoDecodeTuple(t.fields, d)
      [] t.k = "enum" -> GoDecodeEnum(t, d)
      [] t.k = "interface" -> GoDecodeInterface(t, d)

(* A tuple has a pointer for an optional element, and UnmarshalJSON assigns  *)
(* a value to it.                                                            *)
GoCompiles(t) ==
    CASE t.k \in {"array", "map"} -> GoCompiles(t.of)
      [] t.k = "type" -> \A i \in DOMAIN t.fields : GoCompiles(t.fields[i].type)
      [] t.k = "tuple" ->
           \A i \in DOMAIN t.fields : ~t.fields[i].optional /\ GoCompiles(t.fields[i].type)
      [] t.k = "interface" -> \A j \in DOMAIN t.subs :
                                 LET fs == AllFields(t, t.subs[j])
                                 IN  \A i \in DOMAIN fs : GoCompiles(fs[i].type)
      [] OTHER -> TRUE
=============================================================================
