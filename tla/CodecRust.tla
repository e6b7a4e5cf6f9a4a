------------------------------ MODULE CodecRust ------------------------------
(***************************************************************************)
(* Programs of the Rust backend, with `-m chrono`: what serde makes of the *)
(* structs and enums that are generated, and of their attributes.          *)
(***************************************************************************)
EXTENDS Codec

CONSTANT Instant  \* the texts that are points in time

RECURSIVE RustEncode(_, _), RustDecode(_, _)

(* field_element: an optional field is an Option, left out when it is none.  *)
RustEncodeFields(fields, v) ==
    Object([n \in Names(fields) |->
               LET f == WithName(fields, n)
               IN  IF f.ident \in DOMAIN v THEN RustEncode(f.type, v[f.ident]) ELSE Missing])

RustDecodeField(f, d) ==
    IF f.optional /\ (f.name \in DOMAIN d.v => d.v[f.name] = Null) THEN Missing
    ELSE IF f.name \notin DOMAIN d.v THEN Failed
    ELSE RustDecode(f.type, d.v[f.name])

RustDecodeFields(fields, d) ==
    IF d.k # "object" THEN Failed
    ELSE Struct([x \in Idents(fields) |-> RustDecodeField(WithIdent(fields, x), d)])

(* A tuple is a tuple struct: an optional element is null, and a struct of   *)
(* one element is that element.                                              *)
RustEncodeTuple(fields, v) ==
    LET element(f) == IF f.ident \in DOMAIN v THEN RustEncode(f.type, v[f.ident]) ELSE Null
    IN  IF Len(fields) = 1 THEN element(fields[1])
        ELSE Array([i \in DOMAIN fields |-> element(fields[i])])

RustDecodeTuple(fields, d) ==
    LET element(f, e) == IF f.optional /\ e = Null THEN Missing ELSE RustDecode(f.type, e)
        index(x) == CHOOSE i \in DOMAIN fields : fields[i].ident = x
    IN  CASE Len(fields) = 1 ->
               Struct([x \in Idents(fields) |-> element(fields[1], d)])
          [] Len(fields) # 1 /\ d.k = "array" /\ Len(d.v) = Len(fields) ->
               Struct([x \in Idents(fields) |-> element(fields[index(x)], d.v[index(x)])])
          [] OTHER -> Failed

RustEncodeEnum(decl, x) == ValueOf(decl, x)

(* numeric_visitor_deserialize: serde hands over 64 bits, and `as` cuts them *)
(* to those of the enum, so that a number too large may name a variant.      *)
RustCut(kind, n) ==
    LET m == n % 2 ^ Width(kind)
    IN  IF kind = "i32" /\ m >= 2 ^ (Width(kind) - 1) THEN m - 2 ^ Width(kind) ELSE m

RustDecodeEnum(decl, d) ==
    CASE decl.type = "string" -> VariantFor(decl, d)
      [] decl.type = "u32" /\ d.k = "int" /\ d.v \in Unsigned(Bits64) ->
           VariantFor(decl, Whole(RustCut("u32", d.v)))
      [] decl.type = "i32" /\ d.k = "int" /\ d.v \in Signed(Bits64) \cup Unsigned(Bits64) ->
           VariantFor(decl, Whole(RustCut("i32", d.v)))
      [] OTHER -> VariantFor(decl, d)

(* process_interface: an enum with `tag`, or untagged.  Untagged sub-types   *)
(* are tried in turn, and the first that can be decoded is taken.            *)
RustEncodeInterface(decl, v) ==
    LET sub == SubWithIdent(decl, v.of)
        fields == RustEncodeFields(AllFields(decl, sub), v.v)
    IN  IF fields = Failed \/ decl.strategy = "untagged" THEN fields
        ELSE Object([n \in DOMAIN fields.v \cup {decl.tag} |->
                        IF n = decl.tag THEN Str(sub.name) ELSE fields.v[n]])

RustDecodeTagged(decl, d) ==
    LET named == {i \in DOMAIN decl.subs : Same(d.v[decl.tag], Str(decl.subs[i].name))}
    IN  IF d.k # "object" \/ decl.tag \notin DOMAIN d.v THEN Failed
        ELSE IF named = {} THEN Failed
        ELSE LET sub == decl.subs[First(named)]
             IN  SubType(sub.ident, RustDecodeFields(AllFields(decl, sub), d))

RustDecodeUntagged(decl, d) ==
    LET try(i) == RustDecodeFields(AllFields(decl, decl.subs[i]), d)
        fits == {i \in DOMAIN decl.subs : try(i) # Failed}
    IN  IF fits = {} THEN Failed
        ELSE LET i == First(fits) IN SubType(decl.subs[i].ident, try(i))

RustEncode(t, v) ==
    CASE t.k \in Fractional -> Decimal(v.v)
      [] t.k = "array" -> Array([i \in DOMAIN v.v |-> RustEncode(t.of, v.v[i])])
      [] t.k = "map" -> Object([x \in DOMAIN v.v |-> RustEncode(t.of, v.v[x])])
      [] t.k = "type" -> RustEncodeFields(t.fields, v.v)
      [] t.k = "tuple" -> RustEncodeTuple(t.fields, v.v)
      [] t.k = "enum" -> RustEncodeEnum(t, v.v)
      [] t.k = "interface" -> RustEncodeInterface(t, v)
      [] OTHER -> v

(* RustFlavorTranslator: u32 and its like are the types of Rust, `bytes` is  *)
(* a String, `any` is serde_json's Value.                                    *)
RustDecode(t, d) ==
    CASE t.k \in Integral -> Within(d, Bounds(t.k))
      [] t.k \in Fractional -> AnyNumber(d)
      [] t.k = "boolean" -> OfKind(d, "bool")
      [] t.k \in {"string", "bytes"} -> OfKind(d, "string")
      [] t.k = "datetime" -> IF d.k = "string" /\ d \in Instant THEN d ELSE Failed
      [] t.k = "any" -> d
      [] t.k = "array" -> IF d.k # "array" THEN Failed
                          ELSE Array([i \in DOMAIN d.v |-> RustDecode(t.of, d.v[i])])
      [] t.k = "map" -> IF d.k # "object" THEN Failed
                        ELSE Object([x \in DOMAIN d.v |-> RustDecode(t.of, d.v[x])])
      [] t.k = "type" -> RustDecodeFields(t.fields, d)
      [] t.k = "tuple" -> RustDecodeTuple(t.fields, d)
      [] t.k = "enum" -> RustDecodeEnum(t, d)
      [] t.k = "interface" -> IF t.strategy = "tagged" THEN RustDecodeTagged(t, d)
                              ELSE RustDecodeUntagged(t, d)
=============================================================================
