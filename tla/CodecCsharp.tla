----------------------------- MODULE CodecCsharp -----------------------------
(***************************************************************************)
(* Programs of the C# backend with the json_net module: classes with the   *)
(* attributes of JSON.NET, and a converter for each tuple and for each     *)
(* untagged interface.                                                     *)
(***************************************************************************)
EXTENDS Codec

CONSTANT Instant  \* the texts that are points in time

(* `inside` are the interfaces whose converter is reading: _isInsideRead.    *)
RECURSIVE CsharpEncode(_, _), CsharpDecode(_, _, _), CsharpCompiles(_)

(* is_nullable, of the types in C#                                           *)
CsharpNullable(t) == t.k \notin Integral \cup Fractional \cup {"boolean", "datetime", "enum"}

(* class: a null is left out.  class_constructor: what is absent is null, or *)
(* the default of a type that has no null.                                   *)
CsharpEncodeFields(fields, v) ==
    Object([n \in Names(fields) |->
               LET f == WithName(fields, n)
               IN  IF f.ident \in DOMAIN v THEN CsharpEncode(f.type, v[f.ident]) ELSE Missing])

CsharpDefault == [k |-> "zero"]
CsharpDecodeFields(fields, d, inside) ==
    LET field(f) ==
            IF f.name \in DOMAIN d.v /\ d.v[f.name] # Null
            THEN CsharpDecode(f.type, d.v[f.name], inside)
            ELSE IF f.optional THEN Missing
            ELSE IF f.name \in DOMAIN d.v /\ ~CsharpNullable(f.type) THEN Failed
            ELSE CsharpDefault
    IN  IF d.k # "object" THEN Failed
        ELSE Struct([x \in Idents(fields) |-> field(WithIdent(fields, x))])

(* The converter of a tuple: JToken.FromObject refuses a null; MoveNext, and *)
(* ToObject of the type itself, also for an optional element.                *)
CsharpEncodeTuple(fields, v) ==
    Array([i \in DOMAIN fields |->
              IF fields[i].ident \in DOMAIN v
              THEN CsharpEncode(fields[i].type, v[fields[i].ident]) ELSE Failed])

CsharpDecodeTuple(fields, d, inside) ==
    LET element(i) ==
            CASE i \notin DOMAIN d.v -> Failed
              [] i \in DOMAIN d.v /\ d.v[i] = Null ->
                   IF fields[i].optional /\ CsharpNullable(fields[i].type) THEN Missing ELSE Failed
              [] OTHER -> CsharpDecode(fields[i].type, d.v[i], inside)
    IN  IF d.k # "array" THEN Failed
        ELSE Struct([x \in Idents(fields) |->
                        element(CHOOSE i \in DOMAIN fields : fields[i].ident = x)])

(* enum_variant: the names of EnumMember, or numbers, which JSON.NET takes   *)
(* whether or not they name a variant.                                       *)
CsharpEncodeEnum(decl, x) == ValueOf(decl, x)
CsharpDecodeEnum(decl, d) ==
    LET named == VariantFor(decl, d)
    IN  IF named = Failed /\ decl.type # "string" /\ d.k = "int" THEN Variant(d) ELSE named

(* TypeField is a property of the interface, and JsonSubtypes looks for it.  *)
(* The converter of an untagged interface tries the sub-types in turn.       *)
CsharpEncodeInterface(decl, v) ==
    LET sub == SubWithIdent(decl, v.of)
        fields == CsharpEncodeFields(AllFields(decl, sub), v.v)
    IN  IF fields = Failed \/ decl.strategy = "untagged" THEN fields
        ELSE Object([n \in DOMAIN fields.v \cup {decl.tag} |->
                        IF n = decl.tag THEN Str(sub.name) ELSE fields.v[n]])

CsharpSubTypes(decl, d) ==
    IF d.k # "object" THEN {}
    ELSE IF decl.strategy = "tagged"
         THEN {i \in DOMAIN decl.subs :
                  decl.tag \in DOMAIN d.v /\ Same(d.v[decl.tag], Str(decl.subs[i].name))}
         ELSE {i \in DOMAIN decl.subs : Names(Discriminating(decl.subs[i])) \subseteq DOMAIN d.v}

(* While a sub-type is read the converter of its interface is off, also for  *)
(* the fields of the sub-type: JSON.NET then has an abstract class to make.  *)
CsharpDecodeInterface(decl, d, inside) ==
    LET found == CsharpSubTypes(decl, d)
        sub == decl.subs[First(found)]
        reading == IF decl.strategy = "untagged" THEN inside \cup {decl.ident} ELSE inside
    IN  IF found = {} \/ (decl.strategy = "untagged" /\ decl.ident \in inside) THEN Failed
        ELSE SubType(sub.ident, CsharpDecodeFields(AllFields(decl, sub), d, reading))

CsharpEncode(t, v) ==
    CASE t.k \in Fractional -> Decimal(v.v)
      [] t.k = "array" -> Array([i \in DOMAIN v.v |-> CsharpEncode(t.of, v.v[i])])
      [] t.k = "map" -> Object([x \in DOMAIN v.v |-> CsharpEncode(t.of, v.v[x])])
      [] t.k = "type" -> CsharpEncodeFields(t.fields, v.v)
      [] t.k = "tuple" -> CsharpEncodeTuple(t.fields, v.v)
      [] t.k = "enum" -> CsharpEncodeEnum(t, v.v)
      [] t.k = "interface" -> CsharpEncodeInterface(t, v)
      [] OTHER -> v

(* CsharpFlavorTranslator: int, long, uint and ulong, a DateTime for         *)
(* datetime, byte[] for bytes, Object for any.                               *)
CsharpDecode(t, d, inside) ==
    CASE t.k \in Integral -> Within(d, Bounds(t.k))
      [] t.k \in Fractional -> AnyNumber(d)
      [] t.k = "boolean" -> OfKind(d, "bool")
      [] t.k \in {"string", "bytes"} -> OfKind(d, "string")
      [] t.k = "datetime" -> IF d.k = "string" /\ d \in Instant THEN d ELSE Failed
      [] t.k = "any" -> d
      [] t.k = "array" -> IF d.k # "array" THEN Failed
                          ELSE Array([i \in DOMAIN d.v |-> CsharpDecode(t.of, d.v[i], inside)])
      [] t.k = "map" -> IF d.k # "object" THEN Failed
                        ELSE Object([x \in DOMAIN d.v |-> CsharpDecode(t.of, d.v[x], inside)])
      [] t.k = "type" -> CsharpDecodeFields(t.fields, d, inside)
      [] t.k = "tuple" -> CsharpDecodeTuple(t.fields, d, inside)
      [] t.k = "enum" -> CsharpDecodeEnum(t, d)
      [] t.k = "interface" -> CsharpDecodeInterface(t, d, inside)

(* try_read_untagged_sub_type writes `if ()` for a sub-type without required *)
(* fields.                                                                   *)
CsharpCompiles(t) ==
    CASE t.k \in {"array", "map"} -> CsharpCompiles(t.of)
      [] t.k \in {"type", "tuple"} -> \A i \in DOMAIN t.fields : CsharpCompiles(t.fields[i].type)
      [] t.k = "interface" ->
           \A j \in DOMAIN t.subs :
               LET fs == AllFields(t, t.subs[j])
               IN  /\ t.strategy = "untagged" => Discriminating(t.subs[j]) # <<>>
                   /\ \A i \in DOMAIN fs : CsharpCompiles(fs[i].type)
      [] OTHER -> TRUE
=============================================================================
