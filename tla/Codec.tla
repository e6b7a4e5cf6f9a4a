-------------------------------- MODULE Codec --------------------------------
(***************************************************************************)
(* What the code generated by the backends works on: declarations as they  *)
(* come out of the translation (lib/core/src/rp_*.rs), the values programs *)
(* hold, and the JSON documents they exchange.  A backend has a module of  *)
(* its own, with what its programs encode and decode.                      *)
(*                                                                         *)
(* Types are records [k |-> kind], with `of` for the elements of an array  *)
(* or a map; a named type is its declaration.  Values and documents are    *)
(* records [k |-> kind, v |-> content]; those of strings, integers and     *)
(* booleans, and what has type `any`, are the same on both sides.  Numbers *)
(* with a fraction are counted in halves, so that 2 is the number 1.0.     *)
(***************************************************************************)
EXTENDS Integers, Sequences

(* Widths are scaled down: 3 bits for 32, 4 for the 53 that a double holds  *)
(* exactly, 5 for 64.                                                        *)
Bits32 == 3
Bits53 == 4
Bits64 == 5
Unsigned(bits) == 0 .. 2 ^ bits - 1
Signed(bits) == -(2 ^ (bits - 1)) .. 2 ^ (bits - 1) - 1

Integral == {"u32", "u64", "i32", "i64"}
Fractional == {"float", "double"}
Width(kind) == IF kind \in {"u32", "i32"} THEN Bits32 ELSE Bits64
Bounds(kind) == IF kind \in {"u32", "u64"} THEN Unsigned(Width(kind)) ELSE Signed(Width(kind))

Null == [k |-> "null"]
Str(s) == [k |-> "string", v |-> s]
Whole(n) == [k |-> "int", v |-> n]
Boolean(b) == [k |-> "bool", v |-> b]
(* A number written with a decimal point; the value of a field that holds   *)
(* fractions is a Float, however it is written.                              *)
Decimal(halves) == [k |-> "decimal", v |-> halves]
Float(halves) == [k |-> "float", v |-> halves]

(* Failed is an error or an exception, and a whole of which a part failed.  *)
(* Missing is an optional field without a value.                             *)
Failed == [k |-> "failed"]
Missing == [k |-> "missing"]
Array(s) == IF \E i \in DOMAIN s : s[i] = Failed THEN Failed ELSE [k |-> "array", v |-> s]
Object(f) ==
    IF \E x \in DOMAIN f : f[x] = Failed THEN Failed
    ELSE [k |-> "object", v |-> [x \in {y \in DOMAIN f : f[y] # Missing} |-> f[x]]]
Struct(f) == LET o == Object(f) IN IF o = Failed THEN Failed ELSE [k |-> "struct", v |-> o.v]
SubType(x, s) == IF s = Failed THEN Failed ELSE [k |-> "subtype", of |-> x, v |-> s.v]
Variant(x) == [k |-> "variant", v |-> x]

(* Equal, of documents or values whose kinds may differ.                     *)
Same(d, e) == d.k = e.k /\ d = e
OfKind(d, kind) == IF d.k = kind THEN d ELSE Failed
Within(d, set) == IF d.k = "int" /\ d.v \in set THEN d ELSE Failed
(* A number in either notation, for a field that holds fractions.            *)
AnyNumber(d) ==
    CASE d.k = "int" -> Float(2 * d.v)
      [] d.k = "decimal" -> Float(d.v)
      [] OTHER -> Failed
(* The notation of languages that write whole numbers without a point.       *)
Shortest(halves) == IF halves % 2 = 0 THEN Whole(halves \div 2) ELSE Decimal(halves)

-----------------------------------------------------------------------------
(* lib/core/src/rp_field.rs, rp_interface.rs *)
Idents(fields) == {fields[i].ident : i \in DOMAIN fields}
Names(fields) == {fields[i].name : i \in DOMAIN fields}
WithIdent(fields, x) == fields[CHOOSE i \in DOMAIN fields : fields[i].ident = x]
WithName(fields, n) == fields[CHOOSE i \in DOMAIN fields : fields[i].name = n]

(* discriminating_fields: the required fields of the sub-type itself.        *)
Discriminating(sub) ==
    SelectSeq(sub.fields, LAMBDA f : ~f.optional)
(* The fields of a sub-type follow those of its interface.                   *)
AllFields(decl, sub) == decl.fields \o sub.fields
SubWithIdent(decl, x) == decl.subs[CHOOSE i \in DOMAIN decl.subs : decl.subs[i].ident = x]

(* The least index of a set of them.                                         *)
First(S) == CHOOSE i \in S : \A j \in S : i <= j
VariantFor(decl, value) ==
    LET found == {i \in DOMAIN decl.variants : Same(decl.variants[i].value, value)}
    IN  IF found = {} THEN Failed
        ELSE Variant(decl.variants[First(found)].ident)
ValueOf(decl, x) == decl.variants[CHOOSE i \in DOMAIN decl.variants : decl.variants[i].ident = x].value
=============================================================================
