---------------------------- MODULE Declarations ----------------------------
(***************************************************************************)
(* Which declarations lib/trans/into_model.rs accepts.  Declarations are   *)
(* the records of Codec; types, interfaces and sub-types also have the     *)
(* names that are `reserved` on them.                                      *)
(***************************************************************************)
EXTENDS Codec, Functions, FiniteSets

CONSTANT Converted  \* what each naming convention makes of identifiers

(* What the attributes of a file say of the fields in it, none when one is   *)
(* wrong: features are known and named once.  `lower_snake` is what          *)
(* identifiers are in already.                                               *)
Features == {"format_attribute"}
FieldNaming(convention) ==
    CASE convention \in {"none", "lower_snake"} -> {<<>>}
      [] convention \in DOMAIN Converted -> {Converted[convention]}
      [] OTHER -> {}
FileScope(attributes) ==
    {[formats |-> "format_attribute" \in Range(attributes.features), naming |-> naming] :
        naming \in {n \in FieldNaming(attributes.naming) :
                       IsInjective(attributes.features) /\ Range(attributes.features) \subseteq Features}}

(* build_item_name: the name that is given, or the one of the convention.    *)
FieldName(scope, f) ==
    CASE f.as # "none" -> f.as
      [] f.as = "none" /\ f.ident \in DOMAIN scope.naming -> scope.naming[f.ident]
      [] OTHER -> f.ident

(* handle_format_attribute: with the feature, a string has its type from its *)
(* format, which for any other type is passed over.                          *)
FieldType(scope, f) ==
    CASE ~scope.formats -> IF f.format = "none" THEN {f.type} ELSE {}
      [] scope.formats /\ f.type.k \in {"bytes", "datetime"} -> {}
      [] scope.formats /\ f.type.k = "string" /\ f.format # "none" -> {[k |-> f.format]}
      [] OTHER -> {f.type}

FieldDeclared(scope, f) ==
    {[ident |-> f.ident, name |-> FieldName(scope, f), type |-> t, optional |-> f.optional] :
        t \in FieldType(scope, f)}

(* A type in a file with attributes.                                         *)
TypeDeclared(attributes, ident, fields) ==
    LET scopes == FileScope(attributes)
        scope == CHOOSE s \in scopes : TRUE
    IN  IF scopes = {} \/ \E i \in DOMAIN fields : FieldDeclared(scope, fields[i]) = {} THEN Failed
        ELSE [k |-> "type", ident |-> ident, reserved |-> {},
              fields |-> [i \in DOMAIN fields |-> CHOOSE f \in FieldDeclared(scope, fields[i]) : TRUE]]

IdentsInOrder(s) == [i \in DOMAIN s |-> s[i].ident]
NamesInOrder(s) == [i \in DOMAIN s |-> s[i].name]

(* check_conflict: every identifier and every name is defined once.          *)
NoConflict(s) == IsInjective(IdentsInOrder(s)) /\ IsInjective(NamesInOrder(s))

(* check_field_tag; a tag of "" is the one of an untagged interface.         *)
NotTag(fields, tag) == tag \notin Names(fields)
(* check_field_reserved                                                      *)
NotReserved(fields, reserved) == Names(fields) \cap reserved = {}
TagOf(decl) == IF decl.strategy = "tagged" THEN decl.tag ELSE ""

TypeAccepted(decl) == NoConflict(decl.fields) /\ NotReserved(decl.fields, decl.reserved)
TupleAccepted(decl) == NoConflict(decl.fields)

(* A sub-type's fields are checked with those of the interface, which are    *)
(* not checked against what the interface reserves.                          *)
SubTypeAccepted(decl, sub) ==
    /\ NoConflict(AllFields(decl, sub))
    /\ NotTag(sub.fields, TagOf(decl))
    /\ NotReserved(sub.fields, decl.reserved \cup sub.reserved)

(* The key of a sub-type of an untagged interface: the names it requires.    *)
Key(sub) == Names(Discriminating(sub))
UniqueKeys(decl) == IsInjective([i \in DOMAIN decl.subs |-> Key(decl.subs[i])])
(* check_untagged: no optional field is required by a sub-type of another    *)
(* key.                                                                      *)
OptionalsApart(decl) ==
    \A i, j \in DOMAIN decl.subs :
        Key(decl.subs[i]) # Key(decl.subs[j]) =>
            \A k \in DOMAIN decl.subs[i].fields :
                LET f == decl.subs[i].fields[k]
                IN  f.optional => f.name \notin Key(decl.subs[j])
(* The sub-types in the order they have, which is not looked at.             *)
LargerFirst_Unordered(decl) ==
    \A i, j \in DOMAIN decl.subs : i # j => Key(decl.subs[i]) # Key(decl.subs[j])

(* No key is part of the key of a later sub-type.                            *)
LargerFirst(decl) ==
    \A i, j \in DOMAIN decl.subs :
        i < j => ~(Key(decl.subs[i]) \subseteq Key(decl.subs[j]))

InterfaceAccepted(decl) ==
    /\ NoConflict(decl.fields) /\ NotTag(decl.fields, TagOf(decl))
    /\ \A i \in DOMAIN decl.subs : SubTypeAccepted(decl, decl.subs[i])
    /\ NoConflict(decl.subs)
    /\ decl.strategy = "untagged" => UniqueKeys(decl) /\ OptionalsApart(decl) /\ LargerFirst(decl)

(* NumberDefaultVariant: a variant without a value has the one of the state, *)
(* which is then increased; one with a value sets the state to it.           *)
Numbered(variants) ==
    LET state[i \in 0 .. Len(variants)] ==
            IF i = 0 THEN 0
            ELSE IF "value" \in DOMAIN variants[i] THEN variants[i].value ELSE state[i - 1] + 1
    IN  [i \in DOMAIN variants |->
            IF "value" \in DOMAIN variants[i] THEN variants[i].value ELSE state[i - 1]]

(* StringDefaultVariant: a variant without a value is its own identifier.    *)
EnumDeclared(ident, type, variants) ==
    LET numbers == Numbered(variants)
        value(i) == CASE type # "string" -> Whole(numbers[i])
                      [] type = "string" /\ "value" \in DOMAIN variants[i] -> Str(variants[i].value)
                      [] OTHER -> Str(variants[i].ident)
    IN  [k |-> "enum", ident |-> ident, type |-> type,
         variants |-> [i \in DOMAIN variants |-> [ident |-> variants[i].ident, value |-> value(i)]]]

(* validate_number: the numbers every backend is thought to have.            *)
VariantBounds(kind) ==
    CASE kind = "u32" -> 0 .. 2 ^ (Bits32 - 1) - 1
      [] kind = "i32" -> Signed(Bits32)
      [] kind = "u64" -> 0 .. 2 ^ Bits53 - 1
      [] kind = "i64" -> -(2 ^ Bits53 - 1) .. 2 ^ Bits53 - 1

EnumAccepted(decl) ==
    LET idents == IdentsInOrder(decl.variants)
        values == [i \in DOMAIN decl.variants |-> decl.variants[i].value]
    IN  /\ decl.type \in Integral \cup {"string"}
        /\ IsInjective(idents) /\ IsInjective(values)
        /\ decl.type # "string" => \A i \in DOMAIN values : values[i].v \in VariantBounds(decl.type)

DeclAccepted(decl) ==
    CASE decl.k = "type" -> TypeAccepted(decl)
      [] decl.k = "tuple" -> TupleAccepted(decl)
      [] decl.k = "interface" -> InterfaceAccepted(decl)
      [] decl.k = "enum" -> EnumAccepted(decl)
      [] OTHER -> decl # Failed

(* A type, with the declarations that it names.                              *)
RECURSIVE Accepted(_)
Accepted(t) ==
    LET all(fields) == \A i \in DOMAIN fields : Accepted(fields[i].type)
    IN  /\ DeclAccepted(t)
        /\ CASE t.k \in {"array", "map"} -> Accepted(t.of)
             [] t.k \in {"type", "tuple"} -> all(t.fields)
             [] t.k = "interface" -> \A j \in DOMAIN t.subs : all(AllFields(t, t.subs[j]))
             [] OTHER -> TRUE
=============================================================================
