-------------------------------- MODULE Derive --------------------------------
(***************************************************************************)
(* lib/derive: the declaration that `reproto derive` makes of a document.  *)
(* The order of keys matters to it, so objects are [k |-> "text",          *)
(* v |-> sequence of keys with values] here, and Written makes the JSON    *)
(* document of them.  What identifiers are made of keys by changing their  *)
(* case is left out.                                                       *)
(***************************************************************************)
EXTENDS Codec, TLC
LOCAL INSTANCE SequencesExt

CONSTANT Instant  \* the texts that are points in time

RECURSIVE Written(_), FromJson(_), Hash(_), Refine(_, _), TypeOf(_)

Keys(d) == {d.v[i].key : i \in DOMAIN d.v}
ValueAt(d, x) == d.v[CHOOSE i \in DOMAIN d.v : d.v[i].key = x].value
Written(d) ==
    CASE d.k = "text" -> Object([x \in Keys(d) |-> Written(ValueAt(d, x))])
      [] d.k = "array" -> Array([i \in DOMAIN d.v |-> Written(d.v[i])])
      [] OTHER -> d

-----------------------------------------------------------------------------
(* sir.rs: Sir and FieldSir.  The examples they carry are left out.          *)
Scalar(kind) == [k |-> kind]
FieldSir(key, optional, sir) == [key |-> key, optional |-> optional, sir |-> sir]
Scalars == {"u64", "i64", "float", "double", "boolean", "string", "datetime", "any"}

(* HashSir: scalars are all the same, optional or not, and the order of keys *)
(* is part of it.                                                            *)
Hash(s) ==
    LET fields(f) == [i \in DOMAIN f |-> [key |-> f[i].key, of |-> Hash(f[i].sir)]]
    IN  CASE s.k \in Scalars -> [k |-> "scalar"]
          [] s.k = "array" -> [k |-> "array", of |-> Hash(s.of)]
          [] s.k \in {"object", "tuple"} -> [k |-> s.k, fields |-> fields(s.fields)]
          [] s.k = "interface" ->
               [k |-> "interface", tag |-> s.tag,
                subs |-> [i \in DOMAIN s.subs |->
                             [key |-> s.subs[i].name, of |-> fields(s.subs[i].fields)]]]
          [] OTHER -> s

(* The field stays as required as it was.                                    *)
RefineFields_Unrelaxed(a, b) ==
    [i \in DOMAIN a |-> FieldSir(a[i].key, a[i].optional, Refine(a[i].sir, b[i].sir))]
(* FieldSir::refine relaxes a field, but never tightens it.                  *)
RefineFields(a, b) ==
    [i \in DOMAIN a |-> FieldSir(a[i].key, a[i].optional \/ b[i].optional, Refine(a[i].sir, b[i].sir))]
Broken(s) ==
    \/ s = Failed
    \/ s.k = "array" /\ s.of = Failed
    \/ s.k \in {"object", "tuple"} /\ \E i \in DOMAIN s.fields : s.fields[i].sir = Failed
Unbroken(s) == IF Broken(s) THEN Failed ELSE s

(* Sir::refine, of two with the same hash: what a takes over from b.         *)
Refine(a, b) ==
    CASE a.k = "u64" /\ b.k = "i64" -> b
      [] a.k = "float" /\ b.k = "double" -> b
      [] a.k \in {"u64", "i64"} /\ b.k \in {"float", "double"} -> b
      [] a.k = "any" -> b
      [] b.k = "any" \/ (a.k = b.k /\ a.k \in Scalars \cup {"interface"}) -> a
      [] a.k = "array" /\ b.k = "array" -> Unbroken([k |-> "array", of |-> Refine(a.of, b.of)])
      [] a.k \in {"object", "tuple"} /\ a.k = b.k ->
           Unbroken([k |-> a.k, fields |-> RefineFields(a.fields, b.fields)])
      [] OTHER -> Failed

(* process_array: what the elements have in common.                          *)
Uniques(sirs) ==
    LET add(u, s) ==
            LET same == {j \in DOMAIN u : Hash(u[j]) = Hash(s)}
            IN  IF same = {} THEN Append(u, s)
                ELSE [u EXCEPT ![First(same)] = Refine(@, s)]
        unique[i \in 0 .. Len(sirs)] == IF i = 0 THEN <<>> ELSE add(unique[i - 1], sirs[i])
    IN  unique[Len(sirs)]

(* test_interface: the first of these keys that has a string in all elements.*)
Tags == <<"type", "@class", "kind">>
StringKeys(s) == {s.fields[i].key : i \in {j \in DOMAIN s.fields : s.fields[j].sir.k = "string"}}
TagsOf(sirs) ==
    {t \in DOMAIN Tags : \A i \in DOMAIN sirs : sirs[i].k = "object" /\ Tags[t] \in StringKeys(sirs[i])}
(* Every element is a sub-type, with the name it has for the tag.            *)
Interfaced(tag, sirs, values) ==
    [k |-> "interface", tag |-> tag,
     subs |-> [i \in DOMAIN sirs |->
                  [name |-> ValueAt(values[i], tag).v,
                   fields |-> SelectSeq(sirs[i].fields, LAMBDA f : f.key # tag)]]]

ProcessArray(values) ==
    LET sirs == [i \in DOMAIN values |-> FromJson(values[i])]
        unique == Uniques(sirs)
        numbered == [i \in DOMAIN sirs |-> FieldSir("field_" \o ToString(i - 1), FALSE, sirs[i])]
    IN  CASE \E i \in DOMAIN sirs : sirs[i] = Failed -> Failed
          [] \E i \in DOMAIN unique : unique[i] = Failed -> Failed
          [] unique = <<>> -> [k |-> "array", of |-> Scalar("any")]
          [] Len(unique) = 1 -> [k |-> "array", of |-> unique[1]]
          [] OTHER -> IF TagsOf(sirs) # {} THEN Interfaced(Tags[First(TagsOf(sirs))], sirs, values)
                      ELSE [k |-> "tuple", fields |-> numbered]

(* from_json: a null is Any, and the field that has it is optional.          *)
FromJson(d) ==
    CASE d.k = "int" -> Scalar(IF d.v \in Unsigned(Bits64) THEN "u64" ELSE "i64")
      [] d.k = "decimal" -> Scalar(IF d.v \in Signed(Bits32) THEN "float" ELSE "double")
      [] d.k = "bool" -> Scalar("boolean")
      [] d.k = "string" -> Scalar(IF d \in Instant THEN "datetime" ELSE "string")
      [] d.k = "null" -> Scalar("any")
      [] d.k = "array" -> ProcessArray(d.v)
      [] d.k = "text" ->
           LET field(e) == LET s == FromJson(e.value) IN FieldSir(e.key, s = Scalar("any"), s)
           IN  Unbroken([k |-> "object", fields |-> [i \in DOMAIN d.v |-> field(d.v[i])]])

-----------------------------------------------------------------------------
(* lib.rs: FieldInit, TypeRefiner, SubTypeRefiner, InterfaceRefiner and      *)
(* TupleRefiner.  The attribute that InterfaceRefiner writes for a tag other *)
(* than "type" is one that into_model.rs refuses.                            *)
FieldsOf(f) ==
    [i \in DOMAIN f |-> [ident |-> f[i].key, name |-> f[i].key, type |-> TypeOf(f[i].sir),
                         optional |-> f[i].optional]]
TypeOf(s) ==
    CASE s.k = "array" -> [k |-> "array", of |-> TypeOf(s.of)]
      [] s.k = "object" -> [k |-> "type", fields |-> FieldsOf(s.fields), reserved |-> {}]
      [] s.k = "tuple" -> [k |-> "tuple", fields |-> FieldsOf(s.fields)]
      [] s.k = "interface" ->
           IF s.tag # "type" THEN Failed
           ELSE [k |-> "interface", strategy |-> "tagged", tag |-> "type", ident |-> "Generated",
                 fields |-> <<>>, reserved |-> {},
                 subs |-> [i \in DOMAIN s.subs |->
                              [ident |-> s.subs[i].name, name |-> s.subs[i].name,
                               fields |-> FieldsOf(s.subs[i].fields), reserved |-> {}]]]
      [] OTHER -> s

(* DeclDeriver: for an array only the type of what is in it.                 *)
Derived(d) ==
    LET RECURSIVE inner(_)
        inner(s) == IF s.k = "array" THEN inner(s.of) ELSE s
        found == inner(FromJson(d))
    IN  IF found.k \in {"object", "tuple", "interface"} THEN TypeOf(found) ELSE Failed
(* The documents that are of the type.                                       *)
RECURSIVE Examples(_, _)
Examples(s, d) ==
    IF s.k = "array" THEN FlattenSeq([i \in DOMAIN d.v |-> Examples(s.of, d.v[i])])
    ELSE IF s.k = "interface" THEN [i \in DOMAIN d.v |-> Written(d.v[i])]
    ELSE <<Written(d)>>
=============================================================================
