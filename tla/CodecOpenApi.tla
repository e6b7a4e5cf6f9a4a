----------------------------- MODULE CodecOpenApi -----------------------------
(***************************************************************************)
(* The documents that the schema of the OpenAPI backend describes for a    *)
(* declaration.  Its components and their names are OpenApi's.             *)
(***************************************************************************)
EXTENDS Codec

RECURSIVE Conforms(_, _)

(* Optional fields are among the required properties.                        *)
PropertiesConform_AllRequired(fields, d) ==
    /\ d.k = "object"
    /\ \A i \in DOMAIN fields :
          fields[i].ident \in DOMAIN d.v /\ Conforms(fields[i].type, d.v[fields[i].ident])

(* populate_properties: a property is called by the identifier of its field. *)
(* Other properties are not excluded.                                        *)
PropertiesConform(fields, d) ==
    /\ d.k = "object"
    /\ \A i \in DOMAIN fields :
          IF fields[i].ident \in DOMAIN d.v THEN Conforms(fields[i].type, d.v[fields[i].ident])
          ELSE fields[i].optional

(* decl_tuple_to_schema: an array says nothing about its elements but what   *)
(* `items` says, which a tuple does not have.                                *)
TupleConforms(d) == d.k = "array"

(* decl_enum_to_schema *)
EnumConforms(decl, d) == VariantFor(decl, d) # Failed

(* decl_interface_to_schema: `oneOf` the sub-types, exactly one.  A tagged   *)
(* one is a component with the tag as a required string, and the             *)
(* discriminator says which; process_tagged_sub_type.                        *)
InterfaceConforms(decl, d) ==
    LET fits == {i \in DOMAIN decl.subs : PropertiesConform(AllFields(decl, decl.subs[i]), d)}
        named == {i \in fits : Same(d.v[decl.tag], Str(decl.subs[i].name))}
    IN  /\ d.k = "object"
        /\ CASE decl.strategy = "untagged" -> \E i \in fits : fits = {i}
             [] OTHER -> decl.tag \in DOMAIN d.v /\ named # {}

(* type_to_schema: floats and doubles are of type "integer" as well.  Only   *)
(* numbers within the format are asked for.                                  *)
Conforms(t, d) ==
    CASE t.k \in Integral -> d.k = "int" /\ d.v \in Bounds(t.k)
      [] t.k \in Fractional -> d.k = "int" \/ (d.k = "decimal" /\ d.v % 2 = 0)
      [] t.k = "boolean" -> d.k = "bool"
      [] t.k \in {"string", "bytes", "datetime"} -> d.k = "string"
      [] t.k = "any" -> TRUE
      [] t.k = "array" -> d.k = "array" /\ \A i \in DOMAIN d.v : Conforms(t.of, d.v[i])
      [] t.k = "map" -> d.k = "object" /\ \A x \in DOMAIN d.v : Conforms(t.of, d.v[x])
      [] t.k = "type" -> PropertiesConform(t.fields, d)
      [] t.k = "tuple" -> TupleConforms(d)
      [] t.k = "enum" -> EnumConforms(t, d)
      [] t.k = "interface" -> InterfaceConforms(t, d)
=============================================================================
