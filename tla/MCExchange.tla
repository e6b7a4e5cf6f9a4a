----------------------------- MODULE MCExchange -----------------------------
(* Small instances of Exchange: a type for each kind of field, enums, tuples *)
(* and interfaces, and every untagged interface of two sub-types with fields *)
(* of two names.                                                             *)
EXTENDS Exchange

Point == Str("2018-01-01T00:00:00Z")
Instants == {Point}

Plain(kind) == [k |-> kind]
Of(kind, t) == [k |-> kind, of |-> t]
Field(x, n, t, o) == [ident |-> x, name |-> n, type |-> t, optional |-> o]
Required(x, t) == Field(x, x, t, FALSE)
Optional(x, t) == Field(x, x, t, TRUE)
Record(fields) == [k |-> "type", ident |-> "T", fields |-> fields, reserved |-> {}]
TupleOf(fields) == [k |-> "tuple", ident |-> "U", fields |-> fields]
Sub(x, n, fields) == [ident |-> x, name |-> n, fields |-> fields, reserved |-> {}]
Interface(strategy, fields, subs) ==
    [k |-> "interface", ident |-> "Untagged", strategy |-> strategy, tag |-> "kind",
     fields |-> fields, reserved |-> {}, subs |-> subs]
Sample(t, v) == [decl |-> t, value |-> v]
Of1(x, v) == [k |-> "struct", v |-> [y \in {x} |-> v]]
Nothing == [k |-> "struct", v |-> <<>>]
List(s) == [k |-> "array", v |-> s]
Entry(v) == [k |-> "object", v |-> [x \in {"key"} |-> v]]

(* A required field of a type that has a name of its own.                    *)
One(t, v) == Sample(Record(<<Field("x", "y", t, FALSE)>>), Of1("x", v))

(* Types as they are written, with attributes of their file.                 *)
TheConverted == [upper_camel |-> [x \in {"x", "x_"} |-> "X"]]
Attributes(features, naming) == [features |-> features, naming |-> naming]
Written(x, as, kind, format) ==
    [ident |-> x, as |-> as, type |-> Plain(kind), format |-> format, optional |-> FALSE]
InFile(attributes, fields, v) ==
    Sample(TypeDeclared(attributes, "T", fields), [k |-> "struct", v |-> v])
Formats == <<"format_attribute">>
InFiles ==
    LET x(v) == [y \in {"x"} |-> v]
        xy(v, w) == [z \in {"x", "y"} |-> IF z = "x" THEN v ELSE w]
        both == [z \in {"x", "x_"} |-> Str("s")]
    IN  <<InFile(Attributes(<<>>, "upper_camel"), <<Written("x", "none", "u32", "none")>>, x(Whole(1))),
          InFile(Attributes(<<>>, "upper_camel"),
                 <<Written("x", "x", "u32", "none"), Written("y", "X", "u32", "none")>>, xy(Whole(1), Whole(2))),
          InFile(Attributes(<<>>, "upper_camel"),
                 <<Written("x", "none", "string", "none"), Written("x_", "none", "string", "none")>>, both),
          InFile(Attributes(<<>>, "lower_snake"),
                 <<Written("x", "none", "string", "none"), Written("x_", "none", "string", "none")>>, both),
          InFile(Attributes(<<>>, "kebab"), <<Written("x", "none", "string", "none")>>, x(Str("s"))),
          InFile(Attributes(<<"rare">>, "none"), <<Written("x", "none", "string", "none")>>, x(Str("s"))),
          InFile(Attributes(Formats \o Formats, "none"), <<Written("x", "none", "string", "none")>>, x(Str("s"))),
          InFile(Attributes(<<>>, "none"), <<Written("x", "none", "string", "bytes")>>, x(Str("s"))),
          InFile(Attributes(<<>>, "none"), <<Written("x", "none", "bytes", "none")>>, x(Str("s"))),
          InFile(Attributes(Formats, "none"), <<Written("x", "none", "bytes", "none")>>, x(Str("s"))),
          InFile(Attributes(Formats, "none"),
                 <<Written("x", "none", "string", "datetime"), Written("y", "none", "u32", "bytes")>>,
                 xy(Point, Whole(1)))>>

Enum(type, variants) == EnumDeclared("E", type, variants)
Implied == [ident |-> "A"]
Given(v) == [ident |-> "B", value |-> v]
Integers ==
    <<One(Plain("u32"), Whole(3)), One(Plain("u32"), Whole(7)), One(Plain("i32"), Whole(-4)),
      One(Plain("u64"), Whole(16)), One(Plain("u64"), Whole(17)), One(Plain("u64"), Whole(31)),
      One(Plain("i64"), Whole(-16)), One(Plain("i64"), Whole(15))>>
Others ==
    <<One(Plain("float"), Float(2)), One(Plain("double"), Float(3)), One(Plain("boolean"), Boolean(TRUE)),
      One(Plain("string"), Str("s")), One(Plain("bytes"), Str("s")), One(Plain("datetime"), Point),
      One(Plain("any"), Whole(1)), One(Plain("any"), Entry(Null)), One(Plain("any"), List(<<Boolean(TRUE)>>)),
      One(Of("array", Plain("double")), List(<<Float(1), Float(4)>>)),
      One(Of("array", Of("array", Plain("u32"))), List(<<List(<<>>), List(<<Whole(1)>>)>>)),
      One(Of("map", Plain("datetime")), Entry(Point)),
      Sample(Record(<<Optional("x", Plain("string")), Optional("y", Plain("u64"))>>), Of1("y", Whole(5))),
      Sample(Record(<<Required("x", Record(<<Optional("x", Plain("any"))>>))>>), Of1("x", Nothing))>>
Enums ==
    <<One(Enum("string", <<Implied, Given("b")>>), Variant("A")),
      One(Enum("string", <<Implied, Given("b")>>), Variant("B")),
      One(Enum("i32", <<Implied, Given(-4)>>), Variant("B")),
      One(Enum("u32", <<Implied, Given(3)>>), Variant("B")),
      One(Enum("u64", <<Implied, Given(15)>>), Variant("A"))>>
Tuples ==
    LET pair(a, b) == [k |-> "struct", v |-> [x \in {"a", "b"} |-> IF x = "a" THEN a ELSE b]]
    IN  <<Sample(TupleOf(<<Required("a", Plain("u64")), Required("b", Plain("string"))>>),
                 pair(Whole(1), Str("s"))),
          Sample(TupleOf(<<Required("a", Plain("u64")), Required("b", Plain("double"))>>),
                 pair(Whole(1), Float(4))),
          Sample(TupleOf(<<Required("a", Plain("string")), Optional("b", Plain("u32"))>>),
                 Of1("a", Str("s"))),
          Sample(TupleOf(<<Required("a", Plain("u64"))>>), Of1("a", Whole(1))),
          Sample(TupleOf(<<>>), Nothing)>>

Member(x, s) == [k |-> "subtype", of |-> x, v |-> s.v]
Tagged ==
    LET decl1 == Interface("tagged", <<Required("c", Plain("string"))>>,
                           <<Sub("A", "a", <<>>), Sub("B", "B", <<Field("x", "y", Plain("u32"), TRUE)>>)>>)
        both == [x \in {"c", "x"} |-> IF x = "c" THEN Str("s") ELSE Whole(1)]
    IN  <<Sample(decl1, Member("A", Of1("c", Str("s")))), Sample(decl1, Member("B", Of1("c", Str("s")))),
          Sample(decl1, [k |-> "subtype", of |-> "B", v |-> both])>>
(* Untagged interfaces that have common fields, fields with a name of their  *)
(* own, and an untagged interface for the type of a field.                   *)
Untagged ==
    LET leaf == Interface("untagged", <<>>, <<Sub("L", "L", <<Required("l", Plain("u32"))>>)>>)
        nest == Interface("untagged", <<>>, <<Sub("N", "N", <<Required("n", leaf)>>),
                                              Sub("L", "L", <<Required("l", Plain("u32"))>>)>>)
        common == Interface("untagged", <<Required("c", Plain("string")), Optional("o", Plain("string"))>>,
                            <<Sub("A", "A", <<Required("a", Plain("u32")), Required("b", Plain("u32"))>>),
                              Sub("B", "B", <<Required("b", Plain("u32"))>>),
                              Sub("C", "C", <<Optional("d", Plain("u32"))>>)>>)
        named == Interface("untagged", <<>>, <<Sub("A", "A", <<Field("x", "y", Plain("u32"), FALSE)>>)>>)
        value(names) == [x \in names |-> IF x \in {"c", "o"} THEN Str("s") ELSE Whole(1)]
        some(x, names) == Sample(common, [k |-> "subtype", of |-> x, v |-> value(names)])
    IN  <<Sample(nest, Member("N", Of1("n", Member("L", Of1("l", Whole(1)))))),
          Sample(named, Member("A", Of1("x", Whole(1)))),
          some("A", {"c", "a", "b"}), some("B", {"c", "o", "b"}), some("C", {"c"}), some("C", {"c", "d"})>>

(* The pairs of sub-types by number: a field of either name is not there     *)
(* (0), required (1) or optional (2); the value is of the first or the       *)
(* second sub-type, without its optional fields or with them.                *)
FieldsOf(n) ==
    LET field(x, digit) == IF digit = 0 THEN <<>> ELSE <<Field(x, x, Plain("u32"), digit = 2)>>
    IN  field("a", n % 3) \o field("b", n \div 3)
Pair(n) ==
    LET sides == [x \in {"A", "B"} |-> FieldsOf(IF x = "A" THEN n % 9 ELSE (n \div 9) % 9)]
        one == IF (n \div 81) % 2 = 0 THEN "A" ELSE "B"
        present == SelectSeq(sides[one], LAMBDA f : ~f.optional \/ n >= 162)
    IN  Sample(Interface("untagged", <<>>, <<Sub("A", "A", sides["A"]), Sub("B", "B", sides["B"])>>),
               [k |-> "subtype", of |-> one, v |-> [x \in Idents(present) |-> Whole(1)]])
Pairs == [n \in 1 .. 324 |-> Pair(n - 1)]

Text(entries) == [k |-> "text", v |-> entries]
Key1(x, d) == [key |-> x, value |-> d]
(* What two values can have in common: in the same field of two objects, and *)
(* next to each other in an array.                                           *)
Contents ==
    <<Whole(1), Whole(-1), Decimal(3), Decimal(9), Boolean(TRUE), Str("s"), Point, Null,
      List(<<>>), List(<<Whole(2)>>), List(<<Null>>), Text(<<Key1("y", Whole(1))>>),
      Text(<<Key1("y", Null)>>)>>
Couple(n) == <<Contents[(n % 13) + 1], Contents[(n \div 13) + 1]>>
Refined ==
    [n \in 1 .. 169 |->
        List([i \in 1 .. 2 |-> Text(<<Key1("x", Couple(n - 1)[i])>>)])]
Listed == [n \in 1 .. 169 |-> Text(<<Key1("x", List(Couple(n - 1)))>>)]
(* Objects that a key tells apart, and objects with more than one key.       *)
Polymorphic(tag) ==
    List(<<Text(<<Key1(tag, Str("dragon")), Key1("age", Whole(4)), Key1("fire", Str("s"))>>),
           Text(<<Key1(tag, Str("knight")), Key1("armor", Str("s"))>>)>>)
Whole2 ==
    <<Text(<<Key1("x", Whole(1)), Key1("y", Null), Key1("z", Text(<<Key1("x", Point)>>))>>),
      List(<<List(<<Text(<<Key1("x", Whole(1))>>)>>), List(<<>>)>>),
      List(<<Text(<<Key1("x", Whole(1)), Key1("y", Whole(1))>>),
             Text(<<Key1("y", Whole(1)), Key1("x", Whole(1))>>)>>),
      Polymorphic("type"), Text(<<Key1("x", Polymorphic("type"))>>)>>
AllDocuments == Refined \o Listed \o Whole2
(* doc/derive.md                                                             *)
DocumentedDocuments ==
    <<Polymorphic("kind"),
      List(<<Text(<<Key1("id", Whole(7)), Key1("name", Null)>>),
             Text(<<Key1("id", Whole(2)), Key1("name", Str("s"))>>)>>),
      List(<<Text(<<Key1("id", Whole(1)), Key1("height", Whole(7))>>),
             Text(<<Key1("id", Whole(2)), Key1("height", Decimal(9))>>)>>)>>

NoSamples == <<>>
AllSamples == Integers \o Others \o Enums \o Tuples \o Tagged \o Untagged \o InFiles \o Pairs
=============================================================================
