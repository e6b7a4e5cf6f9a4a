------------------------------ MODULE Exchange ------------------------------
(***************************************************************************)
(* Two programs, generated by two backends from one declaration, hand a    *)
(* value back and forth as JSON.  On its way a document may lose a field,  *)
(* or carry one that was added to the declaration since: what an optional  *)
(* field that is added, a minor change for Semck, does to a program that   *)
(* was generated before.                                                   *)
(***************************************************************************)
EXTENDS Declarations
LOCAL INSTANCE SequencesExt

CONSTANTS
    Samples,   \* a sequence of declarations with a value
    Documents, \* a sequence of documents to derive a declaration from
    Instant    \* the texts that are points in time

Rust == INSTANCE CodecRust
Java == INSTANCE CodecJava
Python == INSTANCE CodecPython
Js == INSTANCE CodecJs
Go == INSTANCE CodecGo
Csharp == INSTANCE CodecCsharp
Swift == INSTANCE CodecSwift
Dart == INSTANCE CodecDart
OpenApi == INSTANCE CodecOpenApi
Derive == INSTANCE Derive

Backends == {"rust", "java", "python", "js", "go", "csharp", "swift", "codable", "dart"}

Encode(b, t, v) ==
    CASE b = "rust" -> Rust!RustEncode(t, v)
      [] b = "java" -> Java!JavaEncode(t, v)
      [] b = "python" -> Python!PythonEncode(t, v)
      [] b = "js" -> Js!JsEncode(t, v)
      [] b = "go" -> Go!GoEncode(t, v)
      [] b = "csharp" -> Csharp!CsharpEncode(t, v)
      [] b = "swift" -> Swift!SwiftEncode("simple", t, v)
      [] b = "codable" -> Swift!SwiftEncode("codable", t, v)
      [] b = "dart" -> Dart!DartEncode(t, v)
Decode(b, t, d) ==
    CASE b = "rust" -> Rust!RustDecode(t, d)
      [] b = "java" -> Java!JavaDecode(t, d)
      [] b = "python" -> Python!PythonDecode(t, d)
      [] b = "js" -> Js!JsDecode(t, d)
      [] b = "go" -> Go!GoDecode(t, d)
      [] b = "csharp" -> Csharp!CsharpDecode(t, d, {})
      [] b = "swift" -> Swift!SwiftDecode("simple", t, d)
      [] b = "codable" -> Swift!SwiftDecode("codable", t, d)
      [] b = "dart" -> Dart!DartDecode(t, d)

(* Whether what is generated is a program.                                   *)
Compiles(b, t) ==
    CASE b = "java" -> Java!JavaCompiles(t)
      [] b = "js" -> Js!JsCompiles(t)
      [] b = "go" -> Go!GoCompiles(t)
      [] b = "csharp" -> Csharp!CsharpCompiles(t)
      [] OTHER -> TRUE

(* What there is to exchange: the samples, and the documents that a          *)
(* declaration was derived from.                                             *)
Refiners(t, d) ==
    IF t = Failed THEN <<Derive!Written(d)>> ELSE Derive!Examples(Derive!FromJson(d), d)
Derivation(t, given) ==
    [i \in DOMAIN given |-> [decl |-> t, value |-> Null, doc |-> given[i]]]
Derivations(d) == Derivation(Derive!Derived(d), Refiners(Derive!Derived(d), d))
Items ==
    [i \in DOMAIN Samples |-> [decl |-> Samples[i].decl, value |-> Samples[i].value, doc |-> Missing]]
    \o FlattenSeq([i \in DOMAIN Documents |-> Derivations(Documents[i])])

VARIABLES
    decl,     \* the declaration,
    original, \* the value of it,
    document, \* or the document that it was derived from
    peers,    \* the backends of the two programs
    holder,   \* who has the value
    held,     \* the value, or Failed
    wire,     \* the document on its way, or Missing
    changed   \* what is with the document: "no", "less", "more", or "derived" from;
              \* "refused" when it is the declaration that is not accepted
item == <<decl, original, document>>
vars == <<item, peers, holder, held, wire, changed>>

Offer(x) ==
    /\ decl = x.decl /\ original = x.value /\ document = x.doc
    /\ peers \in {{a, b} : a, b \in Backends}
    /\ Accepted(decl) => \A b \in peers : Compiles(b, decl)
    /\ holder \in peers
    /\ held = original /\ wire = document
    /\ changed = CASE ~Accepted(decl) -> "refused"
                   [] document = Missing -> "no"
                   [] OTHER -> "derived"
Init == LET items == Items IN \E i \in DOMAIN items : Offer(items[i])

Send ==
    /\ wire = Missing /\ held # Failed /\ changed = "no"
    /\ wire' = Encode(holder, decl, held)
    /\ UNCHANGED <<item, peers, holder, held, changed>>

Receive(b) ==
    /\ wire # Missing /\ changed # "refused" /\ (b # holder \/ peers = {holder})
    /\ held' = IF wire = Failed THEN Failed ELSE Decode(b, decl, wire)
    /\ holder' = b /\ wire' = Missing
    /\ UNCHANGED <<item, peers, changed>>

IsObject(d) == d # Missing /\ d.k = "object"
(* A field is left out.                                                      *)
Lose(n) ==
    /\ changed = "no" /\ IsObject(wire)
    /\ wire' = Object([x \in DOMAIN wire.v \ {n} |-> wire.v[x]]) /\ changed' = "less"
    /\ UNCHANGED <<item, peers, holder, held>>

(* A field is there that the declaration does not have.                      *)
Gain ==
    /\ changed = "no" /\ IsObject(wire) /\ decl.k # "map"
    /\ wire' = Object([x \in DOMAIN wire.v \cup {"added"} |->
                          IF x = "added" THEN Str("s") ELSE wire.v[x]])
    /\ changed' = "more"
    /\ UNCHANGED <<item, peers, holder, held>>

Next ==
    \/ Send
    \/ \E b \in peers : Receive(b)
    \/ IsObject(wire) /\ \E n \in DOMAIN wire.v : Lose(n)
    \/ Gain

Spec == Init /\ [][Next]_vars

-----------------------------------------------------------------------------
(* What is lost between a writer w and a reader r of a type, each of it a    *)
(* place where the backends do not agree.                                    *)
RECURSIVE Lost(_, _, _, _)

(* A number that the integers of the reader do not have.                     *)
LostNumber(r, kind, n) ==
    CASE r = "js" -> Js!JsNumber(n) # n
      [] r = "java" -> n \notin Java!JavaBounds(kind)
      [] r = "dart" -> n \notin Dart!DartBounds
      [] OTHER -> FALSE
(* A whole number written without a point, for a reader that asks for one.   *)
LostPoint(w, r, halves) ==
    w \in {"js", "go", "swift", "codable"} /\ r \in {"python", "dart"} /\ halves % 2 = 0
(* Tuples without elements, with one, or with optional ones, and those with  *)
(* fractions for Java.                                                       *)
LostTuple(w, r, fields) ==
    \/ Len(fields) = 0 /\ (w = "go" \/ r = "go") /\ w # r
    \/ Len(fields) = 1 /\ (w \in {"rust", "python"}) # (r = "rust")
    \/ (\E i \in DOMAIN fields : fields[i].optional) /\ ~({w, r} \subseteq {"rust", "dart"})
    \/ r = "java" /\ \E i \in DOMAIN fields : fields[i].type.k \in Fractional
(* Fields of sub-types that have a name of their own; sub-types that are     *)
(* told apart by not having any field.                                       *)
LostSubType(r, t, x) ==
    LET sub == SubWithIdent(t, x)
        renamed(fields) == \E i \in DOMAIN fields : fields[i].ident # fields[i].name
    IN  \/ r = "python" /\ renamed(AllFields(t, sub))
        \/ r = "java" /\ t.strategy = "untagged" /\ renamed(Discriminating(sub))
        \/ r = "go" /\ t.strategy = "untagged" /\ Key(sub) = {} /\ sub # t.subs[1]
(* The field of a sub-type that has the untagged interface for its type.     *)
LostNested(r, t, sub, v) ==
    /\ r = "csharp" /\ t.strategy = "untagged"
    /\ \E i \in DOMAIN sub.fields :
           sub.fields[i].type.k = "interface" /\ sub.fields[i].ident \in DOMAIN v

Lost(w, r, t, v) ==
    LET inFields(fields, f) ==
            \E i \in DOMAIN fields :
                fields[i].ident \in DOMAIN f /\ Lost(w, r, fields[i].type, f[fields[i].ident])
    IN  CASE t.k \in Integral -> LostNumber(r, t.k, v.v)
          [] t.k \in Fractional -> LostPoint(w, r, v.v)
          [] t.k \in {"array", "map"} -> \E i \in DOMAIN v.v : Lost(w, r, t.of, v.v[i])
          [] t.k = "type" -> inFields(t.fields, v.v)
          [] t.k = "tuple" -> LostTuple(w, r, t.fields) \/ inFields(t.fields, v.v)
          [] t.k = "interface" -> \/ LostSubType(r, t, v.of)
                                  \/ LostNested(r, t, SubWithIdent(t, v.of), v.v)
                                  \/ inFields(AllFields(t, SubWithIdent(t, v.of)), v.v)
          [] OTHER -> FALSE

(* A value that is handed over, any number of times and by programs of any   *)
(* two backends, stays what it was, with its sub-type, whatever declaration  *)
(* the translation accepts: the order of sub-types that into_model.rs asks   *)
(* for is one that every decoder can work with.                              *)
Preserved ==
    changed = "no" /\ (\A w, r \in peers : ~Lost(w, r, decl, original)) => held = original

(* What the OpenAPI schema does not say as it is: the names of fields, the   *)
(* sub-types of an untagged interface that have other fields besides, and    *)
(* fractions, which it calls integers.  A tuple that is no array.            *)
RECURSIVE Misdescribed(_, _, _)
Misdescribed(w, t, v) ==
    LET inFields(fields, f) ==
            \E i \in DOMAIN fields :
                \/ fields[i].ident # fields[i].name
                \/ /\ fields[i].ident \in DOMAIN f
                   /\ Misdescribed(w, fields[i].type, f[fields[i].ident])
    IN  CASE t.k \in Fractional -> v.v % 2 # 0
          [] t.k \in {"array", "map"} -> \E i \in DOMAIN v.v : Misdescribed(w, t.of, v.v[i])
          [] t.k = "type" -> inFields(t.fields, v.v)
          [] t.k = "tuple" -> \/ Len(t.fields) = 1 /\ w \in {"rust", "python"}
                              \/ t.fields = <<>> /\ w = "go"
          [] t.k = "interface" ->
               \/ inFields(AllFields(t, SubWithIdent(t, v.of)), v.v)
               \/ t.strategy = "untagged" /\ \E i \in DOMAIN t.subs :
                      t.subs[i].ident # v.of /\ Idents(Discriminating(t.subs[i])) \subseteq DOMAIN v.v
          [] OTHER -> FALSE

(* What a program writes is what the OpenAPI schema generated from the same  *)
(* declaration describes.                                                    *)
Described ==
    /\ changed = "no" /\ wire \notin {Missing, Failed}
    /\ held = original /\ ~Misdescribed(holder, decl, original)
    => OpenApi!Conforms(decl, wire)

(* A decoded value has all the required fields of its declaration, whatever  *)
(* the document had lost.  Java, Go and C# have defaults for them.           *)
Complete ==
    LET fields == CASE decl.k = "interface" -> AllFields(decl, SubWithIdent(decl, held.of))
                    [] decl.k = "type" -> decl.fields
                    [] OTHER -> <<>>
    IN  held \notin {Failed, Null} /\ peers \cap {"java", "go", "csharp"} = {} =>
            Idents(SelectSeq(fields, LAMBDA f : ~f.optional)) \subseteq DOMAIN held.v

(* What does not fit the declaration derived from it: a null that other      *)
(* elements of an array have a value for, or in a tuple, or where Swift's     *)
(* simple module reads it; a list of sub-types in a field, which is  *)
(* derived as one of them.                                                   *)
RECURSIVE Unfit(_, _, _)
Unfit(r, t, d) ==
    LET inField(f, e) == IF e = Null THEN r = "swift" ELSE Unfit(r, f.type, e)
        inFields(fields) ==
            \E i \in DOMAIN fields :
                fields[i].name \in DOMAIN d.v /\ inField(fields[i], d.v[fields[i].name])
    IN  CASE d.k = "null" -> t.k # "any" \/ r \in {"js", "csharp", "dart"}
          [] t.k \in Fractional -> d.k = "int" /\ r \in {"python", "dart"}
          [] t.k = "array" -> \E i \in DOMAIN d.v : Unfit(r, t.of, d.v[i])
          [] t.k = "tuple" -> \/ LostTuple(r, r, t.fields)
                              \/ \E i \in DOMAIN t.fields : Unfit(r, t.fields[i].type, d.v[i])
          [] t.k = "type" -> inFields(t.fields)
          [] t.k = "interface" -> d.k # "object"
          [] OTHER -> FALSE

(* The declaration derived from a document is one that the document fits,    *)
(* and each of the elements that it was refined by.                          *)
Fitting == changed = "derived" /\ wire = Missing /\ ~Unfit(holder, decl, document) => held # Failed

(* A document of the kind that the documentation derives from gives a        *)
(* declaration that is accepted.                                             *)
Derivable == document # Missing => changed # "refused"

(* A field that was added to a declaration does not matter to the programs   *)
(* generated before, which is what makes it a minor change for Semck.  The   *)
(* untagged interfaces of Swift's simple module want the keys to be exact.   *)
Tolerant ==
    LET exact == decl.k = "interface" /\ decl.strategy = "untagged" /\ "swift" \in peers
    IN  changed = "more" /\ ~exact /\ (\A w, r \in peers : ~Lost(w, r, decl, original)) =>
            held = original
=============================================================================
