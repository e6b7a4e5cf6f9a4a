------------------------------- MODULE OpenApi -------------------------------
(***************************************************************************)
(* The OpenAPI document of a service (lib/backend-openapi): its endpoints  *)
(* refer to components, the components to others, and every component is   *)
(* called by a name that is made short when nothing else has it.  One type *)
(* is described at a time, in the order of the code.                       *)
(*                                                                         *)
(* Texts are sequences of syllables, so that names of different words may  *)
(* read the same.                                                          *)
(*   name  [package, version, path, ends]: a name of reproto: the texts of *)
(*         its parts, and where the words of its package and path end      *)
(*   key   [prefix, name]: a name as it is referred to, the prefix a text  *)
(*   type  [k, key, depth]: "name", "any" or "other", within that many     *)
(*         arrays and maps                                                 *)
(*   declaration  [kind, fields, subs]: the types of the fields of a       *)
(*         "type", "tuple", "tagged" or "untagged" interface, and for      *)
(*         every sub-type [name, fields]; an "enum" or "service" has none  *)
(***************************************************************************)
EXTENDS Integers, Sequences, TLC

CONSTANTS
    Declared,   \* the declaration of each name that has one
    Documents,  \* services: sequences of endpoints [path, vars, bodies]
    AnyKey      \* the key of the component for `any`

Syllables == Seq(STRING)
RpName == [package : Syllables, version : Syllables, path : Syllables, ends : Seq(Nat)]
DocKey == [prefix : Syllables, name : RpName]
DocType == [k : {"name", "any", "other"}, key : DocKey, depth : Nat]
DocSubType == [name : RpName, fields : Seq(DocType)]
DocKinds == {"type", "tuple", "tagged", "untagged", "enum", "service"}
DocDeclaration == [kind : DocKinds, fields : Seq(DocType), subs : Seq(DocSubType)]
DocEndpoint == [path : BOOLEAN, vars : Seq(DocType), bodies : Seq(DocType)]

ASSUME DocumentAssumption ==
    /\ \A n \in DOMAIN Declared : n \in RpName /\ Declared[n] \in DocDeclaration
    /\ \A d \in Documents : d \in Seq(DocEndpoint)
    /\ AnyKey \in DocKey

VARIABLES
    todo,        \* endpoints of the service not described yet
    items,       \* the queue of components to be described
    processed,   \* items taken from it
    subject,     \* the item that is being described: one or, for an endpoint, none
    mentions,    \* the types to be described for it, by the object they are in
    allocated,   \* the name of the component for each key
    counters,    \* how often a counter was added to a name
    components,  \* what each component describes
    document     \* "building", "written" or "refused"

naming == <<allocated, counters, document>>
docVars == <<todo, items, processed, subject, mentions, components, naming>>

DocInit ==
    /\ todo \in Documents
    /\ items = <<>> /\ processed = {}
    /\ subject = <<>> /\ mentions = <<>>
    /\ allocated = <<>> /\ counters = <<>> /\ components = <<>>
    /\ document = "building"

Item(k, key, index) == [k |-> k, key |-> key, index |-> index]
Local(name) == [prefix |-> <<>>, name |-> name]

-----------------------------------------------------------------------------
(* allocate_name: the short name, the one with the package, the one with the *)
(* version and a counter; whatever is taken is not tried twice.              *)
Taken == {allocated[k] : k \in DOMAIN allocated}
Packaged(n) == n.package \o n.path
Base(n) == n.package \o n.version \o n.path
WithCount(base, c) == Append(base, ToString(c))
With(f, x, y) == [z \in DOMAIN f \cup {x} |-> IF z = x THEN y ELSE f[z]]
Call(key, name) == allocated' = With(allocated, key, name)

AllocateName_Unchecked(key) ==
    /\ Call(key, IF key.name.path \in Taken THEN Packaged(key.name) ELSE key.name.path)
    /\ UNCHANGED <<counters, document>>
AllocateName(key) ==
    LET n == key.name
        base == Base(n)
        again == base \in DOMAIN counters
        c == IF again THEN counters[base] ELSE 0
    IN  CASE n.path \notin Taken -> Call(key, n.path) /\ UNCHANGED <<counters, document>>
          [] n.path \in Taken /\ Packaged(n) \notin Taken ->
                Call(key, Packaged(n)) /\ UNCHANGED <<counters, document>>
          [] OTHER ->
                /\ counters' = With(counters, base, IF again THEN c + 1 ELSE 0)
                /\ IF WithCount(base, c) \in Taken
                   THEN document' = "refused" /\ UNCHANGED allocated
                   ELSE Call(key, WithCount(base, c)) /\ UNCHANGED document

NameToRef(key) ==
    IF key \in DOMAIN allocated THEN UNCHANGED naming ELSE AllocateName(key)

(* What is met in a type: type_to_schema gives what is referred to a name,   *)
(* however deep it is, and queues for `any`; populate_properties,            *)
(* decl_tuple_to_schema and channel_to_content queue for a name as well, but *)
(* only for one that is the type itself.                                     *)
Mention(k, key, queued) == [k |-> k, key |-> key, queued |-> queued]
InSchema(t) ==
    IF t.k = "any" THEN Mention("any", AnyKey, <<Item("any", AnyKey, 0)>>) ELSE Mention(t.k, t.key, <<>>)
InObject(t) ==
    IF t.k = "name" /\ t.depth = 0 THEN Mention("name", t.key, <<Item("named", t.key, 0)>>)
    ELSE InSchema(t)
InSchemas(types) == [i \in DOMAIN types |-> InSchema(types[i])]
InObjects(types) == [i \in DOMAIN types |-> InObject(types[i])]

DocBuilding == document = "building"
DocIdle == DocBuilding /\ subject = <<>> /\ mentions = <<>>

(* An endpoint of SpecBuilder::build: one without a path is left out.        *)
Describe ==
    /\ DocIdle /\ todo # <<>>
    /\ todo' = Tail(todo)
    /\ LET e == Head(todo)
       IN  mentions' = IF e.path THEN <<InSchemas(e.vars) \o InObjects(e.bodies)>> ELSE <<>>
    /\ UNCHANGED <<items, processed, subject, components, naming>>

Refer ==
    /\ DocBuilding /\ mentions # <<>>
    /\ LET types == Head(mentions)
       IN  IF types = <<>>
           THEN mentions' = Tail(mentions) /\ UNCHANGED <<items, naming>>
           ELSE /\ mentions' = <<Tail(types)>> \o Tail(mentions)
                /\ items' = items \o Head(types).queued
                /\ IF Head(types).k = "other" THEN UNCHANGED naming ELSE NameToRef(Head(types).key)
    /\ UNCHANGED <<todo, processed, subject, components>>

-----------------------------------------------------------------------------
(* What is met in a declaration (decl_type_to_schema and the like): a tagged *)
(* interface refers to its sub-types, and queues for them.                   *)
MetIn(name) ==
    LET d == Declared[name]
        queued(i) == <<Item("sub", Local(name), i)>>
    IN  CASE d.kind \in {"type", "tuple"} -> <<InObjects(d.fields)>>
          [] d.kind = "untagged" -> [i \in DOMAIN d.subs |-> InObjects(d.fields \o d.subs[i].fields)]
          [] d.kind = "tagged" ->
                <<[i \in DOMAIN d.subs |-> Mention("name", Local(d.subs[i].name), queued(i))]>>
          [] OTHER -> <<>>

SubTypeOf(item) == Declared[item.key.name].subs[item.index]
ComponentKey(item) == IF item.k = "sub" THEN Local(SubTypeOf(item).name) ELSE item.key

(* What is met for an item, and that its component has a name, before.       *)
MetFor(item) ==
    <<<<Mention("name", ComponentKey(item), <<>>)>>>>
    \o CASE item.k = "named" -> MetIn(item.key.name)
         [] item.k = "sub" -> <<InObjects(Declared[item.key.name].fields \o SubTypeOf(item).fields)>>
         [] OTHER -> <<>>

(* process_components: a name that has no declaration of its own, as that of *)
(* a sub-type, is an error, and a service gets no component.                 *)
Process ==
    /\ DocIdle /\ todo = <<>> /\ items # <<>>
    /\ items' = Tail(items)
    /\ processed' = processed \cup {Head(items)}
    /\ LET item == Head(items)
       IN  IF item \in processed THEN UNCHANGED <<subject, mentions, document>>
           ELSE IF item.k = "named" /\ item.key.name \notin DOMAIN Declared
           THEN document' = "refused" /\ UNCHANGED <<subject, mentions>>
           ELSE subject' = <<item>> /\ mentions' = MetFor(item) /\ UNCHANGED document
    /\ UNCHANGED <<todo, allocated, counters, components>>

IsService(item) == item.k = "named" /\ Declared[item.key.name].kind = "service"

AddComponent ==
    /\ DocBuilding /\ subject # <<>> /\ mentions = <<>>
    /\ LET key == ComponentKey(Head(subject))
       IN  components' = IF IsService(Head(subject)) THEN components
                         ELSE With(components, allocated[key], key)
    /\ subject' = <<>>
    /\ UNCHANGED <<todo, items, processed, mentions, naming>>

Finish ==
    /\ DocIdle /\ todo = <<>> /\ items = <<>>
    /\ document' = "written"
    /\ UNCHANGED <<todo, items, processed, subject, mentions, allocated, counters, components>>

DocNext == Describe \/ Refer \/ Process \/ AddComponent \/ Finish

DocSpec == DocInit /\ [][DocNext]_docVars
-----------------------------------------------------------------------------
(* Nothing in a document leads to a component of something else, and what is *)
(* queued for is there, the sub-types of an interface among it.  Only names  *)
(* that are met in arrays, maps and variables of paths lead nowhere, and     *)
(* those of services.  A document is refused for a reason: a sub-type is     *)
(* referred to as a type, a name that was numbered once is wanted again,     *)
(* since the counter gives the first number twice, or another name reads     *)
(* like a numbered one.                                                      *)
Resolved ==
    /\ \A c \in DOMAIN components : allocated[components[c]] = c
    /\ \A k, l \in DOMAIN allocated : allocated[k] = allocated[l] => k = l
    /\ document = "written" =>
          \A i \in processed : ~IsService(i) => allocated[ComponentKey(i)] \in DOMAIN components
    /\ document = "refused" =>
          \/ \E i \in processed : i.k = "named" /\ i.key.name \notin DOMAIN Declared
          \/ \E base \in DOMAIN counters : counters[base] > 0
          \/ \E base \in DOMAIN counters, k \in DOMAIN allocated :
                /\ allocated[k] \in {k.name.path, Packaged(k.name)}
                /\ allocated[k] = WithCount(base, 0)
=============================================================================
