------------------------------- MODULE Services -------------------------------
(***************************************************************************)
(* Services over HTTP: what a declared service must satisfy (lib/trans),   *)
(* how the paths of its endpoints are read (lib/path-lexer, lib/path-      *)
(* parser), the operations its OpenAPI document has, and the calls that    *)
(* the generated clients make of a server that follows the document:       *)
(* backend-rust's `reqwest` and backend-python's `requests`.  A text is a  *)
(* sequence of characters; on the wire a character that is neither a       *)
(* letter nor a digit is escaped.                                          *)
(***************************************************************************)
EXTENDS Integers, FiniteSets, SequencesExt

CONSTANTS
    Offered,   \* services, as sequences of endpoints
    Argument,  \* texts that an argument may be
    BasePath,  \* paths of the URLs that a service may be served at
    Percent    \* what is written for each character that is escaped

VARIABLES
    service,  \* the endpoints as declared, and as modelled once accepted
    served,   \* "declared", "refused", or the state of the one call
    asked,    \* the call that the program makes: client, endpoint, arguments
    sent,     \* the request that leaves the client
    heard,    \* what the server can take the request for
    reply,    \* what it answers
    returned  \* what the client makes of it: a "value", nothing, an "error"

serviceVars == <<service, served, asked, sent, heard, reply, returned>>

Nothing == [k |-> "nothing"]
-----------------------------------------------------------------------------
(* Reading a path: PathLexer, which is in a variable between braces, and     *)
(* the grammar.  A segment is what has no slash or variable in it; the four  *)
(* special characters are a part of one after a backslash.                   *)
Special == {"/", "{", "}", "\\"}
Letters == {"a", "b"}
Numerals == {"1"}
Unescaped == Letters \cup Numerals
Char == Unescaped \cup DOMAIN Percent

(* Characters that are escaped differ still, and none becomes another: the   *)
(* percent sign is not one that a text has of its own.                       *)
ASSUME ServiceAssumption ==
    /\ Special \subseteq DOMAIN Percent /\ Unescaped \cap DOMAIN Percent = {}
    /\ \A c \in DOMAIN Percent : Percent[c] \notin Char
    /\ \A c, d \in DOMAIN Percent : Percent[c] = Percent[d] => c = d
    /\ Argument \subseteq Seq(Char)
    /\ Offered \subseteq
          Seq([id : STRING, name : STRING,
               args : Seq([name : Seq(Char), type : STRING, stream : BOOLEAN]),
               response : Seq([type : STRING, stream : BOOLEAN]),
               http : Seq([path : Seq(Seq(Char)), method : STRING, accept : STRING])])

PathToken(k, t) == [k |-> k, text |-> t]
Lexed == [tokens |-> <<>>, buffer |-> <<>>, variable |-> FALSE, escaped |-> FALSE, ok |-> TRUE]
Unexpected(l) == [l EXCEPT !.ok = FALSE]
Buffered(l, c) == [l EXCEPT !.buffer = Append(@, c), !.escaped = FALSE]
Flushed(l) ==
    IF l.buffer = <<>> THEN l
    ELSE [l EXCEPT !.tokens = Append(@, PathToken("segment", l.buffer)), !.buffer = <<>>]
Naming(l) == l.tokens # <<>> /\ Last(l.tokens).k = "identifier" /\ l.buffer = <<>>
Identified(l, c) ==
    IF Naming(l) THEN [l EXCEPT !.tokens[Len(l.tokens)].text = Append(@, c)]
    ELSE [l EXCEPT !.tokens = Append(@, PathToken("identifier", <<c>>))]
Punctuated(l, c, inside) ==
    [Flushed(l) EXCEPT !.tokens = Append(@, PathToken(c, <<c>>)), !.variable = inside]

LexChar(l, c) ==
    CASE ~l.ok -> l
      [] l.ok /\ l.escaped -> IF c \in Special THEN Buffered(l, c) ELSE Unexpected(l)
      [] l.ok /\ ~l.escaped ->
            CASE c = "\\" -> [l EXCEPT !.escaped = TRUE]
              [] c = "/" -> Punctuated(l, c, l.variable)
              [] c = "{" /\ ~l.variable -> Punctuated(l, c, TRUE)
              [] c = "}" /\ l.variable -> Punctuated(l, c, FALSE)
              [] c \notin Special /\ ~l.variable -> Buffered(l, c)
              [] c \in Letters /\ l.variable -> Identified(l, c)
              [] c \in Numerals /\ l.variable /\ Naming(l) -> Identified(l, c)
              [] OTHER -> Unexpected(l)

LexPath(t) ==
    LET lexed[i \in 0..Len(t)] == IF i = 0 THEN Lexed ELSE LexChar(lexed[i - 1], t[i])
    IN  Flushed(lexed[Len(t)])

(* Steps of at least one part, or a slash by itself.  A path is kept as its  *)
(* parts one after the other, with a slash where a step starts.              *)
PathPart(k, t) == [k |-> k, text |-> t]
Unparsed == [path |-> <<>>, want |-> "part"]
Opened(p) == p.path # <<>> /\ Last(p.path).k = "/"

ParseToken(p, t) ==
    CASE p.want = "part" /\ t.k = "/" /\ ~Opened(p) ->
            [p EXCEPT !.path = Append(@, PathPart("/", t.text))]
      [] p.want = "part" /\ t.k = "segment" /\ p.path # <<>> ->
            [p EXCEPT !.path = Append(@, PathPart("segment", t.text))]
      [] p.want = "part" /\ t.k = "{" /\ p.path # <<>> -> [p EXCEPT !.want = "name"]
      [] p.want = "name" /\ t.k = "identifier" ->
            [p EXCEPT !.path = Append(@, PathPart("variable", t.text)), !.want = "close"]
      [] p.want = "close" /\ t.k = "}" -> [p EXCEPT !.want = "part"]
      [] OTHER -> [p EXCEPT !.want = "error"]

ParsePath(tokens) ==
    LET parsed[i \in 0..Len(tokens)] ==
            IF i = 0 THEN Unparsed ELSE ParseToken(parsed[i - 1], tokens[i])
    IN  parsed[Len(tokens)]

ReadPath(t) ==
    LET l == LexPath(t)
        p == ParsePath(l.tokens)
    IN  IF ~l.ok \/ l.escaped \/ p.want # "part" THEN {}
        ELSE IF ~Opened(p) THEN {p.path}
        ELSE IF Len(p.path) = 1 THEN {<<>>} ELSE {}
-----------------------------------------------------------------------------
(* The model of an endpoint: none, or one.  Each variable of the path takes  *)
(* an argument away; the first argument is the request, unless the path took *)
(* all of them.                                                              *)
NamesOf(e) == [i \in DOMAIN e.args |-> e.args[i].name]
VariablesAt(path) == {i \in DOMAIN path : path[i].k = "variable"}
VariablesIn(path) == {path[i].text : i \in VariablesAt(path)}

PathBinds(path, e) ==
    /\ \A i, j \in VariablesAt(path) : path[i].text = path[j].text => i = j
    /\ VariablesIn(path) \subseteq ToSet(NamesOf(e))

MethodsKnown == {"GET", "POST", "PUT", "UPDATE", "DELETE", "PATCH", "HEAD"}

(* Text answers are for strings. *)
AcceptFits(accept, e) ==
    /\ accept \in {"json", "text"}
    /\ accept = "text" => \A i \in DOMAIN e.response : e.response[i].type = "string"

Remaining(path, e) == {a \in ToSet(e.args) : a.name \notin VariablesIn(path)}

RequestOf(path, e) == IF Remaining(path, e) = {} THEN <<>> ELSE <<Head(e.args)>>

(* All arguments are used, in the path or as the request. *)
AllUsed(path, e) == \A a \in Remaining(path, e) : a = Head(e.args)

Modelled(e, path, method, accept, request) ==
    [id |-> e.id, name |-> e.name, args |-> e.args, response |-> e.response,
     path |-> path, method |-> method, accept |-> accept, request |-> request]

ModelEndpoint(e) ==
    IF ~IsInjective(NamesOf(e)) THEN {}
    ELSE IF e.http = <<>>
    THEN {Modelled(e, <<>>, "GET", "json", IF e.args = <<>> THEN <<>> ELSE <<Head(e.args)>>)}
    ELSE LET h == e.http[1]
             paths == IF h.path = <<>> THEN {<<>>} ELSE {<<p>> : p \in ReadPath(h.path[1])}
             steps(p) == IF p = <<>> THEN <<>> ELSE p[1]
         IN  {Modelled(e, p, h.method, h.accept, RequestOf(steps(p), e)) :
                 p \in {p \in paths :
                           /\ PathBinds(steps(p), e) /\ AllUsed(steps(p), e)
                           /\ h.method \in MethodsKnown /\ AcceptFits(h.accept, e)}}

(* Idents and names of endpoints are unique. *)
ServiceAccepted(s) ==
    /\ \A i \in DOMAIN s : ModelEndpoint(s[i]) # {}
    /\ IsInjective([i \in DOMAIN s |-> s[i].id]) /\ IsInjective([i \in DOMAIN s |-> s[i].name])

ModelService(s) == [i \in DOMAIN s |-> CHOOSE e \in ModelEndpoint(s[i]) : TRUE]
-----------------------------------------------------------------------------
(* Clients.  A path is written with a slash before each step; backend-rust   *)
(* escapes variables, and lets Url::join put the path in the place of the    *)
(* one that its URL has.                                                     *)
Escape(t) == [i \in DOMAIN t |-> IF t[i] \in Unescaped THEN t[i] ELSE Percent[t[i]]]

Pieces(path, bound) ==
    [i \in DOMAIN path |->
        IF path[i].k = "variable" THEN bound[path[i].text] ELSE path[i].text]
PathText(path, bound) == FlattenSeq(Pieces(path, bound))
Escaped(args) == [x \in DOMAIN args |-> Escape(args[x])]

UrlJoin(base, t) ==
    CASE t = <<>> -> [host |-> "server", path |-> base]
      [] Len(t) > 1 /\ t[1] = "/" /\ t[2] = "/" -> [host |-> "elsewhere", path |-> <<>>]
      [] OTHER -> [host |-> "server", path |-> t]

(* An endpoint over HTTP/1.1 has a path and no streams. *)
Unary(e) ==
    /\ e.path # <<>>
    /\ \A i \in DOMAIN e.request : ~e.request[i].stream
    /\ \A i \in DOMAIN e.response : ~e.response[i].stream

(* What rustc accepts: `reqwest::Method::UPDATE` does not exist, and only    *)
(* texts can be put into a path.                                             *)
RustCompiles(s) ==
    \A e \in {s[i] : i \in {i \in DOMAIN s : Unary(s[i])}} :
        /\ e.method # "UPDATE"
        /\ \A i \in DOMAIN e.args :
              e.args[i].name \in VariablesIn(e.path[1]) => e.args[i].type = "string"

BodyOf(e, args) == [i \in DOMAIN e.request |-> args[e.request[i].name]]

RustPath_Raw(e, args) == PathText(e.path[1], args)

RustPath(e, args) == PathText(e.path[1], Escaped(args))

RustRequest(e, args, base) ==
    [method |-> e.method, url |-> UrlJoin(base, RustPath(e, args)), body |-> BodyOf(e, args)]

(* backend-python joins the pieces of the path, slashes among them, with     *)
(* slashes, and never has a body; it writes its parameters one after the     *)
(* other, so that two of them are one.                                       *)
Slashed(pieces) ==
    FlattenSeq([i \in DOMAIN pieces |-> IF i = 1 THEN pieces[1] ELSE <<"/">> \o pieces[i]])
PythonRequest(e, args, base) ==
    [method |-> e.method,
     url |-> [host |-> "server", path |-> Slashed(<<base>> \o Pieces(e.path[1], args))],
     body |-> <<>>]
-----------------------------------------------------------------------------
(* The document: under a path and a method it has the parameters of all the  *)
(* endpoints that have them, the last body that one had, and the rest from   *)
(* the last.  A server that follows it hears, in a request, an operation     *)
(* and a text for each of its variables.                                     *)
Documented(s) == {i \in DOMAIN s : s[i].path # <<>>}
DocumentPath(e) ==
    PathText(e.path[1], [x \in VariablesIn(e.path[1]) |-> <<"{">> \o x \o <<"}">>])
Shares(s, i) ==
    {j \in Documented(s) : DocumentPath(s[i]) = DocumentPath(s[j]) /\ s[i].method = s[j].method}

(* A special character of a segment is not escaped again, in the document    *)
(* or on the wire. *)
Legible(e) ==
    \A i \in DOMAIN e.path[1] :
        e.path[1][i].k = "segment" => ToSet(e.path[1][i].text) \cap Special = {}

Expected(e, args) == PathText(e.path[1], Escaped(args))

HeardAs(s, i, request, base) ==
    LET e == s[i]
        bindings == [VariablesIn(e.path[1]) -> Argument]
        bodiless == \A j \in Shares(s, i) : s[j].request = <<>>
    IN  {[id |-> e.id, args |-> b, body |-> request.body] :
            b \in {b \in bindings :
                      /\ \A j \in Shares(s, i) : j <= i
                      /\ Legible(e) /\ request.method = e.method
                      /\ request.url = [host |-> "server", path |-> base \o Expected(e, b)]
                      /\ (request.body = <<>>) = bodiless}}
-----------------------------------------------------------------------------
ServiceInit ==
    /\ service \in Offered
    /\ served = "declared"
    /\ asked = Nothing /\ sent = Nothing /\ heard = {}
    /\ reply = Nothing /\ returned = Nothing

(* Item<ServiceBody>::into_model. *)
Accept ==
    /\ served = "declared"
    /\ IF ServiceAccepted(service)
       THEN served' = "accepted" /\ service' = ModelService(service)
       ELSE served' = "refused" /\ UNCHANGED service
    /\ UNCHANGED <<asked, sent, heard, reply, returned>>

ArgumentsOf(e) == [ToSet(NamesOf(e)) -> Argument]

CallEndpoint(i, client, args, base) ==
    LET e == service[i]
    IN  /\ served = "accepted"
        /\ asked' = [client |-> client, endpoint |-> i, args |-> args, base |-> base]
        /\ CASE client = "rust" /\ Unary(e) /\ RustCompiles(service) ->
                   sent' = RustRequest(e, args, base) /\ served' = "sent"
             [] client = "python" /\ e.path # <<>> /\ Len(e.args) <= 1 ->
                   sent' = PythonRequest(e, args, base) /\ served' = "sent"
             [] OTHER -> served' = "impossible" /\ UNCHANGED sent
        /\ UNCHANGED <<service, heard, reply, returned>>

Hear ==
    /\ served = "sent"
    /\ heard' = UNION {HeardAs(service, i, sent, asked.base) : i \in Documented(service)}
    /\ served' = "heard"
    /\ UNCHANGED <<service, asked, sent, reply, returned>>

(* What the document says for 200, or a failure with some body. *)
AnswerCall(ok, kind) ==
    LET e == service[asked.endpoint]
    IN  /\ served = "heard"
        /\ ok => heard # {} /\ kind = (IF e.response = <<>> \/ e.method = "HEAD" THEN "none" ELSE e.accept)
        /\ reply' = [k |-> "reply", ok |-> ok, kind |-> kind]
        /\ served' = "replied"
        /\ UNCHANGED <<service, asked, sent, heard, returned>>

(* backend-rust does not look at the status, and reads JSON whatever is      *)
(* accepted; backend-python raises for the status first.  The body of a      *)
(* failure may or may not be what is expected of an answer.                  *)
ReturnValue(readable) ==
    LET e == service[asked.endpoint]
        looks == asked.client = "python"
    IN  /\ served = "replied"
        /\ readable => reply.kind = "json"
        /\ reply.ok /\ reply.kind = "json" => readable
        /\ returned' = CASE looks /\ ~reply.ok -> [k |-> "error"]
                         [] e.response = <<>> /\ (looks => reply.ok) -> Nothing
                         [] OTHER -> [k |-> IF readable \/ (looks /\ e.accept = "text")
                                            THEN "value" ELSE "error"]
        /\ served' = "returned"
        /\ UNCHANGED <<service, asked, sent, heard, reply>>

ServiceNext ==
    \/ Accept
    \/ /\ served = "accepted"
       /\ \E i \in DOMAIN service, client \in {"rust", "python"}, base \in BasePath :
             \E args \in ArgumentsOf(service[i]) : CallEndpoint(i, client, args, base)
    \/ Hear
    \/ \E ok \in BOOLEAN, kind \in {"json", "text", "none"} : AnswerCall(ok, kind)
    \/ \E readable \in BOOLEAN : ReturnValue(readable)

ServiceSpec == ServiceInit /\ [][ServiceNext]_serviceVars
-----------------------------------------------------------------------------
(* What the clients and the document leave to whoever declares the service:  *)
(* a server at the root of its host, after each variable of a path that does *)
(* not end it a slash, or a segment with something that no escaped text has, *)
(* no special characters in segments, no two endpoints with one path, and no *)
(* empty text in a path.                                                     *)
Separated(e) ==
    \A i \in VariablesAt(e.path[1]) :
        i < Len(e.path[1]) =>
            /\ e.path[1][i + 1].k # "variable"
            /\ ~(ToSet(e.path[1][i + 1].text) \subseteq Unescaped)

Sound(i) ==
    LET e == service[i]
    IN  /\ Separated(e) /\ Legible(e) /\ Shares(service, i) = {i}
        /\ asked.base = <<>> /\ \A x \in VariablesIn(e.path[1]) : asked.args[x] # <<>>

(* Each argument of the call is in one place, and with its value. *)
Carries(h, e, args) ==
    /\ h.id = e.id
    /\ ToSet(NamesOf(e)) = DOMAIN h.args \cup {e.request[i].name : i \in DOMAIN e.request}
    /\ DOMAIN h.args \cap {e.request[i].name : i \in DOMAIN e.request} = {}
    /\ \A x \in DOMAIN h.args : h.args[x] = args[x]
    /\ \A i \in DOMAIN e.request : h.body = <<args[e.request[i].name]>>

(* A call that a program makes through the client of backend-rust reaches    *)
(* the endpoint it is for, each argument of it exactly once and as it was    *)
(* given, and cannot be heard as another call of that endpoint; and a JSON   *)
(* answer to it becomes the value that the client returns.                   *)
Called ==
    asked # Nothing /\ served \in {"heard", "replied", "returned"} /\ asked.client = "rust"
        /\ Sound(asked.endpoint) =>
        LET e == service[asked.endpoint]
        IN  /\ \E h \in heard : Carries(h, e, asked.args)
            /\ \A h \in heard : h.id = e.id => Carries(h, e, asked.args)
            /\ served = "returned" /\ reply.ok /\ e.accept = "json" /\ e.method # "HEAD" =>
                   returned = IF e.response = <<>> THEN Nothing ELSE [k |-> "value"]

(* doc/spec.md:809: the path of its attribute is the one an endpoint uses;   *)
(* it/structures/python2/python_requests-default/test.py has the pieces of a *)
(* path joined as they are.                                                  *)
Reached ==
    /\ served = "heard" /\ asked.client = "python" /\ Sound(asked.endpoint)
    /\ \A x \in DOMAIN asked.args : ToSet(asked.args[x]) \subseteq Unescaped
    => heard # {}
=============================================================================
