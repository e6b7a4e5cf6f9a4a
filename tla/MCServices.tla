------------------------------ MODULE MCServices ------------------------------
(* Services: one endpoint with every path and with every form, and two of    *)
(* them that share a method, a path or a name.                               *)
EXTENDS Services

Slash == <<"/">>
Var(x) == <<"{", x, "}">>
StepTexts ==
    {Slash \o t : t \in {<<"a">>, Var("a"), <<"a", "-">> \o Var("a"), Var("a") \o Var("b"),
                         Var("a") \o <<"-">> \o Var("b"), <<"\\", "/", "b">>,
                         <<"\\", "{", "a", "\\", "}">>}}
PathTexts ==
    {<<>>, Slash, <<"a">>, Slash \o Slash, <<"/", "{", "}">>, <<"/", "{", "1", "}">>, <<"/", "{", "b", "1", "}">>, <<"/", "a", "}">>,
     <<"/", "{", "a">>, <<"/", "{", "a", "/", "}">>, <<"/", "{", "a", "\\", "/", "}">>, <<"/", "\\", "a">>,
     <<"/", "\\">>, Var("a"), <<"/", "{", "{", "a", "}", "}">>}
    \cup StepTexts \cup {s \o t : s, t \in StepTexts} \cup {s \o Slash : s \in StepTexts}

Arg(x, type, stream) == [name |-> <<x>>, type |-> type, stream |-> stream]
SA == Arg("a", "string", FALSE)
SB == Arg("b", "string", FALSE)
SB1 == [SB EXCEPT !.name = <<"b", "1">>]
ArgLists == {<<>>, <<SA>>, <<SB>>, <<SA, SB>>, <<SB, SA>>, <<SA, SA>>, <<SB1>>}
OddLists == {<<Arg("a", "list", FALSE)>>, <<Arg("b", "list", FALSE), SA>>, <<Arg("b", "string", TRUE), SA>>}
Channels == {<<>>} \cup {<<[type |-> t, stream |-> s]>> : t \in {"string", "name"}, s \in BOOLEAN}
Http(path, method, accept) == <<[path |-> path, method |-> method, accept |-> accept]>>
Declare(id, name, args, response, http) ==
    [id |-> id, name |-> name, args |-> args, response |-> response, http |-> http]
ByPath ==
    {<<Declare("f", "f", args, <<>>, Http(path, "GET", "json"))>> :
        args \in ArgLists, path \in {<<p>> : p \in PathTexts} \cup {<<>>}}
ByForm ==
    {<<Declare("f", "f", args, response, http)>> :
        args \in {<<>>, <<SA>>, <<SB, SA>>} \cup OddLists, response \in Channels,
        http \in {<<>>} \cup {Http(<<Slash \o Var("a")>>, m, x) :
                                 m \in {"POST", "UPDATE", "HEAD", "FETCH"}, x \in {"json", "text", "xml"}}}
Few(id, name) ==
    {Declare(id, name, args, <<>>, Http(<<path>>, m, "json")) :
        args \in {<<>>, <<SA>>}, path \in {Slash \o <<"a">>, Slash \o Var("a")}, m \in {"GET", "PUT"}}
Pairs ==
    UNION {{<<e, f>> : e \in Few("f", "f"), f \in Few(i, n)} : i \in {"f", "g"}, n \in {"f", "g"}}
TheOffered == ByPath \cup ByForm \cup Pairs
TheArguments == {<<>>, <<"a">>, <<"-">>, <<"/", "b">>}
TheBases == {<<>>, <<"/", "a">>}
ThePercent == [c \in Special \cup {"-"} |-> "%" \o c]
=============================================================================
