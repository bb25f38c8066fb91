------------------------------ MODULE MCAttempt ------------------------------
(* Instances of Attempt for TLC. *)
EXTENDS Attempt, TLC

Plain(calls) == [form |-> "expression", oneLine |-> TRUE, keyword |-> FALSE,
                 calls |-> calls]
Texts == [form : Forms, oneLine : BOOLEAN, keyword : BOOLEAN, calls : {0}]

Base == [type |-> "http", url |-> TRUE, plain |-> FALSE, verifyTLS |-> "unset",
         literal |-> "absent", codes |-> {}, headers |-> <<>>,
         format |-> "none", scripted |-> FALSE, script |-> Plain(0),
         maxBody |-> 0]

\* What is expected of an HTTP response varies ... A header ETag is received
\* as Etag, the canonical form of Go, under which one may also expect it.
Expectations ==
    {[Base EXCEPT !.literal = l[1], !.codes = l[2], !.headers = h,
                  !.format = f[1], !.scripted = f[2]] :
        l \in {<<"absent", {}>>, <<"null", {}>>, <<"number", {404}>>,
               <<"array", {}>>, <<"array", {299, 404}>>},
        h \in {<<>>, "Content-Type" :> "a",
               ("Content-Type" :> "a") @@ ("Etag" :> "a")},
        f \in {<<"none", FALSE>>} \cup (Formats \X {TRUE})}
    \cup {[Base EXCEPT !.headers = "ETag" :> "a"]}

\* ... or the connection ...
Connections ==
    {[Base EXCEPT !.type = t, !.url = u, !.plain = p, !.verifyTLS = v] :
        t \in {"http", "grpc"}, u \in BOOLEAN, p \in BOOLEAN,
        v \in {"unset", "true", "false"}}

\* ... or the script ...
Scripts ==
    {[Base EXCEPT !.type = t[1], !.format = t[2], !.scripted = TRUE,
                  !.script = s] :
        t \in {<<"http", "json">>, <<"http", "xml">>, <<"kafka", "json">>,
               <<"starlark", "none">>}, s \in Texts}

\* ... or what it may fetch.
Fetches ==
    {[Base EXCEPT !.type = "starlark", !.scripted = TRUE, !.script = Plain(2),
                  !.maxBody = m] : m \in 0 .. MaxInt}

MCConfigs == Expectations \cup Connections \cup Scripts \cup Fetches

\* Nothing is wrong with a call, one thing, or two.
MCFaults == {{}, {"scheme", "body"}} \cup {{d} : d \in Defects}

Passing == [kind |-> "dict", valid |-> "unset", healthy |-> "true"]

MCResponses ==
    [peer : {"trusted"}, status : {299, 300, 404},
     headers : {<<>>, "Content-Type" :> <<"a", "b">>,
                ("Content-Type" :> <<"b", "a">>) @@ ("Etag" :> <<"a">>)},
     parses : {TRUE}, body : {Passing}, serving : {TRUE}]
    \cup [peer : Peers, status : {200}, headers : {<<>>}, parses : BOOLEAN,
          body : {Passing}, serving : BOOLEAN]
=============================================================================
