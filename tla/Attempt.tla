------------------------------- MODULE Attempt -------------------------------
(***************************************************************************)
(* One attempt of a check, from executeOnce to its result: the HTTP        *)
(* checker (http.go), the gRPC checker (grpc.go), the Starlark checker     *)
(* (starlark.go), and the assertion of a Kafka check (kafka.go), with the  *)
(* scripts of StarlarkEval. Scheduler knows an attempt only by its verdict.*)
(*                                                                         *)
(* The context of the execution may expire between any two steps. Steps    *)
(* that run without waiting are separate where a `return` separates them.  *)
(***************************************************************************)
EXTENDS StarlarkEval, Sequences

CONSTANTS
    Configs,         \* configurations of the check
    Responses,       \* what servers and messages may be like
    BodyLengths,     \* lengths of the bodies that http_request reads
    Canonical,       \* names of headers in the form that Go gives to them
    MaxRedirects,    \* redirects that http.Client follows: 10
    DefaultMaxBody,  \* 10 MB
    None             \* no response

Types    == {"http", "grpc", "starlark", "kafka"}
Peers    == {"plain", "trusted", "selfSigned"}
Formats  == {"none", "json", "xml", "unknown"}
Literals == {"absent", "null", "number", "array"}
Reasons  == {"undecided", "malformed", "transport", "unread", "status",
             "headers", "format", "expired", "script", "verdict", "rpc", "passed"}

\* A configuration: `url` is well formed, `plain` is http:// or `plaintext`,
\* `verifyTLS` a pointer to a boolean, `codes` the JSON of `status_code`.
\* A script tells how it is read, and how often it calls http_request.
IsConfig(c) ==
    /\ c.type \in Types
    /\ c.url \in BOOLEAN /\ c.plain \in BOOLEAN
    /\ c.verifyTLS \in {"unset", "true", "false"}
    /\ c.literal \in Literals /\ c.codes \subseteq Int
    /\ c.format \in Formats
    /\ c.scripted \in BOOLEAN
    /\ c.script.form \in Forms
    /\ c.script.oneLine \in BOOLEAN /\ c.script.keyword \in BOOLEAN
    /\ c.script.calls \in Nat
    /\ c.maxBody \in 0 .. MaxInt

\* A response: `headers` by the canonical name that the client files them
\* under, each with all its values, `body` as the format's parser sees it,
\* `serving` the status of the gRPC service.
ASSUME AttemptAssumption ==
    /\ \A c \in Configs : IsConfig(c)
    /\ \A c \in Configs : c.type \in {"starlark", "kafka"} => c.scripted
    /\ \A c \in Configs : c.type = "grpc" => ~c.scripted
    /\ \A r \in Responses : /\ r.peer \in Peers
                            /\ r.status \in Nat \ {0}
                            /\ r.parses \in BOOLEAN
                            /\ r.body \in Results
                            /\ r.serving \in BOOLEAN
                            /\ DOMAIN r.headers \subseteq Canonical
    /\ MaxRedirects \in Nat
    /\ BodyLengths \subseteq Nat
    /\ DefaultMaxBody \in 1 .. MaxInt - 1
    /\ None \notin Responses

VARIABLES
    config,    \* the check
    plain,     \* the request under way goes over http:// or `plaintext`
    redirects, \* redirects that have been followed
    stage,     \* how far the attempt has come
    expired,   \* the context of the execution has expired
    late,      \* observer: it had when the attempt began
    response,  \* what was received
    left,      \* the globals that the script has left
    answers,   \* what http_request answered, with the circumstances
    healthy,   \* result.Healthy
    reason,    \* result.Message, by the place that wrote it
    error,     \* result.Error is set
    details,   \* result.HTTPResult or GRPCResult is set
    counted    \* RecordCheckAttempt calls, by label

request == <<plain, redirects>>
script  == <<left, answers>>
result  == <<healthy, reason, error, details>>
vars    == <<config, plain, redirects, stage, expired, late, response, left,
             answers, healthy, reason, error, details, counted>>

Stages == {"begin", "waiting", "reading", "status", "headers", "format",
           "script", "running", "done", "panicked"}
Ended  == {"done", "panicked"}

Init ==
    /\ config \in Configs
    /\ plain = config.plain
    /\ redirects = 0
    /\ stage = CASE config.type = "starlark" -> "script"
                 [] config.type = "kafka"    -> "format"
                 [] OTHER                    -> "begin"
    /\ expired \in BOOLEAN
    /\ late = expired
    /\ response \in IF config.type = "kafka" THEN Responses ELSE {None}
    /\ left = NoGlobals
    /\ answers = <<>>
    /\ healthy = FALSE
    /\ reason = "undecided"
    /\ error = FALSE
    /\ details = FALSE
    /\ counted = [success |-> 0, failure |-> 0]

-----------------------------------------------------------------------------

\* context.WithTimeout runs out.
Timeout ==
    /\ ~expired
    /\ stage \notin Ended
    /\ expired' = TRUE
    /\ UNCHANGED <<config, request, stage, late, response, script, result,
                   counted>>

\* The deferred RecordCheckAttempt; a Kafka check has none.
Count(ok) ==
    counted' = IF config.type = "kafka" THEN counted
               ELSE IF ok THEN [counted EXCEPT !.success = @ + 1]
               ELSE [counted EXCEPT !.failure = @ + 1]

\* executeOnce returns.
Return(ok, why, err) ==
    /\ stage' = "done"
    /\ healthy' = ok
    /\ reason' = why
    /\ error' = err
    /\ Count(ok)

\* Something below executeOnce panics while result.Healthy is still false.
Panic ==
    /\ stage \in {"waiting", "reading", "running"}
    /\ stage' = "panicked"
    /\ Count(FALSE)
    /\ UNCHANGED <<config, request, expired, late, response, script, result>>

-----------------------------------------------------------------------------
(* The request or RPC. *)

\* http.NewRequestWithContext or grpc.NewClient refuses the address.
Malformed ==
    /\ stage = "begin"
    /\ ~config.url
    /\ Return(FALSE, "malformed", TRUE)
    /\ UNCHANGED <<config, request, expired, late, response, script, details>>

\* client.Do or client.Check with an expired context.
SendRefused ==
    /\ stage = "begin"
    /\ config.url
    /\ expired
    /\ Return(FALSE, "transport", TRUE)
    /\ UNCHANGED <<config, request, expired, late, response, script, details>>

Send ==
    /\ stage = "begin"
    /\ config.url
    /\ ~expired
    /\ stage' = "waiting"
    /\ UNCHANGED <<config, request, expired, late, response, script, result,
                   counted>>

\* Mutant: the error of the call is set and not returned.
CallFails_GoesOn ==
    /\ stage = "waiting"
    /\ error' = TRUE
    /\ stage' = "reading"
    /\ UNCHANGED <<config, request, expired, late, response, script, healthy,
                   reason, details, counted>>

CallFails ==
    /\ stage = "waiting"
    /\ Return(FALSE, "transport", TRUE)
    /\ UNCHANGED <<config, request, expired, late, response, script, details>>

\* The peers that the client which the checker has chosen, or the connection
\* it has made, talks to. http.Client follows redirects, so that the scheme is
\* that of the last Location; the certificates are verified as before.
Connects(peer) ==
    IF plain THEN peer = "plain"
    ELSE peer = "trusted" \/ (peer = "selfSigned" /\ config.verifyTLS = "false")

\* A peer redirects client.Do to another URL, of either scheme. One redirect
\* too many, or to no URL, is an error of the call.
Redirect(scheme) ==
    /\ stage = "waiting"
    /\ config.type = "http"
    /\ redirects < MaxRedirects
    /\ plain' = (scheme = "http")
    /\ redirects' = redirects + 1
    /\ UNCHANGED <<config, stage, expired, late, response, script, result,
                   counted>>

\* client.Do has returned the header of the response.
Receive(r) ==
    /\ stage = "waiting"
    /\ config.type = "http"
    /\ Connects(r.peer)
    /\ response' = r
    /\ stage' = "reading"
    /\ UNCHANGED <<config, request, expired, late, script, result, counted>>

\* The health service has answered.
AnswerRPC(r) ==
    /\ stage = "waiting"
    /\ config.type = "grpc"
    /\ Connects(r.peer)
    /\ response' = r
    /\ details' = TRUE
    /\ Return(r.serving, "rpc", FALSE)
    /\ UNCHANGED <<config, request, expired, late, script>>

ReadFails ==
    /\ stage = "reading"
    /\ Return(FALSE, "unread", TRUE)
    /\ UNCHANGED <<config, request, expired, late, response, script, details>>

ReadBody ==
    /\ stage = "reading"
    /\ details' = TRUE
    /\ stage' = "status"
    /\ UNCHANGED <<config, request, expired, late, response, script, healthy,
                   reason, error, counted>>

-----------------------------------------------------------------------------
(* What is expected of an HTTP response. *)

\* StatusCodeMatcher.UnmarshalJSON: null is unmarshalled into an int.
Codes == IF config.literal = "null" THEN {0}
         ELSE IF config.literal = "absent" THEN {} ELSE config.codes

Matches(status) == IF Codes = {} THEN status \in 200 .. 299
                                 ELSE status \in Codes

\* Mutant: an expected header that is missing is passed over.
HeadersMatch_IfPresent(headers) ==
    \A n \in DOMAIN config.headers \cap DOMAIN headers :
        headers[n][1] = config.headers[n]

\* HTTPResult.Headers keeps the canonical names and the first value of each;
\* the expected names are looked up as they are written.
HeadersMatch(headers) ==
    \A n \in DOMAIN config.headers :
        n \in DOMAIN headers /\ headers[n][1] = config.headers[n]

JudgeStatus ==
    /\ stage = "status"
    /\ IF Matches(response.status)
       THEN stage' = "headers" /\ UNCHANGED <<healthy, reason, error, counted>>
       ELSE Return(FALSE, "status", FALSE)
    /\ UNCHANGED <<config, request, expired, late, response, script, details>>

JudgeHeaders ==
    /\ stage = "headers"
    /\ IF HeadersMatch(response.headers)
       THEN IF config.scripted
            THEN stage' = "format" /\ UNCHANGED <<healthy, reason, error, counted>>
            ELSE Return(TRUE, "passed", FALSE)
       ELSE Return(FALSE, "headers", FALSE)
    /\ UNCHANGED <<config, request, expired, late, response, script, details>>

-----------------------------------------------------------------------------
(* Scripts. *)

\* ParseResponseBody; a format it does not know yields None.
Parses == config.format \in {"json", "xml"} => response.parses

\* The parsed body, predeclared as `result`. Of XML nothing is kept.
Predeclared == IF response # None /\ config.format = "json"
               THEN response.body ELSE Absent

ParseBody ==
    /\ stage = "format"
    /\ IF Parses
       THEN stage' = "script" /\ UNCHANGED <<healthy, reason, error, counted>>
       ELSE Return(FALSE, "format", TRUE)
    /\ UNCHANGED <<config, request, expired, late, response, script, details>>

Asserting == config.type # "starlark"

\* Mutant: a check script runs although its context has expired.
StartScript_AnyContext ==
    /\ stage = "script"
    /\ stage' = "running"
    /\ UNCHANGED <<config, request, expired, late, response, script, result,
                   counted>>

\* The one look that is taken at the context, and the parser's.
StartScript ==
    /\ stage = "script"
    /\ IF expired THEN Return(FALSE, "expired", TRUE)
       ELSE IF Asserting /\ Misread(config.script)
       THEN Return(FALSE, "script", TRUE)
       ELSE stage' = "running" /\ UNCHANGED <<healthy, reason, error, counted>>
    /\ UNCHANGED <<config, request, expired, late, response, script, details>>

MaxBodyBytes == IF config.type # "starlark" \/ config.maxBody = 0
                THEN DefaultMaxBody ELSE config.maxBody

\* The script calls http_request; one that raises ends the script.
HTTPRequest(defects, reply) ==
    LET answer == DoHTTPRequest(defects, expired, MaxBodyBytes, reply)
    IN  /\ stage = "running"
        /\ Len(answers) < config.script.calls
        /\ answers' = Append(answers, [sent |-> reply, defects |-> defects,
                                       late |-> expired, answer |-> answer])
        /\ IF answer.error = "raised" THEN Return(FALSE, "script", TRUE)
           ELSE UNCHANGED <<stage, healthy, reason, error, counted>>
        /\ UNCHANGED <<config, request, expired, late, response, left,
                       details>>

\* The script raises, when it is executed or in check().
ScriptFails ==
    /\ stage = "running"
    /\ Return(FALSE, "script", TRUE)
    /\ UNCHANGED <<config, request, expired, late, response, script, details>>

\* The script ends and its globals decide.
ScriptEnds(g) ==
    LET verdict == IF Asserting THEN RunAssertionScript(Predeclared, g)
                                ELSE RunCheckScript(g)
    IN  /\ stage = "running"
        /\ left' = g
        /\ IF verdict = "error" THEN Return(FALSE, "script", TRUE)
           ELSE Return(verdict = "healthy", "verdict", FALSE)
        /\ UNCHANGED <<config, request, expired, late, response, answers,
                       details>>

-----------------------------------------------------------------------------

Transport ==
    \/ Malformed \/ SendRefused \/ Send \/ CallFails
    \/ \E scheme \in {"http", "https"} : Redirect(scheme)
    \/ \E r \in Responses : Receive(r) \/ AnswerRPC(r)
    \/ ReadFails \/ ReadBody

Judgement == JudgeStatus \/ JudgeHeaders \/ ParseBody

Scripting ==
    \/ StartScript
    \/ \E defects \in Faults, reply \in Replies(BodyLengths) :
         HTTPRequest(defects, reply)
    \/ ScriptFails
    \/ \E g \in Leaves(config.script, Asserting) : ScriptEnds(g)

\* The attempt is over.
Over == stage \in Ended /\ UNCHANGED vars

Next == Timeout \/ Panic \/ Transport \/ Judgement \/ Scripting \/ Over

Spec == Init /\ [][Next]_vars

-----------------------------------------------------------------------------

Calls == [sent : Replies(BodyLengths), defects : Faults, late : BOOLEAN,
          answer : [ok : BOOLEAN, body : Int, error : Errors]]

TypeOK ==
    /\ config \in Configs
    /\ plain \in BOOLEAN
    /\ redirects \in 0 .. MaxRedirects
    /\ stage \in Stages
    /\ expired \in BOOLEAN
    /\ late \in BOOLEAN
    /\ response \in Responses \cup {None}
    /\ (details \/ stage \in {"reading", "status", "headers"}) => response # None
    /\ left \in AssertionGlobals \cup CheckGlobals
    /\ answers \in Seq(Calls)
    /\ healthy \in BOOLEAN
    /\ reason \in Reasons
    /\ error \in BOOLEAN
    /\ details \in BOOLEAN
    /\ counted \in [success : Nat, failure : Nat]

\* What Scheduler builds on: an attempt that begins after the timeout of the
\* check fails without running a script, an attempt that ends is counted
\* once, as a success exactly when it is healthy, also when it panics, and a
\* healthy result carries no error (http.go:56-58, eval.go:34, 90).
AttemptContract ==
    /\ late => ~healthy /\ left = NoGlobals /\ answers = <<>>
    /\ healthy => stage = "done" /\ ~error
    /\ config.type # "kafka" =>
         counted = [success |-> IF stage = "done" /\ healthy THEN 1 ELSE 0,
                    failure |-> IF stage \in Ended /\ ~healthy THEN 1 ELSE 0]

\* The expectations that a configuration states about a response.
Unmet(r) ==
    (IF Matches(r.status) THEN {} ELSE {"status"})
    \cup {"headers" : n \in {n \in DOMAIN config.headers :
            \/ n \notin DOMAIN r.headers
            \/ r.headers[n][1] # config.headers[n]}}
    \cup (IF config.scripted /\ config.format \in {"json", "xml"} /\ ~r.parses
          THEN {"format"} ELSE {})

\* A response is judged only if its peer presented a certificate that the
\* configuration trusts, or none because the address, or the redirect that led
\* there, does not ask for one. A gRPC attempt passes exactly when the service
\* is serving. An HTTP response must meet every expectation: an unhealthy
\* result names the first that is not met, in the order status, headers,
\* format, script, and carries the details of what it judges (http.go:76-188,
\* grpc.go:51-88). Left to the code: the details of a response that was cut
\* off, and expected headers whose names are not canonical.
ExpectationsDecide ==
    stage = "done" =>
        /\ details =>
             /\ redirects = 0 => (config.plain <=> response.peer = "plain")
             /\ response.peer = "selfSigned" => config.verifyTLS = "false"
        /\ config.type = "grpc" =>
             healthy <=> details /\ response.serving
        /\ config.type = "http" =>
             /\ details => reason \notin {"malformed", "transport"}
             /\ reason \notin {"malformed", "transport", "unread"} => details
        /\ config.type = "http" /\ DOMAIN config.headers \subseteq Canonical =>
             /\ healthy => details /\ Unmet(response) = {}
             /\ details =>
                  LET unmet == Unmet(response)
                  IN  /\ reason = "status"  <=> "status" \in unmet
                      /\ reason = "headers" <=>
                            "headers" \in unmet /\ "status" \notin unmet
                      /\ reason = "format"  <=> unmet = {"format"}
                      /\ reason = "passed"  <=> unmet = {} /\ ~config.scripted

\* What a script can say about the verdict, the strongest statement first.
Statements(g) ==
    IF Asserting
    THEN <<g.result.valid, g.result.healthy, g.valid, g.healthy>>
    ELSE <<g.check.healthy, g.result.healthy, g.healthy>>

\* The first statement that is made.
Strongest(statements) ==
    LET made == {i \in DOMAIN statements : statements[i] # "unset"}
    IN  IF made = {} THEN "unset"
        ELSE statements[CHOOSE i \in made : \A j \in made : i <= j]

\* The verdict of a script that ended is its strongest statement: True is
\* healthy and all else is not; a script that says nothing fails an
\* assertion and passes a check. The parsed body, which the script finds
\* under the name `result`, says nothing by itself (eval.go:27-30, 51-61,
\* 79-87). Left to the code: an assertion with a check() function, an
\* expression whose value is no bool, a check script with a check() function or
\* a global `result` that has no verdict in it, or a `healthy` that is no bool.
ScriptSaysSo ==
    LET said == Strongest(Statements(left))
        unambiguous ==
          IF Asserting
          THEN /\ left.check.kind = "unset"
               /\ IsSimpleExpression(config.script) => left.valid # "other"
          ELSE /\ left.check.kind \in {"unset", "bool", "dict"}
               /\ left.check.kind = "dict" =>
                    left.check.healthy \in {"true", "false"}
               /\ left.result.kind # "other"
               /\ left.result.kind = "dict" => left.result.healthy # "unset"
               /\ left.healthy # "other"
    IN  reason = "verdict" /\ unambiguous =>
            healthy <=> said = "true" \/ (said = "unset" /\ ~Asserting)

\* http_request answers without an error only with the whole body of a
\* response within the limit, never once the context has expired; a cut body
\* is marked, and no error comes with a status code but that mark. The last
\* int64 is left out: its limit wraps, see the README (http_client.go:55-128).
AnswersHonest ==
    MaxBodyBytes < MaxInt =>
        \A i \in DOMAIN answers :
            LET a == answers[i]
            IN  /\ a.answer.error = "none" =>
                     /\ ~a.late /\ a.defects = {} /\ a.sent.kind = "response"
                     /\ a.answer.body = a.sent.length
                     /\ a.sent.length <= MaxBodyBytes
                /\ a.answer.error = "truncated" =>
                     a.sent.length > MaxBodyBytes /\ a.answer.body = MaxBodyBytes
                /\ a.answer.ok <=> a.answer.error \in {"none", "truncated"}
=============================================================================
