----------------------------- MODULE StarlarkEval -----------------------------
(***************************************************************************)
(* What internal/starlarkeval makes of a script: how it is read, which of  *)
(* the globals it leaves decides the verdict (eval.go), and how its calls  *)
(* of http_request are answered (http_client.go).                          *)
(*                                                                         *)
(* The interpreter is external: a script leaves some globals, or raises.   *)
(* Of a value only this matters: whether it is there, and whether it is    *)
(* the boolean True or False. Bodies are their lengths.                    *)
(***************************************************************************)
EXTENDS Integers

CONSTANTS
    MaxInt,  \* the largest int64
    Faults   \* what may be wrong with a call of http_request, see Defects

\* The arguments' types, the scheme, a body that is no string, the URL,
\* headers that are no dict of strings.
Defects == {"arguments", "scheme", "body", "url", "headers"}

ASSUME EvalAssumption ==
    /\ MaxInt \in Nat \ {0}
    /\ Faults \subseteq SUBSET Defects

Values  == {"unset", "true", "false", "other"}

\* The global `result`, and what a dict has under "valid" and "healthy".
Results == [kind : {"unset", "other"}, valid : {"unset"}, healthy : {"unset"}]
           \cup [kind : {"dict"}, valid : Values, healthy : Values]

\* The global `check`, and what it returns when it is called: a bool, a dict
\* with something under "healthy", or neither.
Checks  == [kind : {"unset", "notCallable", "raises", "other"}, healthy : {"unset"}]
           \cup [kind : {"bool"}, healthy : {"true", "false"}]
           \cup [kind : {"dict"}, healthy : Values]

Absent    == [kind |-> "unset", valid |-> "unset", healthy |-> "unset"]
NoCheck   == [kind |-> "unset", healthy |-> "unset"]
NoGlobals == [result |-> Absent, valid |-> "unset", healthy |-> "unset",
              check |-> NoCheck]

\* The globals that are looked up after an assertion, and after a check. Of
\* a `check` in an assertion it only matters whether there is one.
SomeCheck == [kind |-> "dict", healthy |-> "true"]
AssertionGlobals ==
    [result : Results, valid : Values, healthy : Values,
     check : {NoCheck, SomeCheck}]
CheckGlobals ==
    [result : {r \in Results : r.valid = "unset"}, valid : {"unset"},
     healthy : Values, check : Checks]

Verdicts  == {"healthy", "unhealthy", "error"}

-----------------------------------------------------------------------------
(* Reading a script. *)

\* What a text is: an expression, one with statements behind it (`x; y = 2`),
\* or statements that do not begin with an expression.
Forms == {"expression", "led", "statements"}

\* One line, and none of the keywords that tell a script from an expression.
IsSimpleExpression(script) == script.oneLine /\ ~script.keyword

\* `valid = <script>`, as which it is then run, does not parse.
Misread(script) == IsSimpleExpression(script) /\ script.form = "statements"

\* The globals a script can leave. Behind `valid = ` the expression at the
\* beginning sets `valid`; anywhere else an expression leaves nothing.
Leaves(script, assertion) ==
    IF assertion /\ IsSimpleExpression(script)
    THEN IF script.form = "expression"
         THEN {[NoGlobals EXCEPT !.valid = v] : v \in Values \ {"unset"}}
         ELSE {g \in AssertionGlobals : g.valid # "unset"}
    ELSE IF script.form = "expression" THEN {NoGlobals}
    ELSE IF assertion THEN AssertionGlobals ELSE CheckGlobals

-----------------------------------------------------------------------------
(* The verdict of an assertion. *)

\* A type assertion to starlark.Bool: anything but True counts as False.
Bool(v) == IF v = "true" THEN "healthy" ELSE "unhealthy"

HasValidationFields(r) == r.valid # "unset" \/ r.healthy # "unset"

ParseValidationResult(r) ==
    Bool(IF r.valid # "unset" THEN r.valid ELSE r.healthy)

\* Mutant: the parsed body, which is predeclared under that name, is used.
ResultOf_Predeclared(predeclared, g) ==
    IF g.result.kind = "unset" THEN predeclared ELSE g.result

\* moduleGlobals["result"]: only what the script has set itself.
ResultOf(predeclared, g) == g.result

RunAssertionScript(predeclared, g) ==
    LET r == ResultOf(predeclared, g)
    IN  IF r.kind = "dict" /\ HasValidationFields(r)
        THEN ParseValidationResult(r)
        ELSE Bool(IF g.valid # "unset" THEN g.valid ELSE g.healthy)

-----------------------------------------------------------------------------
(* The verdict of a check script. *)

\* check() must return a bool, or a dict whose "healthy" is one.
CallCheckFunction(c) ==
    IF c.kind \in {"bool", "dict"} /\ c.healthy \in {"true", "false"}
    THEN Bool(c.healthy) ELSE "error"

\* A `healthy` that is no boolean counts as missing, unlike in a dict.
ExtractCheckResult(g) ==
    IF g.result.kind = "dict" THEN Bool(g.result.healthy)
    ELSE IF g.result.kind = "other" \/ g.healthy = "false"
    THEN "unhealthy" ELSE "healthy"

RunCheckScript(g) ==
    IF g.check.kind # "unset" THEN CallCheckFunction(g.check)
                              ELSE ExtractCheckResult(g)

-----------------------------------------------------------------------------
(* http_request. *)

\* What comes back: nothing usable, a response cut short, or one of so many
\* bytes.
Replies(lengths) == [kind : {"failure", "cut"}, length : {0}]
                    \cup [kind : {"response"}, length : lengths]

Errors  == {"none", "raised", "cancelled", "scheme", "url", "failed", "unread",
            "truncated"}

\* `ok` stands for a status code, which is 0 in an error dict.
ErrorDict(error) == [ok |-> FALSE, body |-> 0, error |-> error]

\* What stops a call before anything is sent, in the order of the code.
Refusal(defects, expired) ==
    IF "arguments" \in defects THEN "raised"
    ELSE IF expired THEN "cancelled"
    ELSE IF "scheme" \in defects THEN "scheme"
    ELSE IF "body" \in defects THEN "raised"
    ELSE IF "url" \in defects THEN "url"
    ELSE IF "headers" \in defects THEN "raised"
    ELSE "none"

\* Mutant: the reader stops at the limit, so that nothing seems cut off.
ReadLimit_Exact(maxBodyBytes) == maxBodyBytes

\* int64(maxBodyBytes)+1, which wraps.
ReadLimit(maxBodyBytes) ==
    IF maxBodyBytes = MaxInt THEN -MaxInt - 1 ELSE maxBodyBytes + 1

\* The bytes that io.LimitReader lets through.
Limited(length, limit) ==
    IF limit <= 0 THEN 0 ELSE IF length < limit THEN length ELSE limit

DoHTTPRequest(defects, expired, maxBodyBytes, reply) ==
    LET refusal == Refusal(defects, expired)
        bytes   == Limited(reply.length, ReadLimit(maxBodyBytes))
    IN  IF refusal # "none" THEN ErrorDict(refusal)
        ELSE IF reply.kind = "failure" THEN ErrorDict("failed")
        ELSE IF reply.kind = "cut" THEN ErrorDict("unread")
        ELSE IF bytes > maxBodyBytes
        THEN [ok |-> TRUE, body |-> maxBodyBytes, error |-> "truncated"]
        ELSE [ok |-> TRUE, body |-> bytes, error |-> "none"]
=============================================================================
