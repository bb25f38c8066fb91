---------------------------- MODULE AttemptProofs ----------------------------
(***************************************************************************)
(* Proofs about Attempt for all configurations of checks, all responses    *)
(* and scripts, and every int64 size.                                      *)
(***************************************************************************)
EXTENDS Attempt, TLAPS

USE DEF request

-----------------------------------------------------------------------------
(* Types. *)

\* Whatever a script leaves can be looked up.
LEMMA AssertionTyped ==
    ASSUME NEW text, NEW g \in Leaves(text, TRUE)
    PROVE  g \in AssertionGlobals
<1>1. NoGlobals \in AssertionGlobals
    BY DEF NoGlobals, AssertionGlobals, Absent, NoCheck, Results, Values
<1>2. ASSUME NEW v \in Values \ {"unset"}, g = [NoGlobals EXCEPT !.valid = v]
      PROVE  g \in AssertionGlobals
    BY <1>1, <1>2 DEF AssertionGlobals
<1> QED BY <1>1, <1>2 DEF Leaves

LEMMA CheckTyped ==
    ASSUME NEW text, NEW g \in Leaves(text, FALSE)
    PROVE  g \in CheckGlobals
<1>1. NoGlobals \in CheckGlobals
    BY DEF NoGlobals, CheckGlobals, Checks, Absent, NoCheck, Results, Values
<1> QED BY <1>1 DEF Leaves

LEMMA LeavesTyped ==
    ASSUME NEW text, NEW assertion \in BOOLEAN, NEW g \in Leaves(text, assertion)
    PROVE  g \in AssertionGlobals \cup CheckGlobals
BY AssertionTyped, CheckTyped

\* http_request always answers with a dict of this form.
LEMMA AnswerTyped ==
    ASSUME NEW defects, NEW cut \in BOOLEAN, NEW limit \in Int,
           NEW reply \in Replies(BodyLengths)
    PROVE  DoHTTPRequest(defects, cut, limit, reply)
              \in [ok : BOOLEAN, body : Int, error : Errors]
<1> DEFINE bytes == Limited(reply.length, ReadLimit(limit))
<1>1. Refusal(defects, cut) \in Errors
    BY DEF Refusal, Errors
<1>2. \A e \in Errors :
          ErrorDict(e) \in [ok : BOOLEAN, body : Int, error : Errors]
    BY DEF ErrorDict
<1>3. reply.length \in Int
    <2>1. \/ reply \in [kind : {"failure", "cut"}, length : {0}]
          \/ reply \in [kind : {"response"}, length : BodyLengths]
        BY DEF Replies
    <2>2. reply.length \in {0} \cup BodyLengths
        BY <2>1
    <2>3. {0} \cup BodyLengths \subseteq Int
        BY AttemptAssumption
    <2> QED BY <2>2, <2>3, Zenon
<1>4. ReadLimit(limit) \in Int
    BY EvalAssumption DEF ReadLimit
<1>5. bytes \in Int
    BY <1>3, <1>4 DEF Limited
<1>6. {"failed", "unread", "truncated", "none"} \subseteq Errors
    BY DEF Errors
<1>7. DoHTTPRequest(defects, cut, limit, reply) =
        IF Refusal(defects, cut) # "none" THEN ErrorDict(Refusal(defects, cut))
        ELSE IF reply.kind = "failure" THEN ErrorDict("failed")
        ELSE IF reply.kind = "cut" THEN ErrorDict("unread")
        ELSE IF bytes > limit
        THEN [ok |-> TRUE, body |-> limit, error |-> "truncated"]
        ELSE [ok |-> TRUE, body |-> bytes, error |-> "none"]
    BY DEF DoHTTPRequest
<1> HIDE DEF bytes
<1> QED BY <1>1, <1>2, <1>5, <1>6, <1>7

\* The limit that the script runs under is an int.
LEMMA LimitTyped ==
    ASSUME TypeOK PROVE MaxBodyBytes \in Int
BY AttemptAssumption, EvalAssumption DEF MaxBodyBytes, TypeOK, IsConfig

\* executeOnce returns, and nothing but the parts of the result changes.
LEMMA ReturnTyped ==
    ASSUME TypeOK, NEW ok \in BOOLEAN, NEW why \in Reasons, NEW err \in BOOLEAN,
           Return(ok, why, err),
           UNCHANGED <<config, plain, redirects, expired, late>>,
           response' \in Responses \cup {None},
           left' \in AssertionGlobals \cup CheckGlobals, answers' \in Seq(Calls),
           details' \in BOOLEAN, details' => response' # None
    PROVE  TypeOK'
<1>1. counted' \in [success : Nat, failure : Nat]
    BY DEF Return, Count, TypeOK
<1>2. stage' = "done" /\ healthy' = ok /\ reason' = why /\ error' = err
    BY DEF Return
<1> QED BY <1>1, <1>2 DEF TypeOK, Stages

\* Every variable of an attempt stays in its range.
THEOREM TypeCorrect == Spec => []TypeOK
<1>1. Init => TypeOK
    <2> SUFFICES ASSUME Init PROVE TypeOK
        OBVIOUS
    <2>1. left \in AssertionGlobals
        BY DEF Init, NoGlobals, AssertionGlobals, Absent, NoCheck, Results, Values
    <2>2. stage \in {"script", "format", "begin"}
        BY DEF Init
    <2>3. response \in Responses \cup {None}
        BY DEF Init
    <2>4. 0 \in Nat /\ "undecided" \in Reasons
        BY DEF Reasons
    <2>5. counted \in [success : Nat, failure : Nat]
        BY <2>4 DEF Init
    <2>6. answers \in Seq(Calls)
        BY DEF Init
    <2>7. plain \in BOOLEAN /\ redirects \in 0 .. MaxRedirects
        BY AttemptAssumption DEF Init, IsConfig
    <2> QED BY <2>1, <2>2, <2>3, <2>5, <2>6, <2>7, <2>4
            DEF Init, TypeOK, Stages
<1>2. TypeOK /\ [Next]_vars => TypeOK'
    <2> SUFFICES ASSUME TypeOK, [Next]_vars PROVE TypeOK'
        OBVIOUS
    <2>0. {"malformed", "transport", "unread", "status", "headers", "format",
           "expired", "script", "verdict", "rpc", "passed"} \subseteq Reasons
        BY DEF Reasons
    <2>1. CASE Timeout \/ Send \/ ReadBody
        <3>1. CASE Timeout
            BY <3>1 DEF Timeout, TypeOK, script, result
        <3>2. CASE Send
            BY <3>2 DEF Send, TypeOK, Stages, script, result
        <3>3. CASE ReadBody
            BY <3>3 DEF ReadBody, TypeOK, Stages, script
        <3> QED BY <2>1, <3>1, <3>2, <3>3
    <2>2. CASE Panic
        BY <2>2 DEF Panic, Count, TypeOK, Stages, script, result
    <2>3. CASE Malformed
        BY <2>0, <2>3, ReturnTyped DEF Malformed, TypeOK, script
    <2>4. CASE SendRefused
        BY <2>0, <2>4, ReturnTyped DEF SendRefused, TypeOK, script
    <2>5. CASE CallFails
        BY <2>0, <2>5, ReturnTyped DEF CallFails, TypeOK, script
    <2>6. CASE ReadFails
        BY <2>0, <2>6, ReturnTyped DEF ReadFails, TypeOK, script
    <2>7. ASSUME NEW r \in Responses, Receive(r) PROVE TypeOK'
        BY <2>7, AttemptAssumption DEF Receive, TypeOK, Stages, script, result
    <2>8. ASSUME NEW r \in Responses, AnswerRPC(r) PROVE TypeOK'
        <3>1. r.serving \in BOOLEAN /\ r # None
            BY AttemptAssumption
        <3> QED BY <2>0, <2>8, <3>1, ReturnTyped DEF AnswerRPC, TypeOK, script
    <2>9. CASE JudgeStatus
        <3>1. CASE Matches(response.status)
            BY <2>9, <3>1 DEF JudgeStatus, TypeOK, Stages, script
        <3>2. CASE ~Matches(response.status)
            BY <2>0, <2>9, <3>2, ReturnTyped DEF JudgeStatus, TypeOK, script
        <3> QED BY <3>1, <3>2
    <2>10. CASE JudgeHeaders
        <3>1. CASE HeadersMatch(response.headers) /\ config.scripted
            BY <2>10, <3>1 DEF JudgeHeaders, TypeOK, Stages, script
        <3>2. CASE HeadersMatch(response.headers) /\ ~config.scripted
            BY <2>0, <2>10, <3>2, ReturnTyped DEF JudgeHeaders, TypeOK, script
        <3>3. CASE ~HeadersMatch(response.headers)
            BY <2>0, <2>10, <3>3, ReturnTyped DEF JudgeHeaders, TypeOK, script
        <3> QED BY <3>1, <3>2, <3>3
    <2>11. CASE ParseBody
        <3>1. CASE Parses
            BY <2>11, <3>1 DEF ParseBody, TypeOK, Stages, script
        <3>2. CASE ~Parses
            BY <2>0, <2>11, <3>2, ReturnTyped DEF ParseBody, TypeOK, script
        <3> QED BY <3>1, <3>2
    <2>12. CASE StartScript
        <3>1. CASE expired
            BY <2>0, <2>12, <3>1, ReturnTyped DEF StartScript, TypeOK, script
        <3>2. CASE ~expired /\ Asserting /\ Misread(config.script)
            BY <2>0, <2>12, <3>2, ReturnTyped DEF StartScript, TypeOK, script
        <3>3. CASE ~expired /\ ~(Asserting /\ Misread(config.script))
            BY <2>12, <3>3 DEF StartScript, TypeOK, Stages, script
        <3> QED BY <3>1, <3>2, <3>3
    <2>13. ASSUME NEW defects \in Faults, NEW reply \in Replies(BodyLengths),
                  HTTPRequest(defects, reply)
           PROVE  TypeOK'
        <3> DEFINE answer == DoHTTPRequest(defects, expired, MaxBodyBytes, reply)
                   call   == [sent |-> reply, defects |-> defects,
                              late |-> expired, answer |-> answer]
        <3>1. answer \in [ok : BOOLEAN, body : Int, error : Errors]
            BY AnswerTyped, LimitTyped DEF TypeOK
        <3>2. answers' = Append(answers, call) /\ call \in Calls
            BY <2>13, <3>1 DEF HTTPRequest, Calls, TypeOK
        <3>3. answers' \in Seq(Calls)
            BY <3>2 DEF TypeOK
        <3>4. CASE answer.error = "raised"
            <4>1. Return(FALSE, "script", TRUE)
                BY <2>13, <3>4 DEF HTTPRequest
            <4> QED BY <2>0, <2>13, <3>3, <4>1, ReturnTyped
                    DEF HTTPRequest, TypeOK
        <3>5. CASE answer.error # "raised"
            BY <2>13, <3>3, <3>5 DEF HTTPRequest, TypeOK
        <3> QED BY <3>4, <3>5
    <2>14. CASE ScriptFails
        BY <2>0, <2>14, ReturnTyped DEF ScriptFails, TypeOK, script
    <2>15. ASSUME NEW g \in Leaves(config.script, Asserting), ScriptEnds(g)
           PROVE  TypeOK'
        <3>1. left' \in AssertionGlobals \cup CheckGlobals
            <4>1. Asserting \in BOOLEAN
                BY DEF Asserting
            <4> QED BY <2>15, <4>1, LeavesTyped DEF ScriptEnds
        <3>2. PICK ok \in BOOLEAN, why \in {"script", "verdict"}, err \in BOOLEAN :
                 Return(ok, why, err)
            BY <2>15 DEF ScriptEnds
        <3>3. why \in Reasons
            BY <2>0
        <3> QED BY <2>15, <3>1, <3>2, <3>3, ReturnTyped DEF ScriptEnds, TypeOK
    <2>16. CASE UNCHANGED vars
        BY <2>16 DEF vars, TypeOK
    <2>17. ASSUME NEW scheme, Redirect(scheme) PROVE TypeOK'
        BY <2>17, AttemptAssumption DEF Redirect, TypeOK, script, result
    <2> QED BY <2>1, <2>2, <2>3, <2>4, <2>5, <2>6, <2>7, <2>8, <2>9, <2>10,
               <2>11, <2>12, <2>13, <2>14, <2>15, <2>16, <2>17
            DEF Next, Transport, Judgement, Scripting, Over
<1> QED BY <1>1, <1>2, PTL DEF Spec

-----------------------------------------------------------------------------
(* What Scheduler builds on. *)

\* AttemptContract with the places that an attempt that began too late can
\* reach; an error ends the attempt.
Contract ==
    /\ AttemptContract
    /\ late => expired /\ stage \in {"begin", "format", "script", "done"}
    /\ error => stage = "done"

\* A step inside the attempt.
LEMMA ContinueKeepsContract ==
    ASSUME Contract, stage \notin Ended, stage' \notin Ended,
           UNCHANGED <<config, late, healthy, error, counted>>,
           late => /\ UNCHANGED <<left, answers>>
                   /\ expired' /\ stage' \in {"begin", "format", "script"}
    PROVE  Contract'
BY DEF Contract, AttemptContract, Ended

\* A step that ends it.
LEMMA ReturnKeepsContract ==
    ASSUME TypeOK, Contract, stage \notin Ended, NEW ok \in BOOLEAN,
           NEW why, NEW err \in BOOLEAN, Return(ok, why, err), ok => ~err,
           UNCHANGED <<config, expired, late>>,
           late => ~ok /\ UNCHANGED <<left, answers>>
    PROVE  Contract'
<1>1. ~healthy /\ (config.type # "kafka" => counted = [success |-> 0, failure |-> 0])
    BY DEF Contract, AttemptContract, Ended, TypeOK
<1>2. config.type # "kafka" =>
         counted' = [success |-> IF ok THEN 1 ELSE 0, failure |-> IF ok THEN 0 ELSE 1]
    BY <1>1 DEF Return, Count
<1>3. stage' = "done" /\ healthy' = ok /\ error' = err
    BY DEF Return
<1> QED BY <1>1, <1>2, <1>3 DEF Contract, AttemptContract, Ended

\* An attempt that begins after the timeout fails without running a script;
\* every attempt is counted once, as what it is; no healthy result has an
\* error.
THEOREM ContractKept == Spec => []AttemptContract
<1>1. Init => Contract
    BY DEF Init, Contract, AttemptContract, Ended
<1>2. TypeOK /\ Contract /\ [Next]_vars => Contract'
    <2> SUFFICES ASSUME TypeOK, Contract, [Next]_vars PROVE Contract'
        OBVIOUS
    <2>0. late => expired /\ stage \in {"begin", "format", "script", "done"}
        BY DEF Contract
    <2>1. CASE Timeout
        BY <2>1 DEF Timeout, script, result, Contract, AttemptContract, Ended
    <2>2. CASE Panic
        <3>1. ~late /\ ~healthy /\ (config.type # "kafka" =>
                 counted = [success |-> 0, failure |-> 0])
            BY <2>0, <2>2 DEF Panic, Contract, AttemptContract, Ended, TypeOK
        <3>2. config.type # "kafka" => counted' = [success |-> 0, failure |-> 1]
            BY <2>2, <3>1 DEF Panic, Count
        <3>3. /\ stage' = "panicked" /\ ~error
              /\ UNCHANGED <<config, late, healthy, error, left, answers>>
            BY <2>2 DEF Panic, script, result, Contract
        <3> QED BY <3>1, <3>2, <3>3 DEF Contract, AttemptContract, Ended
    <2>3. CASE Malformed \/ SendRefused \/ CallFails \/ ReadFails \/ ScriptFails
        BY <2>3, ReturnKeepsContract
           DEF Malformed, SendRefused, CallFails, ReadFails, ScriptFails,
               script, Ended
    <2>4. CASE Send \/ ReadBody \/ \E r \in Responses : Receive(r)
        BY <2>0, <2>4, ContinueKeepsContract
           DEF Send, ReadBody, Receive, script, result, Ended
    <2>5. ASSUME NEW r \in Responses, AnswerRPC(r) PROVE Contract'
        <3>1. r.serving \in BOOLEAN /\ ~late
            BY <2>0, <2>5, AttemptAssumption DEF AnswerRPC
        <3> QED BY <2>5, <3>1, ReturnKeepsContract DEF AnswerRPC, Ended
    <2>6. CASE JudgeStatus \/ JudgeHeaders
        <3>1. ~late /\ stage \notin Ended
            BY <2>0, <2>6 DEF JudgeStatus, JudgeHeaders, Ended
        <3>2. CASE stage' \in {"headers", "format"}
            BY <2>6, <3>1, <3>2, ContinueKeepsContract
               DEF JudgeStatus, JudgeHeaders, Return, Ended
        <3>3. CASE stage' \notin {"headers", "format"}
            BY <2>6, <3>1, <3>3, ReturnKeepsContract
               DEF JudgeStatus, JudgeHeaders
        <3> QED BY <3>2, <3>3
    <2>7. CASE ParseBody
        <3>1. CASE Parses
            BY <2>0, <2>7, <3>1, ContinueKeepsContract DEF ParseBody, script, Ended
        <3>2. CASE ~Parses
            BY <2>7, <3>2, ReturnKeepsContract DEF ParseBody, script, Ended
        <3> QED BY <3>1, <3>2
    <2>8. CASE StartScript
        <3>1. CASE expired \/ (Asserting /\ Misread(config.script))
            BY <2>8, <3>1, ReturnKeepsContract DEF StartScript, script, Ended
        <3>2. CASE ~expired /\ ~(Asserting /\ Misread(config.script))
            BY <2>0, <2>8, <3>2, ContinueKeepsContract DEF StartScript, Ended
        <3> QED BY <3>1, <3>2
    <2>9. ASSUME NEW defects, NEW reply, HTTPRequest(defects, reply)
          PROVE  Contract'
        <3>1. ~late /\ stage = "running"
            BY <2>0, <2>9 DEF HTTPRequest
        <3>2. \/ Return(FALSE, "script", TRUE)
              \/ UNCHANGED <<stage, healthy, reason, error, counted>>
            BY <2>9 DEF HTTPRequest
        <3>3. UNCHANGED <<config, expired, late>>
            BY <2>9 DEF HTTPRequest
        <3> QED BY <3>1, <3>2, <3>3, ReturnKeepsContract, ContinueKeepsContract
                DEF Ended
    <2>10. ASSUME NEW g, ScriptEnds(g) PROVE Contract'
        <3>1. ~late /\ stage = "running" /\ UNCHANGED <<config, expired, late>>
            BY <2>0, <2>10 DEF ScriptEnds
        <3>2. PICK ok \in BOOLEAN, why \in {"script", "verdict"}, err \in BOOLEAN :
                 Return(ok, why, err) /\ (ok => ~err)
            BY <2>10 DEF ScriptEnds
        <3> QED BY <3>1, <3>2, ReturnKeepsContract DEF Ended
    <2>11. CASE UNCHANGED vars
        BY <2>11 DEF vars, Contract, AttemptContract
    <2>12. ASSUME NEW scheme, Redirect(scheme) PROVE Contract'
        BY <2>0, <2>12, ContinueKeepsContract DEF Redirect, script, result, Ended
    <2> QED BY <2>1, <2>2, <2>3, <2>4, <2>5, <2>6, <2>7, <2>8, <2>9, <2>10,
               <2>11, <2>12
            DEF Next, Transport, Judgement, Scripting, Over
<1>3. Contract => AttemptContract
    BY DEF Contract
<1> QED BY <1>1, <1>2, <1>3, TypeCorrect, PTL DEF Spec

-----------------------------------------------------------------------------
(* What is expected of a response. *)

\* Unmet names the steps that fail.
LEMMA UnmetParts ==
    /\ "status" \in Unmet(response) <=> ~Matches(response.status)
    /\ "headers" \in Unmet(response) <=> ~HeadersMatch(response.headers)
    /\ "format" \in Unmet(response) <=> config.scripted /\ ~Parses
    /\ Unmet(response) \subseteq {"status", "headers", "format"}
<1> DEFINE missed == {n \in DOMAIN config.headers :
                        \/ n \notin DOMAIN response.headers
                        \/ response.headers[n][1] # config.headers[n]}
<1>1. missed # {} <=> ~HeadersMatch(response.headers)
    BY DEF HeadersMatch
<1>2. "headers" \in {"headers" : n \in missed} <=> missed # {}
    OBVIOUS
<1>3. {"headers" : n \in missed} \subseteq {"headers"}
    OBVIOUS
<1>4. Unmet(response) =
         (IF Matches(response.status) THEN {} ELSE {"status"})
         \cup {"headers" : n \in missed}
         \cup (IF config.scripted /\ ~Parses THEN {"format"} ELSE {})
    BY DEF Unmet, Parses
<1> HIDE DEF missed
<1> QED BY <1>1, <1>2, <1>3, <1>4

\* The same configuration and response leave the same unmet.
LEMMA UnmetStays ==
    ASSUME UNCHANGED <<config, response>>
    PROVE  Unmet(response)' = Unmet(response)
BY DEF Unmet, Matches, Codes

\* The scheme of the request is the configured one until a redirect, and an
\* answer has come from a peer that goes with it.
Trusted ==
    /\ redirects = 0 => plain = config.plain
    /\ details \/ stage \in {"reading", "status", "headers"} =>
        /\ redirects = 0 => (config.plain <=> response.peer = "plain")
        /\ response.peer = "selfSigned" => config.verifyTLS = "false"

\* Who can be where, and what has been found on the way there.
Placed ==
    /\ stage \in {"begin", "waiting"} => config.type \in {"http", "grpc"}
    /\ stage \in {"reading", "status", "headers"} => config.type = "http"
    /\ config.type = "grpc" => stage \in {"begin", "waiting", "done", "panicked"}
    /\ config.type = "starlark" =>
         stage \in {"script", "running", "done", "panicked"}
    /\ stage \in {"begin", "waiting", "reading"} => ~details
    /\ config.type = "http" =>
         /\ stage \in {"status", "headers", "format", "script", "running"} => details
         /\ stage \in {"headers", "format", "script", "running"} =>
               "status" \notin Unmet(response)
         /\ stage \in {"format", "script", "running"} =>
               "headers" \notin Unmet(response) /\ config.scripted
         /\ stage \in {"script", "running"} => "format" \notin Unmet(response)

Judged == Trusted /\ Placed /\ ExpectationsDecide

\* The part of ExpectationsDecide about an HTTP result, for a verdict ok and
\* a reason why.
Justified(ok, why) ==
    LET unmet == Unmet(response)
    IN  /\ details <=> why \notin {"malformed", "transport", "unread"}
        /\ ok => details /\ unmet = {}
        /\ details =>
             /\ why = "status"  <=> "status" \in unmet
             /\ why = "headers" <=> "headers" \in unmet /\ "status" \notin unmet
             /\ why = "format"  <=> unmet = {"format"}
             /\ why = "passed"  <=> unmet = {} /\ ~config.scripted

\* A step that returns, when it is justified.
LEMMA ReturnIsJudged ==
    ASSUME Judged, NEW ok \in BOOLEAN, NEW why, NEW err, Return(ok, why, err),
           UNCHANGED <<config, request, response, details>>,
           config.type = "grpc" => ~ok /\ ~details,
           config.type = "http" => Justified(ok, why)
    PROVE  Judged'
<1>1. Unmet(response)' = Unmet(response)
    BY UnmetStays
<1>2. stage' = "done" /\ healthy' = ok /\ reason' = why
    BY DEF Return
<1> QED BY <1>1, <1>2 DEF Judged, Trusted, Placed, ExpectationsDecide, Justified

\* A script's end is justified whatever it says.
LEMMA ScriptIsJustified ==
    ASSUME Placed, stage \in {"script", "running"}, config.type = "http",
           NEW ok, NEW why \in {"expired", "script", "verdict"}
    PROVE  Justified(ok, why)
<1>1. Unmet(response) = {} /\ details /\ config.scripted
    BY UnmetParts DEF Placed
<1> QED BY <1>1 DEF Justified

\* The expectations are judged in their order, wherever the attempt is.
LEMMA JudgedHolds == Spec => []Judged
<1>1. Init => Judged
    <2> SUFFICES ASSUME Init PROVE Judged
        OBVIOUS
    <2>1. config.type \in Types
        BY AttemptAssumption DEF Init, IsConfig
    <2> QED BY <2>1
            DEF Init, Judged, Trusted, Placed, ExpectationsDecide, Types
<1>2. TypeOK /\ Judged /\ [Next]_vars => Judged'
    <2> SUFFICES ASSUME TypeOK, Judged, [Next]_vars PROVE Judged'
        OBVIOUS
    <2>0. UNCHANGED <<config, response>> => Unmet(response)' = Unmet(response)
        BY UnmetStays
    <2> USE DEF Judged
    <2>1. CASE Timeout \/ Send
        BY <2>0, <2>1 DEF Timeout, Send, script, result, Trusted, Placed,
                          ExpectationsDecide, Ended
    <2>2. CASE Panic
        BY <2>0, <2>2 DEF Panic, script, result, Trusted, Placed,
                          ExpectationsDecide
    <2>3. CASE Malformed \/ SendRefused \/ CallFails \/ ReadFails
        <3>1. PICK why \in {"malformed", "transport", "unread"} :
                 Return(FALSE, why, TRUE)
            BY <2>3 DEF Malformed, SendRefused, CallFails, ReadFails
        <3>2. ~details /\ UNCHANGED <<config, request, response, details>>
            BY <2>3 DEF Malformed, SendRefused, CallFails, ReadFails, Placed
        <3>3. Justified(FALSE, why)
            BY <3>2 DEF Justified
        <3> QED BY <3>1, <3>2, <3>3, ReturnIsJudged
    <2>4. ASSUME NEW r \in Responses, Receive(r) PROVE Judged'
        <3>1. Connects(r.peer) /\ response' = r /\ ~details
            BY <2>4 DEF Receive, Placed
        <3>2. /\ redirects = 0 => (config.plain <=> r.peer = "plain")
              /\ r.peer = "selfSigned" => config.verifyTLS = "false"
            BY <3>1 DEF Connects, Trusted
        <3> QED BY <2>4, <3>1, <3>2 DEF Receive, script, result, Trusted, Placed,
                                        ExpectationsDecide
    <2>5. ASSUME NEW r \in Responses, AnswerRPC(r) PROVE Judged'
        <3>1. Connects(r.peer) /\ response' = r /\ details'
            BY <2>5 DEF AnswerRPC
        <3>2. /\ redirects = 0 => (config.plain <=> r.peer = "plain")
              /\ r.peer = "selfSigned" => config.verifyTLS = "false"
            BY <3>1 DEF Connects, Trusted
        <3>3. /\ stage' = "done" /\ config.type = "grpc" /\ config' = config
              /\ healthy' = r.serving /\ UNCHANGED request
            BY <2>5 DEF AnswerRPC, Return
        <3> QED BY <3>1, <3>2, <3>3 DEF Trusted, Placed, ExpectationsDecide
    <2>6. CASE ReadBody
        BY <2>0, <2>6 DEF ReadBody, script, Trusted, Placed, ExpectationsDecide
    <2>7. CASE JudgeStatus
        <3>1. config.type = "http" /\ details
            BY <2>7 DEF JudgeStatus, Placed
        <3>2. CASE Matches(response.status)
            BY <2>0, <2>7, <3>1, <3>2, UnmetParts
               DEF JudgeStatus, Trusted, Placed, ExpectationsDecide
        <3>3. CASE ~Matches(response.status)
            <4>1. Justified(FALSE, "status")
                BY <3>1, <3>3, UnmetParts DEF Justified
            <4> QED BY <2>7, <3>1, <3>3, <4>1, ReturnIsJudged DEF JudgeStatus
        <3> QED BY <3>2, <3>3
    <2>8. CASE JudgeHeaders
        <3>1. config.type = "http" /\ details /\ "status" \notin Unmet(response)
            BY <2>8 DEF JudgeHeaders, Placed
        <3>2. CASE HeadersMatch(response.headers) /\ config.scripted
            BY <2>0, <2>8, <3>1, <3>2, UnmetParts
               DEF JudgeHeaders, Trusted, Placed, ExpectationsDecide
        <3>3. CASE HeadersMatch(response.headers) /\ ~config.scripted
            <4>1. Justified(TRUE, "passed")
                BY <3>1, <3>3, UnmetParts DEF Justified
            <4> QED BY <2>8, <3>1, <3>3, <4>1, ReturnIsJudged DEF JudgeHeaders
        <3>4. CASE ~HeadersMatch(response.headers)
            <4>1. Justified(FALSE, "headers")
                BY <3>1, <3>4, UnmetParts DEF Justified
            <4> QED BY <2>8, <3>1, <3>4, <4>1, ReturnIsJudged DEF JudgeHeaders
        <3> QED BY <3>2, <3>3, <3>4
    <2>9. CASE ParseBody
        <3>1. config.type # "grpc"
            BY <2>9 DEF ParseBody, Placed
        <3>2. CASE Parses
            BY <2>0, <2>9, <3>1, <3>2, UnmetParts
               DEF ParseBody, Trusted, Placed, ExpectationsDecide
        <3>3. CASE ~Parses
            <4>1. config.type = "http" => Justified(FALSE, "format")
                BY <2>9, <3>3, UnmetParts DEF Justified, ParseBody, Placed
            <4> QED BY <2>9, <3>1, <3>3, <4>1, ReturnIsJudged DEF ParseBody
        <3> QED BY <3>2, <3>3
    <2>10. ASSUME stage \in {"script", "running"},
                  UNCHANGED <<config, request, response, details>>,
                  \/ \E ok \in BOOLEAN, why \in {"expired", "script", "verdict"},
                        err \in BOOLEAN : Return(ok, why, err)
                  \/ stage' = "running" /\ UNCHANGED <<healthy, reason>>
           PROVE  Judged'
        <3>1. config.type # "grpc"
            BY <2>10 DEF Placed
        <3>2. CASE stage' = "running" /\ UNCHANGED <<healthy, reason>>
            BY <2>0, <2>10, <3>1, <3>2 DEF Trusted, Placed, ExpectationsDecide
        <3>3. ASSUME NEW ok \in BOOLEAN, NEW why \in {"expired", "script", "verdict"},
                     NEW err \in BOOLEAN, Return(ok, why, err)
              PROVE  Judged'
            BY <2>10, <3>1, <3>3, ScriptIsJustified, ReturnIsJudged
        <3> QED BY <2>10, <3>2, <3>3
    <2>11. CASE StartScript \/ ScriptFails
        BY <2>10, <2>11 DEF StartScript, ScriptFails
    <2>12. ASSUME NEW defects, NEW reply, HTTPRequest(defects, reply)
           PROVE  Judged'
        BY <2>10, <2>12 DEF HTTPRequest
    <2>13. ASSUME NEW g, ScriptEnds(g) PROVE Judged'
        BY <2>10, <2>13 DEF ScriptEnds
    <2>14. CASE UNCHANGED vars
        BY <2>0, <2>14 DEF vars, Trusted, Placed, ExpectationsDecide
    <2>15. ASSUME NEW scheme, Redirect(scheme) PROVE Judged'
        <3>1. /\ stage = "waiting" /\ ~details /\ redirects \in Nat
              /\ redirects' = redirects + 1
              /\ UNCHANGED <<config, stage, response, script, result>>
            BY <2>15, AttemptAssumption DEF Redirect, Placed, TypeOK
        <3> QED BY <2>0, <3>1 DEF result, Trusted, Placed, ExpectationsDecide
    <2> QED BY <2>1, <2>2, <2>3, <2>4, <2>5, <2>6, <2>7, <2>8, <2>9, <2>11,
               <2>12, <2>13, <2>14, <2>15
            DEF Next, Transport, Judgement, Scripting, Over
<1> QED BY <1>1, <1>2, TypeCorrect, PTL DEF Spec

\* What is judged never comes from a peer whose certificate the configuration
\* does not trust, also behind redirects, a gRPC attempt passes exactly when
\* the service is serving, and an HTTP result names the first expectation that
\* is not met.
THEOREM ExpectationsHold == Spec => []ExpectationsDecide
<1>1. Judged => ExpectationsDecide
    BY DEF Judged
<1> QED BY <1>1, JudgedHolds, PTL

-----------------------------------------------------------------------------
(* The answers of http_request. *)

\* One entry of `answers`, under the limit that the script runs with.
Honest(a, limit) ==
    /\ a.answer.error = "none" =>
         /\ ~a.late /\ a.defects = {} /\ a.sent.kind = "response"
         /\ a.answer.body = a.sent.length
         /\ a.sent.length <= limit
    /\ a.answer.error = "truncated" =>
         a.sent.length > limit /\ a.answer.body = limit
    /\ a.answer.ok <=> a.answer.error \in {"none", "truncated"}

\* Below the last int64, one byte more than the limit is let through, which
\* tells a body that is cut off from one that is not.
LEMMA LimitTells ==
    ASSUME NEW limit \in 0 .. MaxInt, limit < MaxInt, NEW length \in Nat
    PROVE  LET bytes == Limited(length, ReadLimit(limit))
           IN  IF length <= limit THEN bytes = length ELSE bytes > limit
BY EvalAssumption DEF Limited, ReadLimit

\* Every answer is as honest as its circumstances allow.
LEMMA AnswerIsHonest ==
    ASSUME NEW defects \in SUBSET Defects, NEW cut \in BOOLEAN,
           NEW limit \in 0 .. MaxInt, limit < MaxInt,
           NEW reply \in Replies(BodyLengths)
    PROVE  Honest([sent |-> reply, defects |-> defects, late |-> cut,
                   answer |-> DoHTTPRequest(defects, cut, limit, reply)], limit)
<1> DEFINE answer == DoHTTPRequest(defects, cut, limit, reply)
           bytes  == Limited(reply.length, ReadLimit(limit))
<1>1. /\ reply.length \in Nat
      /\ reply.kind \in {"failure", "cut", "response"}
    <2>1. \/ reply \in [kind : {"failure", "cut"}, length : {0}]
          \/ reply \in [kind : {"response"}, length : BodyLengths]
        BY DEF Replies
    <2>2. reply.length \in {0} \cup BodyLengths
        BY <2>1
    <2>3. {0} \cup BodyLengths \subseteq Nat
        BY AttemptAssumption
    <2>4. reply.length \in Nat
        BY <2>2, <2>3, Zenon
    <2> QED BY <2>1, <2>4
<1>2. IF reply.length <= limit THEN bytes = reply.length ELSE bytes > limit
    BY <1>1, LimitTells
<1>3. answer = IF Refusal(defects, cut) # "none"
               THEN ErrorDict(Refusal(defects, cut))
               ELSE IF reply.kind = "failure" THEN ErrorDict("failed")
               ELSE IF reply.kind = "cut" THEN ErrorDict("unread")
               ELSE IF bytes > limit
               THEN [ok |-> TRUE, body |-> limit, error |-> "truncated"]
               ELSE [ok |-> TRUE, body |-> bytes, error |-> "none"]
    BY DEF DoHTTPRequest
<1>4. \A e : ErrorDict(e).error = e /\ ErrorDict(e).ok = FALSE
    BY DEF ErrorDict
<1>5. /\ Refusal(defects, cut) # "truncated"
      /\ Refusal(defects, cut) = "none" => ~cut /\ defects = {}
    BY DEF Refusal, Defects
<1>6. limit \in Int
    BY EvalAssumption
<1> HIDE DEF answer, bytes
<1>7. CASE Refusal(defects, cut) # "none" \/ reply.kind \in {"failure", "cut"}
    <2>1. /\ answer.error \notin {"none", "truncated"}
          /\ answer.ok = FALSE
        BY <1>3, <1>4, <1>5, <1>7
    <2> QED BY <2>1 DEF Honest, answer
<1>8. CASE Refusal(defects, cut) = "none" /\ reply.kind = "response"
    <2>1. CASE reply.length <= limit
        <3>0. bytes = reply.length /\ ~(bytes > limit)
            BY <1>1, <1>2, <1>6, <2>1
        <3>1. answer = [ok |-> TRUE, body |-> reply.length, error |-> "none"]
            BY <1>3, <1>8, <3>0
        <3>2. answer.error = "none" /\ answer.body = reply.length /\ answer.ok
            BY <3>1
        <3>3. ~cut /\ defects = {}
            BY <1>5, <1>8
        <3> HIDE DEF answer
        <3>4. Honest([sent |-> reply, defects |-> defects, late |-> cut,
                      answer |-> answer], limit)
            BY <1>8, <2>1, <3>2, <3>3 DEF Honest
        <3> QED BY <3>4 DEF answer
    <2>2. CASE ~(reply.length <= limit)
        <3>0. bytes > limit
            BY <1>2, <2>2
        <3>1. answer = [ok |-> TRUE, body |-> limit, error |-> "truncated"]
            BY <1>3, <1>8, <3>0
        <3>2. reply.length > limit
            BY <1>1, <1>6, <2>2
        <3> QED BY <3>1, <3>2 DEF Honest, answer
    <2> QED BY <2>1, <2>2
<1> QED BY <1>1, <1>7, <1>8

\* http_request passes nothing off as a whole answer.
THEOREM AnswersAreHonest == Spec => []AnswersHonest
<1> DEFINE Inv == MaxBodyBytes < MaxInt =>
                    \A i \in DOMAIN answers : Honest(answers[i], MaxBodyBytes)
<1>1. Init => Inv
    BY DEF Init
<1>2. TypeOK /\ Inv /\ [Next]_vars => Inv'
    <2> SUFFICES ASSUME TypeOK, Inv, [Next]_vars PROVE Inv'
        OBVIOUS
    <2>1. MaxBodyBytes \in 0 .. MaxInt /\ MaxBodyBytes' = MaxBodyBytes
        <3>1. config \in Configs /\ config' = config
            BY DEF TypeOK, Next, Timeout, Panic, Transport, Judgement,
                   Scripting, Over, Redirect, Malformed, SendRefused, Send, CallFails,
                   Receive, AnswerRPC, ReadFails, ReadBody, JudgeStatus,
                   JudgeHeaders, ParseBody, StartScript, HTTPRequest,
                   ScriptFails, ScriptEnds, vars
        <3>2. config.maxBody \in 0 .. MaxInt
            BY <3>1, AttemptAssumption DEF IsConfig
        <3>3. DefaultMaxBody \in 0 .. MaxInt
            BY AttemptAssumption, EvalAssumption
        <3>4. MaxBodyBytes' = MaxBodyBytes
            BY <3>1 DEF MaxBodyBytes
        <3>5. MaxBodyBytes \in {config.maxBody, DefaultMaxBody}
            BY DEF MaxBodyBytes
        <3> HIDE DEF Inv
        <3> QED BY <3>2, <3>3, <3>4, <3>5
    <2>2. CASE UNCHANGED answers
        BY <2>1, <2>2
    <2>3. ASSUME NEW defects \in Faults, NEW reply \in Replies(BodyLengths),
                 HTTPRequest(defects, reply), MaxBodyBytes < MaxInt,
                 NEW i \in DOMAIN answers'
          PROVE  Honest(answers'[i], MaxBodyBytes)
        <3> DEFINE call == [sent |-> reply, defects |-> defects,
                            late |-> expired,
                            answer |-> DoHTTPRequest(defects, expired,
                                                     MaxBodyBytes, reply)]
        <3>1. answers' = Append(answers, call) /\ answers \in Seq(Calls)
            BY <2>3 DEF HTTPRequest, TypeOK
        <3>2. defects \in SUBSET Defects /\ expired \in BOOLEAN
            BY EvalAssumption DEF TypeOK
        <3>3. Honest(call, MaxBodyBytes)
            BY <2>1, <2>3, <3>2, AnswerIsHonest
        <3> HIDE DEF call
        <3>4. \/ i \in DOMAIN answers /\ answers'[i] = answers[i]
              \/ answers'[i] = call
            BY <2>3, <3>1
        <3> QED BY <2>3, <3>3, <3>4
    <2>4. \/ UNCHANGED answers
          \/ \E defects \in Faults, reply \in Replies(BodyLengths) :
                HTTPRequest(defects, reply)
        BY DEF Next, Timeout, Panic, Transport, Judgement, Scripting, Over,
               Redirect, Malformed, SendRefused, Send, CallFails, Receive, AnswerRPC,
               ReadFails, ReadBody, JudgeStatus, JudgeHeaders, ParseBody,
               StartScript, ScriptFails, ScriptEnds, vars, script
    <2> HIDE DEF Inv
    <2>5. ASSUME NEW defects \in Faults, NEW reply \in Replies(BodyLengths),
                 HTTPRequest(defects, reply)
          PROVE  Inv'
        BY <2>1, <2>3, <2>5 DEF Inv
    <2> QED BY <2>2, <2>4, <2>5
<1>3. Inv => AnswersHonest
    BY DEF Honest, AnswersHonest
<1> QED BY <1>1, <1>2, <1>3, TypeCorrect, PTL DEF Spec

-----------------------------------------------------------------------------
(* The verdict of a script. *)

\* The first statement that is made, whatever follows it.
LEMMA StrongestIsFirst ==
    ASSUME NEW n \in Nat, NEW s, DOMAIN s = 1 .. n,
           NEW i \in 1 .. n, s[i] # "unset",
           \A j \in 1 .. n : j < i => s[j] = "unset"
    PROVE  Strongest(s) = s[i]
<1> DEFINE made == {k \in DOMAIN s : s[k] # "unset"}
<1>1. i \in made /\ \A j \in made : i <= j
    OBVIOUS
<1>2. \A k \in made : (\A j \in made : k <= j) => k = i
    BY <1>1
<1>3. Strongest(s) = s[CHOOSE k \in made : \A j \in made : k <= j]
    BY <1>1 DEF Strongest
<1> HIDE DEF made
<1>4. i = CHOOSE k \in made : \A j \in made : k <= j
    BY <1>1, <1>2
<1> QED BY <1>3, <1>4

\* No statement is made.
LEMMA NoneIsStrongest ==
    ASSUME NEW n \in Nat, NEW s, DOMAIN s = 1 .. n,
           \A j \in 1 .. n : s[j] = "unset"
    PROVE  Strongest(s) = "unset"
BY DEF Strongest

\* An assertion: result["valid"], result["healthy"], valid, healthy; else it
\* fails.
LEMMA AssertionHeeds ==
    ASSUME NEW g \in AssertionGlobals, NEW predeclared
    PROVE  RunAssertionScript(predeclared, g) = "healthy" <=>
             Strongest(<<g.result.valid, g.result.healthy, g.valid, g.healthy>>) = "true"
<1> DEFINE s == <<g.result.valid, g.result.healthy, g.valid, g.healthy>>
<1>0. /\ DOMAIN s = 1 .. 4
      /\ s[1] = g.result.valid /\ s[2] = g.result.healthy
      /\ s[3] = g.valid /\ s[4] = g.healthy
    OBVIOUS
<1> HIDE DEF s
<1>1. ASSUME NEW i \in 1 .. 4, s[i] # "unset",
             \A j \in 1 .. 4 : j < i => s[j] = "unset"
      PROVE  Strongest(s) = s[i]
    <2>1. 4 \in Nat
        OBVIOUS
    <2> QED BY <1>0, <1>1, <2>1, StrongestIsFirst, Zenon
<1>2. \/ g.result.kind = "dict"
      \/ g.result.valid = "unset" /\ g.result.healthy = "unset"
    <2>1. g.result \in Results
        BY DEF AssertionGlobals
    <2> QED BY <2>1 DEF Results
<1>3. RunAssertionScript(predeclared, g) =
        IF g.result.kind = "dict" /\ (s[1] # "unset" \/ s[2] # "unset")
        THEN Bool(IF s[1] # "unset" THEN s[1] ELSE s[2])
        ELSE Bool(IF s[3] # "unset" THEN s[3] ELSE s[4])
    BY <1>0 DEF RunAssertionScript, ResultOf, HasValidationFields,
                ParseValidationResult
<1>4. \A v : Bool(v) = "healthy" <=> v = "true"
    BY DEF Bool
<1>5. CASE s[1] # "unset"
    <2>1. Strongest(s) = s[1]
        BY <1>1, <1>5
    <2> QED BY <1>0, <1>2, <1>3, <1>4, <1>5, <2>1 DEF s
<1>6. CASE s[1] = "unset" /\ s[2] # "unset"
    <2>1. Strongest(s) = s[2]
        BY <1>1, <1>6
    <2> QED BY <1>0, <1>2, <1>3, <1>4, <1>6, <2>1 DEF s
<1>7. CASE s[1] = "unset" /\ s[2] = "unset" /\ s[3] # "unset"
    <2>1. Strongest(s) = s[3]
        BY <1>1, <1>7
    <2> QED BY <1>3, <1>4, <1>7, <2>1 DEF s
<1>8. CASE s[1] = "unset" /\ s[2] = "unset" /\ s[3] = "unset" /\ s[4] # "unset"
    <2>1. Strongest(s) = s[4]
        BY <1>1, <1>8
    <2> QED BY <1>3, <1>4, <1>8, <2>1 DEF s
<1>9. CASE \A j \in 1 .. 4 : s[j] = "unset"
    <2>1. Strongest(s) = "unset"
        BY <1>0, <1>9, NoneIsStrongest
    <2> QED BY <1>3, <1>4, <1>9, <2>1 DEF s
<1> QED BY <1>5, <1>6, <1>7, <1>8, <1>9

\* What a check script must not leave for its statements to decide.
Plain(g) ==
    /\ g.check.kind \in {"unset", "bool", "dict"}
    /\ g.check.kind = "dict" => g.check.healthy \in {"true", "false"}
    /\ g.result.kind # "other"
    /\ g.result.kind = "dict" => g.result.healthy # "unset"
    /\ g.healthy # "other"

\* A check: what check() returns, result["healthy"], healthy; else it passes.
LEMMA CheckHeeds ==
    ASSUME NEW g \in CheckGlobals, Plain(g)
    PROVE  RunCheckScript(g) = "healthy" <=>
             Strongest(<<g.check.healthy, g.result.healthy, g.healthy>>)
                \in {"true", "unset"}
<1> DEFINE s == <<g.check.healthy, g.result.healthy, g.healthy>>
<1>0. /\ DOMAIN s = 1 .. 3
      /\ s[1] = g.check.healthy /\ s[2] = g.result.healthy /\ s[3] = g.healthy
    OBVIOUS
<1> HIDE DEF s
<1>1. ASSUME NEW i \in 1 .. 3, s[i] # "unset",
             \A j \in 1 .. 3 : j < i => s[j] = "unset"
      PROVE  Strongest(s) = s[i]
    <2>1. 3 \in Nat
        OBVIOUS
    <2> QED BY <1>0, <1>1, <2>1, StrongestIsFirst, Zenon
<1>2. /\ s[1] \in Values /\ s[2] \in Values /\ s[3] \in Values
      /\ g.check.kind = "unset" <=> s[1] = "unset"
      /\ g.check.kind # "unset" => s[1] \in {"true", "false"}
      /\ g.result.kind \in {"unset", "dict"}
      /\ g.result.kind = "dict" <=> s[2] # "unset"
      /\ s[3] # "other"
    <2>1. g.check \in Checks /\ g.result \in Results /\ g.healthy \in Values
        BY DEF CheckGlobals
    <2>2. /\ s[1] \in Values
          /\ g.check.kind = "unset" <=> s[1] = "unset"
          /\ g.check.kind # "unset" => s[1] \in {"true", "false"}
        BY <1>0, <2>1 DEF Checks, Values, Plain
    <2>3. /\ s[2] \in Values
          /\ g.result.kind \in {"unset", "dict"}
          /\ g.result.kind = "dict" <=> s[2] # "unset"
        BY <1>0, <2>1 DEF Results, Values, Plain
    <2> QED BY <1>0, <2>1, <2>2, <2>3 DEF Plain
<1>3. \A v : Bool(v) = "healthy" <=> v = "true"
    BY DEF Bool
<1>4. CASE s[1] # "unset"
    <2>1. Strongest(s) = s[1]
        BY <1>1, <1>4
    <2>2. RunCheckScript(g) = Bool(s[1])
        BY <1>0, <1>2, <1>4 DEF RunCheckScript, CallCheckFunction, Plain
    <2> QED BY <1>3, <1>4, <2>1, <2>2 DEF s
<1>5. CASE s[1] = "unset" /\ s[2] # "unset"
    <2>1. Strongest(s) = s[2]
        BY <1>1, <1>5
    <2>2. RunCheckScript(g) = Bool(s[2])
        BY <1>0, <1>2, <1>5 DEF RunCheckScript, ExtractCheckResult
    <2> QED BY <1>3, <1>5, <2>1, <2>2 DEF s
<1>6. CASE s[1] = "unset" /\ s[2] = "unset"
    <2>1. RunCheckScript(g) = "healthy" <=> s[3] # "false"
        BY <1>0, <1>2, <1>6 DEF RunCheckScript, ExtractCheckResult
    <2>2. CASE s[3] # "unset"
        <3>1. Strongest(s) = s[3]
            BY <1>1, <1>6, <2>2
        <3> QED BY <1>2, <2>1, <2>2, <3>1 DEF s, Values
    <2>3. CASE s[3] = "unset"
        <3>1. \A j \in 1 .. 3 : s[j] = "unset"
            BY <1>6, <2>3
        <3>2. Strongest(s) = "unset"
            BY <1>0, <3>1, NoneIsStrongest
        <3> QED BY <2>1, <2>3, <3>2 DEF s
    <2> QED BY <2>2, <2>3
<1> QED BY <1>4, <1>5, <1>6

\* A script that ended is judged by its strongest statement.
THEOREM ScriptsAreHeeded == Spec => []ScriptSaysSo
<1> DEFINE Inv == ScriptSaysSo /\ (reason = "verdict" => stage = "done")
<1>1. Init => Inv
    BY DEF Init, ScriptSaysSo
<1>2. TypeOK /\ Inv /\ [Next]_vars => Inv'
    <2> SUFFICES ASSUME TypeOK, Inv, [Next]_vars PROVE Inv'
        OBVIOUS
    <2>1. CASE UNCHANGED <<config, stage, left, healthy, reason>>
        BY <2>1 DEF ScriptSaysSo, Statements, Asserting
    <2>2. CASE reason' # "verdict"
        BY <2>2 DEF ScriptSaysSo
    <2>3. ASSUME NEW g \in Leaves(config.script, Asserting), ScriptEnds(g)
          PROVE  Inv'
        <3>1. /\ stage' = "done" /\ left' = g /\ config' = config
              /\ Asserting' = Asserting
            BY <2>3 DEF ScriptEnds, Return, Asserting
        <3>2. SUFFICES ASSUME reason' = "verdict" PROVE ScriptSaysSo'
            BY <2>2, <3>1
        <3>3. CASE Asserting
            <4>1. g \in AssertionGlobals
                BY <3>3, AssertionTyped DEF Asserting
            <4>2. healthy' <=> RunAssertionScript(Predeclared, g) = "healthy"
                BY <2>3, <3>2, <3>3 DEF ScriptEnds, Return
            <4>3. healthy' <=> Strongest(Statements(left)') = "true"
                BY <3>1, <3>3, <4>1, <4>2, AssertionHeeds DEF Statements
            <4> QED BY <3>1, <3>3, <4>3 DEF ScriptSaysSo
        <3>4. CASE ~Asserting
            <4>1. g \in CheckGlobals
                BY <3>4, CheckTyped DEF Asserting
            <4>2. healthy' <=> RunCheckScript(g) = "healthy"
                BY <2>3, <3>2, <3>4 DEF ScriptEnds, Return
            <4>3. Plain(g) =>
                    (healthy' <=> Strongest(Statements(left)') \in {"true", "unset"})
                BY <3>1, <3>4, <4>1, <4>2, CheckHeeds DEF Statements
            <4> QED BY <3>1, <3>4, <4>3 DEF ScriptSaysSo, Plain
        <3> QED BY <3>3, <3>4
    <2>4. \/ UNCHANGED <<config, stage, left, healthy, reason>>
          \/ reason' # "verdict"
          \/ \E g \in Leaves(config.script, Asserting) : ScriptEnds(g)
        <3>0. stage # "done" => reason # "verdict"
            OBVIOUS
        <3>1. CASE Timeout \/ Send \/ ReadBody \/ Panic
            BY <3>0, <3>1 DEF Timeout, Send, ReadBody, Panic, result, Ended
        <3>2. CASE \/ Malformed \/ SendRefused \/ CallFails \/ ReadFails
                   \/ ScriptFails
            BY <3>2 DEF Malformed, SendRefused, CallFails, ReadFails,
                        ScriptFails, Return
        <3>3. CASE \/ \E r \in Responses : Receive(r) \/ AnswerRPC(r)
                   \/ \E scheme \in {"http", "https"} : Redirect(scheme)
            BY <3>0, <3>3 DEF Receive, AnswerRPC, Redirect, Return, result
        <3>4. CASE JudgeStatus \/ JudgeHeaders \/ ParseBody \/ StartScript
            BY <3>0, <3>4 DEF JudgeStatus, JudgeHeaders, ParseBody, StartScript,
                              Return
        <3>5. CASE \E defects \in Faults, reply \in Replies(BodyLengths) :
                     HTTPRequest(defects, reply)
            BY <3>0, <3>5 DEF HTTPRequest, Return
        <3>6. CASE Over \/ UNCHANGED vars
            BY <3>6 DEF Over, vars
        <3> QED BY <3>1, <3>2, <3>3, <3>4, <3>5, <3>6
                DEF Next, Transport, Judgement, Scripting
    <2> QED BY <2>1, <2>2, <2>3, <2>4
<1>3. Inv => ScriptSaysSo
    OBVIOUS
<1> QED BY <1>1, <1>2, <1>3, TypeCorrect, PTL DEF Spec

-----------------------------------------------------------------------------
(* What Scheduler takes an attempt for. *)

\* An attempt as Retrying sees it: a check script is fresh until it runs, any
\* other attempt until its request is sent.
Place ==
    CASE stage = "done"     -> "settled"
      [] stage = "panicked" -> "panicked"
      [] stage = "begin"    -> "fresh"
      [] stage = "script" /\ ~Asserting -> "fresh"
      [] OTHER              -> "committed"

Single == INSTANCE Retrying WITH
    Retries <- 0, place <- Place, number <- 1,
    passed <- counted.success, failed <- counted.failure

\* A return of executeOnce is a result of Retrying.
LEMMA ReturnIsResult ==
    ASSUME TypeOK, config.type # "kafka", config' = config, expired' = expired,
           NEW ok \in BOOLEAN, NEW why, NEW err, Return(ok, why, err)
    PROVE  Single!Result(ok)
<1>1. Place' = "settled" /\ healthy' = ok
    BY DEF Return, Place
<1>2. /\ counted'.success = IF ok THEN counted.success + 1 ELSE counted.success
      /\ counted'.failure = IF ok THEN counted.failure ELSE counted.failure + 1
    BY DEF Return, Count, TypeOK
<1> QED BY <1>1, <1>2 DEF Single!Result

\* The attempt of an HTTP, gRPC or Starlark check is the single attempt that
\* executeWithRetry makes, and Scheduler leaves open, when there is nothing to
\* retry: nothing is sent or run once the context has expired, one result is
\* counted, and a panic is counted as a failure (retry.go:70-107).
THEOREM AttemptsOnce == Spec /\ config.type # "kafka" => Single!Spec
<1> USE DEF Place, Asserting, Single!vars
<1>1. Init /\ config.type # "kafka" => Single!Init
    BY AttemptAssumption DEF Init, IsConfig, Types, Single!Init
<1>2. ASSUME TypeOK, Placed, config.type # "kafka", [Next]_vars
      PROVE  [Single!Next]_(Single!vars) /\ config' = config
    <2> USE <1>2
    <2>1. CASE UNCHANGED vars
        BY <2>1 DEF vars
    <2>2. CASE Timeout
        BY <2>2 DEF Timeout, result, Single!Expire, Single!Next
    <2>3. CASE Panic
        <3>1. /\ counted'.success = counted.success
              /\ counted'.failure = counted.failure + 1
            BY <2>3 DEF Panic, Count, TypeOK
        <3>2. Place = "committed" /\ Place' = "panicked"
            BY <2>3 DEF Panic, Placed
        <3> QED BY <2>3, <3>1, <3>2
                DEF Panic, result, Single!Panic, Single!Next
    <2>4. CASE Malformed \/ SendRefused
        BY <2>4, ReturnIsResult
           DEF Malformed, SendRefused, Single!Refuse, Single!Next
    <2>5. CASE Send
        BY <2>5 DEF Send, result, Placed, Single!Commit, Single!Next
    <2>6. ASSUME Place = "committed", config' = config, expired' = expired,
                 \E ok \in BOOLEAN, why \in Reasons, err \in BOOLEAN :
                    Return(ok, why, err)
          PROVE  Single!Next
        BY <2>6, ReturnIsResult DEF Single!Return, Single!Next
    <2>7. CASE CallFails \/ ReadFails \/ ScriptFails
        BY <2>6, <2>7 DEF CallFails, ReadFails, ScriptFails, Placed, Reasons
    <2>8. ASSUME NEW r \in Responses, Receive(r) \/ AnswerRPC(r)
          PROVE  [Single!Next]_(Single!vars) /\ config' = config
        <3>1. CASE Receive(r)
            BY <3>1 DEF Receive, result
        <3>2. CASE AnswerRPC(r)
            BY <2>6, <3>2, AttemptAssumption DEF AnswerRPC, Reasons
        <3> QED BY <2>8, <3>1, <3>2
    <2>9. CASE ReadBody \/ \E scheme \in {"http", "https"} : Redirect(scheme)
        BY <2>9 DEF ReadBody, Redirect, result
    <2>10. CASE Judgement
        <3>1. /\ stage \in {"status", "headers", "format"} /\ Asserting
              /\ config' = config /\ expired' = expired
              /\ \/ /\ stage' \in {"headers", "format", "script"}
                    /\ UNCHANGED <<healthy, counted>>
                 \/ \E ok \in BOOLEAN, why \in Reasons, err \in BOOLEAN :
                       Return(ok, why, err)
            BY <2>10 DEF Judgement, JudgeStatus, JudgeHeaders, ParseBody,
                         Placed, Reasons
        <3> QED BY <2>6, <3>1
    <2>11. CASE StartScript
        <3>1. CASE ~Asserting /\ expired
            BY <2>11, <3>1, ReturnIsResult
               DEF StartScript, Single!Refuse, Single!Next
        <3>2. CASE ~Asserting /\ ~expired
            BY <2>11, <3>2 DEF StartScript, Single!Commit, Single!Next
        <3>3. CASE Asserting
            BY <2>6, <2>11, <3>3 DEF StartScript, Reasons
        <3> QED BY <3>1, <3>2, <3>3
    <2>12. ASSUME NEW defects, NEW reply, HTTPRequest(defects, reply)
           PROVE  [Single!Next]_(Single!vars) /\ config' = config
        BY <2>6, <2>12 DEF HTTPRequest, Reasons
    <2>13. ASSUME NEW g, ScriptEnds(g)
           PROVE  [Single!Next]_(Single!vars) /\ config' = config
        BY <2>6, <2>13 DEF ScriptEnds, Reasons
    <2> QED BY <2>1, <2>2, <2>3, <2>4, <2>5, <2>7, <2>8, <2>9, <2>10, <2>11,
               <2>12, <2>13 DEF Next, Transport, Scripting, Over
<1>3. Judged => Placed
    BY DEF Judged
<1> DEFINE Counted == config.type # "kafka"
<1>4. Init /\ Counted => Single!Init
    BY <1>1
<1>5. TypeOK /\ Placed /\ Counted /\ [Next]_vars
      => Counted' /\ [Single!Next]_(Single!vars)
    BY <1>2
<1>6. Spec /\ Counted => Single!Spec
    <2> HIDE DEF Counted
    <2> QED BY <1>3, <1>4, <1>5, TypeCorrect, JudgedHolds, PTL
            DEF Spec, Single!Spec
<1> QED BY <1>6
=============================================================================
