-------------------------- MODULE RequestValidation --------------------------
(***************************************************************************)
(* oas_validate_request and oas_validate_response of                       *)
(* src/validator/oas_request.c: the path is matched, the operation is      *)
(* looked up, then the body and each parameter are validated against their *)
(* compiled schemas, with one result record for all of them.               *)
(* oas_adapter_find_operation goes the first half of that way.             *)
(*                                                                         *)
(* What the validation VM makes of a value is a constant here (Accepted);  *)
(* that it reports an error exactly when it says invalid is proved in      *)
(* ValidationVMProofs.  Texts are names: JsonReading says which of them    *)
(* are JSON texts, and Quoted which are JSON texts once quotes are put     *)
(* around them.                                                            *)
(***************************************************************************)
EXTENDS PathMatch, FiniteSets

CONSTANTS
  Docs,          \* compiled documents: records [templates, operations]
  Environments,  \* records [scarce, reuse] of Booleans: whether the arena may be
                 \* exhausted, and whether a result record is passed in again
  Calls,         \* [environment |-> the requests and responses made in it]
  Fold,          \* [name |-> the name without case], for strcasecmp
  JsonReading,   \* [text |-> JSON value], for the texts that are JSON texts
  Quoted,        \* [text |-> JSON string], for the texts that can be quoted
  Accepted       \* set of <<schema, direction, value>> the VM says valid to

ParamSteps == {"header", "query", "path", "cookie"}

ASSUME RequestAssumption ==
  /\ Environments \subseteq [scarce : BOOLEAN, reuse : BOOLEAN]
  /\ \A e \in Environments : \A c \in Calls[e] : c.kind \in {"request", "response", "find"}
  /\ \A d \in Docs :
       /\ IsList(d.templates) /\ \A t \in DOMAIN d.templates : IsList(d.templates[t])
       /\ IsList(d.operations)
       /\ \A k \in DOMAIN d.operations :
            LET o == d.operations[k] IN
            /\ IsList(o.body) /\ IsList(o.responses) /\ IsList(o.params)
            /\ \A r \in DOMAIN o.responses : IsList(o.responses[r].content)
            /\ \A p \in DOMAIN o.params : o.params[p].in \in ParamSteps

VARIABLES
  env,     \* the environment
  doc,     \* oas_compiled_doc_t
  call,    \* the request or response that is validated, or the operation asked for
  step,    \* where the function is; "done" when it has returned
  i,       \* the index of its loop
  best,    \* oas_path_match: index of the best template so far, 0 if none
  op,      \* index of the operation found, 0 before
  valid,   \* result->valid
  errors,  \* result->errors, as records [kind, where]
  rc       \* what the function returned

requestVars == <<env, doc, call, step, i, best, op, valid, errors, rc>>

Running    == {"match", "operation", "body", "response", "content"} \cup ParamSteps

NoBody == "no body"
NoType == [base |-> "", params |-> ""]   \* no Content-Type

-----------------------------------------------------------------------------
(* Lookups.                                                                *)

First(S) == CHOOSE k \in S : \A j \in S : k <= j

Template(t)    == TemplateSegments(doc.templates[t])
Request        == RequestSegments(call.path)
Matches(t)     == RequestPathOk(call.path) /\ TryMatch(Template(t), Request)
StaticCount(t) == Cardinality(StaticSegments(Template(t)))

\* find_operation: by the template's path and the method, without case.
OperationsOf(t, method) ==
  {k \in DOMAIN doc.operations :
     /\ doc.operations[k].path = doc.templates[t]
     /\ Fold[doc.operations[k].method] = Fold[method]}
Operation == doc.operations[op]

\* find_content_type: an exact match first, else the type without parameters.
ContentTypes(entries, type) ==
  LET sameBase == {k \in DOMAIN entries : Fold[entries[k].type.base] = Fold[type.base]}
      exact    == {k \in sameBase : entries[k].type.params = type.params}
      base     == {k \in sameBase : type.params # "" /\ entries[k].type.params = ""}
  IN  IF type = NoType THEN {} ELSE IF exact # {} THEN exact ELSE base

\* find_response: the exact status, else its range (2XX), else "default".
ResponsesFor(o, status) ==
  LET With(key) == {k \in DOMAIN o.responses : o.responses[k].status = key}
      exact == With(<<"code", status>>)
      range == With(<<"range", status \div 100>>)
  IN  IF exact # {} THEN exact ELSE IF range # {} THEN range ELSE With(<<"default">>)
Response == Operation.responses[First(ResponsesFor(Operation, call.status))]

\* The named texts a location offers when template t is the one that matched.
Texts(location, t) ==
  CASE location = "header" -> call.headers
    [] location = "query"  -> call.query
    [] location = "cookie" -> call.cookies
    [] location = "path"   ->
         [k \in ParamSegments(Template(t)) |->
            [name |-> Template(t)[k].text, text |-> Request[k]]]

\* find_header ignores case, the other lookups do not; the first one is taken.
Named(location, t, name) ==
  LET texts == Texts(location, t)
  IN  {k \in DOMAIN texts :
         IF location = "header" THEN Fold[texts[k].name] = Fold[name]
         ELSE texts[k].name = name}
TextOf(location, t, name) == Texts(location, t)[First(Named(location, t, name))].text

\* validate_param_value: the text is read as JSON, else as a quoted string.
Readable(text) == text \in DOMAIN JsonReading \cup DOMAIN Quoted
Reading(text)  == IF text \in DOMAIN JsonReading THEN JsonReading[text] ELSE Quoted[text]

\* Mutant of the next: cookie parameters are forgotten.
ParamStepAfterNoCookie(s) ==
  IF s = "header" THEN "query"
  ELSE IF s = "query" /\ ParamSegments(Template(best)) # {} THEN "path" ELSE "done"

\* The order in which the locations are validated.
ParamStepAfter(s) ==
  CASE s = "header" -> "query"
    [] s = "query"  -> IF ParamSegments(Template(best)) # {} THEN "path" ELSE "cookie"
    [] s = "path"   -> "cookie"
    [] OTHER        -> "done"

-----------------------------------------------------------------------------
(* Results.                                                                *)

Error(kind, where) == [kind |-> kind, where |-> where]

\* oas_error_list_add: the message is lost when there is no memory for it.
AddError(e) == errors' = errors \cup {e} \/ (env.scarce /\ errors' = errors)

Return(code) == step' = "done" /\ rc' = code
Continue(s)  == step' = s /\ rc' = rc

\* An early return that makes the result invalid.
Reject(kind, where) ==
  /\ valid' = FALSE
  /\ AddError(Error(kind, where))
  /\ Return("0")
  /\ UNCHANGED <<env, doc, call, i, best, op>>

Fail(code) == Return(code) /\ UNCHANGED <<env, doc, call, i, best, op, valid, errors>>

\* oas_validate and its variants add an error when the value is invalid.
Accepts(schema, direction, value) == <<schema, direction, value>> \in Accepted
Report(ok, where) == IF ok THEN UNCHANGED errors ELSE AddError(Error("schema", where))

-----------------------------------------------------------------------------
(* The functions.                                                          *)

Init ==
  /\ env \in Environments
  /\ doc \in Docs
  /\ call \in Calls[env]
  /\ step = "match"
  /\ i = 1 /\ best = 0 /\ op = 0
  /\ valid = TRUE
  /\ errors = {}
  /\ rc = "0"

\* A call with the result record of the last one: ensure_errors keeps its list.
\* (A call with a record of its own is one from the initial state.)
CallAgain ==
  /\ env.reuse
  /\ step = "done"
  /\ call' \in Calls[env]
  /\ Continue("match")
  /\ i' = 1 /\ best' = 0 /\ op' = 0
  /\ valid' = TRUE
  /\ UNCHANGED <<env, doc, errors>>

Asked == call.kind = "find"

NoPaths ==
  /\ step = "match" /\ ~Asked
  /\ doc.templates = <<>>
  /\ Reject("schema", <<"no paths">>)

\* The path is empty or does not start with a slash.
BadPath ==
  /\ step = "match"
  /\ doc.templates # <<>>
  /\ call.path = <<>>
  /\ Fail("EINVAL")

Matching == step = "match" /\ doc.templates # <<>> /\ call.path # <<>>

\* oas_path_match goes through the templates and prefers more static segments.
ConsiderTemplate ==
  /\ Matching
  /\ i <= Len(doc.templates)
  /\ best' = IF Matches(i) /\ (best = 0 \/ StaticCount(i) > StaticCount(best))
             THEN i ELSE best
  /\ i' = i + 1
  /\ UNCHANGED <<env, doc, call, step, op, valid, errors, rc>>

PathNotFound ==
  /\ Matching /\ ~Asked
  /\ i > Len(doc.templates)
  /\ best = 0
  /\ Reject("schema", <<"path">>)

PathFound ==
  /\ Matching
  /\ i > Len(doc.templates)
  /\ best # 0
  /\ \/ Continue("operation")
     \/ env.scarce /\ ParamSegments(Template(best)) # {} /\ Return("ENOMEM")
  /\ UNCHANGED <<env, doc, call, i, best, op, valid, errors>>

FindOperation ==
  /\ step = "operation" /\ ~Asked
  /\ LET ops == OperationsOf(best, call.method)
     IN  IF ops = {} THEN Reject("schema", <<"method">>)
         ELSE /\ op' = First(ops)
              /\ Continue(IF call.kind = "request" THEN "body" ELSE "response")
              /\ UNCHANGED <<env, doc, call, i, best, valid, errors>>

\* oas_adapter_find_operation: the operation, and the parameters of the path.
NothingFound ==
  /\ Asked
  /\ \/ step = "match" /\ doc.templates = <<>>
     \/ Matching /\ i > Len(doc.templates) /\ best = 0
     \/ step = "operation" /\ OperationsOf(best, call.method) = {}
  /\ Fail("ENOENT")

ReturnOperation ==
  /\ step = "operation" /\ Asked
  /\ OperationsOf(best, call.method) # {}
  /\ op' = First(OperationsOf(best, call.method))
  /\ \/ Return("0")
     \/ env.scarce /\ ParamSegments(Template(best)) # {} /\ Return("ENOMEM")
  /\ UNCHANGED <<env, doc, call, i, best, valid, errors>>

FindResponse ==
  /\ step = "response"
  /\ IF ResponsesFor(Operation, call.status) = {} THEN Reject("schema", <<"status">>)
     ELSE Continue("content") /\ UNCHANGED <<env, doc, call, i, best, op, valid, errors>>

BodyMissing ==
  /\ step = "body"
  /\ Operation.bodyRequired
  /\ call.body = NoBody
  /\ Reject("required", <<"body">>)

\* The body of the request ("body") or of the response ("content").
Entries   == IF step = "body" THEN Operation.body ELSE Response.content
Direction == IF step = "body" THEN "request" ELSE "response"
EndOfBody ==
  /\ i' = 1
  /\ IF step = "body" /\ Operation.params # <<>> THEN Continue("header") ELSE Return("0")
  /\ UNCHANGED <<env, doc, call, best, op>>

SkipBody ==
  /\ step \in {"body", "content"}
  /\ call.body = NoBody => step = "content" \/ ~Operation.bodyRequired
  /\ call.body = NoBody \/ Entries = <<>>
  /\ EndOfBody
  /\ UNCHANGED <<valid, errors>>

ReadBody ==
  /\ step \in {"body", "content"}
  /\ call.body # NoBody
  /\ Entries # <<>>
  /\ LET types == ContentTypes(Entries, call.type)
     IN  IF types = {} THEN Reject("schema", <<"content type">>)
         ELSE IF call.body \notin DOMAIN JsonReading THEN Fail("EINVAL")
         ELSE LET ok == Accepts(Entries[First(types)].schema, Direction, JsonReading[call.body])
              IN  valid' = ok /\ Report(ok, <<"body">>) /\ EndOfBody

-----------------------------------------------------------------------------
(* validate_header_params, _query_params, _path_params, _cookie_params.    *)

AtParam  == step \in ParamSteps /\ i <= Len(Operation.params)
Current  == Operation.params[i]
Present  == Named(step, best, Current.name) # {}
NextParam == i' = i + 1 /\ UNCHANGED <<env, doc, call, step, best, op, rc>>

PassParam ==
  /\ AtParam
  /\ Current.in # step
  /\ NextParam
  /\ UNCHANGED <<valid, errors>>

\* A value of a raw query that could not be decoded counts as missing.
ValueLost == env.scarce /\ step = "query" /\ call.raw

\* Mutant of the next: a missing parameter is not reported.
MissingParamSilent ==
  /\ AtParam
  /\ Current.in = step
  /\ ~Present \/ ValueLost
  /\ IF Current.required /\ step # "path"
     THEN valid' = FALSE /\ UNCHANGED errors
     ELSE UNCHANGED <<valid, errors>>
  /\ NextParam

\* find_header and its like found nothing.
MissingParam ==
  /\ AtParam
  /\ Current.in = step
  /\ ~Present \/ ValueLost
  /\ IF Current.required /\ step # "path"
     THEN valid' = FALSE /\ AddError(Error("required", <<step, Current.name>>))
     ELSE UNCHANGED <<valid, errors>>
  /\ NextParam

CurrentOk == Accepts(Current.schema, "none", Reading(TextOf(step, best, Current.name)))

\* validate_param_value, with a result record of its own that is merged.
ValidateParam ==
  /\ AtParam
  /\ Current.in = step
  /\ Present
  /\ Readable(TextOf(step, best, Current.name))
  /\ valid' = (valid /\ CurrentOk)
  /\ Report(CurrentOk, <<step, Current.name>>)
  /\ NextParam

\* The quoted text is not JSON: the record of its own has not become valid.
UnreadableParam ==
  /\ AtParam
  /\ Current.in = step
  /\ Present
  /\ ~Readable(TextOf(step, best, Current.name))
  /\ valid' = FALSE
  /\ Return("EINVAL")
  /\ UNCHANGED <<env, doc, call, i, best, op, errors>>

\* No memory: for the pairs of a raw query or of the cookies, or for the quotes.
ParamMemoryFails ==
  /\ env.scarce
  /\ \/ step = "query" /\ i = 1 /\ call.raw /\ call.query # <<>>
     \/ step = "cookie" /\ i = 1 /\ call.cookies # <<>>
     \/ /\ AtParam
        /\ Current.in = step
        /\ Present
        /\ TextOf(step, best, Current.name) \notin DOMAIN JsonReading
  /\ Fail("ENOMEM")

\* oas_query_parse does not notice that a key could not be decoded: strcmp is
\* called with a null pointer, which is undefined.
KeyLost ==
  /\ env.scarce
  /\ AtParam
  /\ step = "query" /\ Current.in = "query"
  /\ call.raw /\ call.query # <<>>
  /\ step' = "undefined"
  /\ UNCHANGED <<env, doc, call, i, best, op, valid, errors, rc>>

NextLocation ==
  /\ step \in ParamSteps
  /\ i > Len(Operation.params)
  /\ i' = 1
  /\ IF ParamStepAfter(step) = "done" THEN Return("0") ELSE Continue(ParamStepAfter(step))
  /\ UNCHANGED <<env, doc, call, best, op, valid, errors>>

Work ==
  \/ NoPaths \/ BadPath \/ ConsiderTemplate \/ PathNotFound \/ PathFound
  \/ FindOperation \/ NothingFound \/ ReturnOperation \/ FindResponse \/ BodyMissing \/ SkipBody \/ ReadBody
  \/ PassParam \/ MissingParam \/ ValidateParam \/ UnreadableParam
  \/ ParamMemoryFails \/ KeyLost \/ NextLocation

Next == CallAgain \/ Work

Spec == Init /\ [][Next]_requestVars
\* The function runs without interruption until it returns.
FairSpec == Spec /\ WF_requestVars(Work)

-----------------------------------------------------------------------------
(* Properties.                                                             *)

TypeOK ==
  /\ env \in Environments /\ doc \in Docs /\ call \in Calls[env]
  /\ step \in Running \cup {"done", "undefined"}
  /\ i \in Nat \ {0}
  /\ best \in 0..Len(doc.templates)
  /\ op \in 0..Len(doc.operations)
  /\ valid \in BOOLEAN
  /\ rc \in {"0", "EINVAL", "ENOENT", "ENOMEM"}

\* What a call has to satisfy, with nothing said about the order of the checks.
BestMatch(t) ==
  /\ Matches(t)
  /\ \A u \in DOMAIN doc.templates :
       Matches(u) => \/ StaticCount(u) < StaticCount(t)
                     \/ StaticCount(u) = StaticCount(t) /\ t <= u

BodyConforms(entries, direction) ==
  call.body # NoBody /\ entries # <<>> =>
    \E k \in ContentTypes(entries, call.type) :
      /\ \A j \in ContentTypes(entries, call.type) : k <= j
      /\ call.body \in DOMAIN JsonReading
      /\ <<entries[k].schema, direction, JsonReading[call.body]>> \in Accepted

ParamConforms(p, t) ==
  IF Named(p.in, t, p.name) = {} THEN ~p.required \/ p.in = "path"
  ELSE <<p.schema, "none", Reading(TextOf(p.in, t, p.name))>> \in Accepted

RequestConforms(o, t) ==
  /\ o.bodyRequired => call.body # NoBody
  /\ BodyConforms(o.body, "request")
  /\ \A k \in DOMAIN o.params : ParamConforms(o.params[k], t)

ResponseConforms(o) ==
  \E k \in ResponsesFor(o, call.status) :
    /\ \A j \in ResponsesFor(o, call.status) : k <= j
    /\ BodyConforms(o.responses[k].content, "response")

Conforms ==
  \E t \in DOMAIN doc.templates :
    /\ BestMatch(t)
    /\ \E k \in OperationsOf(t, call.method) :
         /\ \A j \in OperationsOf(t, call.method) : k <= j
         /\ CASE call.kind = "request"  -> RequestConforms(doc.operations[k], t)
              [] call.kind = "response" -> ResponseConforms(doc.operations[k])
              [] call.kind = "find"     -> op = k

\* When the function returns 0, result->valid says whether the call conforms to
\* the document: no later check hides the failure of an earlier one, and none
\* is left out (oas_validate_request, oas_validate_response).  When the arena is
\* exhausted a query value may count as missing.  An operation that is asked for
\* (oas_adapter_find_operation) is the one the validation would use.
VerdictIsComplete ==
  step = "done" /\ ~env.scarce =>
    IF Asked THEN rc = "0" <=> Conforms ELSE rc = "0" => (valid <=> Conforms)

\* Within a call the result never becomes valid again, and no error is taken
\* back: the results of the parameters are merged, not assigned
\* (validate_param_value, "Uses a temporary result to avoid clobbering prior
\* failures").
FailureSticks == step \in Running => (valid' => valid) /\ (errors \subseteq (errors'))
FailuresStick == [][FailureSticks]_requestVars

\* A valid result comes with an empty error list and, when no message was lost,
\* an invalid one that was returned with 0 comes with an error.  (A list that the
\* caller passed in again is not empty.)
ErrorsExplainVerdict ==
  /\ valid /\ ~env.reuse => errors = {}
  /\ ~valid /\ rc = "0" /\ ~env.scarce => errors # {}

\* Each call returns (FairSpec).
EveryCallReturns == step = "match" ~> step \notin Running

\* Every required parameter that is missing is reported, also when the body is
\* missing (docs/en/05-validator.md: all violations are collected).
AllMissingReported ==
  step = "done" /\ rc = "0" /\ op # 0 /\ call.kind = "request" =>
    \A k \in DOMAIN Operation.params :
      LET p == Operation.params[k]
      IN  p.required /\ p.in # "path" /\ Named(p.in, best, p.name) = {} =>
            Error("required", <<p.in, p.name>>) \in errors

\* A body that is not JSON is reported as a parse error.
ParseFailureReported ==
  step = "done" /\ op # 0 /\ call.kind = "request" /\ call.body # NoBody
    /\ ContentTypes(Operation.body, call.type) # {} /\ call.body \notin DOMAIN JsonReading
    => \E e \in errors : e.kind = "parse"

\* A path with an empty segment matches no template.
EmptySegmentsRejected ==
  step \in Running \ {"match"} =>
    \A k \in 1..(Len(call.path) - 1) : call.path[k] # ""

\* Exhausted memory is reported with a return code, as oas_query.h says; it does
\* not reach strcmp as a null pointer.
MemoryFailureReported == step # "undefined"
=============================================================================
