----------------------- MODULE RequestValidationProofs ------------------------
(***************************************************************************)
(* For every document, every sequence of calls and every failing           *)
(* allocation: a failure is not taken back, verdict and errors agree, and  *)
(* the verdict is that of all parts, of the operation that was found.      *)
(***************************************************************************)
EXTENDS RequestValidation, SequenceTheorems, FiniteSetTheorems, Induction, TLAPS

\* Up to the body the call has not failed, since what fails before it returns;
\* and an invalid result without an error is one the caller must not look at.
VerdictInv ==
  /\ valid \in BOOLEAN
  /\ step \in {"match", "operation", "body", "response", "content"} => valid
  /\ valid /\ ~env.reuse => errors = {}
  /\ ~valid /\ ~env.scarce => errors # {} \/ (step = "done" /\ rc # "0")

LEMMA VerdictInitially == Init => VerdictInv
BY DEF Init, VerdictInv

\* When memory suffices an error that is added is in the list.
LEMMA AddErrorAdds ==
  ASSUME NEW e, AddError(e)
  PROVE  /\ errors \subseteq errors'
         /\ ~env.scarce => errors' # {}
BY DEF AddError

LEMMA ReportExplains ==
  ASSUME NEW ok \in BOOLEAN, NEW where, Report(ok, where)
  PROVE  /\ ok => errors' = errors
         /\ errors \subseteq errors'
         /\ ~ok /\ ~env.scarce => errors' # {}
BY AddErrorAdds DEF Report

LEMMA RejectExplains ==
  ASSUME NEW kind, NEW where, Reject(kind, where)
  PROVE  VerdictInv' /\ errors \subseteq errors' /\ valid' = FALSE
<1>1. /\ errors \subseteq errors'
      /\ ~env.scarce => errors' # {}
  BY AddErrorAdds DEF Reject
<1>2. env' = env /\ step' = "done" /\ valid' = FALSE
  BY DEF Reject, Return
<1>. QED BY <1>1, <1>2 DEF VerdictInv

LEMMA FailKeeps ==
  ASSUME VerdictInv, NEW code, code # "0", Fail(code)
  PROVE  VerdictInv' /\ errors' = errors /\ valid' = valid
BY DEF Fail, Return, VerdictInv

\* The steps of one call: the invariant, and what a step may do to the verdict.
Keeps == VerdictInv' /\ (valid' => valid) /\ errors \subseteq errors'

LEMMA MatchingKeeps ==
  ASSUME VerdictInv,
         NoPaths \/ BadPath \/ ConsiderTemplate \/ PathNotFound \/ PathFound
         \/ FindOperation \/ NothingFound \/ ReturnOperation \/ FindResponse
  PROVE  Keeps
<1>1. CASE NoPaths \/ PathNotFound
  BY <1>1, RejectExplains DEF NoPaths, PathNotFound, Keeps
<1>2. CASE BadPath \/ NothingFound
  BY <1>2, FailKeeps DEF BadPath, NothingFound, Keeps
<1>3. CASE ConsiderTemplate
  BY <1>3 DEF ConsiderTemplate, Keeps, VerdictInv
<1>4. CASE PathFound
  BY <1>4 DEF PathFound, Matching, Continue, Return, Keeps, VerdictInv
<1>5. CASE FindOperation
  <2>1. CASE OperationsOf(best, call.method) = {}
    BY <1>5, <2>1, RejectExplains DEF FindOperation, Keeps
  <2>2. CASE OperationsOf(best, call.method) # {}
    <3>1. UNCHANGED <<env, valid, errors>> /\ step = "operation" /\ step' \in {"body", "response"}
      BY <1>5, <2>2 DEF FindOperation, Continue
    <3>. QED BY <3>1 DEF Keeps, VerdictInv
  <2>. QED BY <2>1, <2>2
<1>6. CASE ReturnOperation
  BY <1>6 DEF ReturnOperation, Return, Keeps, VerdictInv
<1>7. CASE FindResponse
  <2>1. CASE ResponsesFor(Operation, call.status) = {}
    BY <1>7, <2>1, RejectExplains DEF FindResponse, Keeps
  <2>2. CASE ResponsesFor(Operation, call.status) # {}
    <3>1. UNCHANGED <<env, valid, errors>> /\ step = "response" /\ step' = "content"
      BY <1>7, <2>2 DEF FindResponse, Continue
    <3>. QED BY <3>1 DEF Keeps, VerdictInv
  <2>. QED BY <2>1, <2>2
<1>. QED BY <1>1, <1>2, <1>3, <1>4, <1>5, <1>6, <1>7

LEMMA EndOfBodyGoesOn ==
  ASSUME EndOfBody
  PROVE  env' = env /\ (step' = "header" \/ (step' = "done" /\ rc' = "0"))
BY DEF EndOfBody, Continue, Return

LEMMA BodyKeeps ==
  ASSUME VerdictInv, BodyMissing \/ SkipBody \/ ReadBody
  PROVE  Keeps
<1>1. CASE BodyMissing
  BY <1>1, RejectExplains DEF BodyMissing, Keeps
<1>2. CASE SkipBody
  BY <1>2, EndOfBodyGoesOn DEF SkipBody, Keeps, VerdictInv
<1>3. CASE ReadBody
  <2>. DEFINE types == ContentTypes(Entries, call.type)
              ok == Accepts(Entries[First(types)].schema, Direction, JsonReading[call.body])
  <2>1. CASE types = {}
    BY <1>3, <2>1, RejectExplains DEF ReadBody, Keeps
  <2>2. CASE types # {} /\ call.body \notin DOMAIN JsonReading
    BY <1>3, <2>2, FailKeeps DEF ReadBody, Keeps
  <2>3. CASE types # {} /\ call.body \in DOMAIN JsonReading
    <3>1. ok \in BOOLEAN
      BY DEF Accepts
    <3>2. valid' = ok /\ Report(ok, <<"body">>) /\ EndOfBody
      BY <1>3, <2>3 DEF ReadBody
    <3>3. valid
      BY <1>3 DEF ReadBody, VerdictInv
    <3>. HIDE DEF ok, types
    <3>4. /\ ok => errors' = errors
          /\ errors \subseteq errors'
          /\ ~ok /\ ~env.scarce => errors' # {}
      BY <3>1, <3>2, ReportExplains
    <3>5. env' = env /\ step' \in {"header", "done"}
      BY <3>2, EndOfBodyGoesOn
    <3>. QED BY <3>1, <3>2, <3>3, <3>4, <3>5 DEF Keeps, VerdictInv
  <2>. QED BY <2>1, <2>2, <2>3
<1>. QED BY <1>1, <1>2, <1>3

LEMMA ParametersKeep ==
  ASSUME VerdictInv,
         PassParam \/ MissingParam \/ ValidateParam \/ UnreadableParam
         \/ ParamMemoryFails \/ KeyLost \/ NextLocation
  PROVE  Keeps
<1>1. CASE PassParam
  BY <1>1 DEF PassParam, AtParam, ParamSteps, NextParam, Keeps, VerdictInv
<1>2. CASE MissingParam
  <2>1. env' = env /\ step' = step /\ rc' = rc /\ step \in ParamSteps
    BY <1>2 DEF MissingParam, AtParam, NextParam
  <2>2. CASE Current.required /\ step # "path"
    <3>1. valid' = FALSE /\ errors \subseteq errors' /\ (~env.scarce => errors' # {})
      BY <1>2, <2>2, AddErrorAdds DEF MissingParam
    <3>. QED BY <2>1, <3>1 DEF Keeps, VerdictInv, ParamSteps
  <2>3. CASE ~(Current.required /\ step # "path")
    BY <1>2, <2>1, <2>3 DEF MissingParam, Keeps, VerdictInv
  <2>. QED BY <2>2, <2>3
<1>3. CASE ValidateParam
  <2>1. env' = env /\ step' = step /\ rc' = rc /\ step \in ParamSteps
    BY <1>3 DEF ValidateParam, AtParam, NextParam
  <2>2. CurrentOk \in BOOLEAN
    BY DEF CurrentOk, Accepts
  <2>3. /\ valid' = (valid /\ CurrentOk)
        /\ Report(CurrentOk, <<step, Current.name>>)
    BY <1>3 DEF ValidateParam
  <2>4. /\ CurrentOk => errors' = errors
        /\ errors \subseteq errors'
        /\ ~CurrentOk /\ ~env.scarce => errors' # {}
    BY <2>2, <2>3, ReportExplains
  <2>5. step # "done"
    BY <2>1 DEF ParamSteps
  <2>6. CASE CurrentOk
    BY <2>1, <2>2, <2>3, <2>4, <2>6 DEF Keeps, VerdictInv
  <2>7. CASE ~CurrentOk
    BY <2>1, <2>2, <2>3, <2>4, <2>7 DEF Keeps, VerdictInv, ParamSteps
  <2>. QED BY <2>2, <2>6, <2>7
<1>4. CASE UnreadableParam
  BY <1>4 DEF UnreadableParam, Return, Keeps, VerdictInv
<1>5. CASE ParamMemoryFails
  BY <1>5, FailKeeps DEF ParamMemoryFails, Keeps
<1>6. CASE KeyLost
  BY <1>6 DEF KeyLost, Keeps, VerdictInv
<1>7. CASE NextLocation
  <2>1. UNCHANGED <<env, valid, errors>> /\ step \in ParamSteps
    BY <1>7 DEF NextLocation
  <2>2. step' \in {"query", "path", "cookie", "done"}
    BY <1>7 DEF NextLocation, Return, Continue, ParamStepAfter
  <2>. QED BY <2>1, <2>2 DEF Keeps, VerdictInv, ParamSteps
<1>. QED BY <1>1, <1>2, <1>3, <1>4, <1>5, <1>6, <1>7

LEMMA WorkKeeps == ASSUME VerdictInv, Work PROVE Keeps
BY MatchingKeeps, BodyKeeps, ParametersKeep DEF Work

LEMMA VerdictInductive == VerdictInv /\ [Next]_requestVars => VerdictInv'
<1>. SUFFICES ASSUME VerdictInv, [Next]_requestVars PROVE VerdictInv'
  OBVIOUS
<1>1. CASE Work
  BY <1>1, WorkKeeps DEF Keeps
<1>2. CASE CallAgain
  BY <1>2 DEF CallAgain, VerdictInv
<1>3. CASE UNCHANGED requestVars
  BY <1>3 DEF requestVars, VerdictInv
<1>. QED BY <1>1, <1>2, <1>3 DEF Next

THEOREM VerdictInvariant == Spec => []VerdictInv
BY VerdictInitially, VerdictInductive, PTL DEF Spec

\* A valid result comes without errors, an invalid one that is returned with 0
\* comes with one unless its message was lost (result->valid, result->errors).
THEOREM ErrorsAndVerdictAgree == Spec => []ErrorsExplainVerdict
<1>1. VerdictInv => ErrorsExplainVerdict
  BY DEF VerdictInv, ErrorsExplainVerdict
<1>. QED BY <1>1, VerdictInvariant, PTL

\* Within a call the result never becomes valid again and no error is taken back
\* (validate_param_value: "Uses a temporary result to avoid clobbering prior
\* failures").
THEOREM FailuresAreKept == Spec => FailuresStick
<1>1. VerdictInv /\ [Next]_requestVars => [FailureSticks]_requestVars
  <2>. SUFFICES ASSUME VerdictInv, [Next]_requestVars PROVE [FailureSticks]_requestVars
    OBVIOUS
  <2>1. CASE Work
    BY <2>1, WorkKeeps DEF Keeps, FailureSticks
  <2>2. CASE CallAgain
    BY <2>2 DEF CallAgain, FailureSticks, Running, ParamSteps
  <2>3. CASE UNCHANGED requestVars
    BY <2>3
  <2>. QED BY <2>1, <2>2, <2>3 DEF Next
<1>. QED BY <1>1, VerdictInvariant, PTL DEF Spec, FailuresStick

-----------------------------------------------------------------------------
(* What the verdict says.                                                  *)

\* The best of the first n templates.
BestOf(n) ==
  /\ best \in 0..n
  /\ best # 0 => Matches(best)
  /\ \A u \in 1..n :
       Matches(u) => /\ best # 0
                     /\ \/ StaticCount(u) < StaticCount(best)
                        \/ StaticCount(u) = StaticCount(best) /\ best <= u

\* The locations that are done with, and the parameters that have been looked at.
Before(location) ==
  IF location = "header" THEN {}
  ELSE IF location = "query" THEN {"header"}
  ELSE IF location = "path" THEN {"header", "query"}
  ELSE {"header", "query", "path"}
Checked ==
  {k \in DOMAIN Operation.params :
     \/ Operation.params[k].in \in Before(step)
     \/ Operation.params[k].in = step /\ k < i}

\* The template and the operation the call is for.
FoundInv ==
  /\ step = "match" => i <= Len(doc.templates) + 1 /\ BestOf(i - 1)
  /\ step \in {"match", "operation"} => op = 0
  /\ step \in Running \ {"match"} => best \in DOMAIN doc.templates /\ BestMatch(best)
  /\ step \in Running \ {"match", "operation"} =>
       /\ op \in OperationsOf(best, call.method)
       /\ \A k \in OperationsOf(best, call.method) : op <= k

\* What has been looked at conforms exactly when the result is still valid.
PartsInv ==
  /\ step \in {"body"} \cup ParamSteps => call.kind = "request"
  /\ step \in {"response", "content"} => call.kind = "response"
  /\ step = "content" => ResponsesFor(Operation, call.status) # {}
  /\ step \in ParamSteps =>
       /\ Operation.bodyRequired => call.body # NoBody
       /\ ~env.scarce =>
            (valid <=> /\ BodyConforms(Operation.body, "request")
                       /\ \A k \in Checked : ParamConforms(Operation.params[k], best))

InputInv ==
  /\ doc \in Docs /\ env \in Environments /\ call \in Calls[env]
  /\ step \in Running \cup {"done", "undefined"}
  /\ i \in Nat \ {0}

CallInv == InputInv /\ FoundInv /\ PartsInv /\ VerdictIsComplete

\* First takes the least.
LEMMA FirstIsLeast ==
  ASSUME NEW S \in SUBSET Nat, S # {}
  PROVE  /\ First(S) \in S /\ \A j \in S : First(S) <= j
         /\ \A k \in S : (\A j \in S : k <= j) => k = First(S)
<1>1. PICK n \in S : \A m \in S : n <= m
  BY LeastElement
<1>2. First(S) \in S /\ \A j \in S : First(S) <= j
  BY <1>1 DEF First
<1>3. ASSUME NEW k \in S, \A j \in S : k <= j PROVE k = First(S)
  <2>1. k \in Nat /\ First(S) \in Nat /\ k <= First(S) /\ First(S) <= k
    BY <1>2, <1>3
  <2>. HIDE DEF First
  <2>. QED BY <2>1
<1>. QED BY <1>2, <1>3

LEMMA ListIs ==
  ASSUME NEW s, IsList(s)
  PROVE  Len(s) \in Nat /\ DOMAIN s = 1..Len(s)
BY LenProperties DEF IsList

\* The documents are made of arrays.
LEMMA TemplateIs ==
  ASSUME doc \in Docs
  PROVE  /\ Len(doc.templates) \in Nat /\ DOMAIN doc.templates = 1..Len(doc.templates)
         /\ \A t \in DOMAIN doc.templates : StaticCount(t) \in Nat
<1>1. Len(doc.templates) \in Nat /\ DOMAIN doc.templates = 1..Len(doc.templates)
  BY ListIs, RequestAssumption
<1>2. ASSUME NEW t \in DOMAIN doc.templates PROVE StaticCount(t) \in Nat
  <2>. DEFINE u == doc.templates[t]
  <2>1. IsList(u)
    BY RequestAssumption
  <2>2. Len(u) \in Nat
    BY <2>1, ListIs
  <2>. HIDE DEF u
  <2>3. PICK n \in Nat : DOMAIN TemplateSegments(u) \subseteq 1..n
    <3>1. CASE TemplateSegments(u) = <<>>
      BY <3>1
    <3>2. CASE TemplateSegments(u) = u
      BY <2>1, <3>2, ListIs
    <3>3. CASE TemplateSegments(u) = WithoutLast(u) /\ u # <<>>
      <4>1. Len(u) - 1 \in Nat
        BY <2>1, <2>2, <3>3, EmptySeq DEF IsList
      <4>2. DOMAIN WithoutLast(u) = 1..(Len(u) - 1)
        BY <4>1 DEF WithoutLast
      <4>. QED BY <3>3, <4>1, <4>2
    <3>. QED BY <3>1, <3>2, <3>3 DEF TemplateSegments, Trimmed
  <2>4. StaticSegments(Template(t)) \subseteq 1..n
    BY <2>3 DEF StaticSegments, Template, u
  <2>5. IsFiniteSet(1..n)
    BY FS_Interval
  <2>. QED BY <2>4, <2>5, FS_Subset, FS_CardinalityType DEF StaticCount
<1>. QED BY <1>1, <1>2

LEMMA OperationIs ==
  ASSUME doc \in Docs, NEW k \in DOMAIN doc.operations
  PROVE  LET o == doc.operations[k] IN
         /\ k \in Nat \ {0}
         /\ Len(o.params) \in Nat /\ DOMAIN o.params = 1..Len(o.params)
         /\ \A p \in DOMAIN o.params : o.params[p].in \in ParamSteps
         /\ DOMAIN o.body \subseteq Nat /\ DOMAIN o.responses \subseteq Nat
         /\ \A r \in DOMAIN o.responses : DOMAIN o.responses[r].content \subseteq Nat
<1>. DEFINE o == doc.operations[k]
<1>1. /\ IsList(doc.operations) /\ IsList(o.body) /\ IsList(o.responses) /\ IsList(o.params)
      /\ \A r \in DOMAIN o.responses : IsList(o.responses[r].content)
      /\ \A p \in DOMAIN o.params : o.params[p].in \in ParamSteps
  BY RequestAssumption
<1>2. k \in Nat \ {0}
  BY <1>1, ListIs
<1>. HIDE DEF o
<1>3. /\ Len(o.params) \in Nat /\ DOMAIN o.params = 1..Len(o.params)
      /\ DOMAIN o.body \subseteq Nat /\ DOMAIN o.responses \subseteq Nat
  BY <1>1, ListIs
<1>4. \A r \in DOMAIN o.responses : DOMAIN o.responses[r].content \subseteq Nat
  <2>1. ASSUME NEW r \in DOMAIN o.responses PROVE DOMAIN o.responses[r].content \subseteq Nat
    BY <1>1, ListIs
  <2>. QED BY <2>1
<1>. QED BY <1>1, <1>2, <1>3, <1>4 DEF o

LEMMA BestIsUnique ==
  ASSUME doc \in Docs, NEW t \in DOMAIN doc.templates, NEW u \in DOMAIN doc.templates,
         BestMatch(t), BestMatch(u)
  PROVE  t = u
<1>1. t \in Nat /\ u \in Nat /\ StaticCount(t) \in Nat /\ StaticCount(u) \in Nat
  BY TemplateIs
<1>2. /\ StaticCount(u) < StaticCount(t) \/ (StaticCount(u) = StaticCount(t) /\ t <= u)
      /\ StaticCount(t) < StaticCount(u) \/ (StaticCount(t) = StaticCount(u) /\ u <= t)
  BY DEF BestMatch
<1>. QED BY <1>1, <1>2

LEMMA OperationsAre ==
  ASSUME doc \in Docs, NEW t, NEW method
  PROVE  /\ OperationsOf(t, method) \subseteq DOMAIN doc.operations
         /\ OperationsOf(t, method) \subseteq Nat
BY OperationIs DEF OperationsOf

\* The call conforms when its parts do to the operation found.
ConformsTo(k) ==
  CASE call.kind = "request"  -> RequestConforms(doc.operations[k], best)
    [] call.kind = "response" -> ResponseConforms(doc.operations[k])
    [] call.kind = "find"     -> op = k

LEMMA ConformsIs ==
  ASSUME doc \in Docs, best \in DOMAIN doc.templates, BestMatch(best),
         NEW k \in OperationsOf(best, call.method),
         \A j \in OperationsOf(best, call.method) : k <= j
  PROVE  Conforms <=> ConformsTo(k)
<1>1. ASSUME ConformsTo(k) PROVE Conforms
  BY <1>1 DEF ConformsTo, Conforms
<1>2. ASSUME Conforms PROVE ConformsTo(k)
  <2>1. PICK t \in DOMAIN doc.templates :
          /\ BestMatch(t)
          /\ \E n \in OperationsOf(t, call.method) :
               /\ \A j \in OperationsOf(t, call.method) : n <= j
               /\ CASE call.kind = "request"  -> RequestConforms(doc.operations[n], t)
                    [] call.kind = "response" -> ResponseConforms(doc.operations[n])
                    [] call.kind = "find"     -> op = n
    BY <1>2 DEF Conforms
  <2>2. t = best
    BY <2>1, BestIsUnique
  <2>3. PICK n \in OperationsOf(best, call.method) :
          /\ \A j \in OperationsOf(best, call.method) : n <= j
          /\ CASE call.kind = "request"  -> RequestConforms(doc.operations[n], best)
               [] call.kind = "response" -> ResponseConforms(doc.operations[n])
               [] call.kind = "find"     -> op = n
    BY <2>1, <2>2
  <2>4. n = k
    BY <2>3, OperationsAre
  <2>. QED BY <2>3, <2>4 DEF ConformsTo
<1>. QED BY <1>1, <1>2

\* What is said of a call as long as it is made.
LEMMA CallUnchanged ==
  ASSUME doc' = doc, call' = call
  PROVE  /\ \A t : Matches(t)' = Matches(t) /\ StaticCount(t)' = StaticCount(t)
         /\ \A t : BestMatch(t)' = BestMatch(t)
         /\ \A t, method : OperationsOf(t, method)' = OperationsOf(t, method)
         /\ \A o, status : ResponsesFor(o, status)' = ResponsesFor(o, status)
         /\ \A entries, direction : BodyConforms(entries, direction)' = BodyConforms(entries, direction)
         /\ \A param, t : ParamConforms(param, t)' = ParamConforms(param, t)
         /\ \A o, t : RequestConforms(o, t)' = RequestConforms(o, t)
         /\ \A o : ResponseConforms(o)' = ResponseConforms(o)
BY DEF Matches, StaticCount, BestMatch, OperationsOf, ResponsesFor, BodyConforms, ContentTypes,
       ParamConforms, RequestConforms, ResponseConforms, Named, TextOf, Texts, Template, Request

LEMMA ConformsUnchanged ==
  ASSUME doc' = doc, call' = call, op' = op \/ call.kind \in {"request", "response"}
  PROVE  Conforms' = Conforms
<1>1. /\ \A t : BestMatch(t)' = BestMatch(t)
      /\ \A t, method : OperationsOf(t, method)' = OperationsOf(t, method)
      /\ \A o, t : RequestConforms(o, t)' = RequestConforms(o, t)
      /\ \A o : ResponseConforms(o)' = ResponseConforms(o)
  BY CallUnchanged
<1>2. CASE op' = op
  BY <1>2 DEF Conforms, Matches, StaticCount, BestMatch, OperationsOf, ResponsesFor, BodyConforms,
              ContentTypes, ParamConforms, RequestConforms, ResponseConforms, Named, TextOf,
              Texts, Template, Request
<1>3. CASE call.kind = "request"
  BY <1>1, <1>3 DEF Conforms
<1>4. CASE call.kind = "response"
  BY <1>1, <1>4 DEF Conforms
<1>. QED BY <1>2, <1>3, <1>4

LEMMA KindIs == ASSUME InputInv PROVE call.kind \in {"request", "response", "find"}
BY RequestAssumption DEF InputInv

\* A call that returns with the right answer.
LEMMA ReturnsRight ==
  ASSUME InputInv, step' = "done", i' \in Nat \ {0}, UNCHANGED <<env, doc, call>>,
         VerdictIsComplete'
  PROVE  CallInv'
BY DEF CallInv, InputInv, FoundInv, PartsInv, Running, ParamSteps

LEMMA RejectsRight ==
  ASSUME InputInv, ~Asked, ~Conforms, NEW kind, NEW where, Reject(kind, where)
  PROVE  CallInv'
<1>1. /\ step' = "done" /\ valid' = FALSE /\ UNCHANGED <<env, doc, call, i, op>>
      /\ ~Asked'
  BY DEF Reject, Return, Asked
<1>2. ~Conforms'
  BY <1>1, ConformsUnchanged
<1>3. VerdictIsComplete'
  BY <1>1, <1>2 DEF VerdictIsComplete
<1>. QED BY <1>1, <1>3, ReturnsRight DEF InputInv

LEMMA FailsRight ==
  ASSUME InputInv, NEW code, code # "0", Fail(code), Asked /\ ~env.scarce => ~Conforms
  PROVE  CallInv'
<1>1. /\ step' = "done" /\ rc' # "0" /\ UNCHANGED <<env, doc, call, i, op>>
      /\ Asked' = Asked
  BY DEF Fail, Return, Asked
<1>2. Conforms' = Conforms
  BY <1>1, ConformsUnchanged
<1>3. VerdictIsComplete'
  BY <1>1, <1>2 DEF VerdictIsComplete
<1>. QED BY <1>1, <1>3, ReturnsRight DEF InputInv

LEMMA AskedNotFound ==
  ASSUME doc \in Docs, Asked, op = 0
  PROVE  ~Conforms
<1>1. SUFFICES ASSUME Conforms PROVE FALSE
  OBVIOUS
<1>2. PICK t, k : k \in OperationsOf(t, call.method) /\ op = k
  BY <1>1 DEF Conforms, Asked
<1>3. k \in DOMAIN doc.operations
  BY <1>2, OperationsAre
<1>4. k \in Nat \ {0}
  BY <1>3, OperationIs
<1>. QED BY <1>2, <1>4

\* The loop over the templates.
LEMMA MatchEnds ==
  ASSUME InputInv, FoundInv, Matching, i > Len(doc.templates)
  PROVE  /\ best = 0 => ~Conforms
         /\ best # 0 => best \in DOMAIN doc.templates /\ BestMatch(best)
<1>1. /\ doc \in Docs /\ i \in Nat /\ Len(doc.templates) \in Nat
      /\ DOMAIN doc.templates = 1..Len(doc.templates)
  BY TemplateIs DEF InputInv
<1>2. i - 1 = Len(doc.templates) /\ BestOf(Len(doc.templates))
  <2>1. i <= Len(doc.templates) + 1 /\ BestOf(i - 1)
    BY DEF FoundInv, Matching
  <2>2. i - 1 = Len(doc.templates)
    BY <1>1, <2>1
  <2>. QED BY <2>1, <2>2
<1>3. ASSUME best = 0 PROVE ~Conforms
  BY <1>1, <1>2, <1>3 DEF BestOf, Conforms, BestMatch
<1>4. ASSUME best # 0 PROVE best \in DOMAIN doc.templates /\ BestMatch(best)
  BY <1>1, <1>2, <1>4 DEF BestOf, BestMatch
<1>. QED BY <1>3, <1>4

LEMMA ConsiderRight ==
  ASSUME CallInv, ConsiderTemplate
  PROVE  CallInv'
<1>1. /\ doc \in Docs /\ i \in Nat \ {0} /\ Len(doc.templates) \in Nat
      /\ DOMAIN doc.templates = 1..Len(doc.templates)
      /\ \A t \in 1..Len(doc.templates) : StaticCount(t) \in Nat
  BY TemplateIs DEF CallInv, InputInv
<1>2. /\ step = "match" /\ step' = "match" /\ i <= Len(doc.templates) /\ i' = i + 1
      /\ best' = IF Matches(i) /\ (best = 0 \/ StaticCount(i) > StaticCount(best)) THEN i ELSE best
      /\ UNCHANGED <<env, doc, call, op>>
  BY DEF ConsiderTemplate, Matching
<1>3. BestOf(i - 1) /\ op = 0
  BY <1>2 DEF CallInv, FoundInv
<1>4. i' - 1 = i /\ i' <= Len(doc'.templates) + 1 /\ i' \in Nat \ {0}
  BY <1>1, <1>2
<1>5. best' \in 0..i /\ (best' # 0 => Matches(best'))
  BY <1>1, <1>2, <1>3 DEF BestOf
<1>6. ASSUME NEW u \in 1..i, Matches(u)
      PROVE  /\ best' # 0
             /\ \/ StaticCount(u) < StaticCount(best')
                \/ StaticCount(u) = StaticCount(best') /\ u >= best'
  <2>1. /\ StaticCount(u) \in Nat /\ StaticCount(i) \in Nat
        /\ best # 0 => StaticCount(best) \in Nat /\ best \in 1..i
    BY <1>1, <1>2, <1>3 DEF BestOf
  <2>2. CASE u = i
    BY <1>2, <1>6, <2>1, <2>2
  <2>3. CASE u # i
    <3>1. u \in 1..(i - 1)
      BY <1>1, <2>3
    <3>2. /\ best # 0
          /\ \/ StaticCount(u) < StaticCount(best)
             \/ StaticCount(u) = StaticCount(best) /\ best <= u
      BY <1>3, <1>6, <3>1 DEF BestOf
    <3>. QED BY <1>2, <2>1, <3>2
  <2>. QED BY <2>2, <2>3
<1>7. PICK n : n = i
  OBVIOUS
<1>8. BestOf(n)'
  <2>1. /\ \A t : Matches(t)' = Matches(t) /\ StaticCount(t)' = StaticCount(t)
    BY <1>2, CallUnchanged
  <2>2. PICK b : b = best'
    OBVIOUS
  <2>3. /\ b \in 0..n /\ (b # 0 => Matches(b)')
        /\ \A u \in 1..n :
             Matches(u)' => /\ b # 0
                           /\ \/ StaticCount(u)' < StaticCount(b)'
                              \/ StaticCount(u)' = StaticCount(b)' /\ b <= u
    BY <1>1, <1>5, <1>6, <1>7, <2>1, <2>2
  <2>. QED BY <2>2, <2>3 DEF BestOf
<1>9. InputInv'
  BY <1>2, <1>4 DEF CallInv, InputInv
<1>10. FoundInv'
  BY <1>2, <1>3, <1>4, <1>7, <1>8 DEF FoundInv
<1>11. PartsInv' /\ VerdictIsComplete'
  BY <1>2 DEF PartsInv, VerdictIsComplete, ParamSteps
<1>. QED BY <1>9, <1>10, <1>11 DEF CallInv

\* Before the body.
LEMMA MatchingRight ==
  ASSUME VerdictInv, CallInv,
         NoPaths \/ BadPath \/ ConsiderTemplate \/ PathNotFound \/ PathFound
  PROVE  CallInv'
<1>1. InputInv /\ FoundInv /\ doc \in Docs
  BY DEF CallInv, InputInv
<1>2. CASE NoPaths
  <2>1. ~Conforms
    <3>1. doc.templates = <<>>
      BY <1>2 DEF NoPaths
    <3>2. DOMAIN doc.templates = 1..0
      BY <1>1, <3>1, TemplateIs, EmptySeq
    <3>. QED BY <3>2 DEF Conforms
  <2>. QED BY <1>1, <1>2, <2>1, RejectsRight DEF NoPaths
<1>3. CASE BadPath
  <2>1. op = 0 /\ Fail("EINVAL")
    BY <1>1, <1>3 DEF BadPath, FoundInv
  <2>. QED BY <1>1, <2>1, AskedNotFound, FailsRight
<1>4. CASE ConsiderTemplate
  BY <1>4, ConsiderRight
<1>5. CASE PathNotFound
  <2>1. ~Conforms
    BY <1>1, <1>5, MatchEnds DEF PathNotFound
  <2>. QED BY <1>1, <1>5, <2>1, RejectsRight DEF PathNotFound
<1>6. CASE PathFound
  <2>1. /\ best \in DOMAIN doc.templates /\ BestMatch(best) /\ op = 0
        /\ UNCHANGED <<env, doc, call, i, best, op, valid>>
        /\ step' = "operation" \/ (env.scarce /\ step' = "done")
    BY <1>1, <1>6, MatchEnds DEF PathFound, Matching, FoundInv, Continue, Return
  <2>2. CASE step' = "operation"
    <3>1. InputInv'
      BY <1>1, <2>1, <2>2 DEF InputInv, Running
    <3>2. FoundInv'
      <4>1. PICK t : t = best
        OBVIOUS
      <4>2. BestMatch(t)'
        BY <2>1, <4>1, CallUnchanged
      <4>3. BestMatch(best)'
        BY <2>1, <4>1, <4>2
      <4>. QED BY <2>1, <2>2, <4>3 DEF FoundInv, Running, ParamSteps
    <3>3. PartsInv' /\ VerdictIsComplete'
      BY <2>2 DEF PartsInv, VerdictIsComplete, ParamSteps
    <3>. QED BY <3>1, <3>2, <3>3 DEF CallInv
  <2>3. CASE env.scarce /\ step' = "done"
    BY <1>1, <2>1, <2>3, ReturnsRight DEF InputInv, VerdictIsComplete
  <2>. QED BY <2>1, <2>2, <2>3
<1>. QED BY <1>2, <1>3, <1>4, <1>5, <1>6

LEMMA OperationRight ==
  ASSUME CallInv, FindOperation \/ NothingFound \/ ReturnOperation
  PROVE  CallInv'
<1>1. InputInv /\ FoundInv /\ doc \in Docs
  BY DEF CallInv, InputInv
<1>2. CASE NothingFound
  <2>1. op = 0 /\ Fail("ENOENT")
    BY <1>1, <1>2 DEF NothingFound, Matching, FoundInv
  <2>. QED BY <1>1, <2>1, AskedNotFound, FailsRight
<1>. DEFINE ops == OperationsOf(best, call.method)
<1>3. ASSUME step = "operation"
      PROVE  best \in DOMAIN doc.templates /\ BestMatch(best) /\ op = 0
  BY <1>1, <1>3 DEF FoundInv, Running
<1>4. ASSUME ops # {}
      PROVE  First(ops) \in ops /\ \A j \in ops : First(ops) <= j
  <2>1. ops \in SUBSET Nat
    BY <1>1, OperationsAre
  <2>. QED BY <1>4, <2>1, FirstIsLeast
<1>5. CASE FindOperation /\ ops = {}
  <2>1. ~Conforms
    BY <1>1, <1>3, <1>5, BestIsUnique DEF FindOperation, Conforms
  <2>. QED BY <1>1, <1>5, <2>1, RejectsRight DEF FindOperation
<1>6. CASE FindOperation /\ ops # {}
  <2>1. /\ ~Asked /\ step = "operation" /\ op' = First(ops)
        /\ step' = IF call.kind = "request" THEN "body" ELSE "response"
        /\ UNCHANGED <<env, doc, call, i, best, valid>>
    BY <1>6 DEF FindOperation, Continue
  <2>2. step' \in {"body", "response"}
    BY <2>1
  <2>3. InputInv'
    BY <1>1, <2>1, <2>2 DEF InputInv, Running
  <2>4. FoundInv'
    <3>1. PICK t, m : t = best /\ m = call.method
      OBVIOUS
    <3>2. BestMatch(t)' /\ OperationsOf(t, m)' = ops
      BY <1>3, <2>1, <3>1, CallUnchanged
    <3>3. BestMatch(best)' /\ OperationsOf(best, call.method)' = ops
      BY <2>1, <3>1, <3>2
    <3>. HIDE DEF ops
    <3>. QED BY <1>3, <1>4, <1>6, <2>1, <2>2, <3>3 DEF FoundInv, Running, ParamSteps
  <2>5. PartsInv'
    <3>1. call.kind \in {"request", "response"}
      BY <1>1, <2>1, KindIs DEF Asked
    <3>. QED BY <2>1, <3>1 DEF PartsInv, ParamSteps
  <2>6. VerdictIsComplete'
    BY <2>2 DEF VerdictIsComplete
  <2>. QED BY <2>3, <2>4, <2>5, <2>6 DEF CallInv
<1>7. CASE ReturnOperation
  <2>1. /\ Asked /\ step = "operation" /\ ops # {} /\ op' = First(ops)
        /\ step' = "done" /\ (rc' = "0" \/ env.scarce)
        /\ UNCHANGED <<env, doc, call, i, best, valid>>
    BY <1>7 DEF ReturnOperation, Return
  <2>2. Conforms'
    <3>1. PICK t, m, k : t = best /\ m = call.method /\ k = First(ops)
      OBVIOUS
    <3>2. BestMatch(t)' /\ OperationsOf(t, m)' = ops
      BY <1>3, <2>1, <3>1, CallUnchanged
    <3>3. t \in DOMAIN doc'.templates /\ k \in OperationsOf(t, m)'
          /\ (\A j \in OperationsOf(t, m)' : k <= j)
      BY <1>3, <1>4, <2>1, <3>1, <3>2
    <3>4. call'.kind = "find" /\ op' = k /\ m = call'.method
      BY <2>1, <3>1 DEF Asked
    <3>. HIDE DEF ops
    <3>. QED BY <3>2, <3>3, <3>4 DEF Conforms
  <2>3. VerdictIsComplete'
    BY <2>1, <2>2 DEF VerdictIsComplete, Asked
  <2>. QED BY <1>1, <2>1, <2>3, ReturnsRight DEF InputInv
<1>. QED BY <1>2, <1>5, <1>6, <1>7

\* What is left to find out about the operation found.
LEMMA FoundIs ==
  ASSUME InputInv, FoundInv, step \in Running \ {"match", "operation"}
  PROVE  /\ doc \in Docs /\ op \in DOMAIN doc.operations
         /\ best \in DOMAIN doc.templates /\ BestMatch(best)
         /\ call.kind = "request" => (Conforms <=> RequestConforms(Operation, best))
         /\ call.kind = "response" => (Conforms <=> ResponseConforms(Operation))
<1>1. /\ doc \in Docs /\ best \in DOMAIN doc.templates /\ BestMatch(best)
      /\ op \in OperationsOf(best, call.method)
      /\ \A k \in OperationsOf(best, call.method) : op <= k
  BY DEF InputInv, FoundInv
<1>2. PICK k : k = op
  OBVIOUS
<1>3. Conforms <=> ConformsTo(k)
  BY <1>1, <1>2, ConformsIs
<1>. QED BY <1>1, <1>2, <1>3, OperationsAre DEF ConformsTo, Operation

LEMMA FoundStays ==
  ASSUME FoundInv, UNCHANGED <<doc, call, best, op>>,
         step \in Running \ {"match", "operation"}, step' \in Running \ {"match", "operation"}
  PROVE  FoundInv'
<1>1. PICK t, m : t = best /\ m = call.method
  OBVIOUS
<1>2. BestMatch(t)' = BestMatch(t) /\ OperationsOf(t, m)' = OperationsOf(t, m)
  BY CallUnchanged
<1>3. BestMatch(best)' = BestMatch(best)
      /\ OperationsOf(best, call.method)' = OperationsOf(best, call.method)
  BY <1>1, <1>2
<1>. QED BY <1>3 DEF FoundInv

LEMMA ResponseFound ==
  ASSUME InputInv, FoundInv, call.kind = "response", step \in {"response", "content"}
  PROVE  /\ ResponsesFor(Operation, call.status) = {} => ~Conforms
         /\ ResponsesFor(Operation, call.status) # {} =>
              /\ Conforms <=> BodyConforms(Response.content, "response")
              /\ DOMAIN Response.content \subseteq Nat
<1>. DEFINE answers == ResponsesFor(Operation, call.status)
<1>1. /\ doc \in Docs /\ op \in DOMAIN doc.operations
      /\ Conforms <=> ResponseConforms(Operation)
  BY FoundIs DEF Running
<1>2. /\ DOMAIN Operation.responses \subseteq Nat
      /\ \A r \in DOMAIN Operation.responses : DOMAIN Operation.responses[r].content \subseteq Nat
  BY <1>1, OperationIs DEF Operation
<1>3. answers \subseteq DOMAIN Operation.responses
  BY DEF ResponsesFor
<1>4. answers = {} => ~ResponseConforms(Operation)
  BY DEF ResponseConforms
<1>5. ASSUME answers # {}
      PROVE  /\ ResponseConforms(Operation) <=> BodyConforms(Response.content, "response")
             /\ DOMAIN Response.content \subseteq Nat
  <2>1. answers \in SUBSET Nat
    BY <1>2, <1>3
  <2>2. /\ First(answers) \in answers /\ \A j \in answers : First(answers) <= j
        /\ \A k \in answers : (\A j \in answers : k <= j) => k = First(answers)
    <3>. HIDE DEF answers
    <3>. QED BY <1>5, <2>1, FirstIsLeast
  <2>3. Response = Operation.responses[First(answers)]
    BY DEF Response
  <2>. HIDE DEF answers
  <2>4. ResponseConforms(Operation) <=>
          \E k \in answers : /\ \A j \in answers : k <= j
                           /\ BodyConforms(Operation.responses[k].content, "response")
    BY DEF ResponseConforms, answers
  <2>. QED BY <1>2, <1>3, <2>2, <2>3, <2>4
<1>. QED BY <1>1, <1>4, <1>5

LEMMA ResponseRight == ASSUME CallInv, FindResponse PROVE CallInv'
<1>1. /\ InputInv /\ FoundInv /\ step = "response" /\ call.kind = "response" /\ ~Asked
  BY DEF CallInv, PartsInv, FindResponse, Asked
<1>2. CASE ResponsesFor(Operation, call.status) = {}
  <2>1. ~Conforms
    BY <1>1, <1>2, ResponseFound
  <2>. QED BY <1>1, <1>2, <2>1, RejectsRight DEF FindResponse
<1>3. CASE ResponsesFor(Operation, call.status) # {}
  <2>1. step' = "content" /\ UNCHANGED <<env, doc, call, i, best, op, valid>>
    BY <1>3 DEF FindResponse, Continue
  <2>2. InputInv' /\ FoundInv'
    BY <1>1, <2>1, FoundStays DEF InputInv, Running
  <2>3. PartsInv'
    <3>1. ResponsesFor(Operation, call.status)' # {}
      BY <1>3, <2>1 DEF ResponsesFor, Operation
    <3>. QED BY <1>1, <2>1, <3>1 DEF PartsInv, ParamSteps
  <2>4. VerdictIsComplete'
    BY <2>1 DEF VerdictIsComplete
  <2>. QED BY <2>2, <2>3, <2>4 DEF CallInv
<1>. QED BY <1>2, <1>3

\* A call that returns 0 with a verdict.
LEMMA VerdictReturned ==
  ASSUME InputInv, ~Asked, step' = "done", i' \in Nat \ {0},
         UNCHANGED <<env, doc, call, op>>,
         ~env.scarce => (valid' <=> Conforms)
  PROVE  CallInv'
<1>1. Conforms' = Conforms
  BY ConformsUnchanged
<1>2. VerdictIsComplete'
  BY <1>1 DEF VerdictIsComplete, Asked
<1>. QED BY <1>2, ReturnsRight

LEMMA BodyEnds ==
  ASSUME CallInv, step \in {"body", "content"}, EndOfBody,
         step = "body" => (Operation.bodyRequired => call.body # NoBody),
         valid' <=> BodyConforms(Entries, Direction), valid' \in BOOLEAN
  PROVE  CallInv'
<1>1. InputInv /\ FoundInv /\ PartsInv
  BY DEF CallInv
<1>2. UNCHANGED <<env, doc, call, best, op>> /\ i' = 1 /\ i' \in Nat \ {0}
  BY DEF EndOfBody
<1>3. CASE step = "content"
  <2>1. call.kind = "response" /\ ResponsesFor(Operation, call.status) # {} /\ ~Asked
    BY <1>1, <1>3 DEF PartsInv, Asked
  <2>2. Conforms <=> valid'
    BY <1>1, <1>3, <2>1, ResponseFound DEF Entries, Direction
  <2>3. step' = "done"
    BY <1>3 DEF EndOfBody, Return
  <2>. QED BY <1>1, <1>2, <2>1, <2>2, <2>3, VerdictReturned
<1>4. CASE step = "body"
  <2>1. call.kind = "request" /\ ~Asked
    BY <1>1, <1>4 DEF PartsInv, Asked
  <2>2. /\ Conforms <=> RequestConforms(Operation, best)
        /\ doc \in Docs /\ op \in DOMAIN doc.operations
    BY <1>1, <1>4, <2>1, FoundIs DEF Running
  <2>3. valid' <=> BodyConforms(Operation.body, "request")
    BY <1>4 DEF Entries, Direction
  <2>4. CASE Operation.params = <<>>
    <3>1. step' = "done"
      BY <2>4 DEF EndOfBody, Return
    <3>2. DOMAIN Operation.params = {}
      BY <2>4
    <3>3. RequestConforms(Operation, best) <=> valid'
      BY <1>4, <2>3, <3>2 DEF RequestConforms
    <3>. QED BY <1>1, <1>2, <2>1, <2>2, <3>1, <3>3, VerdictReturned
  <2>5. CASE Operation.params # <<>>
    <3>1. step' = "header"
      BY <1>4, <2>5 DEF EndOfBody, Continue
    <3>2. InputInv' /\ FoundInv'
      BY <1>1, <1>2, <1>4, <3>1, FoundStays DEF InputInv, Running, ParamSteps
    <3>3. Operation' = Operation
      BY <1>2 DEF Operation
    <3>4. DOMAIN Operation.params \subseteq Nat \ {0}
      BY <2>2, OperationIs DEF Operation
    <3>5. Checked' = {}
      BY <1>2, <3>1, <3>3, <3>4 DEF Checked, Before
    <3>6. BodyConforms(Operation.body, "request")' = BodyConforms(Operation.body, "request")
      <4>1. call' = call /\ Operation' = Operation
        BY <1>2, <3>3
      <4>. QED BY <4>1 DEF BodyConforms
    <3>7. PartsInv'
      <4>1. call' = call /\ call.kind = "request" /\ env' = env /\ step' \in ParamSteps
        BY <1>2, <2>1, <3>1 DEF ParamSteps
      <4>2. step' \notin {"response", "content"}
        BY <3>1
      <4>3. Operation.bodyRequired => call.body # NoBody
        BY <1>4
      <4>4. valid' <=> BodyConforms(Operation.body, "request")'
        BY <2>3, <3>6
      <4>5. (\A k \in Checked : ParamConforms(Operation.params[k], best))'
        BY <3>5, Zenon
      <4>6. (Operation.bodyRequired => call.body # NoBody)'
        BY <3>3, <4>1, <4>3, Zenon
      <4>7. (step \in {"body"} \cup ParamSteps => call.kind = "request")'
        BY <4>1
      <4>8. (/\ step \in {"response", "content"} => call.kind = "response"
             /\ step = "content" => ResponsesFor(Operation, call.status) # {})'
        <5>1. step' # "content"
          BY <4>2
        <5>. QED BY <4>2, <5>1, Zenon
      <4>9. (valid <=> /\ BodyConforms(Operation.body, "request")
                       /\ \A k \in Checked : ParamConforms(Operation.params[k], best))'
        BY <4>4, <4>5, Zenon
      <4>. QED BY <4>6, <4>7, <4>8, <4>9, Zenon DEF PartsInv
    <3>8. VerdictIsComplete'
      BY <3>1 DEF VerdictIsComplete
    <3>. QED BY <3>2, <3>7, <3>8 DEF CallInv
  <2>. QED BY <2>4, <2>5
<1>. QED BY <1>3, <1>4

LEMMA BodyRight ==
  ASSUME VerdictInv, CallInv, BodyMissing \/ SkipBody \/ ReadBody
  PROVE  CallInv'
<1>1. /\ InputInv /\ FoundInv /\ PartsInv /\ step \in {"body", "content"} /\ valid = TRUE
  BY DEF CallInv, BodyMissing, SkipBody, ReadBody, VerdictInv
<1>2. /\ step = "body" => call.kind = "request"
      /\ step = "content" => /\ call.kind = "response"
                             /\ ResponsesFor(Operation, call.status) # {}
      /\ ~Asked
  BY <1>1 DEF PartsInv, Asked
<1>3. CASE BodyMissing
  <2>1. Conforms <=> RequestConforms(Operation, best)
    BY <1>1, <1>2, <1>3, FoundIs DEF BodyMissing, Running
  <2>2. ~RequestConforms(Operation, best)
    BY <1>3 DEF BodyMissing, RequestConforms
  <2>. QED BY <1>1, <1>2, <1>3, <2>1, <2>2, RejectsRight DEF BodyMissing
<1>4. CASE SkipBody
  <2>1. valid' = TRUE /\ EndOfBody /\ (call.body = NoBody \/ Entries = <<>>)
        /\ (step = "body" => (Operation.bodyRequired => call.body # NoBody))
    BY <1>1, <1>4 DEF SkipBody
  <2>2. BodyConforms(Entries, Direction)
    BY <2>1 DEF BodyConforms
  <2>. QED BY <1>1, <2>1, <2>2, BodyEnds
<1>5. CASE ReadBody
  <2>. DEFINE types == ContentTypes(Entries, call.type)
              ok == Accepts(Entries[First(types)].schema, Direction, JsonReading[call.body])
  <2>1. call.body # NoBody /\ Entries # <<>>
    BY <1>5 DEF ReadBody
  <2>2. DOMAIN Entries \subseteq Nat
    <3>1. CASE step = "body"
      <4>1. doc \in Docs /\ op \in DOMAIN doc.operations
        BY <1>1, <1>2, <3>1, FoundIs DEF Running
      <4>. QED BY <3>1, <4>1, OperationIs DEF Entries, Operation
    <3>2. CASE step = "content"
      BY <1>1, <1>2, <3>2, ResponseFound DEF Entries
    <3>. QED BY <1>1, <3>1, <3>2
  <2>3. types \in SUBSET Nat
    BY <2>2 DEF ContentTypes
  <2>4. ASSUME types # {}
        PROVE  /\ First(types) \in types /\ \A j \in types : First(types) <= j
               /\ \A k \in types : (\A j \in types : k <= j) => k = First(types)
    <3>. HIDE DEF types
    <3>. QED BY <2>3, <2>4, FirstIsLeast
  <2>5. CASE types = {}
    <3>1. ~BodyConforms(Entries, Direction)
      BY <2>1, <2>5 DEF BodyConforms
    <3>2. ~Conforms
      <4>1. CASE step = "body"
        <5>1. Conforms <=> RequestConforms(Operation, best)
          BY <1>1, <1>2, <4>1, FoundIs DEF Running
        <5>. QED BY <3>1, <4>1, <5>1 DEF RequestConforms, Entries, Direction
      <4>2. CASE step = "content"
        BY <1>1, <1>2, <3>1, <4>2, ResponseFound DEF Entries, Direction
      <4>. QED BY <1>1, <4>1, <4>2
    <3>3. Reject("schema", <<"content type">>)
      BY <1>5, <2>5 DEF ReadBody
    <3>. QED BY <1>1, <1>2, <3>2, <3>3, RejectsRight
  <2>6. CASE types # {} /\ call.body \notin DOMAIN JsonReading
    <3>1. Fail("EINVAL")
      BY <1>5, <2>6 DEF ReadBody
    <3>. QED BY <1>1, <1>2, <3>1, FailsRight
  <2>7. CASE types # {} /\ call.body \in DOMAIN JsonReading
    <3>1. valid' = ok /\ EndOfBody
      BY <1>5, <2>7 DEF ReadBody
    <3>2. ok \in BOOLEAN
      BY DEF Accepts
    <3>3. ok <=> BodyConforms(Entries, Direction)
      <4>1. BodyConforms(Entries, Direction) <=>
              \E k \in types :
                /\ \A j \in types : k <= j
                /\ <<Entries[k].schema, Direction, JsonReading[call.body]>> \in Accepted
        BY <2>1, <2>7 DEF BodyConforms
      <4>2. ok <=> <<Entries[First(types)].schema, Direction, JsonReading[call.body]>> \in Accepted
        BY DEF Accepts
      <4>. HIDE DEF ok, types
      <4>. QED BY <2>4, <2>7, <4>1, <4>2
    <3>4. step = "body" => (Operation.bodyRequired => call.body # NoBody)
      BY <2>1
    <3>. HIDE DEF ok
    <3>. QED BY <1>1, <3>1, <3>2, <3>3, <3>4, BodyEnds
  <2>. QED BY <2>5, <2>6, <2>7
<1>. QED BY <1>3, <1>4, <1>5

\* Where the parameters are.
LEMMA ParametersFacts ==
  ASSUME CallInv, step \in ParamSteps
  PROVE  /\ InputInv /\ FoundInv /\ ~Asked /\ call.kind = "request" /\ i \in Nat \ {0}
         /\ step \in Running \ {"match", "operation"}
         /\ Conforms <=> RequestConforms(Operation, best)
         /\ Operation.bodyRequired => call.body # NoBody
         /\ ~env.scarce =>
              (valid <=> /\ BodyConforms(Operation.body, "request")
                         /\ \A k \in Checked : ParamConforms(Operation.params[k], best))
         /\ Len(Operation.params) \in Nat /\ DOMAIN Operation.params = 1..Len(Operation.params)
         /\ \A k \in DOMAIN Operation.params : Operation.params[k].in \in ParamSteps
<1>1. InputInv /\ FoundInv /\ PartsInv /\ i \in Nat \ {0}
      /\ step \in Running \ {"match", "operation"}
  BY DEF CallInv, InputInv, Running, ParamSteps
<1>2. call.kind = "request" /\ ~Asked
  BY <1>1 DEF PartsInv, Asked
<1>3. doc \in Docs /\ op \in DOMAIN doc.operations /\ (Conforms <=> RequestConforms(Operation, best))
  BY <1>1, <1>2, FoundIs
<1>. QED BY <1>1, <1>2, <1>3, OperationIs DEF PartsInv, Operation

LEMMA PartsUnchanged ==
  ASSUME UNCHANGED <<doc, call, best, op>>
  PROVE  /\ Operation' = Operation
         /\ BodyConforms(Operation.body, "request")' = BodyConforms(Operation.body, "request")
         /\ \A k : ParamConforms(Operation.params[k], best)' = ParamConforms(Operation.params[k], best)
<1>1. Operation' = Operation
  BY DEF Operation
<1>2. PICK entries, t : entries = Operation.body /\ t = best
  OBVIOUS
<1>3. BodyConforms(entries, "request")' = BodyConforms(entries, "request")
  BY CallUnchanged
<1>4. ASSUME NEW k
      PROVE  ParamConforms(Operation.params[k], best)' = ParamConforms(Operation.params[k], best)
  <2>1. PICK param : param = Operation.params[k]
    OBVIOUS
  <2>2. ParamConforms(param, t)' = ParamConforms(param, t)
    BY CallUnchanged
  <2>. QED BY <1>1, <1>2, <2>1, <2>2
<1>. QED BY <1>1, <1>2, <1>3, <1>4

\* A parameter that has been looked at, in a step that stays at its location.
LEMMA ParameterDone ==
  ASSUME CallInv, AtParam, NextParam, valid \in BOOLEAN,
         ~env.scarce =>
           (valid' <=> valid /\ (Current.in = step => ParamConforms(Current, best)))
  PROVE  CallInv'
<1>1. /\ InputInv /\ FoundInv /\ ~Asked /\ call.kind = "request" /\ i \in Nat \ {0}
      /\ step \in Running \ {"match", "operation"} /\ step \in ParamSteps
      /\ Operation.bodyRequired => call.body # NoBody
      /\ ~env.scarce =>
           (valid <=> /\ BodyConforms(Operation.body, "request")
                      /\ \A k \in Checked : ParamConforms(Operation.params[k], best))
      /\ Len(Operation.params) \in Nat /\ DOMAIN Operation.params = 1..Len(Operation.params)
  BY ParametersFacts DEF AtParam
<1>2. i <= Len(Operation.params) /\ i' = i + 1 /\ UNCHANGED <<env, doc, call, step, best, op, rc>>
  BY DEF AtParam, NextParam
<1>3. Operation' = Operation /\ Current = Operation.params[i] /\ i \in DOMAIN Operation.params
  BY <1>1, <1>2 DEF Operation, Current
<1>4. Checked' = IF Current.in = step THEN Checked \cup {i} ELSE Checked
  <2>1. \A k \in DOMAIN Operation.params : k < i + 1 <=> k < i \/ k = i
    BY <1>1
  <2>. QED BY <1>2, <1>3, <2>1 DEF Checked
<1>5. /\ BodyConforms(Operation.body, "request")' = BodyConforms(Operation.body, "request")
      /\ \A k : ParamConforms(Operation.params[k], best)' = ParamConforms(Operation.params[k], best)
  BY <1>2, PartsUnchanged
<1>6. InputInv' /\ FoundInv'
  BY <1>1, <1>2, FoundStays DEF InputInv
<1>7. ~env.scarce =>
        (valid' <=> /\ BodyConforms(Operation.body, "request")
                    /\ \A k \in Checked' : ParamConforms(Operation.params[k], best))
  BY <1>1, <1>3, <1>4
<1>8. PartsInv'
  BY <1>1, <1>2, <1>3, <1>5, <1>7 DEF PartsInv, ParamSteps
<1>9. VerdictIsComplete'
  BY <1>1, <1>2 DEF VerdictIsComplete, ParamSteps
<1>. QED BY <1>6, <1>8, <1>9 DEF CallInv

\* From one location to the next, and to the end.
LEMMA LocationRight ==
  ASSUME VerdictInv, CallInv, NextLocation
  PROVE  CallInv'
<1>. DEFINE params == Operation.params
<1>1. /\ InputInv /\ FoundInv /\ ~Asked /\ call.kind = "request" /\ i \in Nat \ {0}
      /\ step \in Running \ {"match", "operation"} /\ step \in ParamSteps
      /\ Conforms <=> RequestConforms(Operation, best)
      /\ Operation.bodyRequired => call.body # NoBody
      /\ ~env.scarce =>
           (valid <=> /\ BodyConforms(Operation.body, "request")
                      /\ \A k \in Checked : ParamConforms(params[k], best))
      /\ Len(params) \in Nat /\ DOMAIN params = 1..Len(params)
      /\ \A k \in DOMAIN params : params[k].in \in ParamSteps
  BY ParametersFacts DEF NextLocation
<1>2. /\ i > Len(params) /\ i' = 1 /\ UNCHANGED <<env, doc, call, best, op, valid>>
      /\ IF ParamStepAfter(step) = "done" THEN Return("0") ELSE Continue(ParamStepAfter(step))
  BY DEF NextLocation
<1>3. Checked = {k \in DOMAIN params : params[k].in \in Before(step) \cup {step}}
  <2>1. \A k \in DOMAIN params : k < i
    BY <1>1, <1>2
  <2>. QED BY <2>1 DEF Checked
<1>4. Operation' = Operation
  BY <1>2 DEF Operation
<1>5. CASE step = "cookie"
  <2>1. step' = "done"
    BY <1>2, <1>5 DEF ParamStepAfter, Return
  <2>2. Checked = DOMAIN params
    <3>1. Before(step) \cup {step} = ParamSteps
      BY <1>5 DEF Before, ParamSteps
    <3>. QED BY <1>1, <1>3, <3>1
  <2>3. ~env.scarce => (valid' <=> Conforms)
    BY <1>1, <1>2, <2>2 DEF RequestConforms
  <2>4. i' \in Nat \ {0}
    BY <1>2
  <2>. QED BY <1>1, <1>2, <2>1, <2>3, <2>4, VerdictReturned
<1>6. CASE step # "cookie"
  <2>1. /\ step' \in {"query", "path", "cookie"}
        /\ \/ Before(step') = Before(step) \cup {step}
           \/ /\ Before(step') = Before(step) \cup {step} \cup {"path"}
              /\ ParamSegments(Template(best)) = {}
    <3>1. CASE step = "header"
      BY <1>2, <3>1 DEF ParamStepAfter, Continue, Before
    <3>2. CASE step = "query"
      BY <1>2, <3>2 DEF ParamStepAfter, Continue, Before
    <3>3. CASE step = "path"
      BY <1>2, <3>3 DEF ParamStepAfter, Continue, Before
    <3>. QED BY <1>1, <1>6, <3>1, <3>2, <3>3 DEF ParamSteps
  <2>2. Checked' = {k \in DOMAIN params : params[k].in \in Before(step')}
    <3>1. \A k \in DOMAIN params : ~(k < 1)
      BY <1>1
    <3>. QED BY <1>2, <1>4, <3>1 DEF Checked, Before
  <2>3. ASSUME ParamSegments(Template(best)) = {}, NEW k \in DOMAIN params, params[k].in = "path"
        PROVE  ParamConforms(params[k], best)
    <3>1. Named("path", best, params[k].name) = {}
      BY <2>3 DEF Named, Texts
    <3>. QED BY <2>3, <3>1 DEF ParamConforms
  <2>4. (\A k \in Checked' : ParamConforms(params[k], best))
        <=> (\A k \in Checked : ParamConforms(params[k], best))
    <3>. HIDE DEF params
    <3>. QED BY <1>3, <2>1, <2>2, <2>3
  <2>5. InputInv' /\ FoundInv'
    BY <1>1, <1>2, <2>1, FoundStays DEF InputInv, Running, ParamSteps
  <2>6. PartsInv'
    <3>1. /\ BodyConforms(Operation.body, "request")' = BodyConforms(Operation.body, "request")
          /\ \A k : ParamConforms(params[k], best)' = ParamConforms(params[k], best)
      BY <1>2, PartsUnchanged
    <3>2. ~env'.scarce =>
            (valid' <=> /\ BodyConforms(Operation.body, "request")'
                        /\ \A k \in Checked' : ParamConforms(params[k], best)')
      BY <1>1, <1>2, <2>4, <3>1
    <3>. QED BY <1>1, <1>2, <1>4, <2>1, <3>2 DEF PartsInv, ParamSteps
  <2>7. VerdictIsComplete'
    BY <2>1 DEF VerdictIsComplete
  <2>. QED BY <2>5, <2>6, <2>7 DEF CallInv
<1>. QED BY <1>5, <1>6

LEMMA ParametersRight ==
  ASSUME VerdictInv, CallInv,
         PassParam \/ MissingParam \/ ValidateParam \/ UnreadableParam
         \/ ParamMemoryFails \/ KeyLost \/ NextLocation
  PROVE  CallInv'
<1>1. valid \in BOOLEAN
  BY DEF VerdictInv
<1>2. CASE PassParam
  BY <1>1, <1>2, ParameterDone DEF PassParam
<1>3. CASE MissingParam
  <2>1. AtParam /\ NextParam /\ Current.in = step
        /\ valid' = IF Current.required /\ step # "path" THEN FALSE ELSE valid
    BY <1>3 DEF MissingParam
  <2>2. ~env.scarce => ~Present
    BY <1>3 DEF MissingParam, ValueLost
  <2>3. ~Present => (ParamConforms(Current, best) <=> ~(Current.required /\ step # "path"))
    BY <2>1 DEF Present, ParamConforms
  <2>. QED BY <1>1, <2>1, <2>2, <2>3, ParameterDone
<1>4. CASE ValidateParam
  <2>1. AtParam /\ NextParam /\ Current.in = step /\ Present /\ valid' = (valid /\ CurrentOk)
    BY <1>4 DEF ValidateParam
  <2>2. ParamConforms(Current, best) <=> CurrentOk
    BY <2>1 DEF Present, ParamConforms, CurrentOk, Accepts
  <2>. QED BY <1>1, <2>1, <2>2, ParameterDone
<1>5. CASE UnreadableParam
  <2>1. InputInv /\ ~Asked
    BY <1>5, ParametersFacts DEF UnreadableParam, AtParam
  <2>2. step' = "done" /\ rc' = "EINVAL" /\ UNCHANGED <<env, doc, call, i>> /\ ~Asked'
    BY <1>5, <2>1 DEF UnreadableParam, Return, Asked
  <2>3. VerdictIsComplete'
    BY <2>2 DEF VerdictIsComplete
  <2>. QED BY <2>1, <2>2, <2>3, ReturnsRight DEF InputInv
<1>6. CASE ParamMemoryFails
  <2>1. InputInv /\ env.scarce /\ Fail("ENOMEM")
    BY <1>6 DEF ParamMemoryFails, CallInv
  <2>. QED BY <2>1, FailsRight
<1>7. CASE KeyLost
  <2>1. InputInv /\ step' = "undefined" /\ UNCHANGED <<env, doc, call, i>>
    BY <1>7 DEF KeyLost, CallInv
  <2>. QED BY <2>1
       DEF CallInv, InputInv, FoundInv, PartsInv, VerdictIsComplete, Running, ParamSteps
<1>8. CASE NextLocation
  BY <1>8, LocationRight
<1>. QED BY <1>2, <1>3, <1>4, <1>5, <1>6, <1>7, <1>8

LEMMA StartsRight ==
  ASSUME doc \in Docs, env \in Environments, call \in Calls[env],
         step = "match", i = 1, best = 0, op = 0
  PROVE  CallInv
<1>1. Len(doc.templates) \in Nat
  BY TemplateIs
<1>2. BestOf(0)
  BY DEF BestOf
<1>. QED BY <1>1, <1>2
     DEF CallInv, InputInv, FoundInv, PartsInv, VerdictIsComplete, Running, ParamSteps

LEMMA CallInductive == ASSUME VerdictInv, CallInv, [Next]_requestVars PROVE CallInv'
<1>1. CASE Work
  BY <1>1, MatchingRight, OperationRight, ResponseRight, BodyRight, ParametersRight DEF Work
<1>2. CASE CallAgain
  <2>1. /\ doc' \in Docs /\ env' \in Environments /\ call' \in Calls[env']
        /\ step' = "match" /\ i' = 1 /\ best' = 0 /\ op' = 0
    BY <1>2 DEF CallAgain, Continue, CallInv, InputInv
  <2>2. Len(doc'.templates) \in Nat
    BY <2>1, ListIs, RequestAssumption
  <2>3. BestOf(0)'
    BY <2>1 DEF BestOf
  <2>. QED BY <2>1, <2>2, <2>3
       DEF CallInv, InputInv, FoundInv, PartsInv, VerdictIsComplete, Running, ParamSteps
<1>3. CASE UNCHANGED requestVars
  <2>1. UNCHANGED <<env, doc, call, step, i, best, op, valid, errors, rc>>
    BY <1>3 DEF requestVars
  <2>2. InputInv'
    BY <2>1 DEF CallInv, InputInv
  <2>3. VerdictIsComplete'
    BY <2>1, ConformsUnchanged DEF CallInv, VerdictIsComplete, Asked
  <2>4. FoundInv'
    <3>1. CASE step = "match"
      <4>1. PICK n : n = i - 1
        OBVIOUS
      <4>2. BestOf(n)' = BestOf(n)
        BY <2>1, CallUnchanged DEF BestOf
      <4>. QED BY <2>1, <3>1, <4>1, <4>2 DEF CallInv, FoundInv, Running, ParamSteps
    <3>2. CASE step # "match"
      <4>1. PICK t, m : t = best /\ m = call.method
        OBVIOUS
      <4>2. BestMatch(t)' = BestMatch(t) /\ OperationsOf(t, m)' = OperationsOf(t, m)
        BY <2>1, CallUnchanged
      <4>3. BestMatch(best)' = BestMatch(best)
            /\ OperationsOf(best, call.method)' = OperationsOf(best, call.method)
        BY <2>1, <4>1, <4>2
      <4>. QED BY <2>1, <3>2, <4>3 DEF CallInv, FoundInv
    <3>. QED BY <3>1, <3>2
  <2>5. PartsInv'
    <3>1. /\ Operation' = Operation /\ Checked' = Checked
          /\ BodyConforms(Operation.body, "request")' = BodyConforms(Operation.body, "request")
          /\ \A k : ParamConforms(Operation.params[k], best)' = ParamConforms(Operation.params[k], best)
          /\ ResponsesFor(Operation, call.status)' = ResponsesFor(Operation, call.status)
      BY <2>1, PartsUnchanged DEF Checked, Operation, ResponsesFor
    <3>. QED BY <2>1, <3>1 DEF CallInv, PartsInv
  <2>. QED BY <2>2, <2>3, <2>4, <2>5 DEF CallInv
<1>. QED BY <1>1, <1>2, <1>3 DEF Next

\* Whatever has been looked at, the result is valid exactly when it conforms.
THEOREM CallInvariant == Spec => []CallInv
<1>1. Init => CallInv
  BY StartsRight DEF Init
<1>2. VerdictInv /\ CallInv /\ [Next]_requestVars => CallInv'
  BY CallInductive
<1>. QED BY <1>1, <1>2, VerdictInvariant, PTL DEF Spec

\* For every document and every call: when oas_validate_request or
\* oas_validate_response returns 0 with memory enough, result->valid says whether
\* the best matching operation, its body or response, and every parameter
\* conform; oas_adapter_find_operation finds the operation they use.
THEOREM VerdictsAreComplete == Spec => []VerdictIsComplete
BY CallInvariant, PTL DEF CallInv
=============================================================================
