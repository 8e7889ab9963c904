----------------------------- MODULE DocCompiler ------------------------------
(***************************************************************************)
(* oas_doc_compile and oas_compiled_doc_free of                            *)
(* src/compiler/oas_doc_compiler.c: every schema of a parsed document is   *)
(* compiled, operation by operation; the compiled schemas are tracked so   *)
(* that they are freed together, before the regex backend that made their  *)
(* patterns.                                                               *)
(*                                                                         *)
(* A document is a record [paths, operations]: its path items, and its     *)
(* operations in the order in which the loops over the paths and over the  *)
(* seven methods visit them, each with the index of its path item.  What   *)
(* oas_schema_compile does is SchemaCompiler; here it succeeds or fails.   *)
(***************************************************************************)
EXTENDS PathMatch, FiniteSets

CONSTANTS
  ParsedDocs,      \* oas_doc_t: records [paths, operations]
  CompilerConfigs, \* oas_compiler_config_t: records [regex, borrow]
  BadSchemas,      \* the schemas oas_schema_compile refuses with an error: a bad pattern
  UnresolvedSchemas, \* those it refuses without one: a $ref that is not resolved
  NoSchema,        \* a media type or a parameter without a schema
  TrackInitialCap  \* OAS_SCHEMA_TRACK_INITIAL_CAP

ASSUME DocCompilerAssumption ==
  /\ ParsedDocs # {} /\ CompilerConfigs # {}
  /\ TrackInitialCap \in Nat \ {0}
  /\ BadSchemas \cap UnresolvedSchemas = {}
  /\ \A d \in ParsedDocs :
       /\ IsList(d.operations)
       /\ \A k \in DOMAIN d.operations :
            /\ IsList(d.operations[k].body) /\ IsList(d.operations[k].params)
            /\ IsList(d.operations[k].responses)
            /\ \A r \in DOMAIN d.operations[k].responses :
                 IsList(d.operations[k].responses[r].content)

VARIABLES
  parsed,   \* the document
  cc,       \* the configuration
  scarce,   \* whether an allocation may fail
  phase,    \* where the function is
  at,       \* the place in the document: [op, part, resp, entry]
  out,      \* cdoc->operations[op_idx]
  compiled, \* cdoc->operations, those before op_idx
  made,     \* how many compiled schemas oas_schema_compile has made
  tracked,  \* cdoc->all_schemas
  trackCap, \* cdoc->all_schemas_capacity
  frees,    \* [compiled schema |-> how often it was freed]
  destroys, \* how often the regex backend was destroyed
  failed,   \* compile_err # 0
  errors,   \* the schemas reported in the error list
  outcome   \* "running", "null", "compiled" or "freed"

docVars == <<parsed, cc, scarce, phase, at, out, compiled, made, tracked, trackCap,
             frees, destroys, failed, errors, outcome>>

input     == <<parsed, cc, scarce>>
building  == <<at, out, compiled>>
resources == <<made, tracked, trackCap, frees>>
verdict   == <<failed, errors>>

-----------------------------------------------------------------------------
Operations == parsed.operations
Op         == Operations[at.op]
PathOf(o)  == parsed.paths[o.item].path

\* The media types or the parameters at a place: what one call of
\* compile_media_types or of compile_params goes through.
EntriesAt(o, part, resp) ==
  CASE part = "body"      -> o.body
    [] part = "responses" -> IF resp <= Len(o.responses) THEN o.responses[resp].content ELSE <<>>
    [] part = "params"    -> o.params
Here  == EntriesAt(Op, at.part, at.resp)
Entry == Here[at.entry]

Start(op) == [op |-> op, part |-> "body", resp |-> 1, entry |-> 1]

\* The operation as compile_operation starts it: nothing compiled yet.
Blank(o) ==
  [path |-> PathOf(o), method |-> o.method, bodyRequired |-> o.bodyRequired,
   body |-> <<>>, params |-> <<>>,
   responses |-> [r \in DOMAIN o.responses |->
                    [status |-> o.responses[r].status, content |-> <<>>]]]

\* Mutant of the next: a response's media types are stored with the body's.
StoredInBody(o, part, resp, entry) ==
  IF part = "params" THEN [o EXCEPT !.params = Append(@, entry)]
  ELSE [o EXCEPT !.body = Append(@, entry)]

\* The entry is stored where the request validator will look for it.
Stored(o, part, resp, entry) ==
  CASE part = "body"      -> [o EXCEPT !.body = Append(@, entry)]
    [] part = "responses" -> [o EXCEPT !.responses[resp].content = Append(@, entry)]
    [] part = "params"    -> [o EXCEPT !.params = Append(@, entry)]

Init ==
  /\ parsed \in ParsedDocs
  /\ cc \in CompilerConfigs
  /\ scarce \in BOOLEAN
  /\ phase = "begin"
  /\ at = Start(1)
  /\ out = <<>>
  /\ compiled = <<>>
  /\ made = 0 /\ tracked = <<>> /\ trackCap = 0 /\ frees = <<>>
  /\ destroys = 0
  /\ failed = FALSE /\ errors = {}
  /\ outcome = "running"

\* The arena or the document record cannot be allocated: nothing is released,
\* because nothing has been taken over yet.
BeginFails ==
  /\ phase = "begin"
  /\ scarce
  /\ phase' = "over"
  /\ outcome' = "null"
  /\ UNCHANGED <<input, building, resources, destroys, verdict>>

Begin ==
  /\ phase = "begin"
  /\ phase' = "matcher"
  /\ UNCHANGED <<input, building, resources, destroys, verdict, outcome>>

GoToFail ==
  /\ phase' = "release"
  /\ outcome' = "null"
  /\ UNCHANGED <<input, building, destroys, verdict>>

\* oas_path_matcher_create returns null for a template with an empty segment.
MatcherFails ==
  /\ phase = "matcher"
  /\ parsed.paths # <<>>
  /\ \/ \E t \in DOMAIN parsed.paths : ~TemplateOk(parsed.paths[t].path)
     \/ scarce
  /\ GoToFail
  /\ UNCHANGED resources

MakeMatcher ==
  /\ phase = "matcher"
  /\ \A t \in DOMAIN parsed.paths : TemplateOk(parsed.paths[t].path)
  /\ phase' = "operations"
  /\ UNCHANGED <<input, building, resources, destroys, verdict, outcome>>

OperationsFail ==
  /\ phase = "operations"
  /\ scarce
  /\ Operations # <<>>
  /\ GoToFail
  /\ UNCHANGED resources

AllocateOperations ==
  /\ phase = "operations"
  /\ phase' = IF Operations # <<>> THEN "compile" ELSE "check"
  /\ out' = IF Operations # <<>> THEN Blank(Operations[1]) ELSE out
  /\ UNCHANGED <<input, at, compiled, resources, destroys, verdict, outcome>>

-----------------------------------------------------------------------------
(* compile_operation.                                                      *)

AtEntry == phase = "compile" /\ at.entry <= Len(Here)

\* The array for the compiled entries, or before the first response the one for
\* the responses, cannot be allocated.
BeforeResponses == at.part = "responses" /\ at.resp = 1 /\ Op.responses # <<>>

ArrayFails ==
  /\ phase = "compile"
  /\ at.entry = 1
  /\ Here # <<>> \/ BeforeResponses
  /\ scarce
  /\ GoToFail
  /\ UNCHANGED resources

SkipEntry ==
  /\ AtEntry
  /\ Entry.schema = NoSchema
  /\ at' = [at EXCEPT !.entry = @ + 1]
  /\ UNCHANGED <<input, phase, out, compiled, resources, destroys, verdict, outcome>>

\* oas_schema_compile reports a bad pattern when it gets that far; a $ref that
\* is not resolved, or memory that is exhausted, makes it fail without a word.
Report(schema) ==
  \/ schema \in BadSchemas /\ errors' = errors \cup {schema}
  \/ schema \in UnresolvedSchemas /\ UNCHANGED errors
  \/ scarce /\ UNCHANGED errors

\* Mutant of the next: the loop ends at the first schema that fails.
SchemaFailsAndStops ==
  /\ AtEntry
  /\ Entry.schema # NoSchema
  /\ failed' = TRUE
  /\ Report(Entry.schema)
  /\ at' = [at EXCEPT !.entry = Len(Here) + 1]
  /\ UNCHANGED <<input, phase, out, compiled, resources, destroys, outcome>>

\* "Accumulate errors from remaining schemas": the loop goes on.  That memory was
\* exhausted inside oas_schema_compile looks the same here.
SchemaFails ==
  /\ AtEntry
  /\ Entry.schema # NoSchema
  /\ failed' = TRUE
  /\ Report(Entry.schema)
  /\ at' = [at EXCEPT !.entry = @ + 1]
  /\ UNCHANGED <<input, phase, out, compiled, resources, destroys, outcome>>

Compilable ==
  AtEntry /\ Entry.schema \notin {NoSchema} \cup BadSchemas \cup UnresolvedSchemas

\* track_schema.
MustGrow == Len(tracked) >= trackCap
GrownCap == IF trackCap = 0 THEN TrackInitialCap ELSE 2 * trackCap

\* Mutant of the next: the schema that cannot be tracked is not freed.
TrackFailsAndLeaks ==
  /\ Compilable
  /\ MustGrow /\ scarce
  /\ made' = made + 1
  /\ frees' = Append(frees, 0)
  /\ UNCHANGED <<tracked, trackCap>>
  /\ GoToFail

TrackFails ==
  /\ Compilable
  /\ MustGrow /\ scarce
  /\ made' = made + 1
  /\ frees' = Append(frees, 1)
  /\ UNCHANGED <<tracked, trackCap>>
  /\ GoToFail

CompileEntry ==
  /\ Compilable
  /\ made' = made + 1
  /\ frees' = Append(frees, 0)
  /\ tracked' = Append(tracked, made + 1)
  /\ trackCap' = IF MustGrow THEN GrownCap ELSE trackCap
  /\ out' = Stored(out, at.part, at.resp, Entry)
  /\ at' = [at EXCEPT !.entry = @ + 1]
  /\ UNCHANGED <<input, phase, compiled, destroys, verdict, outcome>>

AtListEnd == phase = "compile" /\ at.entry > Len(Here)

NextList ==
  /\ AtListEnd
  /\ at.part # "params"
  /\ at' = IF at.part = "responses" /\ at.resp < Len(Op.responses)
           THEN [at EXCEPT !.resp = @ + 1, !.entry = 1]
           ELSE [at EXCEPT !.part = IF @ = "body" THEN "responses" ELSE "params", !.entry = 1]
  /\ UNCHANGED <<input, phase, out, compiled, resources, destroys, verdict, outcome>>

NextOperation ==
  /\ AtListEnd
  /\ at.part = "params"
  /\ at.op < Len(Operations)
  /\ at' = Start(at.op + 1)
  /\ out' = Blank(Operations[at.op + 1])
  /\ compiled' = Append(compiled, out)
  /\ UNCHANGED <<input, phase, resources, destroys, verdict, outcome>>

LastOperation ==
  /\ AtListEnd
  /\ at.part = "params"
  /\ at.op = Len(Operations)
  /\ compiled' = Append(compiled, out)
  /\ phase' = "check"
  /\ UNCHANGED <<input, at, out, resources, destroys, verdict, outcome>>

Finish ==
  /\ phase = "check"
  /\ ~failed
  /\ phase' = "ready"
  /\ outcome' = "compiled"
  /\ UNCHANGED <<input, building, resources, destroys, verdict>>

FinishFailed ==
  /\ phase = "check"
  /\ failed
  /\ GoToFail
  /\ UNCHANGED resources

-----------------------------------------------------------------------------
(* oas_compiled_doc_free, called by the caller or after a failure.         *)

Free ==
  /\ phase = "ready"
  /\ phase' = "release"
  /\ outcome' = "freed"
  /\ UNCHANGED <<input, building, resources, destroys, verdict>>

\* The loop over all_schemas; nothing looks at the array afterwards.
FreeSchema ==
  /\ phase = "release"
  /\ tracked # <<>>
  /\ frees' = [frees EXCEPT ![Head(tracked)] = @ + 1]
  /\ tracked' = Tail(tracked)
  /\ UNCHANGED <<input, phase, building, made, trackCap, destroys, verdict, outcome>>

\* Mutant of the next: the backend is destroyed first.
ReleaseBackendFirst ==
  /\ phase = "release"
  /\ destroys' = IF cc.regex /\ ~cc.borrow THEN destroys + 1 ELSE destroys
  /\ phase' = IF tracked = <<>> THEN "over" ELSE "release"
  /\ UNCHANGED <<input, building, resources, verdict, outcome>>

\* The regex backend, when the document owns it, and the arena.
ReleaseRest ==
  /\ phase = "release"
  /\ tracked = <<>>
  /\ destroys' = IF cc.regex /\ ~cc.borrow THEN destroys + 1 ELSE destroys
  /\ phase' = "over"
  /\ UNCHANGED <<input, building, resources, verdict, outcome>>

Compiling ==
  \/ Begin \/ BeginFails \/ MakeMatcher \/ MatcherFails
  \/ AllocateOperations \/ OperationsFail
  \/ ArrayFails \/ SkipEntry \/ SchemaFails \/ TrackFails \/ CompileEntry
  \/ NextList \/ NextOperation \/ LastOperation \/ Finish \/ FinishFailed
  \/ FreeSchema \/ ReleaseRest

Next == Compiling \/ Free

Spec == Init /\ [][Next]_docVars
\* The functions run without interruption; when to free is up to the caller.
FairSpec == Spec /\ WF_docVars(Compiling)

-----------------------------------------------------------------------------
(* Properties.                                                             *)

Phases == {"begin", "matcher", "operations", "compile", "check", "ready", "release", "over"}

TypeOK ==
  /\ parsed \in ParsedDocs /\ cc \in CompilerConfigs
  /\ scarce \in BOOLEAN
  /\ phase \in Phases
  /\ made \in Nat
  /\ frees \in Seq(Nat) /\ Len(frees) = made
  /\ trackCap \in Nat
  /\ tracked \in Seq(1..made) /\ Len(tracked) <= trackCap
  /\ destroys \in Nat
  /\ failed \in BOOLEAN
  /\ outcome \in {"running", "null", "compiled", "freed"}

\* Whatever fails, each compiled schema is freed exactly once by the time the
\* document is gone, and none before (track_schema, oas_compiled_doc_free).
SchemasFreedOnce ==
  /\ \A s \in 1..made : frees[s] <= 1
  /\ phase = "over" => \A s \in 1..made : frees[s] = 1
  /\ phase \notin {"release", "over"} => \A s \in 1..made : frees[s] = 0

\* The backend is destroyed at most once, only when the document owns it, and
\* never before the last schema whose patterns it has to free.
BackendOutlivesPatterns ==
  /\ destroys <= 1
  /\ destroys = 1 =>
       /\ cc.regex /\ ~cc.borrow
       /\ \A s \in 1..made : frees[s] = 1

\* What makes the last two inductive: the tracked schemas are the live ones.
OwnershipInv ==
  /\ made \in Nat
  /\ frees \in Seq({0, 1}) /\ Len(frees) = made
  /\ tracked \in Seq(1..made)
  /\ \A j, k \in 1..Len(tracked) : tracked[j] = tracked[k] => j = k
  /\ \A s \in 1..made : frees[s] = 0 <=> \E j \in 1..Len(tracked) : tracked[j] = s
  /\ phase \notin {"release", "over"} => \A s \in 1..made : frees[s] = 0
  /\ phase \in {"begin", "over"} => tracked = <<>>
  /\ IF phase = "over" THEN destroys = 0 \/ (destroys = 1 /\ cc.regex /\ ~cc.borrow)
     ELSE destroys = 0

\* What is to be kept of the first entries of a list, for each number of them.
Kept(entries) ==
  LET kept[n \in 0..Len(entries)] ==
        IF n = 0 THEN <<>>
        ELSE IF entries[n].schema = NoSchema THEN kept[n - 1]
        ELSE Append(kept[n - 1], entries[n])
  IN  kept
WithSchema(entries) == Kept(entries)[Len(entries)]
CompiledFrom(o) ==
  [path |-> PathOf(o), method |-> o.method, bodyRequired |-> o.bodyRequired,
   body |-> WithSchema(o.body), params |-> WithSchema(o.params),
   responses |-> [r \in DOMAIN o.responses |->
                    [status |-> o.responses[r].status,
                     content |-> WithSchema(o.responses[r].content)]]]

\* A document that is returned has every operation, with every body, response
\* and parameter that has a schema, in the place and order of the parsed one
\* (the validators take the first match).
CompiledDocIsComplete ==
  outcome = "compiled" =>
    /\ Len(compiled) = Len(Operations)
    /\ \A k \in DOMAIN compiled : compiled[k] = CompiledFrom(Operations[k])

EntriesOf(o) ==
  {o.body[j] : j \in DOMAIN o.body} \cup {o.params[j] : j \in DOMAIN o.params} \cup
  UNION {{o.responses[r].content[j] : j \in DOMAIN o.responses[r].content} :
           r \in DOMAIN o.responses}
SchemasOf(d) ==
  (UNION {{e.schema : e \in EntriesOf(d.operations[k])} : k \in DOMAIN d.operations}) \ {NoSchema}

\* A document that is rejected for a schema has had all its schemas with a bad
\* pattern reported, not only the first, whatever else it was rejected for
\* (compile_media_types, compile_params).  Of the schemas that are refused
\* without an error nothing is claimed here; FailureIsReported is about them.
EveryBadPatternReported ==
  failed /\ phase = "over" /\ ~scarce => errors = SchemasOf(parsed) \cap BadSchemas

\* oas_doc_compile returns, and a document that is being freed is freed (FairSpec).
CompileReturns == phase = "begin" ~> phase \in {"ready", "over"}

\* With borrow_regex false the backend is the library's to destroy.
OwnedBackendDestroyed ==
  phase = "over" /\ cc.regex /\ ~cc.borrow => destroys = 1

\* When oas_doc_compile returns null the error list says why, as its callers are
\* told ("Check errors").
FailureIsReported == outcome = "null" /\ ~scarce => errors # {}

\* Every parameter an operation is declared with, itself or by its path item,
\* is one the validator will check.
ParametersCompiled ==
  outcome = "compiled" =>
    \A k \in DOMAIN Operations : \A q \in DOMAIN parsed.paths[Operations[k].item].params :
      \E j \in DOMAIN compiled[k].params :
        compiled[k].params[j] = parsed.paths[Operations[k].item].params[q]
=============================================================================
