# A TLA+ model of liboas

liboas (`src/`, C23) parses an OpenAPI 3.2 document, links its references,
compiles its JSON schemas into programs for a small virtual machine, and
validates HTTP requests and responses with them. This directory holds TLA+
modules for the parts with a control flow worth arguing about, the TLC
configurations that check them on small instances, and TLAPS proofs of what
matters most. The library is single-threaded: what is hard in it is not
interleaving but recursion, ownership when the fifth of seven allocations
fails, state that one call leaves to the next, and components that must agree
without a common definition: compiler and VM about the shape of a program,
parser, builders and emitter about the keywords of a document.

Paths below are relative to the repository's root (most source files are under
`src/`); `PROJECT.json` maps every definition to the lines it models and lists
every hazard at its line.

## 1. Inventory

The data flow: `oas_doc_parse_ex` (document parser, schema parser, reference
resolver) makes an `oas_doc_t`, as do the builders; `oas_doc_compile` (document
compiler, which calls the schema compiler for every schema and builds a path
matcher) makes an `oas_compiled_doc_t`; `oas_validate_request` and
`oas_validate_response` match a path, find the operation and call
`oas_validate` (the VM) on each part; the adapter wraps all of it.
Everything but compiled schemas, the regex backend and fetched JSON documents lives
in an arena.

| Component | State | Operations | What makes it correct | Here |
|---|---|---|---|---|
| Schema compiler (`compiler/oas_compiler.c`, `oas_instruction.c`) | program and pattern arrays, the C stack of `compile_schema` | `oas_schema_compile`, `oas_compiled_schema_free` | arrays never overrun; each pattern freed once on every path; sub-programs nest; terminates; the program means the schema | `SchemaCompiler` |
| Validation VM (`validator/oas_validator.c`) | `vm_state_t` (ip, value, valid, errors) per activation of `execute` | `oas_validate`, `oas_validate_with_direction` | ip stays in the program; recursion bounded; verdict is what the schema means; errors explain it | `ValidationVM` |
| Path matcher (`core/oas_path_match.c`) | compiled templates | create, match | the most static template wins, first among equals; segment limit; slashes | `PathMatch` |
| Request validator (`validator/oas_request.c`) | the result record, shared by all checks of a call | `oas_validate_request`, `oas_validate_response` | the verdict is that of all parts; a failure is never overwritten; errors explain it | `RequestValidation` |
| Defaults (`validator/oas_defaults.c`) | a mutable copy of the body | `oas_apply_defaults`, `oas_validate_request_with_defaults` | exactly the missing members with a default are added | `Defaults`, `RequestDefaults` |
| Document compiler (`compiler/oas_doc_compiler.c`) | operations, tracked schemas, the backend | `oas_doc_compile`, `oas_compiled_doc_free` | nothing with a schema is dropped; each schema freed once, the backend last | `DocCompiler` |
| Adapter (`adapter/oas_adapter.c`) | record, arena, document, compiled document, cached text | create, from_doc, destroy, find_operation | each is released once, by its owner, after what points into it | `Adapter`, `RequestValidation` |
| Reference resolver, cache, file loader (`parser/oas_ref*.c`) | visited set, document cache, links | `oas_ref_resolve`, `oas_ref_resolve_all`, cache get/put/destroy, `oas_ref_load_file` | chains followed to their end; circles reported; one owner per fetched document; limits kept | `RefResolver` |
| HTTP fetcher (`parser/oas_ref_fetch.c`, `oas_tls_*.c`) | socket, TLS session, buffer, redirect count, URL strings | `oas_ref_fetch_http` | redirects end; size limit; nothing leaks; success is a whole answer | `HttpFetch` |
| Document and schema parser (`parser/oas_doc_parser.c`, `oas_schema_parser.c`) | the model they fill | one function per object of the specification | no keyword lost, nothing invented, a failing allocation only drops | `JsonModel`, `SchemaModel`, `DocModel` |
| Model and builders (`model/*.c`) | the document being built | one call per addition | a call adds what it says, or nothing | `SchemaModel`, `DocModel`, `DocumentLife` |
| Emitters (`emitter/*.c`) | none | emit JSON, emit YAML | what was parsed or built survives | JSON half in `SchemaModel`, `DocModel` |
| Arena (`core/oas_alloc.c`) | blocks, current block | create, alloc, reset, destroy | regions apart and aligned, for requests that fit; every block reached by destroy | `Arena` |
| Error list, intern pool (`core/oas_error.c`, `oas_intern.c`) | array; buckets | add; get | nothing lost that had room; one pointer per string | `ArenaClients` |
| URI parser, JSON Pointer (`parser/oas_uri.c`, `core/oas_jsonptr.c`) | none | parse, resolve, unescape | parsing inverts writing; the result fits its buffer | `TextParsers` |
| Query, cookies, negotiation (`core/oas_query.c`, `oas_cookie.c`, `oas_negotiate.c`) | none | parse; choose | parsing inverts writing; the best offer | `TextParsers` |
| Format validators (`compiler/oas_format.c`) | none | thirteen validators | the grammars | `Formats` |
| Regex backend (`core/oas_regex_libregexp.c`) | a compiled pattern | compile, match, destroy | external engine | constants `RegexMatch`, `PatternOk` |
| Loaders, problem details, Scalar page, version | none | convert, format | layout | not modelled |

Hard behaviours, in the order of what a fault would cost:

* The VM skips sub-programs it does not enter by counting ENDs, and runs others
  on a *copy* of its state. Both are about a global shape of the program no
  single opcode's test sees.
* Failing allocations: each of the compilers, the fetcher and the builders has a dozen
  places to fail with something half-owned.
* The resolver's visited set, cache and context survive a failed call and are
  used by the next one; so does the arena's list of blocks after a reset.
* One result record collects what up to a dozen validations say.
* Circular schemas: the resolver makes them, the compiler inlines them.
* Parser, builders and emitter know the same keywords from three lists.

## 2. Modules

* `SchemaProgram`: opcodes, instructions, values, and what the leaf checks
  decide; shared by compiler and VM. Numbers are doubled integers, so that 1/2
  exists and `fmod` is exact; strings are names with a number of code points.
* `SchemaCompiler`: `compile_schema` as a machine with a stack of frames. A frame
  has a *plan* (the steps the function body would take for this schema in the order of
  the source: emit, make a pattern, recurse, patch), one step per action. Arrays grow by
  doubling from their initial capacity; every growth, pattern and emission may
  fail when `AllocMayFail`. A pattern has an account of how often it was freed.
* `ValidationVM`: one action, `Execute`, is one turn of the loop of the innermost
  `execute()`; the stack is the C recursion; `rec` says whether the activation
  has an error list (`sub.errors = nullptr` in the code) and `valid` is the field of
  that name. `MemoryMayFail` lets any message be lost as in `oas_error_list_add`.
* `SchemaSemantics`: what a schema means, as a RECURSIVE predicate `Holds` read off
  the schema and not the program. `ValidationPromise`: the abstract
  specification: compile, submit, answer with `Holds`, free.
* `SchemaExecution`: the composition of compiler and VM, which share the
  program. `SchemaValidation` adds the meaning: the composition implements
  `ValidationPromise` under a refinement mapping. They are two modules because `SchemaSemantics`
  is recursive and the proofs are about `SchemaExecution`.
* `PathMatch`: the matcher as operators over sequences of segments.
* `RequestValidation`: the two entry points as a machine over `step`; one action
  per check; the result record is `valid` and `errors`. What a schema accepts is a
  constant set, since `SchemaValidation` is about that. An *environment* says
  whether the arena may be exhausted and whether a used result record is passed in.
  `oas_adapter_find_operation`, which goes the first half of the way, is a third kind of call.
* `Defaults`: the walk over a body and its schema. `RequestDefaults`: the composition,
  which validates, does the lookups again and fills the body.
* `DocCompiler`: the nested loops as one place `at` = (operation, part, response,
  entry), the tracked schemas, and one account of frees for each compiled schema.
* `Adapter`: the life of an adapter around `DocCompiler`, whose steps are its own
  while it creates or destroys; `has` says of each resource whether it is held, lent or
  released. A caller of `oas_doc_compile` without an adapter is the route `direct`.
* `RefResolver`: the recursion along a chain is `frames`, with `visited` the set
  the code keeps beside it; the recursion over schemas is `agenda`. References
  are names whose parsed form (`TextParsers`) is a constant. A client makes a sequence of
  calls of one context, then the cache is destroyed; `oas_doc_parse_ex` is the
  client with the one call `All`.
* `HttpFetch`: one call of `oas_ref_fetch_http`; `pc` follows `do_http_get` and the loop
  around it, `held` is what has been acquired. Answers have a length, a header's end, a
  status and a location; they arrive in pieces of any size. Socket, resolver and TLS
  library are external and fail at any call. The limit's sum with the first buffer is taken modulo `Word`, as a `size_t`.
* `Arena`: blocks of an address space that wraps at `Word`, `live` the regions handed
  out. `RequestsFit` says which requests the code, which checks no sum, can serve. `ArenaClients`: error list and intern pool on one arena, one step per
  allocation of a call, so that each may fail after the one before succeeded.
* `JsonModel`, `SchemaModel`, `DocModel`: JSON values and C structs, and each parse
  function, builder and emit function as an operator on them; `oom` is the set of
  allocations that fail, each a site of the parser and the JSON value it is made for there, or all of
  a site (`Anywhere`). `DocumentLife`: a caller who builds or parses, emits, and
  parses again.
* `TextParsers`, `Formats`: the pure text functions as operators on sequences of characters;
  `TextCalls` calls each and keeps the answer.

Each `MC*` module gives its module's constants values; the `.cfg` files name them.
`*Proofs` modules hold the theorems, `Induction` what they need of the natural numbers.

## 3. Runs

Ten runs pass:

| Run | Instance | Shows |
|---|---|---|
| `compile_schemas` | every keyword over every keyword over leaves, each with bad patterns, capacities 2 and 1, any allocation failing | `WithinCapacity`, `PatternsFreedOnce`, `ProgramIsStructured`, `CompileReturns` |
| `any_program` | all well-formed programs of four instructions, nested or not, and longer ones for the instructions with operands; messages lost at any point | `RecursionBounded`, `ErrorsExplainVerdict`, `Termination` |
| `safe_schemas` | three-level schemas without a composition inside a skipped block, fourteen values that reach two levels down | `KeepsPromise` (the refinement), `RunsToTheLastEnd`; also that these schemas meet `SkipSafe`, and those of `nested_composition` do not |
| `validate_calls` | two orders of overlapping templates, every kind of body, parameter and response; texts that read as numbers, strings, both or neither; exhausted memory; a record used twice; bodies filled with defaults at, below and beyond the depth limit, behind no, one or two references | `VerdictIsComplete` (the verdict is the declarative one, the operation found is the one used), `ErrorsExplainVerdict`, `DefaultsFillTheBody` |
| `compile_docs` | operations with up to two entries per list, good, bad, unresolved and absent schemas in every place, any allocation failing, backend owned, borrowed or absent; the same inside an adapter of either kind | `CompiledDocIsComplete`, `EveryBadPatternReported`, `SchemasFreedOnce`, `BackendOutlivesPatterns`, `AdapterReleasesAll` |
| `resolve_refs` | chains and circles of up to three references with a depth limit of 2, two files and two remote documents that can fail in every way, a cache of 1 or 2 documents, two calls after each other or a walk | `VisitedIsTheStack`, `ChainsResolved`, `LinksAreRight`, `DocumentsFreedOnce`, `CacheWithinLimit`, `ResultsAreLive`, `AllCallsReturn` |
| `http_fetch` | a first buffer of 4 bytes and limits of 1, 4, 5 and 10, the largest whose sum with the buffer does not wrap and the largest of all; answers of 2 to 20 bytes, redirects in a circle and across schemes, no header, no status; every call failing, timeouts at every read | `NothingHeld`, `SuccessIsComplete`, `RefusedWhenLarge`, `HopsBounded`, `CallReturns` |
| `arena` | three blocks in 256 addresses, every size up to 16, two alignments, resets, three strings in two buckets, three errors in a list that starts at one | `RegionsApart`, `NothingLeaks`, `ErrorsKeptInOrder`, `InternedOnce` |
| `round_trip` | every keyword with each kind of value in a schema of each place, each member of the document, up to five builder calls with method names in either case, each allocation site failing and each value of some sites alone, two emissions | `SurvivesRoundTrip`, `OutOfMemoryOnlyDrops`, `BuildersKeepDocument` |
| `texts` | every URI of a product of its parts, short references against fourteen bases, all dates of five years, texts one edit away from valid ones for each format, lists with escaped characters, Accept headers of up to a few entries, q=0 among them | `ParsingLosesNothing`, `ResolutionFits`, `AnswersAreRight`, `NegotiatedIsBest` |

Bounds, and why they suffice. Array capacities of 1 and 2 make every growth
happen, several times. Three levels of schema are one more than any
mechanism of the VM looks at (a block, a composition in it, a leaf). A depth limit of
2 (1 for defaults) has chains below, at and beyond it; the visited array starts at one entry,
so that it grows. Two cached documents and three that can be fetched fill the cache. Path
templates have at most three segments (64 in the code), so that a request can exceed the
limit. The fetcher's limits lie below, at and between the sizes at which its buffer doubles.
In the arena blocks are smaller than some requests and the address space ends inside the
reach of the largest. `MaxCalls` = 5 builder calls let a document with a server, a path, an
operation and two members be built in any order; `MaxEmits` = 2 is one more than a round trip
needs, since the second text must equal the first. Qualities in Accept headers have
one digit and one decimal. `MaxAdds` and `MaxStrings` bound the histories of the arena's clients.
`CHECK_DEADLOCK FALSE` is set where a machine stops when its client is done.

Fairness is weak fairness of the machine's own step, nothing of the client's:
these are function calls on one thread, which run until they return. In
`SchemaExecution` only compiling and running are fair, not submitting. In `HttpFetch`
the fair steps include those that wait for the network: `do_http_get` sets send and
receive timeouts on its socket and `getaddrinfo` has its own, so every such call returns,
with an answer or with an error.

Two runs check one property each that the documentation promises and the code breaks:

* `nested_composition`: a composition in a skipped block ends a validation early
  (`is_nesting_op` does not count the compositions' ENDs, `oas_validator.c:117`).
* `external_strings`: `oas_doc_parse_ex` frees the fetched documents that linked
  schemas point into (`oas_doc_parser.c:982`).

### Other properties the code does not have

The modules state these too, and each is violated when it is put as the only INVARIANT (or
PROPERTY) into the configuration named; they are not among the runs.

* `SafeSchemas.cfg` with the graphs changed, `VerdictMatchesSchema`:
  `AdditionalGraphs` (`additionalProperties` with a schema is compiled and never run,
  `oas_validator.c:370`); `TupleGraphs` (`items` is applied from element 0 also when
  `prefixItems` is about the first ones, `oas_validator.c:310`,
  docs/en/03-json-schema.md:75); `MappingGraphs` (the discriminator's mapping is used by
  position, `oas_compiler.c:487`, docs/en/03-json-schema.md:126). With `ProbeGraphs`,
  `AnyOfErrorsAreReal`: branches inherit `valid = false` (`oas_validator.c:393`), so "no
  anyOf branch matched" is reported for values a branch accepts.
* `CompileSchemas.cfg` with `RecursiveGraphs` and `MaxDepth = 64`, `StackSuffices`: a
  recursive component is inlined without end (`oas_compiler.c:144`); with `CyclicGraphs`,
  `CompileReturns`: so are two components that are references to each other.
* `ValidateCalls.cfg`: `AllMissingReported` (a missing body hides the errors of the parameters,
  docs/en/05-validator.md:44); `ParseFailureReported` (a body that is no JSON text is not
  reported as `OAS_ERR_PARSE`, 05:32); `EmptySegmentsRejected` (a request path with two
  trailing slashes is accepted although empty segments are not, `oas_path_match.c:222`);
  `MemoryFailureReported` (a query key lost to exhausted memory reaches `strcmp` as a null pointer,
  `oas_query.h:24`); `DefaultsCountForVerdict` (the verdict is about the body before the
  defaults; `oas_validator.h:163` says that it "applies default values for missing
  fields, validates, and returns the modified body"); `DefaultsFollowChains` (a member whose schema
  is a reference to a reference, and every member of a body whose own schema is a reference, gets no
  default, although `oas_defaults.c:26` says "Follow $ref chains to resolved target").
* `CompileDocs.cfg`: `OwnedBackendDestroyed` (early failures do not destroy the backend,
  docs/en/04-schema-compiler.md:228), `FailureIsReported` (a schema whose `$ref` is not resolved, `oas_compiler.c:149`,
  and a bad path template make `oas_doc_compile` return null with an empty error list, where 04:71 says
  "Check errors"), `ParametersCompiled` (parameters of a path item are never compiled,
  `oas_doc_compiler.c:199`).
* `ResolveRefs.cfg`: `UnresolvedIsReported` (a callback that refuses, an unreadable file and a
  full cache leave no error, docs/en/02-oas-model.md:148; and since the first failing
  reference ends the walk, those after it are neither resolved nor reported).
* `HttpFetch.cfg`: `TimeoutIsAnError` (a TLS read that times out looks like the end of the
  stream, `oas_tls_openssl.c:88`, although `oas_tls.h` promises what `recv` does: a cut answer is
  a success); `LargestAccepted` (the receive buffer doubles and gives up when the doubled size exceeds
  the limit plus the first buffer, `oas_ref_fetch.c:283`: of the 10 MB of `oas_ref.h:85`, "Max response
  size", only 8 can arrive; and for a limit near `SIZE_MAX`, a caller's "no limit", the sum wraps and
  every answer that fills the first buffer is refused).
* `RoundTrip.cfg`: `BooleansSurvive` (a boolean `additionalProperties` comes back negated: the parser makes a
  sentinel schema for `false`, `oas_schema_parser.c:203`, and the emitter writes whether there is one,
  `oas_emitter.c:203`, under the comment "additionalProperties was set as true/false").
* `TextCalls.cfg`: `NothingUnacceptable` (negotiation selects what the client refuses with q=0,
  `oas_negotiate.c:134`; `oas_negotiate.h:16` promises null "if no acceptable type", and RFC 9110 section
  12.4.2 says that 0 means "not acceptable").
* `Arena` beyond `RequestsFit`: `aligned_offset + size` and `size + align` (`oas_alloc.c:93` and 102) are
  not checked, and a size near `SIZE_MAX` wraps them: the region handed out is larger than its
  block. The model's sums wrap too; the runs and theorems assume that requests fit.

What the definitions of the round trip and of the texts had to follow, and a reader may not expect:

* Never parsed: `license.identifier`. Parsed and never emitted: `flows`, `openIdConnectUrl`,
  `unevaluatedProperties`, `unevaluatedItems`; `SurvivesRoundTrip` is not about these, nor about a boolean
  `additionalProperties` (`BooleansSurvive`). A security requirement keeps its first scheme only, and
  `security: []` is as if absent. `nullable` without `type` gives the mask of `null` alone.
  `Kept` names these last losses. The list of properties is reversed by each parse.
* When a single allocation of the parser fails, an array or a table keeps its length with a null in
  it; the list of a schema's properties closes up and keeps the others in order
  (`oas_schema_parser.c:169`, `Thinned`).
* A `required` entry that is no string, and a server variable without memory
  (`oas_doc_parser.c:132`), leave pointers nobody wrote (`Garbage`); a document that has one
  is not used further in the model.
* `oas_doc_builder_add_path_op` with an unknown method has already made the path item
  (`oas_doc_builder.c:312`): `BuildersKeepDocument` allows a path item without operations.
* `oas_uri_resolve` (used by tests only) is not RFC 3986 section 5: an absolute path is merged
  with the base's directory, the host of a `//host` reference is ignored, empty and query-only
  references lose the base's file name, dot segments stay (so
  `ResolutionFits` is about relative paths without them). A malformed port is 0; an IPv6 host without a
  port is split at its last colon.
* The `ipv6` format accepts single leading or trailing colons, ":::" and any number of groups before an
  IPv4 address ("1:1.2.3.4"), `hostname` labels that begin or end with "-", the integer formats blanks
  and "+" in front; `AnswersAreRight` excuses the first two by name and compares integers without blanks or plus.
  `email` and `uri-reference` are compared one way only: what is right is accepted. Negotiation ignores
  specificity: `NegotiatedIsBest` is about headers in which specificity and quality agree and no entry has q=0.
  "%00" ends a query value, and a cookie's is dropped.
* What a default brings in is not filled itself. `DefaultsFillTheBody` says which members are added only where
  the schema is at most one reference away.
* When the regex backend cannot be made, an adapter has its patterns unchecked without a word
  (`oas_adapter.c:46`).

## 4. Proofs

Seven `*Proofs` modules and `Induction`, checked by tlapm with Z3, Zenon and LS4. They hold for
every value of the constants that meets the named assumptions of the modules. These say of what
type the inputs are, and TLC evaluates them in the runs: an array is a sequence and a reference,
subschema or count is one (`GraphAssumption`, `DocumentsAssumption`, `DocCompilerAssumption`,
`RequestAssumption`, `ClientsAssumption`, `ValuesAssumption`), limits and initial capacities are
positive, and marks like `NoPtr` are none of the values.
`CodesAssumption` says of a program what `ProgramsAreStructured` proves of every compiled one.

* `SchemaCompilerProofs`: `CapacityRespected` (`WithinCapacity`) and
  `NoPatternLeaks` (`PatternsFreedOnce`). The invariant for the first is that each
  array's length is at most its capacity, and that the only writer grows first. The second
  needs `PatternInv`: the patterns in the array are distinct, exactly those not
  yet freed, plus at most one between its creation and its storing.
  `ProgramsAreStructured` (`ProgramIsStructured`) is about a program that grows while the
  activations of `compile_schema` come and go, so it cannot be about the program alone.
  A *place* (`SchemaProgram`) says which sub-programs are open, each by the instruction that opened it,
  and what has just been closed; `StructureInv` says that what has been emitted, followed by the rest of
  the plan of the activation on top, leads from the outermost place to the one the activation below it
  expects, and so on down the stack, where a call still to be made stands for a sub-program that is whole. Lemmas
  establish it for the plan of each group of keywords; others count ENDs in a program of that
  shape. Its one hypothesis, `CountsFit`, is that no `allOf`, `anyOf` or `oneOf` has 65536
  alternatives or more: the count is stored in a `uint16_t`, and beyond that the branches the VM
  runs are not those that were emitted.
  `ValidationRunsToTheLastEnd` (`RunsToTheLastEnd`) is about compiler and VM together. Its second
  hypothesis, `SkipSafe`, is about the schemas only: none that `skip_to_end` may have to go over has
  a composition in it, or in what it leads to (`nested_composition` shows the
  property failing where one has). `StructureInv` then gives that nothing emitted in a skipped sub-program opens what
  `is_nesting_op` does not count, and that a THEN or ELSE follows the END of its conditional and
  nothing else; so a finished program goes through places (`FinishedPlaced`), and the VM's part of the
  argument (`ValidationVMProofs`) takes over. `SystemInv` ties the two: before the program is
  returned the VM is idle, and once it is freed no activation is left.
* `ValidationVMProofs`: `Inductive` ([]IInv), and from it `TypeCorrect`,
  `RecursionIsBounded` and `VerdictAndErrorsAgree`. `IInv` strengthens the three
  with what each activation knows of its loop (`LoopOK`), that a caller waits at
  the instruction that called (`CallersWait`), that a deeper activation is
  further in the program (`DeeperIsFurther`, the variant that bounds the
  recursion), and with `Accounted`: if an activation that records is invalid an error
  was recorded, and if one was recorded some activation is or will become invalid. The
  three properties alone are not inductive: a probing activation without an
  error list may be invalid with no error anywhere. The proof has one step per action and opcode
  group and a lemma per conjunct.
  `StopsOnlyAtTheEnd`: a program that goes through places is left only at its last instruction,
  whatever the value. `Levels` says where each activation stands: on the level of the place it began at
  between two instructions; above it by its loop's remaining sub-programs while an instruction is in
  effect, all of them opened by that instruction; and above it by exactly its counter in `skip_to_end`.
* `DocCompilerProofs`: `OwnershipInvariant` ([]OwnershipInv), and from it
  `EverySchemaFreedOnce` and `BackendDestroyedLast`. The invariant says that the tracked
  sequence has no repetition and holds exactly the compiled schemas not yet freed.
  `CompiledWhole` (`CompiledDocIsComplete`) and `AllBadPatternsReported` (`EveryBadPatternReported`)
  follow from a second one about progress: where the four loops may stand (`PlaceInv`), that
  what is compiled is what has been passed without the entries that have no schema (`CompleteInv`;
  `CompiledSoFar` says what that is in the middle of an operation), and that of the schemas passed so far exactly
  those with a bad pattern are reported (`ReportInv`); one whose `$ref` is not resolved fails without an error.
  For the adapter: `AdapterLeaksNothing` (`AdapterReleasesAll`), from an invariant that gives
  for each resource what the adapter may have of it by where its functions are, and where the
  compiler is then; and `AdapterCallsTheCompiler`, that an adapter implements `DocCompiler`, so
  that the theorems on it hold for every adapter.
* `RefResolverProofs`: `ResolverInvariant` ([]RefInv), and from it `VisitedSetIsTheStack`,
  `EachDocumentFreedOnce`, `CacheStaysWithinLimit` and `ResultsStayLive`. `RefInv` adds that the cache
  has an entry for exactly the documents not yet freed, each under one key, and that
  what is handed out or linked is in one of those. On the way `LoadedIsNew` shows
  that the duplicate branch of `oas_ref_cache_put`, which frees the document its
  caller goes on to use, is never taken: the loaders have asked for the same key before.
  `ResolverAnswers` adds what is answered: while a chain is followed the visited set is its
  beginning (`ChainInv`), each answer so far is the right one (`ResultInv`), and while a walk is under
  way the schemas it is done with are linked right, with what is below them either done or on the
  agenda (`LinkInv`). `ChainsEndWhereTheyLead` (`ChainsResolved`) and `LinksStayRight`
  (`LinksAreRight`) follow; for the former a chain that repeats a reference is shown to have no end.
* `RequestValidationProofs`: `ErrorsAndVerdictAgree` (`ErrorsExplainVerdict`) and
  `FailuresAreKept` (no step of a call takes a failure or an error back). `VerdictInv` adds that
  nothing has failed before the body is validated, which is why the assignment of the body's verdict
  takes nothing back, and that the one invalid result without an error is returned with a code.
  `VerdictsAreComplete` (`VerdictIsComplete`) needs `CallInv`: the template found so far is the best
  of those looked at, the operation is the first of that template and method (`FoundInv`), and the
  result is valid exactly when what has been looked at conforms (`PartsInv`).
* `ArenaProofs`: `RegionsNeverOverlap` and `ListReachesEveryBlock`. The invariant says that every
  live region lies in the used part of its block, that regions of one block do not meet, that
  blocks are apart. The theorems of this module have the hypothesis `RequestsFit`: from the end of the
  heap to the end of the address space there is room for each request with its padding. The sums of
  `oas_arena_alloc` are taken modulo `Word`, and from the hypothesis each is shown to be exact where it is
  used. The code does not check it; sizes of things that are held in memory keep to it.
  Of the error list and the intern pool: `ClientsUseTheArena`, that each of their steps is a step of
  the arena or none, so that the two theorems hold for them; and `ClientInvariant` ([]ClientInv), from
  which `ErrorsStayInOrder` (`ErrorsKeptInOrder`) and `StringsHaveOnePointer` (`InternedOnce`) follow.
  `ClientInv` says what is in hand between two allocations of a call, that the array is a live
  region large enough for its capacity, and that what was answered is in the chain of its bucket.
* `HttpFetchProofs`: `NothingIsHeldAfterReturn`, `SuccessIsWhole`, `RefusalsAreLarge` and
  `RedirectsAreBounded`, from `FetchInv`: at each `pc` exactly which resources are held, how many URL
  strings exist, how the buffer's size relates to what has arrived and to the limit, and how many redirects are left.
  `RefusalsAreLarge` is about limits whose sum with the first buffer is below `Word` (`LimitFits`); for the
  others it is false (`LargestAccepted`).
* `Induction`: induction over natural numbers and intervals as statements about sets, and that a
  recursive function over an interval exists and has the equations it is defined by. The proofs
  about chains of references, filtered lists, concatenated plans and counted ENDs rest on it.

Only model-checked: every liveness property (TLAPS proves no fairness here); the verdict
of the VM against `SchemaSemantics`, and with it the refinement of `ValidationPromise`, and
everything about texts, defaults and the document model (`ParsingLosesNothing`, `ResolutionFits`,
`AnswersAreRight`, `NegotiatedIsBest`, `DefaultsFillTheBody`, `SurvivesRoundTrip`,
`OutOfMemoryOnlyDrops`), since their definitions are recursive operators, for which the
provers have no rule; and the action property `BuildersKeepDocument`, for the same reason. The type invariants and the inductive
invariants are stated in the modules; the theorems establish them where they are needed, and
no run repeats them.

## 5. Abstractions

* Outside `Arena` and `ArenaClients` an allocation succeeds or fails; addresses and sizes are left out.
* Error lists keep what was reported about what, not the wording. In `RefResolver`
  a lost message is not modelled. The resolver passes the code of a failed fetch through, ELOOP included;
  its own `-ELOOP` is written `Loop`, so that the properties can tell the two apart.
* Hash tables are sets of entries. In the machines that use them, parsed URIs, JSON Pointers, regex
  and formats are constants that say what they decide.
* Numbers are small integers; on integers `fmod` is exact, so that the tolerance of 1e-9 of `multipleOf` is
  left out, and with it the difference `yyjson_equals` makes between 1 and 1.0. `uint16_t` branch counts do not overflow in the instances
  (in the theorems on compiled programs that is the hypothesis `CountsFit`).
* A schema's `contains`, `patternProperties`, `propertyNames` and `dependentSchemas` are
  not among the subschemas of `RefResolver`, because `resolve_schema_refs` does not visit them.
* In `HttpFetch` what one read returns fits an `int` (the code narrows it), and a TLS read gives bytes,
  0 or an error; partial records are inside the TLS library.
* Method names for the builders are compared in two spellings, of all those `strcasecmp` accepts.
* `oas_ref_ctx_create` without memory skips resolution altogether; not modelled.
* `unevaluatedProperties` and `unevaluatedItems` are never compiled, hence not in `SchemaSemantics`.
* In `Adapter` parsing succeeds or fails as a whole; what it does is in `DocModel` and `RefResolver`.
* In `DocModel` the struct members that are zero, null or -1 are absent; a schema that was
  handed to a document is not changed by the caller afterwards.

## 6. Not modelled

* The JSON and YAML loaders and the YAML emitter: one or two calls of yyjson and libfyaml each, a conversion
  by a library with no state or choice of this code.
* Problem details, the Scalar page, the version: texts put together from their arguments.
* The regex engine (vendored): what it matches is a constant; how its wrapper is created and destroyed is
  in `SchemaCompiler`, `DocCompiler` and `Adapter`.
* Threads: the library has none, and its documentation leaves sharing to the caller.

## 7. What is left

`DocCompiler` composed with `RequestValidation` against the declared document would show that what a
caller declares decides the verdict; `RefResolver` composed with `SchemaCompiler` would show what becomes of a reference that
stayed unresolved.
