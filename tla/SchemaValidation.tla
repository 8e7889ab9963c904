-------------------------- MODULE SchemaValidation --------------------------
(***************************************************************************)
(* The system of SchemaExecution against the meaning of the schema: what   *)
(* the compiled program answers is what SchemaSemantics says.              *)
(***************************************************************************)
EXTENDS SchemaExecution, SchemaSemantics

\* The compiled program decides the schema: when oas_validate returns, its
\* result is whether the value satisfies the schema, whatever was compiled
\* before and after the keyword that decides (docs/en/03-json-schema.md,
\* "Keyword reference").
VerdictMatchesSchema ==
  /\ verdict = "valid" => Holds(graph, direction, Root, value)
  /\ verdict = "invalid" => ~Holds(graph, direction, Root, value)

\* Compiling and validating implement the promise of ValidationPromise.
Promise == INSTANCE ValidationPromise WITH compiled <- outcome, Directions <- Directed
KeepsPromise == Promise!PromiseSpec

\* An error "no anyOf branch matched" is only reported for a value that no
\* alternative of the root's anyOf accepts (oas_validator.c, BRANCH_ANYOF).
AnyOfErrorsAreReal ==
  \A i \in DOMAIN errors :
    code[errors[i].at].op = "BRANCH_ANYOF" =>
      \A k \in DOMAIN graph[Root].any_of :
        ~Holds(graph, direction, graph[Root].any_of[k], errors[i].val)

\* A call of oas_schema_compile returns, and so does a call of oas_validate.
EveryCallReturns ==
  /\ <>(outcome # "compiling")
  /\ [](verdict = "running" => <>(verdict \in {"valid", "invalid"}))
=============================================================================
