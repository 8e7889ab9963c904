-------------------------- MODULE SchemaExecution --------------------------
(***************************************************************************)
(* A schema is compiled (oas_schema_compile), then values are validated    *)
(* against it (oas_validate_with_direction): the two machines share the    *)
(* program, and the owner of the compiled schema frees it when no          *)
(* validation is under way.                                                *)
(***************************************************************************)
EXTENDS SchemaCompiler

CONSTANTS
  Values,       \* the values that are validated
  JsonValues,   \* these and what they consist of: items, members and names
  Directed      \* the directions values are validated in

VARIABLES value, direction, stack, errors, verdict

VM == INSTANCE ValidationVM
        WITH Values <- JsonValues, Codes <- {}, MemoryMayFail <- FALSE

ASSUME ExecutionAssumption ==
  /\ Values \subseteq JsonValues
  /\ Directed \subseteq VM!Directions
  /\ \A v \in JsonValues :
       /\ v.kind = "array" => v.items \in Seq(JsonValues)
       /\ v.kind = "object" =>
            /\ v.members \in Seq([key : STRING, val : JsonValues])
            /\ \A i \in DOMAIN v.members : Str(v.members[i].key) \in JsonValues

validatorVars == <<value, direction, stack, errors, verdict>>
systemVars == <<compilerVars, validatorVars>>

SystemInit ==
  /\ Init
  /\ value = Null
  /\ direction = "none"
  /\ stack = <<>>
  /\ errors = <<>>
  /\ verdict = "idle"

Compile ==
  /\ CompileStep
  /\ UNCHANGED validatorVars

Submit ==
  /\ outcome = "ok"
  /\ \E v \in Values, d \in Directed : VM!Validate(v, d) /\ value' = v
  /\ UNCHANGED compilerVars

Run ==
  /\ VM!Execute \/ VM!Finish
  /\ UNCHANGED <<value, graph, config, calls, capacity, made, patterns, patternCap,
                 frees, outcome>>

Release ==
  /\ verdict # "running"
  /\ Free
  /\ UNCHANGED validatorVars

SystemNext == Compile \/ Submit \/ Run \/ Release

SystemSpec == SystemInit /\ [][SystemNext]_systemVars
\* Compilation and validation are function calls: they run until they return.
FairSystemSpec == SystemSpec /\ WF_systemVars(Compile) /\ WF_systemVars(Run)

-----------------------------------------------------------------------------
(* Properties.                                                             *)

\* The outermost execute() stops at the last instruction: no END of a skipped
\* or probed sub-program ends a validation early (oas_validator.c, execute
\* and skip_to_end).
RunsToTheLastEnd ==
  Len(stack) = 1 /\ VM!Fetching(stack[1]) /\ VM!AtEnd(stack[1])
    => stack[1].ip = Len(code)

-----------------------------------------------------------------------------
(* The schemas for which it holds (SchemaCompilerProofs): skip_to_end does *)
(* not count the ENDs of a composition, so what it goes over may hold none.*)

NodeFields == {"ref_resolved", "items", "contains", "additional_properties",
               "property_names", "not_schema", "if_schema", "then_schema", "else_schema"}
ListFields == {"properties", "pattern_properties", "dependent_schemas"}

\* The schemas compile_schema goes on with, and those of them whose program
\* skip_to_end may have to go over.
Subschemas(s, fields) ==
  {s[field] : field \in {f \in fields : Has(s, f)}}
    \cup (UNION {{s[field][i].schema : i \in DOMAIN s[field]} :
                   field \in {f \in ListFields : Has(s, f)}})
    \cup {Opt(s, "prefix_items", <<>>)[i] : i \in DOMAIN Opt(s, "prefix_items", <<>>)}
Children(s) == Subschemas(s, NodeFields)
SkippedChildren(s) == Subschemas(s, NodeFields \ {"ref_resolved", "not_schema", "if_schema"})

HasComposition(s) ==
  \E field \in {"all_of", "any_of", "one_of"} : Opt(s, field, <<>>) # <<>>

\* Some schemas are free of compositions with all they lead to, and skip_to_end
\* goes over these only.
SkipSafe(g) ==
  \E plain \in SUBSET DOMAIN g :
    /\ \A m \in DOMAIN g : SkippedChildren(g[m]) \subseteq plain
    /\ \A m \in plain : Children(g[m]) \subseteq plain /\ ~HasComposition(g[m])
=============================================================================
