------------------------- MODULE ValidationPromise --------------------------
(***************************************************************************)
(* What compiling a schema and validating a value promises, with nothing   *)
(* said about programs, frames or skipping: once the schema is compiled a  *)
(* value may be submitted once, and the answer is whether it satisfies the *)
(* schema (docs/en/05-validator.md).                                      *)
(***************************************************************************)
EXTENDS SchemaSemantics

CONSTANTS Values, Directions

VARIABLES
  graph,      \* the schema; node 1 is the root
  compiled,   \* "compiling", "ok" or "null"
  value,      \* the value submitted, Null before
  direction,
  verdict     \* "idle", "running", "valid" or "invalid"

promiseVars == <<graph, compiled, value, direction, verdict>>

PromiseInit ==
  /\ compiled = "compiling"
  /\ value = Null
  /\ direction = "none"
  /\ verdict = "idle"

FinishCompile ==
  /\ compiled = "compiling"
  /\ compiled' \in {"ok", "null"}
  /\ UNCHANGED <<graph, value, direction, verdict>>

Submit ==
  /\ compiled = "ok"
  /\ verdict = "idle"
  /\ value' \in Values
  /\ direction' \in Directions
  /\ verdict' = "running"
  /\ UNCHANGED <<graph, compiled>>

Answer ==
  /\ verdict = "running"
  /\ verdict' = IF Holds(graph, direction, 1, value) THEN "valid" ELSE "invalid"
  /\ UNCHANGED <<graph, compiled, value, direction>>

Release ==
  /\ compiled = "ok"
  /\ verdict # "running"
  /\ compiled' = "freed"
  /\ UNCHANGED <<graph, value, direction, verdict>>

PromiseNext == FinishCompile \/ Submit \/ Answer \/ Release

PromiseSpec == PromiseInit /\ [][PromiseNext]_promiseVars
=============================================================================
