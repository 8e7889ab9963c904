--------------------------- MODULE SchemaCompiler ---------------------------
(***************************************************************************)
(* oas_schema_compile of src/compiler/oas_compiler.c: a schema graph is    *)
(* flattened into one linear program.                                      *)
(*                                                                         *)
(* A schema node is a record with the fields of oas_schema_t that are set  *)
(* (an unset field is not in its domain); a pointer to another schema is   *)
(* the identity of a node.  compile_schema goes through the keywords of a  *)
(* node in a fixed order: that order is the plan of the node, a sequence   *)
(* of steps that emit an instruction, compile a regular expression or call *)
(* compile_schema on another node.  The state machine carries the plans    *)
(* out, with the allocations that may fail on the way.                     *)
(***************************************************************************)
EXTENDS SchemaProgram, SequencesExt

CONSTANTS
  Graphs,         \* the schema graphs: functions from node identities to nodes
  Configs,        \* records [regex : BOOLEAN, formats : BOOLEAN]: a regex backend
                  \* is given; format_policy is not OAS_FORMAT_IGNORE
  PatternOk,      \* the patterns the regex backend can compile
  KnownFormats,   \* the formats oas_format_get has a validator for
  ProgramInitialCap, PatternInitialCap,  \* first capacities of the two arrays
  AllocMayFail,   \* TRUE when realloc may return NULL
  MaxDepth        \* activations of compile_schema the C stack has room for

ASSUME CompilerAssumption ==
  /\ ProgramInitialCap \in Nat \ {0}
  /\ PatternInitialCap \in Nat \ {0}
  /\ MaxDepth \in Nat \ {0}
  /\ AllocMayFail \in BOOLEAN

Root == 1   \* the node oas_schema_compile is called with

\* The fields of oas_schema_t that lead to other nodes or hold a list or a count;
\* min_contains is set when it is not negative.
IsList(s) == s \in Seq({s[j] : j \in DOMAIN s})
IsNode(s, nodes) ==
  /\ \A field \in {"ref_resolved", "items", "contains", "additional_properties",
                   "property_names", "not_schema", "if_schema", "then_schema",
                   "else_schema"} : Has(s, field) => s[field] \in nodes
  /\ \A field \in {"prefix_items", "all_of", "any_of", "one_of"} :
       Opt(s, field, <<>>) \in Seq(nodes)
  /\ \A field \in {"required", "properties", "pattern_properties", "dependent_schemas",
                   "dependent_required", "discriminator_mapping"} :
       IsList(Opt(s, field, <<>>))
  /\ \A field \in {"properties", "pattern_properties", "dependent_schemas"} :
       \A i \in DOMAIN Opt(s, field, <<>>) : s[field][i].schema \in nodes
  /\ \A i \in DOMAIN Opt(s, "dependent_required", <<>>) :
       IsList(s.dependent_required[i].required)
  /\ Opt(s, "min_contains", 1) \in Nat /\ Opt(s, "max_contains", -1) \in Int

ASSUME GraphAssumption ==
  \A g \in Graphs : Root \in DOMAIN g /\ \A m \in DOMAIN g : IsNode(g[m], DOMAIN g)

-----------------------------------------------------------------------------
(* The plan of a node.                                                     *)

Emit(op, arg) == [do |-> "emit", ins |-> Instr(op, arg)]
Regex(p)      == [do |-> "regex", pattern |-> p]
Sub(node)     == [do |-> "call", node |-> node]
Follow(node)  == [do |-> "follow", node |-> node]   \* a call in return position
Reject        == [do |-> "reject"]

EmitIf(s, field, op) == IF Has(s, field) THEN <<Emit(op, s[field])>> ELSE <<>>
FlagIf(s, field, op) == IF Opt(s, field, FALSE) THEN <<Emit(op, 0)>> ELSE <<>>

Block(op, arg, node) == <<Emit(op, arg), Sub(node), Emit("END", 0)>>
BlockIf(s, field, op) == IF Has(s, field) THEN Block(op, 0, s[field]) ELSE <<>>

\* A loop over a sequence field that carries out Each(element) in order.
Loop(seq, Each(_)) == FlattenSeq([i \in DOMAIN seq |-> Each(seq[i])])

TypePlan(s) ==
  IF Has(s, "type_mask")
  THEN LET null == IF Opt(s, "nullable", FALSE) THEN {"null"} ELSE {}
       IN  <<Emit("CHECK_TYPE", s.type_mask \cup null)>>
  ELSE <<>>

StringPlan(s, config) ==
  EmitIf(s, "min_length", "CHECK_MIN_LEN")
  \o EmitIf(s, "max_length", "CHECK_MAX_LEN")
  \o (IF Has(s, "pattern") /\ config.regex
      THEN <<Regex(s.pattern), Emit("CHECK_PATTERN", s.pattern)>> ELSE <<>>)
  \o (IF Opt(s, "format", "") \in KnownFormats /\ config.formats
      THEN <<Emit("CHECK_FORMAT", s.format)>> ELSE <<>>)

NumberPlan(s) ==
  EmitIf(s, "minimum", "CHECK_MINIMUM") \o EmitIf(s, "maximum", "CHECK_MAXIMUM")
  \o EmitIf(s, "exclusive_minimum", "CHECK_EX_MINIMUM")
  \o EmitIf(s, "exclusive_maximum", "CHECK_EX_MAXIMUM")
  \o EmitIf(s, "multiple_of", "CHECK_MULTIPLE_OF")

ArrayPlan(s) ==
  LET prefix == Opt(s, "prefix_items", <<>>)
  IN  EmitIf(s, "min_items", "CHECK_MIN_ITEMS") \o EmitIf(s, "max_items", "CHECK_MAX_ITEMS")
      \o FlagIf(s, "unique_items", "CHECK_UNIQUE")
      \o FlattenSeq([i \in DOMAIN prefix |-> Block("ENTER_PREFIX_ITEM", i - 1, prefix[i])])
      \o BlockIf(s, "items", "ENTER_ITEMS")

ObjectPlan(s) ==
  LET Required(name) == <<Emit("CHECK_REQUIRED", name)>>
      Property(p)    == Block("ENTER_PROPERTY", p.name, p.schema)
  IN  Loop(Opt(s, "required", <<>>), Required)
      \o Loop(Opt(s, "properties", <<>>), Property)
      \o BlockIf(s, "additional_properties", "ENTER_ADDITIONAL")
      \o EmitIf(s, "min_properties", "CHECK_MIN_PROPS")
      \o EmitIf(s, "max_properties", "CHECK_MAX_PROPS")
      \o BlockIf(s, "property_names", "CHECK_PROP_NAMES")

\* patternProperties are compiled only when a regex backend is configured.
PatternPropsPlan(s, config) ==
  LET Pattern(p) == <<Regex(p.pattern)>> \o Block("CHECK_PATTERN_PROPS", p.pattern, p.schema)
  IN  IF config.regex THEN Loop(Opt(s, "pattern_properties", <<>>), Pattern) ELSE <<>>

DependentPlan(s) ==
  LET Name(n)   == <<Emit("NOP", n)>>
      DepReq(d) == <<Emit("CHECK_DEP_REQUIRED", d.property), Emit("NOP", Len(d.required))>>
                   \o Loop(d.required, Name)
      DepSub(d) == Block("CHECK_DEP_SCHEMA", d.property, d.schema)
  IN  Loop(Opt(s, "dependent_required", <<>>), DepReq)
      \o Loop(Opt(s, "dependent_schemas", <<>>), DepSub)

\* contains, with min_contains (default 1) and max_contains (-1: none).
ContainsPlan(s) ==
  IF Has(s, "contains")
  THEN <<Emit("CHECK_CONTAINS", Opt(s, "min_contains", 1)),
         Emit("NOP", Opt(s, "max_contains", -1)), Sub(s.contains), Emit("END", 0)>>
  ELSE <<>>

\* Mutant of the next: one END for all the alternatives.
BranchesOneEnd(nodes) ==
  LET Branch(node) == <<Sub(node)>> IN Loop(nodes, Branch) \o <<Emit("END", 0)>>

\* Each alternative is followed by its own END; none of them is opened by an
\* instruction of its own.
Branches(nodes) ==
  LET Branch(node) == <<Sub(node), Emit("END", 0)>> IN Loop(nodes, Branch)

\* The count is stored in 16 bits.
Composition(s, field, op) ==
  LET nodes == Opt(s, field, <<>>)
  IN  IF nodes = <<>> THEN <<>>
      ELSE <<Emit(op, Len(nodes) % 65536)>> \o Branches(nodes)

\* A discriminator with a mapping replaces oneOf or anyOf.  The mapping's keys
\* are emitted without their targets: key i goes with alternative i.
Discriminator(s) ==
  LET nodes == IF Opt(s, "one_of", <<>>) # <<>> THEN s.one_of ELSE Opt(s, "any_of", <<>>)
      mapping == s.discriminator_mapping
      Key(m) == <<Emit("NOP", m.key)>>
  IN  IF nodes = <<>> \/ Len(nodes) # Len(mapping) THEN <<>>
      ELSE <<Emit("DISCRIMINATOR", s.discriminator_property), Emit("NOP", Len(mapping))>>
           \o Loop(mapping, Key) \o Branches(nodes)

HasDiscriminator(s) ==
  Has(s, "discriminator_property") /\ Opt(s, "discriminator_mapping", <<>>) # <<>>

CompositionPlan(s) ==
  Composition(s, "all_of", "BRANCH_ALLOF")
  \o (IF HasDiscriminator(s) THEN Discriminator(s)
      ELSE Composition(s, "any_of", "BRANCH_ANYOF") \o Composition(s, "one_of", "BRANCH_ONEOF"))

ConditionalPlan(s) ==
  BlockIf(s, "not_schema", "NEGATE")
  \o (IF Has(s, "if_schema")
      THEN BlockIf(s, "if_schema", "COND_IF") \o BlockIf(s, "then_schema", "COND_THEN")
           \o BlockIf(s, "else_schema", "COND_ELSE")
      ELSE <<>>)

ValuePlan(s) ==
  EmitIf(s, "enum_values", "CHECK_ENUM") \o EmitIf(s, "const_value", "CHECK_CONST")
  \o FlagIf(s, "read_only", "CHECK_READ_ONLY") \o FlagIf(s, "write_only", "CHECK_WRITE_ONLY")

Plan(s, config) ==
  CASE Has(s, "ref_resolved") -> <<Follow(s.ref_resolved)>>
    [] Has(s, "ref") /\ ~Has(s, "ref_resolved") -> <<Reject>>
    [] OTHER -> TypePlan(s) \o StringPlan(s, config) \o NumberPlan(s) \o ArrayPlan(s)
                \o ObjectPlan(s) \o PatternPropsPlan(s, config) \o DependentPlan(s)
                \o ContainsPlan(s) \o CompositionPlan(s) \o ConditionalPlan(s) \o ValuePlan(s)

-----------------------------------------------------------------------------
(* The compilation.                                                        *)

VARIABLES
  graph,      \* the schema graph being compiled
  config,     \* oas_compiler_config_t
  calls,      \* for each activation of compile_schema, the steps still to do
  code,       \* cs->program.code[0 .. count-1]
  capacity,   \* cs->program.capacity
  made,       \* patterns the regex backend has returned: handles 1..made
  patterns,   \* cs->patterns, the tracked handles
  patternCap, \* cs->pattern_capacity
  frees,      \* the handles given to free_pattern, in order
  outcome     \* "compiling", then "ok" or "null" (the result of
              \* oas_schema_compile), or "overflow"; "freed" after
              \* oas_compiled_schema_free

compilerVars == <<graph, config, calls, code, capacity, made, patterns, patternCap,
                  frees, outcome>>

Init ==
  /\ graph \in Graphs
  /\ config \in Configs
  /\ calls = <<Plan(graph[Root], config)>>
  /\ code = <<>>
  /\ capacity = 0
  /\ made = 0
  /\ patterns = <<>>
  /\ patternCap = 0
  /\ frees = <<>>
  /\ outcome = "compiling"

Steps == calls[Len(calls)]
NextIs(kind) ==
  /\ outcome = "compiling"
  /\ calls # <<>>
  /\ Steps # <<>>
  /\ Head(Steps).do = kind
StepDone == calls' = [calls EXCEPT ![Len(calls)] = Tail(Steps)]

Grown(cap, initial) == IF cap = 0 THEN initial ELSE cap * 2

\* Mutant of the next: the pattern that could not be tracked is leaked.
AbortLeaks(released) ==
  /\ outcome' = "null"
  /\ frees' = frees \o patterns
  /\ patterns' = <<>>
  /\ patternCap' = 0
  /\ calls' = <<>>
  /\ code' = <<>>
  /\ capacity' = 0

\* Every error return unwinds to oas_schema_compile, which frees everything.
Abort(released) ==
  /\ outcome' = "null"
  /\ frees' = frees \o released \o patterns
  /\ patterns' = <<>>
  /\ patternCap' = 0
  /\ calls' = <<>>
  /\ code' = <<>>
  /\ capacity' = 0

\* Mutant of the next: the array grows one element too late.
AppendLate(ins) ==
  /\ code' = Append(code, ins)
  /\ capacity' = IF Len(code) > capacity THEN Grown(capacity, ProgramInitialCap)
                 ELSE capacity

\* oas_program_emit succeeds: the array grows when it is full.
Append1(ins) ==
  /\ code' = Append(code, ins)
  /\ capacity' = IF Len(code) >= capacity THEN Grown(capacity, ProgramInitialCap)
                 ELSE capacity
EmitFails == AllocMayFail /\ Len(code) >= capacity /\ Abort(<<>>)

EmitInstr ==
  /\ NextIs("emit")
  /\ \/ /\ Append1(Head(Steps).ins)
        /\ StepDone
        /\ UNCHANGED <<patterns, patternCap, frees, outcome>>
     \/ EmitFails
  /\ UNCHANGED <<graph, config, made>>

\* regex->compile, then track_pattern.
CompilePattern ==
  /\ NextIs("regex")
  /\ \/ /\ Head(Steps).pattern \notin PatternOk
        /\ Abort(<<>>)
        /\ UNCHANGED made
     \/ /\ Head(Steps).pattern \in PatternOk
        /\ made' = made + 1
        /\ \/ /\ patterns' = Append(patterns, made + 1)
              /\ patternCap' = IF Len(patterns) >= patternCap
                               THEN Grown(patternCap, PatternInitialCap) ELSE patternCap
              /\ StepDone
              /\ UNCHANGED <<code, capacity, frees, outcome>>
           \/ /\ AllocMayFail
              /\ Len(patterns) >= patternCap
              /\ Abort(<<made + 1>>)   \* the new pattern is not tracked
  /\ UNCHANGED <<graph, config>>

CallSub ==
  /\ NextIs("call")
  /\ IF Len(calls) < MaxDepth
     THEN /\ calls' = Append([calls EXCEPT ![Len(calls)] = Tail(Steps)],
                             Plan(graph[Head(Steps).node], config))
          /\ UNCHANGED outcome
     ELSE /\ outcome' = "overflow"
          /\ UNCHANGED calls
  /\ UNCHANGED <<graph, config, code, capacity, made, patterns, patternCap, frees>>

\* Mutant of the next: the schema with the $ref is compiled again.
FollowSelf ==
  /\ NextIs("follow")
  /\ calls' = [calls EXCEPT ![Len(calls)] = <<Head(Steps)>>]
  /\ UNCHANGED <<graph, config, code, capacity, made, patterns, patternCap, frees, outcome>>

\* The call is the last thing compile_schema does, so it takes no stack here.
FollowRef ==
  /\ NextIs("follow")
  /\ calls' = [calls EXCEPT ![Len(calls)] = Plan(graph[Head(Steps).node], config)]
  /\ UNCHANGED <<graph, config, code, capacity, made, patterns, patternCap, frees, outcome>>

RejectRef ==
  /\ NextIs("reject")
  /\ Abort(<<>>)
  /\ UNCHANGED <<graph, config, made>>

ReturnFromSub ==
  /\ outcome = "compiling"
  /\ calls # <<>>
  /\ Steps = <<>>
  /\ calls' = Front(calls)
  /\ UNCHANGED <<graph, config, code, capacity, made, patterns, patternCap, frees, outcome>>

\* oas_schema_compile emits the END of the whole program and returns it.
EmitFinalEnd ==
  /\ outcome = "compiling"
  /\ calls = <<>>
  /\ \/ /\ Append1(Instr("END", 0))
        /\ outcome' = "ok"
        /\ UNCHANGED <<calls, patterns, patternCap, frees>>
     \/ EmitFails
  /\ UNCHANGED <<graph, config, made>>

\* oas_compiled_schema_free, by the owner of the compiled schema.
Free ==
  /\ outcome = "ok"
  /\ outcome' = "freed"
  /\ frees' = frees \o patterns
  /\ patterns' = <<>>
  /\ patternCap' = 0
  /\ code' = <<>>
  /\ capacity' = 0
  /\ UNCHANGED <<graph, config, calls, made>>

CompileStep ==
  \/ EmitInstr \/ CompilePattern \/ CallSub \/ FollowRef \/ RejectRef
  \/ ReturnFromSub \/ EmitFinalEnd

Next == CompileStep \/ Free

Spec == Init /\ [][Next]_compilerVars
\* oas_schema_compile runs without interruption until it returns.
FairSpec == Spec /\ WF_compilerVars(CompileStep)

-----------------------------------------------------------------------------
(* Properties.                                                             *)

\* The patterns that exist: returned by the backend and not yet freed.
Live == (1..made) \ ToSet(frees)

TypeOK ==
  /\ graph \in Graphs /\ config \in Configs
  /\ Len(calls) <= MaxDepth
  /\ \A i \in DOMAIN code : code[i].op \in Ops
  /\ capacity \in Nat /\ patternCap \in Nat
  /\ made \in Nat
  /\ patterns \in Seq(1..made) /\ frees \in Seq(1..made)
  /\ outcome \in {"compiling", "ok", "null", "overflow", "freed"}

\* The two arrays are never written beyond what was allocated for them, however
\* often they grow (oas_program_emit, track_pattern).
WithinCapacity == Len(code) <= capacity /\ Len(patterns) <= patternCap

\* A pattern the regex backend compiled is freed exactly once: by the error
\* path that gives up on the schema, or by oas_compiled_schema_free; while the
\* compiled schema exists its patterns are alive (track_pattern, compile_schema
\* and oas_compiled_schema_free share this duty).
PatternsFreedOnce ==
  /\ \A i, j \in DOMAIN frees : frees[i] = frees[j] => i = j
  /\ outcome \in {"null", "freed"} => Live = {}
  /\ outcome \in {"compiling", "ok"} => Live = ToSet(patterns)

\* The sub-programs an instruction is followed by.
SubPrograms(i) ==
  CASE code[i].op \in BlockOps \cup CondParts \cup {"NEGATE", "COND_IF", "CHECK_DEP_SCHEMA"} -> 1
    [] code[i].op \in {"BRANCH_ALLOF", "BRANCH_ANYOF", "BRANCH_ONEOF"} -> code[i].arg
    [] code[i].op = "DISCRIMINATOR" -> code[i + 1].arg
    [] OTHER -> 0

\* The sub-programs still open before instruction i, the whole program included.
Open[i \in 1..(Len(code) + 1)] ==
  IF i = 1 THEN 1
  ELSE Open[i - 1] + SubPrograms(i - 1) - (IF code[i - 1].op = "END" THEN 1 ELSE 0)

\* In a finished program the sub-programs nest: each END closes one of those
\* the instructions before it announced, the last instruction closes the
\* program, and the operands the VM reads from NOPs are there (compile_schema
\* and compile_composition emit the ENDs apart from the instructions).
ProgramIsStructured ==
  outcome = "ok" =>
    /\ WellFormed(code)
    /\ \A i \in 1..Len(code) : Open[i] > 0
    /\ Open[Len(code) + 1] = 0

\* oas_schema_compile returns (FairSpec).
CompileReturns == <>(outcome # "compiling")
\* compile_schema does not use up the C stack.
StackSuffices == outcome # "overflow"

-----------------------------------------------------------------------------
(* The inductive invariant behind WithinCapacity and PatternsFreedOnce     *)
(* (SchemaCompilerProofs).                                                 *)

\* Until the compiled schema is given up every pattern is tracked, in the order
\* in which the patterns were made; afterwards each one has been freed.
InOrder(s, n) == s \in Seq(Nat) /\ Len(s) = n /\ \A i \in 1..n : s[i] = i
EachOnce(s, n) ==
  /\ s \in Seq(Nat)
  /\ \A i, j \in DOMAIN s : s[i] = s[j] => i = j
  /\ ToSet(s) = 1..n

PatternInv ==
  /\ made \in Nat
  /\ outcome \in {"compiling", "ok", "overflow"} => frees = <<>> /\ InOrder(patterns, made)
  /\ outcome \in {"null", "freed"} => patterns = <<>> /\ EachOnce(frees, made)
  /\ outcome \in {"compiling", "ok", "null", "overflow", "freed"}
=============================================================================
