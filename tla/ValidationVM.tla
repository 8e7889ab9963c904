---------------------------- MODULE ValidationVM ----------------------------
(***************************************************************************)
(* The bytecode interpreter of src/validator/oas_validator.c.              *)
(*                                                                         *)
(* execute() is recursive: a block or a branch copies the caller's         *)
(* vm_state_t, runs the copy to the next END and merges it back.  Here a   *)
(* frame is one activation of execute(), the stack is the C call stack,    *)
(* and every turn of the C loops is a step: one instruction, one call, one *)
(* return, one turn of skip_to_end.                                        *)
(*                                                                         *)
(* Fields of a frame: ip, val and valid are those of vm_state_t; rec says  *)
(* whether the copy's `errors' pointer is set (a probing copy has it       *)
(* cleared).  at is the instruction whose sub-executions are under way (0  *)
(* if none), next..n are the sub-executions still to make, hits counts     *)
(* those that were valid, and depth is the counter of skip_to_end (0 when  *)
(* it is not running).                                                     *)
(***************************************************************************)
EXTENDS SchemaProgram

CONSTANTS
  Values,       \* the JSON values, closed under taking items, members and names
  Codes,        \* the programs oas_validate may be called with
  MemoryMayFail \* TRUE when the arena or the heap may be exhausted

ASSUME ValuesAssumption ==
  \A v \in Values :
    /\ v.kind = "array" => v.items \in Seq(Values)
    /\ v.kind = "object" =>
         /\ v.members \in Seq([key : STRING, val : Values])
         /\ \A i \in DOMAIN v.members : Str(v.members[i].key) \in Values
\* The compiler emits well-formed programs: SchemaCompiler, ProgramIsStructured.
ASSUME CodesAssumption ==
  \A c \in Codes : Len(c) \in Nat /\ DOMAIN c = 1..Len(c) /\ WellFormed(c)
ASSUME MemoryAssumption == MemoryMayFail \in BOOLEAN

VARIABLES
  code,       \* the program: prog->code[0 .. count-1]
  direction,  \* "none", "request" or "response"
  stack,      \* the activations of execute(), outermost first
  errors,     \* result->errors, as records [at |-> instruction, val |-> value]
  verdict     \* "idle", "running", then result->valid: "valid" or "invalid"

vmVars == <<code, direction, stack, errors, verdict>>

Directions == {"none", "request", "response"}
Verdicts   == {"idle", "running", "valid", "invalid"}

Frame == [ip : Nat, val : Values, valid : BOOLEAN, rec : BOOLEAN, at : Nat,
          next : Nat, n : Nat, hits : Nat, depth : Nat]

\* The copy `sub = *vm': it inherits the caller's position and validity.
NewFrame(ip, val, valid, rec) ==
  [ip |-> ip, val |-> val, valid |-> valid, rec |-> rec,
   at |-> 0, next |-> 1, n |-> 0, hits |-> 0, depth |-> 0]

-----------------------------------------------------------------------------
(* Reading the program.                                                    *)

OpAt(i) == IF i \in 1..Len(code) THEN code[i].op ELSE "none"

\* execute() leaves its loop at an END or at the end of the code.
AtEnd(f) == OpAt(f.ip) \in {"none", "END"}
PastEnd(f) == IF OpAt(f.ip) = "END" THEN f.ip + 1 ELSE f.ip

\* No sub-execution and no skip is under way: the frame fetches instructions.
Fetching(f) == f.at = 0 /\ f.depth = 0
\* The sub-executions of the instruction code[f.at] have all been made.
SubsDone(f) == f.at # 0 /\ f.depth = 0 /\ f.next > f.n

Top    == stack[Len(stack)]
Caller == stack[Len(stack) - 1]
SetTop(f) == stack' = [stack EXCEPT ![Len(stack)] = f]

\* How many times instruction i of the program c runs what follows it.
\* (For patternProperties every member is a turn; those that do not match
\* are passed over by PassMember.)
SubCount(c, i, v) ==
  LET in == c[i] IN
  CASE in.op \in {"ENTER_ITEMS", "CHECK_CONTAINS"} ->
         IF v.kind = "array" THEN Len(v.items) ELSE 0
    [] in.op = "ENTER_PREFIX_ITEM" ->
         IF v.kind = "array" /\ in.arg < Len(v.items) THEN 1 ELSE 0
    [] in.op \in {"ENTER_PROPERTY", "CHECK_DEP_SCHEMA"} ->
         IF v.kind = "object" /\ HasKey(v, in.arg) THEN 1 ELSE 0
    [] in.op \in {"CHECK_PROP_NAMES", "CHECK_PATTERN_PROPS"} ->
         IF v.kind = "object" THEN Len(v.members) ELSE 0
    [] in.op \in {"BRANCH_ALLOF", "BRANCH_ANYOF", "BRANCH_ONEOF"} -> in.arg
    [] in.op \in {"NEGATE", "COND_IF"} -> 1
    [] in.op = "DISCRIMINATOR" -> c[i + 1].arg
    [] OTHER -> 0   \* ENTER_ADDITIONAL: its sub-program is never run

\* The value the k-th sub-execution runs on.
SubValue(in, v, k) ==
  CASE in.op \in {"ENTER_ITEMS", "CHECK_CONTAINS"} -> v.items[k]
    [] in.op = "ENTER_PREFIX_ITEM" -> v.items[in.arg + 1]
    [] in.op = "ENTER_PROPERTY" -> ObjGet(v, in.arg)
    [] in.op = "CHECK_PROP_NAMES" -> Str(v.members[k].key)
    [] in.op = "CHECK_PATTERN_PROPS" -> v.members[k].val
    [] OTHER -> v

\* Operands stored in the instructions that follow: max_contains, the mapping.
HeaderLength(c, i, v) ==
  CASE c[i].op = "CHECK_CONTAINS" -> IF v.kind = "array" THEN 1 ELSE 0
    [] c[i].op = "DISCRIMINATOR" -> 1 + c[i + 1].arg
    [] OTHER -> 0

\* The k-th key of the mapping is the discriminator string of the value.
KeyMatches(c, f, k) ==
  LET prop == c[f.at].arg
  IN  /\ f.val.kind = "object"
      /\ HasKey(f.val, prop)
      /\ ObjGet(f.val, prop) = Str(c[f.at + 1 + k].arg)

\* The discriminator selects the branch at the position of the first such key.
SomeMatch(c, f)  == \E k \in 1..f.n : KeyMatches(c, f, k)
Selects(c, f, k) == KeyMatches(c, f, k) /\ \A j \in 1..(k - 1) : ~KeyMatches(c, f, j)

\* Mutant of the next: `not' reports the errors of its sub-program.
ProbingButNot(c, f) ==
  LET op == c[f.at].op
  IN  \/ op \in {"BRANCH_ANYOF", "BRANCH_ONEOF", "COND_IF", "CHECK_CONTAINS"}
      \/ op = "DISCRIMINATOR" /\ SomeMatch(c, f) /\ ~Selects(c, f, f.next)

\* The sub-execution's errors pointer is cleared: its errors are not reported.
Probing(c, f) ==
  LET op == c[f.at].op
  IN  \/ op \in {"BRANCH_ANYOF", "BRANCH_ONEOF", "NEGATE", "COND_IF", "CHECK_CONTAINS"}
      \/ op = "DISCRIMINATOR" /\ SomeMatch(c, f) /\ ~Selects(c, f, f.next)

\* Mutant of the next: a dependent schema's verdict is dropped.
PropagatesNoDep(f) ==
  LET op == code[f.at].op
  IN  \/ op \in {"ENTER_ITEMS", "ENTER_PREFIX_ITEM", "ENTER_PROPERTY", "BRANCH_ALLOF",
                 "CHECK_PROP_NAMES", "CHECK_PATTERN_PROPS", "COND_THEN", "COND_ELSE"}
      \/ op = "DISCRIMINATOR" /\ Selects(code, f, f.next)

\* An invalid sub-execution makes the caller invalid.
Propagates(f) ==
  LET op == code[f.at].op
  IN  \/ op \in {"ENTER_ITEMS", "ENTER_PREFIX_ITEM", "ENTER_PROPERTY", "BRANCH_ALLOF",
                 "CHECK_PROP_NAMES", "CHECK_PATTERN_PROPS", "CHECK_DEP_SCHEMA",
                 "COND_THEN", "COND_ELSE"}
      \/ op = "DISCRIMINATOR" /\ Selects(code, f, f.next)

\* add_error: the frame's errors pointer may be null, and the message is lost
\* when the arena is exhausted.  One entry stands for all the messages one
\* execution of an instruction adds.
AddError(f, at) ==
  \/ errors' = IF f.rec THEN Append(errors, [at |-> at, val |-> f.val]) ELSE errors
  \/ MemoryMayFail /\ errors' = errors

-----------------------------------------------------------------------------
(* oas_validate_with_direction: the call and its result.                   *)

Init ==
  /\ code \in Codes
  /\ direction = "none"
  /\ stack = <<>>
  /\ errors = <<>>
  /\ verdict = "idle"

Validate(v, d) ==
  /\ verdict = "idle"
  /\ code # <<>>
  /\ direction' = d
  /\ stack' = <<NewFrame(1, v, TRUE, TRUE)>>
  /\ verdict' = "running"
  /\ UNCHANGED <<code, errors>>

Finish ==
  /\ Len(stack) = 1
  /\ Fetching(Top)
  /\ AtEnd(Top)
  /\ verdict' = IF Top.valid THEN "valid" ELSE "invalid"
  /\ stack' = <<>>
  /\ UNCHANGED <<code, direction, errors>>

-----------------------------------------------------------------------------
(* execute(): one action per kind of instruction and per turn of a loop.   *)

\* The CHECK_* instructions that look at the current value only.
Leaf ==
  /\ stack # <<>>
  /\ Fetching(Top)
  /\ OpAt(Top.ip) \in LeafOps
  /\ LET f  == Top
         ok == ~LeafFails(code[f.ip], f.val, direction)
     IN  /\ SetTop([f EXCEPT !.ip = f.ip + 1, !.valid = f.valid /\ ok])
         /\ IF ok THEN UNCHANGED errors ELSE AddError(f, f.ip)
  /\ UNCHANGED <<code, direction, verdict>>

\* NOP, and a THEN or ELSE that the VM runs into: `default: break'.
Nop ==
  /\ stack # <<>>
  /\ Fetching(Top)
  /\ OpAt(Top.ip) \in CondParts \cup {"NOP"}
  /\ SetTop([Top EXCEPT !.ip = Top.ip + 1])
  /\ UNCHANGED <<code, direction, errors, verdict>>

\* CHECK_DEP_REQUIRED: the count and the names are in the NOPs that follow.
DepRequired ==
  /\ stack # <<>>
  /\ Fetching(Top)
  /\ OpAt(Top.ip) = "CHECK_DEP_REQUIRED"
  /\ LET f     == Top
         count == code[f.ip + 1].arg
         names == (f.ip + 2)..(f.ip + 1 + count)
         ok    == \/ f.val.kind # "object"
                  \/ ~HasKey(f.val, code[f.ip].arg)
                  \/ \A i \in names : HasKey(f.val, code[i].arg)
     IN  /\ SetTop([f EXCEPT !.ip = f.ip + 2 + count, !.valid = f.valid /\ ok])
         /\ IF ok THEN UNCHANGED errors ELSE AddError(f, f.ip)
  /\ UNCHANGED <<code, direction, verdict>>

\* A block or a branch begins: its operands are read, nothing has run yet.
Enter ==
  /\ stack # <<>>
  /\ Fetching(Top)
  /\ OpAt(Top.ip) \in BlockOps \cup BranchOps
  /\ LET f == Top
     IN  SetTop([f EXCEPT !.at = f.ip,
                          !.ip = f.ip + 1 + HeaderLength(code, f.ip, f.val),
                          !.next = 1,
                          !.n = SubCount(code, f.ip, f.val),
                          !.hits = 0])
  /\ UNCHANGED <<code, direction, errors, verdict>>

\* A member is passed over: patternProperties is not about its name, or
\* propertyNames cannot copy its name into a JSON value.
Unmatched(f) ==
  /\ code[f.at].op = "CHECK_PATTERN_PROPS"
  /\ <<code[f.at].arg, f.val.members[f.next].key>> \notin RegexMatch
NameLost(f) == MemoryMayFail /\ code[f.at].op = "CHECK_PROP_NAMES"

PassMember ==
  /\ stack # <<>>
  /\ Top.at # 0 /\ Top.depth = 0 /\ Top.next <= Top.n
  /\ Unmatched(Top) \/ NameLost(Top)
  /\ SetTop([Top EXCEPT !.next = Top.next + 1])
  /\ UNCHANGED <<code, direction, errors, verdict>>

\* Mutant of the next: the sub-program starts at the block's own instruction.
CallSelf ==
  /\ stack # <<>>
  /\ Top.at # 0 /\ Top.depth = 0 /\ Top.next <= Top.n
  /\ ~Unmatched(Top)
  /\ LET f == Top
     IN  stack' = Append(stack, NewFrame(f.at, SubValue(code[f.at], f.val, f.next),
                                         f.valid, f.rec /\ ~Probing(code, f)))
  /\ UNCHANGED <<code, direction, errors, verdict>>

\* execute(&sub), or execute(vm) for a THEN or an ELSE.
Call ==
  /\ stack # <<>>
  /\ Top.at # 0 /\ Top.depth = 0 /\ Top.next <= Top.n
  /\ ~Unmatched(Top)
  /\ LET f == Top
     IN  stack' = Append(stack, NewFrame(f.ip, SubValue(code[f.at], f.val, f.next),
                                         f.valid, f.rec /\ ~Probing(code, f)))
  /\ UNCHANGED <<code, direction, errors, verdict>>

\* The sub-execution s has stopped; what its caller f takes over from it.
Merge(f, s) ==
  LET op == code[f.at].op
  IN  [f EXCEPT !.ip = IF op \in BlockOps THEN f.ip ELSE PastEnd(s),
                !.valid = f.valid /\ (Propagates(f) => s.valid),
                !.hits = IF s.valid /\ op \notin CondParts THEN f.hits + 1 ELSE f.hits,
                !.next = f.next + 1]

Return ==
  /\ Len(stack) > 1
  /\ Fetching(Top)
  /\ AtEnd(Top)
  /\ stack' = Append(SubSeq(stack, 1, Len(stack) - 2), Merge(Caller, Top))
  /\ IF code[Caller.at].op = "CHECK_PROP_NAMES" /\ ~Top.valid
     THEN AddError(Caller, Caller.at)
     ELSE UNCHANGED errors
  /\ UNCHANGED <<code, direction, verdict>>

\* The instruction's own verdict, once its sub-executions have been counted.
ClosingFails(f) ==
  LET in == code[f.at]
  IN  \/ in.op = "BRANCH_ANYOF" /\ f.hits = 0
      \/ in.op = "BRANCH_ONEOF" /\ f.hits # 1
      \/ in.op = "NEGATE" /\ f.hits > 0
      \/ /\ in.op = "CHECK_CONTAINS"
         /\ f.val.kind = "array"
         /\ \/ f.hits < in.arg
            \/ code[f.at + 1].arg >= 0 /\ f.hits > code[f.at + 1].arg
      \/ in.op = "DISCRIMINATOR" /\ ~SomeMatch(code, f)

\* skip_to_end follows a block, and a dependent schema that was not run.
SkipsAfter(f) ==
  \/ code[f.at].op \in BlockOps
  \/ code[f.at].op = "CHECK_DEP_SCHEMA" /\ f.n = 0

Idle(f) == [f EXCEPT !.at = 0, !.next = 1, !.n = 0, !.hits = 0]

Close ==
  /\ stack # <<>>
  /\ SubsDone(Top)
  /\ code[Top.at].op \notin {"COND_IF", "COND_THEN"}
  /\ LET f == Top
     IN  /\ SetTop([Idle(f) EXCEPT !.valid = f.valid /\ ~ClosingFails(f),
                                   !.depth = IF SkipsAfter(f) THEN 1 ELSE 0])
         /\ IF ClosingFails(f) THEN AddError(f, f.at) ELSE UNCHANGED errors
  /\ UNCHANGED <<code, direction, verdict>>

\* The THEN or ELSE at the frame's position is run (once, in place) or skipped.
Part(f, taken) ==
  [f EXCEPT !.at = f.ip, !.ip = f.ip + 1, !.next = 1,
            !.n = IF taken THEN 1 ELSE 0, !.depth = IF taken THEN 0 ELSE 1]

\* Mutant of the next: a conditional without ELSE is never left.
AfterThenStays(f) ==
  IF OpAt(f.ip) = "COND_ELSE" THEN Part(f, f.hits = 0) ELSE f
AfterThen(f) ==
  IF OpAt(f.ip) = "COND_ELSE" THEN Part(f, f.hits = 0) ELSE Idle(f)
AfterIf(f) ==
  IF OpAt(f.ip) = "COND_THEN" THEN Part(f, f.hits = 1) ELSE AfterThen(f)

Cond ==
  /\ stack # <<>>
  /\ SubsDone(Top)
  /\ code[Top.at].op \in {"COND_IF", "COND_THEN"}
  /\ SetTop(IF code[Top.at].op = "COND_IF" THEN AfterIf(Top) ELSE AfterThen(Top))
  /\ UNCHANGED <<code, direction, errors, verdict>>

\* Mutant of the next: nested blocks are not counted.
SkipDepthFlat(op, depth) == IF op = "END" THEN depth - 1 ELSE depth

\* One turn of skip_to_end's loop.
SkipDepth(op, depth) ==
  IF op = "END" THEN depth - 1 ELSE IF op \in NestingOps THEN depth + 1 ELSE depth

Skip ==
  /\ stack # <<>>
  /\ Top.depth > 0
  /\ LET f == Top
     IN  SetTop(IF f.ip > Len(code)
                THEN [f EXCEPT !.depth = 0]
                ELSE [f EXCEPT !.ip = f.ip + 1, !.depth = SkipDepth(OpAt(f.ip), f.depth)])
  /\ UNCHANGED <<code, direction, errors, verdict>>

Execute ==
  \/ Leaf \/ Nop \/ DepRequired \/ Enter \/ PassMember \/ Call
  \/ Return \/ Close \/ Cond \/ Skip

Next ==
  \/ \E v \in Values, d \in Directions : Validate(v, d)
  \/ Execute
  \/ Finish

Spec == Init /\ [][Next]_vmVars
\* A call of oas_validate runs without interruption until it returns.
FairSpec == Spec /\ WF_vmVars(Execute \/ Finish)

-----------------------------------------------------------------------------
(* Properties.                                                             *)

\* The type invariant: in particular the instruction pointer of every
\* activation stays within the program or just past it, whatever the program
\* skips or jumps over (oas_validator.c, execute and skip_to_end).
TypeOK ==
  /\ Len(code) \in Nat /\ DOMAIN code = 1..Len(code) /\ WellFormed(code)
  /\ direction \in Directions
  /\ verdict \in Verdicts
  /\ errors \in Seq([at : Nat, val : Values])
  /\ stack \in Seq(Frame)
  /\ \A i \in 1..Len(stack) : stack[i].ip \in 1..(Len(code) + 1)

\* How deep execute() recurses depends on the program only, not on how deeply
\* the value that is validated is nested.
RecursionBounded == Len(stack) <= Len(code) + 1

\* result->valid is true only if the error list is empty, and when no message
\* was lost it is false only if the list says why (add_error, and the merging
\* of sub-executions in execute; docs/en/05-validator.md).
ErrorsExplainVerdict ==
  /\ verdict = "valid" => errors = <<>>
  /\ verdict = "invalid" /\ ~MemoryMayFail => errors # <<>>

\* Every call of oas_validate returns (under FairSpec).
Termination == verdict = "running" ~> verdict \in {"valid", "invalid"}

-----------------------------------------------------------------------------
(* The inductive invariant behind the first three (ValidationVMProofs).    *)

InFlight(f) == f.at # 0

\* What the loop of the instruction in effect keeps true.
LoopOK(c, f) ==
  /\ f.next >= 1
  /\ InFlight(f) =>
       /\ f.at < f.ip
       /\ c[f.at].op \in BlockOps \cup BranchOps \cup CondParts
       /\ c[f.at].op \notin CondParts => f.n = SubCount(c, f.at, f.val)

\* A caller waits with a sub-execution under way; the copy never falls behind
\* the caller's position and reports its errors unless it is a probe.
Waits(f) == InFlight(f) /\ f.depth = 0 /\ f.next <= f.n
CallersWait ==
  \A i \in 1..(Len(stack) - 1) :
    /\ Waits(stack[i])
    /\ stack[i + 1].ip >= stack[i].ip
    /\ stack[i + 1].rec <=> (stack[i].rec /\ ~Probing(code, stack[i]))

\* The deeper an activation, the further on it is in the program.
DeeperIsFurther ==
  \A i \in 1..Len(stack) :
    stack[i].ip >= i /\ (InFlight(stack[i]) => stack[i].at >= i)

\* The instruction in effect will make the frame invalid when it closes.
Doomed(c, f) ==
  InFlight(f) /\ c[f.at].op = "DISCRIMINATOR" /\ ~SomeMatch(c, f)

\* An activation that reports is invalid, or will be.
Reproached(c, f) == f.rec /\ (~f.valid \/ Doomed(c, f))

\* An invalid activation that reports has reported something, and something
\* was reported only if an activation that reports is or will be invalid.
Accounted ==
  /\ ~MemoryMayFail => \A i \in 1..Len(stack) :
                        stack[i].rec /\ ~stack[i].valid => errors # <<>>
  /\ stack # <<>> /\ errors # <<>> =>
       \E i \in 1..Len(stack) : Reproached(code, stack[i])

Phases ==
  /\ stack # <<>> <=> verdict = "running"
  /\ stack # <<>> => stack[1].rec
  /\ verdict = "idle" => errors = <<>>

IInv ==
  /\ TypeOK
  /\ \A i \in 1..Len(stack) : LoopOK(code, stack[i])
  /\ CallersWait
  /\ DeeperIsFurther
  /\ Accounted
  /\ Phases
  /\ ErrorsExplainVerdict
=============================================================================
