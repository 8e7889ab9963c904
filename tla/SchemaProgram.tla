---------------------------- MODULE SchemaProgram ----------------------------
(***************************************************************************)
(* The vocabulary shared by the schema compiler and the validation VM:     *)
(* JSON values, instructions, and the tests the VM's leaf instructions     *)
(* make (src/compiler/oas_instruction.h, src/validator/oas_validator.c).   *)
(*                                                                         *)
(* JSON values are records.  A string is a name with a code-point count, a *)
(* number counts halves (so that integers and fractions both exist), an    *)
(* array has a sequence of items, and an object has a sequence of members: *)
(* yyjson keeps the members in document order and looks a name up by the   *)
(* first member that has it.                                               *)
(***************************************************************************)
EXTENDS Integers, Sequences

CONSTANTS
  CodePoints,   \* [string |-> its number of UTF-8 code points]
  RegexMatch,   \* set of <<pattern, string>>: the pairs the regex backend matches
  FormatOk      \* set of <<format, string>>: the strings a format validator accepts

Magnitude(n) == IF n < 0 THEN -n ELSE n
Half(n) == 2 * n      \* the number n, in the unit numbers are counted in

Null       == [kind |-> "null"]
Bool(b)    == [kind |-> "boolean", bool |-> b]
Num(h)     == [kind |-> "number", num |-> h]
Str(s)     == [kind |-> "string", str |-> s]
Arr(items) == [kind |-> "array", items |-> items]
Obj(ms)    == [kind |-> "object", members |-> ms]
Member(k, v) == [key |-> k, val |-> v]

\* yyjson_obj_get: the first member with the name.
HasKey(v, k) == \E i \in DOMAIN v.members : v.members[i].key = k
ObjGet(v, k) ==
  LET first == CHOOSE i \in DOMAIN v.members :
                 /\ v.members[i].key = k
                 /\ \A j \in 1..(i - 1) : v.members[j].key # k
  IN  v.members[first].val

\* yyjson_to_type_mask: an integral number is an integer and a number.
TypeMask(v) ==
  IF v.kind = "number"
  THEN IF v.num % 2 = 0 THEN {"integer", "number"} ELSE {"number"}
  ELSE {v.kind}

HasDuplicateItems(items) ==
  \E i, j \in DOMAIN items : i < j /\ items[i] = items[j]

\* A schema node is a record of the fields of oas_schema_t that are set.
Has(s, field) == field \in DOMAIN s
Opt(s, field, default) == IF Has(s, field) THEN s[field] ELSE default

-----------------------------------------------------------------------------
(* Instructions.                                                           *)

Instr(op, arg) == [op |-> op, arg |-> arg]

\* Blocks: the sub-program that follows runs on other values, once for each,
\* always from the block's first instruction; then the VM skips to the END.
BlockOps == {"ENTER_ITEMS", "ENTER_PREFIX_ITEM", "ENTER_PROPERTY", "ENTER_ADDITIONAL",
             "CHECK_PROP_NAMES", "CHECK_PATTERN_PROPS", "CHECK_CONTAINS"}

\* Branches: each sub-program that follows runs on the same value, and the
\* next one starts where the last one stopped.
BranchOps == {"BRANCH_ALLOF", "BRANCH_ANYOF", "BRANCH_ONEOF", "NEGATE", "COND_IF",
              "CHECK_DEP_SCHEMA", "DISCRIMINATOR"}

CondParts == {"COND_THEN", "COND_ELSE"}

LeafOps == {"CHECK_TYPE", "CHECK_MIN_LEN", "CHECK_MAX_LEN", "CHECK_PATTERN", "CHECK_FORMAT",
            "CHECK_MINIMUM", "CHECK_MAXIMUM", "CHECK_EX_MINIMUM", "CHECK_EX_MAXIMUM",
            "CHECK_MULTIPLE_OF", "CHECK_REQUIRED", "CHECK_MIN_ITEMS", "CHECK_MAX_ITEMS",
            "CHECK_UNIQUE", "CHECK_ENUM", "CHECK_CONST", "CHECK_MIN_PROPS",
            "CHECK_MAX_PROPS", "CHECK_READ_ONLY", "CHECK_WRITE_ONLY"}

Ops == BlockOps \cup BranchOps \cup CondParts \cup LeafOps
         \cup {"CHECK_DEP_REQUIRED", "NOP", "END"}

\* The instructions skip_to_end counts as opening a block (is_nesting_op).
NestingOps == {"ENTER_ITEMS", "ENTER_PROPERTY", "ENTER_PREFIX_ITEM", "ENTER_ADDITIONAL",
               "NEGATE", "COND_IF", "COND_THEN", "COND_ELSE", "CHECK_PROP_NAMES",
               "CHECK_PATTERN_PROPS", "CHECK_DEP_SCHEMA", "CHECK_CONTAINS"}

\* A leaf instruction adds an error to the value v: the tests of the VM's
\* switch, each of which first breaks when v is not of the kind it is about.
\* Numbers are integers here: fmod is exact on them, the tolerance of 1e-9 of
\* multipleOf and the two kinds of numbers of yyjson_equals make no difference.
LeafFails(in, v, direction) ==
  \/ in.op = "CHECK_TYPE" /\ TypeMask(v) \cap in.arg = {}
  \/ /\ v.kind = "string"
     /\ \/ in.op = "CHECK_MIN_LEN" /\ CodePoints[v.str] < in.arg
        \/ in.op = "CHECK_MAX_LEN" /\ CodePoints[v.str] > in.arg
        \/ in.op = "CHECK_PATTERN" /\ <<in.arg, v.str>> \notin RegexMatch
        \/ in.op = "CHECK_FORMAT" /\ <<in.arg, v.str>> \notin FormatOk
  \/ /\ v.kind = "number"
     /\ \/ in.op = "CHECK_MINIMUM" /\ v.num < in.arg
        \/ in.op = "CHECK_MAXIMUM" /\ v.num > in.arg
        \/ in.op = "CHECK_EX_MINIMUM" /\ v.num <= in.arg
        \/ in.op = "CHECK_EX_MAXIMUM" /\ v.num >= in.arg
        \/ in.op = "CHECK_MULTIPLE_OF" /\ in.arg # 0 /\ v.num % Magnitude(in.arg) # 0
  \/ /\ v.kind = "array"
     /\ \/ in.op = "CHECK_MIN_ITEMS" /\ Len(v.items) < in.arg
        \/ in.op = "CHECK_MAX_ITEMS" /\ Len(v.items) > in.arg
        \/ in.op = "CHECK_UNIQUE" /\ HasDuplicateItems(v.items)
  \/ /\ v.kind = "object"
     /\ \/ in.op = "CHECK_REQUIRED" /\ ~HasKey(v, in.arg)
        \/ in.op = "CHECK_MIN_PROPS" /\ Len(v.members) < in.arg
        \/ in.op = "CHECK_MAX_PROPS" /\ Len(v.members) > in.arg
  \/ in.op = "CHECK_ENUM" /\ v \notin in.arg
  \/ in.op = "CHECK_CONST" /\ v # in.arg
  \/ in.op = "CHECK_READ_ONLY" /\ direction = "request"
  \/ in.op = "CHECK_WRITE_ONLY" /\ direction = "response"

\* What the VM relies on when it reads operands from the instructions that
\* follow an instruction: they are there, and the counts are numbers.
WellFormed(code) ==
  /\ code # <<>>
  /\ \A i \in DOMAIN code :
       /\ code[i].op \in Ops
       /\ code[i].op \in {"CHECK_DEP_REQUIRED", "DISCRIMINATOR"} =>
            /\ i + 1 \in DOMAIN code
            /\ code[i + 1].op = "NOP" /\ code[i + 1].arg \in Nat
            /\ i + 1 + code[i + 1].arg \in DOMAIN code
       /\ code[i].op = "CHECK_CONTAINS" =>
            /\ code[i].arg \in Nat
            /\ i + 1 \in DOMAIN code
            /\ code[i + 1].op = "NOP" /\ code[i + 1].arg \in Int
       /\ code[i].op \in {"BRANCH_ALLOF", "BRANCH_ANYOF", "BRANCH_ONEOF",
                         "ENTER_PREFIX_ITEM"} => code[i].arg \in Nat

-----------------------------------------------------------------------------
(* The places of a program, for the proofs: how many sub-programs are open *)
(* before an instruction, which instructions announced them, innermost     *)
(* last, and what may be relied on about the instruction whose last        *)
(* sub-program has just ended ("none": nothing).                           *)

\* The instructions behind which skip_to_end may run, and those that announce
\* sub-programs whose ENDs it does not count.
SkippedOps   == BlockOps \cup CondParts \cup {"CHECK_DEP_SCHEMA"}
CompositionOps == {"BRANCH_ALLOF", "BRANCH_ANYOF", "BRANCH_ONEOF", "DISCRIMINATOR"}

Marks      == Ops \cup {"PROGRAM", "none"}
Places(n)  == [depth : {n}, open : [1..n -> Marks], last : Marks]
IsPlace(p) == \E n \in Nat : p \in Places(n)
Bare(p)    == [p EXCEPT !.last = "none"]

\* One of the open sub-programs is one that skip_to_end may go over.
Skippable(skips, p) == \E h \in 1..p.depth : p.open[h] \in skips

\* Behind an instruction that announces n sub-programs, and behind an END.
Push(p, op, n) ==
  [depth |-> p.depth + n,
   open  |-> [h \in 1..(p.depth + n) |-> IF h <= p.depth THEN p.open[h] ELSE op],
   last  |-> "none"]
Pop(p) ==
  [depth |-> p.depth - 1,
   open  |-> [h \in 1..(p.depth - 1) |-> p.open[h]],
   last  |-> p.open[p.depth]]
After(op, n, p) == IF op = "END" THEN Pop(p) ELSE Push(p, op, n)
Follows(op, n, p, q) == q = After(op, n, p) \/ q = Bare(After(op, n, p))

\* A THEN or ELSE comes where its conditional has just ended, a composition has
\* alternatives and is not in what is skipped.
Permitted(skips, op, n, p) ==
  /\ p.depth > 0
  /\ op = "COND_THEN" => p.last = "COND_IF"
  /\ op = "COND_ELSE" => p.last \in {"COND_IF", "COND_THEN"}
  /\ op \in CompositionOps => n > 0 /\ ~Skippable(skips, p)

\* The sub-programs instruction i of the program c announces.
Announces(c, i) ==
  CASE c[i].op \in BlockOps \cup CondParts \cup {"NEGATE", "COND_IF", "CHECK_DEP_SCHEMA"} -> 1
    [] c[i].op \in {"BRANCH_ALLOF", "BRANCH_ANYOF", "BRANCH_ONEOF"} -> c[i].arg
    [] c[i].op = "DISCRIMINATOR" -> c[i + 1].arg
    [] OTHER -> 0

\* The program goes through the places P: from the whole program to its end.
Whole == [depth |-> 1, open |-> [h \in 1..1 |-> "PROGRAM"], last |-> "none"]
GoesThrough(c, P) ==
  /\ P[1] = Whole /\ P[Len(c) + 1].depth = 0
  /\ \A i \in 1..Len(c) :
       /\ IsPlace(P[i])
       /\ Permitted(SkippedOps, c[i].op, Announces(c, i), P[i])
       /\ Follows(c[i].op, Announces(c, i), P[i], P[i + 1])

\* The names and keys an instruction counts are in the NOPs that follow.
NamesFollow(c) ==
  \A i \in 1..Len(c) : c[i].op \in {"CHECK_DEP_REQUIRED", "DISCRIMINATOR"} =>
    \A k \in 1..c[i + 1].arg : c[(i + 1) + k].op = "NOP"

=============================================================================
