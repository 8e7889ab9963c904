--------------------------- MODULE MCValidationVM ---------------------------
(***************************************************************************)
(* ValidationVM on every program of four instructions, the last an END,    *)
(* that is well formed, whether or not its sub-programs nest; and on some  *)
(* longer programs with the instructions that have operands in NOPs.       *)
(***************************************************************************)
EXTENDS ValidationVM

MCCodePoints == [s \in {"a", "b"} |-> 1]
MCRegexMatch == {<<"P", "a">>}

a == Str("a")
b == Str("b")
MCValues == {a, b, Arr(<<>>), Arr(<<a, b>>),
             Obj(<<Member("a", a), Member("b", b)>>), Obj(<<Member("b", b)>>)}

End == Instr("END", 0)
IsA == Instr("CHECK_CONST", a)

Short == {
  IsA, End, Instr("NOP", 1), Instr("CHECK_WRITE_ONLY", 0),
  Instr("ENTER_ITEMS", 0), Instr("ENTER_PROPERTY", "a"), Instr("CHECK_PROP_NAMES", 0),
  Instr("CHECK_PATTERN_PROPS", "P"), Instr("ENTER_ADDITIONAL", 0),
  Instr("BRANCH_ALLOF", 2), Instr("BRANCH_ANYOF", 1), Instr("BRANCH_ONEOF", 2),
  Instr("NEGATE", 0), Instr("COND_IF", 0), Instr("COND_THEN", 0), Instr("COND_ELSE", 0),
  Instr("CHECK_DEP_SCHEMA", "a"), Instr("CHECK_CONTAINS", 1) }

Discriminated == <<Instr("DISCRIMINATOR", "b"), Instr("NOP", 2), Instr("NOP", "a"),
                   Instr("NOP", "b")>>
Long == {
  Discriminated \o <<IsA, End, Instr("CHECK_REQUIRED", "a"), End, IsA, End>>,
  Discriminated \o <<Instr("NEGATE", 0), IsA, End, End, Instr("CHECK_REQUIRED", "b"), End, End>>,
  <<Instr("ENTER_ITEMS", 0)>> \o Discriminated \o <<IsA, End, IsA, End, End, End>>,
  <<Instr("CHECK_DEP_REQUIRED", "b"), Instr("NOP", 2), Instr("NOP", "a"), Instr("NOP", "b"),
    Instr("CHECK_CONTAINS", 1), Instr("NOP", 1), IsA, End, Instr("ENTER_PREFIX_ITEM", 1), IsA,
    End, End>>,
  <<Instr("COND_IF", 0), Instr("CHECK_REQUIRED", "a"), End, Instr("COND_THEN", 0), IsA, End,
    Instr("COND_ELSE", 0), IsA, End, IsA, End>> }

Candidates == {<<x, y, z, End>> : x, y, z \in Short} \cup Long
MCCodes == {c \in Candidates : WellFormed(c)}
=============================================================================
