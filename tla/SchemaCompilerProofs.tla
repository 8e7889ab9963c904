------------------------ MODULE SchemaCompilerProofs ------------------------
(***************************************************************************)
(* Proofs about the schema compiler, for every schema graph, every regex   *)
(* backend and every pattern of allocation failures: its two arrays are    *)
(* never overrun, no compiled pattern leaks or is freed twice, the         *)
(* sub-programs of the program it returns nest, and the validation VM runs *)
(* it to its last END.                                                     *)
(*                                                                         *)
(* The last two are about a program that grows while the activations of    *)
(* compile_schema come and go.  Their invariant (StructureInv) says that   *)
(* what has been emitted, followed by what the activation on top still has *)
(* to do, leads from the outermost place of a program to the place that    *)
(* the activation below it expects, and so on down the stack, where a call *)
(* still to be made stands for a sub-program that is whole.  Lemmas before *)
(* it say what the plan of each group of keywords opens and closes.  A     *)
(* finished program therefore goes through places, and that is what the    *)
(* proofs about the VM ask of a program (ValidationVMProofs, Placed).      *)
(***************************************************************************)
EXTENDS SchemaExecution, SequenceTheorems, Induction, TLAPS

-----------------------------------------------------------------------------
(* Capacity.                                                               *)

\* A growing array: Grown makes room for at least one more element.
LEMMA GrownHasRoom ==
  ASSUME NEW cap \in Nat, NEW initial \in Nat \ {0}, NEW n \in Nat, n <= cap
  PROVE  /\ (IF n >= cap THEN Grown(cap, initial) ELSE cap) \in Nat
         /\ n + 1 <= (IF n >= cap THEN Grown(cap, initial) ELSE cap)
BY DEF Grown

\* Appending any element to a sequence gives a sequence that is one longer.
LEMMA AppendAny ==
  ASSUME NEW S, NEW s \in Seq(S), NEW e
  PROVE  /\ Append(s, e) \in Seq(S \cup {e})
         /\ Len(Append(s, e)) = Len(s) + 1
<1>1. S \subseteq S \cup {e}
  OBVIOUS
<1>2. Seq(S) \subseteq Seq(S \cup {e})
  BY <1>1, SeqMonotonic
<1> QED
  BY <1>2, AppendProperties

IsSeq(s) == \E S : s \in Seq(S)

CapacityInv ==
  /\ IsSeq(code) /\ IsSeq(patterns)
  /\ capacity \in Nat /\ patternCap \in Nat
  /\ WithinCapacity

LEMMA EmptyIsSeq ==
  IsSeq(<<>>) /\ Len(<<>>) = 0
<1>1. <<>> \in Seq({})
  BY EmptySeq
<1> QED
  BY <1>1 DEF IsSeq

\* An error return leaves both arrays empty.
LEMMA AbortCapacity ==
  ASSUME NEW released, Abort(released)
  PROVE  CapacityInv'
BY EmptyIsSeq DEF Abort, CapacityInv, WithinCapacity

\* oas_program_emit keeps the program within its array.
LEMMA AppendCapacity ==
  ASSUME CapacityInv, NEW ins, Append1(ins)
  PROVE  IsSeq(code)' /\ capacity' \in Nat /\ Len(code') <= capacity'
<1>1. PICK S : code \in Seq(S)
  BY DEF CapacityInv, IsSeq
<1>2. Len(code) \in Nat /\ Len(code) <= capacity /\ capacity \in Nat
  BY <1>1, LenProperties DEF CapacityInv, WithinCapacity
<1>3. code' \in Seq(S \cup {ins}) /\ Len(code') = Len(code) + 1
  BY <1>1, AppendAny DEF Append1
<1>4. capacity' \in Nat /\ Len(code) + 1 <= capacity'
  BY <1>2, GrownHasRoom, CompilerAssumption DEF Append1
<1> QED
  BY <1>3, <1>4 DEF IsSeq

\* The arrays are within their allocations in every state of a compilation
\* (oas_program_emit, track_pattern).
THEOREM CapacityRespected == Spec => []WithinCapacity
<1>1. Init => CapacityInv
  BY EmptyIsSeq DEF Init, CapacityInv, WithinCapacity
<1>2. CapacityInv /\ [Next]_compilerVars => CapacityInv'
  <2> SUFFICES ASSUME CapacityInv, [Next]_compilerVars
               PROVE  CapacityInv'
    OBVIOUS
  <2>1. CASE EmitInstr
    <3>1. CASE Append1(Head(Steps).ins) /\ UNCHANGED <<patterns, patternCap>>
      BY <3>1, AppendCapacity DEF CapacityInv, WithinCapacity
    <3>2. CASE EmitFails
      BY <3>2, AbortCapacity DEF EmitFails
    <3> QED
      BY <2>1, <3>1, <3>2 DEF EmitInstr
  <2>2. CASE CompilePattern
    <3>1. CASE Abort(<<>>) \/ Abort(<<made + 1>>)
      BY <3>1, AbortCapacity
    <3>2. CASE /\ patterns' = Append(patterns, made + 1)
               /\ patternCap' = IF Len(patterns) >= patternCap
                                THEN Grown(patternCap, PatternInitialCap) ELSE patternCap
               /\ UNCHANGED <<code, capacity>>
      <4>1. PICK S : patterns \in Seq(S)
        BY DEF CapacityInv, IsSeq
      <4>2. Len(patterns) \in Nat /\ Len(patterns) <= patternCap /\ patternCap \in Nat
        BY <4>1, LenProperties DEF CapacityInv, WithinCapacity
      <4>3. patterns' \in Seq(S \cup {made + 1}) /\ Len(patterns') = Len(patterns) + 1
        BY <3>2, <4>1, AppendAny
      <4>4. patternCap' \in Nat /\ Len(patterns) + 1 <= patternCap'
        BY <3>2, <4>2, GrownHasRoom, CompilerAssumption
      <4>5. IsSeq(patterns)'
        BY <4>3 DEF IsSeq
      <4> QED
        BY <3>2, <4>3, <4>4, <4>5 DEF CapacityInv, WithinCapacity
    <3> QED
      BY <2>2, <3>1, <3>2 DEF CompilePattern
  <2>3. CASE CallSub \/ FollowRef \/ ReturnFromSub
    BY <2>3 DEF CallSub, FollowRef, ReturnFromSub, CapacityInv, WithinCapacity
  <2>4. CASE RejectRef
    BY <2>4, AbortCapacity DEF RejectRef
  <2>5. CASE EmitFinalEnd
    <3>1. CASE Append1(Instr("END", 0)) /\ UNCHANGED <<patterns, patternCap>>
      BY <3>1, AppendCapacity DEF CapacityInv, WithinCapacity
    <3>2. CASE EmitFails
      BY <3>2, AbortCapacity DEF EmitFails
    <3> QED
      BY <2>5, <3>1, <3>2 DEF EmitFinalEnd
  <2>6. CASE Free
    BY <2>6, EmptyIsSeq DEF Free, CapacityInv, WithinCapacity
  <2>7. CASE UNCHANGED compilerVars
    BY <2>7 DEF compilerVars, CapacityInv, WithinCapacity
  <2> QED
    BY <2>1, <2>2, <2>3, <2>4, <2>5, <2>6, <2>7 DEF Next, CompileStep
<1>3. CapacityInv => WithinCapacity
  BY DEF CapacityInv
<1> QED
  BY <1>1, <1>2, <1>3, PTL DEF Spec

-----------------------------------------------------------------------------
(* Patterns.                                                               *)

LEMMA EmptyInOrder ==
  InOrder(<<>>, 0) /\ ToSet(<<>>) = {}
<1>1. <<>> \in Seq(Nat) /\ Len(<<>>) = 0
  BY EmptySeq
<1> QED
  BY <1>1 DEF InOrder, ToSet

\* A sequence that lists 1..n in order lists each of them once.
LEMMA InOrderEachOnce ==
  ASSUME NEW s, NEW n \in Nat, InOrder(s, n)
  PROVE  EachOnce(s, n)
<1>1. s \in Seq(Nat) /\ Len(s) = n /\ \A i \in 1..n : s[i] = i
  BY DEF InOrder
<1>2. DOMAIN s = 1..n
  BY <1>1
<1> QED
  BY <1>1, <1>2 DEF EachOnce, ToSet

\* track_pattern keeps the order in which the backend made the patterns.
LEMMA TrackInOrder ==
  ASSUME NEW s, NEW n \in Nat, InOrder(s, n)
  PROVE  InOrder(Append(s, n + 1), n + 1)
<1>1. s \in Seq(Nat) /\ Len(s) = n /\ \A i \in 1..n : s[i] = i
  BY DEF InOrder
<1>2. Append(s, n + 1) \in Seq(Nat) /\ Len(Append(s, n + 1)) = n + 1
  BY <1>1
<1>3. \A i \in 1..(n + 1) : Append(s, n + 1)[i] = i
  BY <1>1
<1> QED
  BY <1>2, <1>3 DEF InOrder

\* The pattern that could not be tracked is freed before the tracked ones.
LEMMA UntrackedFirst ==
  ASSUME NEW s, NEW n \in Nat, InOrder(s, n)
  PROVE  EachOnce(<<n + 1>> \o s, n + 1)
<1> DEFINE t == <<n + 1>> \o s
<1>1. s \in Seq(Nat) /\ Len(s) = n /\ \A i \in 1..n : s[i] = i
  BY DEF InOrder
<1>2. t \in Seq(Nat) /\ Len(t) = n + 1
  BY <1>1
<1>3. t[1] = n + 1 /\ \A i \in 2..(n + 1) : t[i] = i - 1
  BY <1>1
<1>4. DOMAIN t = 1..(n + 1)
  BY <1>2
<1> HIDE DEF t
<1>5. \A i, j \in DOMAIN t : t[i] = t[j] => i = j
  BY <1>3, <1>4
<1>6. ToSet(t) = 1..(n + 1)
  <2>1. \A k \in 1..(n + 1) : \E i \in DOMAIN t : t[i] = k
    <3> TAKE k \in 1..(n + 1)
    <3>1. CASE k = n + 1
      BY <1>3, <1>4, <3>1
    <3>2. CASE k # n + 1
      <4>1. k + 1 \in 2..(n + 1) /\ t[k + 1] = k
        BY <1>3, <3>2
      <4> QED
        BY <1>4, <4>1
    <3> QED
      BY <3>1, <3>2
  <2>2. \A i \in DOMAIN t : t[i] \in 1..(n + 1)
    BY <1>3, <1>4
  <2> QED
    BY <2>1, <2>2 DEF ToSet
<1> QED
  BY <1>2, <1>5, <1>6 DEF EachOnce, t

\* An error return frees what was made.
LEMMA AbortFreesEach ==
  ASSUME PatternInv, outcome = "compiling", Abort(<<>>), made' = made
  PROVE  PatternInv'
<1>1. frees = <<>> /\ InOrder(patterns, made) /\ made \in Nat
  BY DEF PatternInv
<1>2. patterns \in Seq(Nat)
  BY <1>1 DEF InOrder
<1>3. frees' = patterns
  BY <1>1, <1>2 DEF Abort
<1>4. EachOnce(frees', made')
  BY <1>1, <1>3, InOrderEachOnce
<1> QED
  BY <1>1, <1>4 DEF PatternInv, Abort

\* Every pattern is freed exactly once, whatever step of the compilation fails,
\* and is alive as long as the compiled schema (track_pattern, compile_schema,
\* oas_compiled_schema_free).
THEOREM NoPatternLeaks == Spec => []PatternsFreedOnce
<1>1. Init => PatternInv
  BY EmptyInOrder DEF Init, PatternInv
<1>2. PatternInv /\ [Next]_compilerVars => PatternInv'
  <2> SUFFICES ASSUME PatternInv, [Next]_compilerVars
               PROVE  PatternInv'
    OBVIOUS
  <2>1. CASE EmitInstr
    <3>1. CASE UNCHANGED <<patterns, frees, outcome>>
      BY <2>1, <3>1 DEF EmitInstr, PatternInv
    <3>2. CASE Abort(<<>>)
      BY <2>1, <3>2, AbortFreesEach DEF EmitInstr, NextIs
    <3> QED
      BY <2>1, <3>1, <3>2 DEF EmitInstr, EmitFails
  <2>2. CASE CompilePattern
    <3>1. outcome = "compiling" /\ frees = <<>> /\ InOrder(patterns, made) /\ made \in Nat
      BY <2>2 DEF CompilePattern, NextIs, PatternInv
    <3>2. CASE Abort(<<>>) /\ made' = made
      BY <3>1, <3>2, AbortFreesEach
    <3>3. CASE /\ made' = made + 1 /\ patterns' = Append(patterns, made + 1)
               /\ UNCHANGED <<frees, outcome>>
      BY <3>1, <3>3, TrackInOrder DEF PatternInv
    <3>4. CASE made' = made + 1 /\ Abort(<<made + 1>>)
      <4>1. <<made + 1>> \o patterns \in Seq(Nat)
        BY <3>1 DEF InOrder
      <4>2. frees' = <<made + 1>> \o patterns
        BY <3>1, <3>4, <4>1 DEF Abort
      <4>3. EachOnce(frees', made')
        BY <3>1, <3>4, <4>2, UntrackedFirst
      <4> QED
        BY <3>1, <3>4, <4>3 DEF PatternInv, Abort
    <3> QED
      BY <2>2, <3>2, <3>3, <3>4 DEF CompilePattern
  <2>3. CASE CallSub
    BY <2>3 DEF CallSub, NextIs, PatternInv
  <2>4. CASE FollowRef \/ ReturnFromSub
    BY <2>4 DEF FollowRef, ReturnFromSub, PatternInv
  <2>5. CASE RejectRef
    BY <2>5, AbortFreesEach DEF RejectRef, NextIs
  <2>6. CASE EmitFinalEnd
    <3>1. CASE outcome' = "ok" /\ UNCHANGED <<patterns, frees>>
      BY <2>6, <3>1 DEF EmitFinalEnd, PatternInv
    <3>2. CASE Abort(<<>>)
      BY <2>6, <3>2, AbortFreesEach DEF EmitFinalEnd
    <3> QED
      BY <2>6, <3>1, <3>2 DEF EmitFinalEnd, EmitFails
  <2>7. CASE Free
    <3>1. frees = <<>> /\ InOrder(patterns, made) /\ made \in Nat
      BY <2>7 DEF Free, PatternInv
    <3>2. frees' = patterns /\ patterns' = <<>> /\ made' = made /\ outcome' = "freed"
      BY <2>7, <3>1 DEF Free, InOrder
    <3>3. EachOnce(frees', made')
      BY <3>1, <3>2, InOrderEachOnce
    <3> QED
      BY <3>1, <3>2, <3>3 DEF PatternInv
  <2>8. CASE UNCHANGED compilerVars
    BY <2>8 DEF compilerVars, PatternInv
  <2> QED
    BY <2>1, <2>2, <2>3, <2>4, <2>5, <2>6, <2>7, <2>8 DEF Next, CompileStep
<1>3. PatternInv => PatternsFreedOnce
  <2> SUFFICES ASSUME PatternInv
               PROVE  PatternsFreedOnce
    OBVIOUS
  <2>1. CASE outcome \in {"null", "freed"}
    BY <2>1 DEF PatternInv, EachOnce, PatternsFreedOnce, Live
  <2>2. CASE outcome \in {"compiling", "ok", "overflow"}
    <3>1. frees = <<>> /\ InOrder(patterns, made) /\ made \in Nat
      BY <2>2 DEF PatternInv
    <3>2. DOMAIN frees = {} /\ ToSet(frees) = {}
      BY <3>1, EmptyInOrder, EmptySeq
    <3>3. ToSet(patterns) = 1..made
      BY <3>1, InOrderEachOnce DEF EachOnce
    <3> QED
      BY <2>2, <3>2, <3>3 DEF PatternsFreedOnce, Live
  <2> QED
    BY <2>1, <2>2 DEF PatternInv
<1> QED
  BY <1>1, <1>2, <1>3, PTL DEF Spec

-----------------------------------------------------------------------------
(* Nesting.  The steps of the plans are treated as a program in which a    *)
(* call is one more instruction, which stands for the sub-program it is    *)
(* going to be replaced by.                                                *)

Op(st) == IF st.do = "emit" THEN st.ins.op ELSE st.do

OneSub   == BlockOps \cup CondParts \cup {"NEGATE", "COND_IF", "CHECK_DEP_SCHEMA"}
ManySubs == {"BRANCH_ALLOF", "BRANCH_ANYOF", "BRANCH_ONEOF"}

\* How many sub-programs step i announces.
Opens(q, i) ==
  IF Op(q[i]) \in OneSub THEN 1
  ELSE IF Op(q[i]) \in ManySubs THEN q[i].ins.arg
  ELSE IF Op(q[i]) = "DISCRIMINATOR" THEN q[i + 1].ins.arg
  ELSE 0

\* The operands of step i are there, without a call among them.
IsNop(q, i) == i \in DOMAIN q /\ Op(q[i]) = "NOP"
Operands(q, i) ==
  /\ Op(q[i]) \in {"CHECK_DEP_REQUIRED", "DISCRIMINATOR"} =>
       /\ IsNop(q, i + 1) /\ q[i + 1].ins.arg \in Nat
       /\ \A k \in 1..q[i + 1].ins.arg : IsNop(q, (i + 1) + k)
  /\ Op(q[i]) = "CHECK_CONTAINS" =>
       q[i].ins.arg \in Nat /\ IsNop(q, i + 1) /\ q[i + 1].ins.arg \in Int
  /\ Op(q[i]) \in ManySubs \cup {"ENTER_PREFIX_ITEM"} => q[i].ins.arg \in Nat

\* K is a record: ids, the schemas there are; plain, those that are free of
\* compositions with all they lead to; skips, the instructions behind which
\* skip_to_end may run (none, where compositions may be anywhere).
IsStep(K, st) ==
  \/ st = Emit(st.ins.op, st.ins.arg) /\ st.ins.op \in Ops
  \/ st.do = "regex"
  \/ st.do = "call" /\ st.node \in K.ids

\* The places where a sub-program can begin.
BarePlace(p) == IsPlace(p) /\ p.depth > 0 /\ p.last = "none"

\* The step st, which announces n sub-programs, leads from the place s to the
\* place t: a call to where it began, for its sub-program is whole.
Goes(K, st, n, s, t) ==
  IF st.do = "emit"
  THEN /\ IsPlace(s)
       /\ Permitted(K.skips, st.ins.op, n, s)
       /\ Follows(st.ins.op, n, s, t)
  ELSE /\ BarePlace(s) /\ t = s
       /\ st.do = "call" /\ Skippable(K.skips, s) => st.node \in K.plain

\* The sub-programs of q nest: its steps lead from the place s to the place t,
\* and none closes a sub-program that is not open.
Nested(K, q, s, t) ==
  /\ IsSeq(q)
  /\ \A i \in 1..Len(q) : IsStep(K, q[i]) /\ Operands(q, i)
  /\ \E d : /\ d[1] = s /\ d[Len(q) + 1] = t
            /\ \A i \in 1..Len(q) : Goes(K, q[i], Opens(q, i), d[i], d[i + 1])

LEMMA SeqParts ==
  ASSUME NEW q, IsSeq(q)
  PROVE  Len(q) \in Nat /\ DOMAIN q = 1..Len(q)
BY LenProperties DEF IsSeq

LEMMA ConcatAny ==
  ASSUME NEW p, NEW q, IsSeq(p), IsSeq(q)
  PROVE  /\ IsSeq(p \o q) /\ Len(p \o q) = Len(p) + Len(q)
         /\ \A i \in 1..Len(p) : (p \o q)[i] = p[i]
         /\ \A i \in 1..Len(q) : (p \o q)[i + Len(p)] = q[i]
<1>1. PICK S, T : p \in Seq(S) /\ q \in Seq(T)
  BY DEF IsSeq
<1>2. p \in Seq(S \cup T) /\ q \in Seq(S \cup T)
  BY <1>1, SeqMonotonic
<1>3. Len(p) \in Nat /\ Len(q) \in Nat
  BY <1>1, LenProperties
<1>4. /\ p \o q \in Seq(S \cup T) /\ Len(p \o q) = Len(p) + Len(q)
      /\ \A i \in 1..(Len(p) + Len(q)) :
           (p \o q)[i] = IF i <= Len(p) THEN p[i] ELSE q[i - Len(p)]
  BY <1>2, ConcatProperties
<1>5. ASSUME NEW i \in 1..Len(p) PROVE (p \o q)[i] = p[i]
  BY <1>3, <1>4
<1>6. ASSUME NEW i \in 1..Len(q) PROVE (p \o q)[i + Len(p)] = q[i]
  <2>1. i + Len(p) \in 1..(Len(p) + Len(q)) /\ ~(i + Len(p) <= Len(p))
        /\ (i + Len(p)) - Len(p) = i
    BY <1>3
  <2>. QED BY <1>4, <2>1
<1>. QED BY <1>4, <1>5, <1>6 DEF IsSeq

\* q is the part of r behind its first m steps.
Part(q, r, m) ==
  /\ Len(q) \in Nat /\ DOMAIN q = 1..Len(q) /\ m \in Nat
  /\ \A i \in 1..Len(q) : i + m \in DOMAIN r /\ r[i + m] = q[i]

\* What a step announces, and that its operands are there, is the same in the
\* part and in the whole...
LEMMA InTheWhole ==
  ASSUME NEW q, NEW r, NEW m, Part(q, r, m), NEW i \in 1..Len(q), Operands(q, i)
  PROVE  /\ Operands(r, i + m) /\ Opens(r, i + m) = Opens(q, i)
         /\ Opens(q, i) \in Nat
<1>1. r[i + m] = q[i] /\ m \in Nat /\ Len(q) \in Nat /\ DOMAIN q = 1..Len(q)
  BY DEF Part
<1>2. ASSUME NEW j \in Nat, IsNop(q, j)
      PROVE  IsNop(r, j + m) /\ r[j + m] = q[j]
  BY <1>1, <1>2 DEF Part, IsNop
<1>3. (i + m) + 1 = (i + 1) + m /\ i + 1 \in Nat
  BY <1>1
<1>4. CASE Op(q[i]) \in {"CHECK_DEP_REQUIRED", "DISCRIMINATOR"}
  <2>1. /\ IsNop(q, i + 1) /\ q[i + 1].ins.arg \in Nat
        /\ \A k \in 1..q[i + 1].ins.arg : IsNop(q, (i + 1) + k)
    BY <1>4 DEF Operands
  <2>2. IsNop(r, (i + m) + 1) /\ r[(i + m) + 1] = q[i + 1]
    BY <1>2, <1>3, <2>1
  <2>3. ASSUME NEW k \in 1..q[i + 1].ins.arg PROVE IsNop(r, ((i + m) + 1) + k)
    <3>1. (i + 1) + k \in Nat /\ ((i + 1) + k) + m = ((i + m) + 1) + k
      BY <1>1, <2>1
    <3>. QED BY <1>2, <2>1, <3>1
  <2>4. Operands(r, i + m)
    BY <1>1, <1>4, <2>1, <2>2, <2>3 DEF Operands, ManySubs
  <2>. QED BY <1>1, <1>4, <2>1, <2>2, <2>4 DEF Opens, OneSub, ManySubs, BlockOps, CondParts
<1>5. CASE Op(q[i]) \notin {"CHECK_DEP_REQUIRED", "DISCRIMINATOR"}
  <2>1. Operands(r, i + m)
    BY <1>1, <1>2, <1>3, <1>5 DEF Operands
  <2>2. Opens(q, i) \in Nat
    BY <1>5 DEF Opens, Operands, ManySubs
  <2>. QED BY <1>1, <1>5, <2>1, <2>2 DEF Opens
<1>. QED BY <1>4, <1>5

\* ... when no operand follows the part.
LEMMA InThePart ==
  ASSUME NEW q, NEW r, NEW m, Part(q, r, m), ~IsNop(r, (Len(q) + 1) + m),
         NEW i \in 1..Len(q), Operands(r, i + m)
  PROVE  Operands(q, i)
<1>1. r[i + m] = q[i] /\ m \in Nat /\ Len(q) \in Nat /\ DOMAIN q = 1..Len(q)
  BY DEF Part
<1>2. ASSUME NEW j \in 1..Len(q), IsNop(r, j + m)
      PROVE  IsNop(q, j) /\ r[j + m] = q[j]
  BY <1>1, <1>2 DEF Part, IsNop
<1>3. (i + m) + 1 = (i + 1) + m
  BY <1>1
<1>4. ASSUME IsNop(r, (i + m) + 1) PROVE i + 1 \in 1..Len(q)
  <2>1. i # Len(q)
    BY <1>3, <1>4
  <2>2. PICK n \in Nat : n = Len(q)
    BY <1>1
  <2>3. i \in 1..n /\ i # n
    BY <2>1, <2>2
  <2>4. i + 1 \in 1..n
    BY <2>3
  <2>. QED BY <2>2, <2>4
<1>5. CASE Op(q[i]) \in {"CHECK_DEP_REQUIRED", "DISCRIMINATOR"}
  <2>1. /\ IsNop(r, (i + m) + 1) /\ r[(i + m) + 1].ins.arg \in Nat
        /\ \A k \in 1..r[(i + m) + 1].ins.arg : IsNop(r, ((i + m) + 1) + k)
    BY <1>1, <1>5 DEF Operands
  <2>2. i + 1 \in 1..Len(q) /\ IsNop(q, i + 1) /\ r[(i + m) + 1] = q[i + 1]
    BY <1>2, <1>3, <1>4, <2>1
  <2>3. PICK n \in Nat : n = q[i + 1].ins.arg /\ n = r[(i + m) + 1].ins.arg
    BY <2>1, <2>2
  <2>0. PICK l \in Nat : l = Len(q) /\ i \in 1..l
    BY <1>1
  <2>4. (i + 1) + n <= Len(q)
    <3>1. SUFFICES ASSUME (i + 1) + n > Len(q) PROVE FALSE
      BY <1>1, <2>3
    <3>2. l - i \in 1..n /\ ((i + m) + 1) + (l - i) = (Len(q) + 1) + m
      BY <1>1, <2>2, <2>0, <3>1
    <3>. QED BY <2>1, <2>3, <3>2
  <2>5. ASSUME NEW k \in 1..n PROVE IsNop(q, (i + 1) + k)
    <3>1. (i + 1) + k \in 1..l /\ ((i + 1) + k) + m = ((i + m) + 1) + k
      BY <1>1, <2>0, <2>4
    <3>. QED BY <1>2, <2>1, <2>0, <2>3, <3>1
  <2>. QED BY <1>5, <2>2, <2>3, <2>5 DEF Operands, ManySubs
<1>6. CASE Op(q[i]) \notin {"CHECK_DEP_REQUIRED", "DISCRIMINATOR"}
  BY <1>1, <1>2, <1>3, <1>4, <1>6 DEF Operands
<1>. QED BY <1>5, <1>6

\* The two parts of a concatenation.
LEMMA ConcatIsParts ==
  ASSUME NEW p, NEW q, IsSeq(p), IsSeq(q)
  PROVE  Part(p, p \o q, 0) /\ Part(q, p \o q, Len(p))
<1>1. /\ IsSeq(p \o q) /\ Len(p \o q) = Len(p) + Len(q)
      /\ \A i \in 1..Len(p) : (p \o q)[i] = p[i]
      /\ \A i \in 1..Len(q) : (p \o q)[i + Len(p)] = q[i]
  BY ConcatAny
<1>2. /\ Len(p) \in Nat /\ DOMAIN p = 1..Len(p) /\ Len(q) \in Nat /\ DOMAIN q = 1..Len(q)
      /\ DOMAIN (p \o q) = 1..(Len(p) + Len(q))
  BY <1>1, SeqParts
<1>. QED BY <1>1, <1>2 DEF Part

\* What leads from a to b, then what leads from b to c.
LEMMA NestedConcat ==
  ASSUME NEW K, NEW p, NEW q, NEW a, NEW b, NEW c, Nested(K, p, a, b), Nested(K, q, b, c)
  PROVE  Nested(K, p \o q, a, c)
<1>. DEFINE r == p \o q
<1>1. IsSeq(p) /\ IsSeq(q)
  BY DEF Nested
<1>2. PICK m \in Nat, n \in Nat : m = Len(p) /\ n = Len(q)
  BY <1>1, SeqParts
<1>3. PICK d : /\ d[1] = a /\ d[m + 1] = b
               /\ \A i \in 1..m : Goes(K, p[i], Opens(p, i), d[i], d[i + 1])
  BY <1>2 DEF Nested
<1>4. PICK e : /\ e[1] = b /\ e[n + 1] = c
               /\ \A i \in 1..n : Goes(K, q[i], Opens(q, i), e[i], e[i + 1])
  BY <1>2 DEF Nested
<1>5. /\ IsSeq(r) /\ Len(r) = m + n
      /\ \A i \in 1..m : r[i] = p[i]
      /\ \A i \in 1..n : r[i + m] = q[i]
  BY <1>1, <1>2, ConcatAny
<1>6. Part(p, r, 0) /\ Part(q, r, m)
  BY <1>1, <1>2, ConcatIsParts
<1>. HIDE DEF r
<1>7. ASSUME NEW i \in 1..m
      PROVE  IsStep(K, r[i]) /\ Operands(r, i) /\ Opens(r, i) = Opens(p, i)
  <2>1. IsStep(K, p[i]) /\ Operands(p, i) /\ i \in 1..Len(p) /\ i + 0 = i
    BY <1>2 DEF Nested
  <2>2. Operands(r, i + 0) /\ Opens(r, i + 0) = Opens(p, i)
    BY <1>6, <2>1, InTheWhole
  <2>. QED BY <1>5, <2>1, <2>2
<1>8. ASSUME NEW i \in 1..n
      PROVE  /\ IsStep(K, r[i + m]) /\ Operands(r, i + m)
             /\ Opens(r, i + m) = Opens(q, i)
  <2>1. IsStep(K, q[i]) /\ Operands(q, i) /\ i \in 1..Len(q)
    BY <1>2 DEF Nested
  <2>2. Operands(r, i + m) /\ Opens(r, i + m) = Opens(q, i)
    BY <1>6, <2>1, InTheWhole
  <2>. QED BY <1>5, <2>1, <2>2
<1>9. ASSUME NEW i \in 1..(m + n) PROVE IsStep(K, r[i]) /\ Operands(r, i)
  <2>1. CASE i <= m
    BY <1>7, <2>1
  <2>2. CASE i > m
    <3>1. i - m \in 1..n /\ (i - m) + m = i
      BY <2>2
    <3>2. IsStep(K, r[(i - m) + m]) /\ Operands(r, (i - m) + m)
      BY <1>8, <3>1
    <3>. QED BY <3>1, <3>2
  <2>. QED BY <2>1, <2>2
<1>. DEFINE f == [i \in 1..((m + n) + 1) |-> IF i <= m THEN d[i] ELSE e[i - m]]
<1>10. /\ \A i \in 1..m : f[i] = d[i]
       /\ \A i \in 1..(n + 1) : f[i + m] = e[i]
  <2>1. ASSUME NEW i \in 1..(n + 1) PROVE f[i + m] = e[i]
    <3>1. i + m \in 1..((m + n) + 1) /\ ~(i + m <= m) /\ (i + m) - m = i
      OBVIOUS
    <3>. QED BY <3>1
  <2>. QED BY <2>1
<1>. HIDE DEF f
<1>11. f[1] = a /\ f[(m + n) + 1] = c
  <2>1. f[(n + 1) + m] = e[n + 1] /\ (n + 1) + m = (m + n) + 1
    BY <1>10, n + 1 \in 1..(n + 1)
  <2>2. f[1] = a
    <3>1. CASE m = 0
      BY <1>3, <1>4, <1>10, <3>1, 1 \in 1..(n + 1), 1 + 0 = 1
    <3>2. CASE m > 0
      BY <1>3, <1>10, <3>2, 1 \in 1..m
    <3>. QED BY <3>1, <3>2
  <2>. QED BY <1>4, <2>1, <2>2
<1>12. ASSUME NEW i \in 1..(m + n) PROVE Goes(K, r[i], Opens(r, i), f[i], f[i + 1])
  <2>1. CASE i <= m
    <3>1. Goes(K, p[i], Opens(p, i), d[i], d[i + 1]) /\ i \in 1..m
      BY <1>3, <2>1
    <3>2. f[i] = d[i] /\ f[i + 1] = d[i + 1]
      <4>1. CASE i + 1 <= m
        BY <1>10, <2>1, <4>1, i \in 1..m, i + 1 \in 1..m
      <4>2. CASE i = m
        <5>1. f[1 + m] = e[1] /\ 1 + m = i + 1
          BY <1>10, <4>2, 1 \in 1..(n + 1)
        <5>. QED BY <1>3, <1>4, <1>10, <3>1, <4>2, <5>1
      <4>. QED BY <2>1, <4>1, <4>2
    <3>. QED BY <1>5, <1>7, <3>1, <3>2
  <2>2. CASE i > m
    <3>1. PICK j \in 1..n : i = j + m
      <4>1. i - m \in 1..n /\ i = (i - m) + m
        BY <2>2
      <4>. QED BY <4>1
    <3>2. Goes(K, q[j], Opens(q, j), e[j], e[j + 1])
      BY <1>4
    <3>3. f[j + m] = e[j] /\ f[(j + 1) + m] = e[j + 1] /\ (j + 1) + m = (j + m) + 1
      BY <1>10, j \in 1..(n + 1), j + 1 \in 1..(n + 1)
    <3>4. r[j + m] = q[j] /\ Opens(r, j + m) = Opens(q, j)
      BY <1>5, <1>8
    <3>. QED BY <3>1, <3>2, <3>3, <3>4
  <2>. QED BY <2>1, <2>2
<1>. QED BY <1>5, <1>9, <1>11, <1>12 DEF Nested, r

\* At a call the program can be cut: what has been emitted, what is to come.
LEMMA NestedAround ==
  ASSUME NEW K, NEW p, NEW st, NEW q, NEW a, NEW c, IsSeq(p), IsSeq(q),
         st.do \in {"call", "regex"}, Nested(K, (p \o <<st>>) \o q, a, c)
  PROVE  \E b : Nested(K, p, a, b) /\ Nested(K, q, b, c) /\ Goes(K, st, 0, b, b)
<1>. DEFINE s == p \o <<st>>
            r == s \o q
<1>1. IsSeq(<<st>>) /\ Len(<<st>>) = 1 /\ <<st>>[1] = st
  BY <<st>> \in Seq({st}) DEF IsSeq
<1>2. PICK m \in Nat, n \in Nat : m = Len(p) /\ n = Len(q)
  BY SeqParts
<1>3. /\ IsSeq(s) /\ Len(s) = m + 1 /\ s[m + 1] = st
      /\ \A i \in 1..m : s[i] = p[i]
  <2>1. s[1 + m] = <<st>>[1]
    BY <1>1, <1>2, ConcatAny
  <2>. QED BY <1>1, <1>2, <2>1, ConcatAny
<1>. HIDE DEF s
<1>4. /\ IsSeq(r) /\ Len(r) = (m + 1) + n
      /\ \A i \in 1..(m + 1) : r[i] = s[i]
      /\ \A i \in 1..n : r[i + (m + 1)] = q[i]
  <2>1. IsSeq(s) /\ IsSeq(q)
    BY <1>3
  <2>2. /\ IsSeq(r) /\ Len(r) = Len(s) + Len(q)
        /\ \A i \in 1..Len(s) : r[i] = s[i]
        /\ \A i \in 1..Len(q) : r[i + Len(s)] = q[i]
    BY <2>1, ConcatAny
  <2>. HIDE DEF r
  <2>. QED BY <1>2, <1>3, <2>2
<1>. HIDE DEF r
<1>5. /\ DOMAIN p = 1..m /\ DOMAIN q = 1..n /\ DOMAIN r = 1..((m + 1) + n)
  BY <1>2, <1>4, SeqParts
<1>6. /\ \A i \in 1..m : r[i] = p[i]
      /\ r[m + 1] = st
  BY <1>3, <1>4
<1>7. Part(p, r, 0) /\ Part(q, r, m + 1)
  BY <1>2, <1>4, <1>5, <1>6 DEF Part
<1>8. ~IsNop(r, (m + 1) + 0) /\ ~IsNop(r, (n + 1) + (m + 1))
  BY <1>5, <1>6 DEF IsNop, Op
<1>9. /\ \A i \in 1..((m + 1) + n) : IsStep(K, r[i]) /\ Operands(r, i)
  BY <1>4 DEF Nested, r, s
<1>10. PICK d : /\ d[1] = a /\ d[((m + 1) + n) + 1] = c
                /\ \A i \in 1..((m + 1) + n) :
                     Goes(K, r[i], Opens(r, i), d[i], d[i + 1])
  BY <1>4 DEF Nested, r, s
<1>11. d[m + 2] = d[m + 1] /\ Goes(K, st, 0, d[m + 1], d[m + 1])
  <2>1. Goes(K, st, Opens(r, m + 1), d[m + 1], d[m + 2])
    BY <1>6, <1>10, m + 1 \in 1..((m + 1) + n), (m + 1) + 1 = m + 2
  <2>. QED BY <2>1 DEF Goes
<1>12. ASSUME NEW i \in 1..m
       PROVE  IsStep(K, p[i]) /\ Operands(p, i) /\ Opens(p, i) = Opens(r, i)
  <2>1. i \in 1..Len(p) /\ i + 0 = i /\ i \in 1..((m + 1) + n)
    BY <1>2
  <2>2. Operands(p, i)
    BY <1>2, <1>7, <1>8, <1>9, <2>1, InThePart
  <2>3. Opens(r, i + 0) = Opens(p, i)
    BY <1>7, <2>1, <2>2, InTheWhole
  <2>. QED BY <1>6, <1>9, <2>1, <2>2, <2>3
<1>13. ASSUME NEW i \in 1..n
       PROVE  /\ IsStep(K, q[i]) /\ Operands(q, i)
              /\ Opens(q, i) = Opens(r, i + (m + 1))
  <2>1. i \in 1..Len(q) /\ i + (m + 1) \in 1..((m + 1) + n)
    BY <1>2
  <2>2. Operands(q, i)
    BY <1>2, <1>7, <1>8, <1>9, <2>1, InThePart
  <2>3. Opens(r, i + (m + 1)) = Opens(q, i)
    BY <1>7, <2>1, <2>2, InTheWhole
  <2>. QED BY <1>4, <1>9, <2>1, <2>2, <2>3
<1>14. Nested(K, p, a, d[m + 1])
  <2>1. ASSUME NEW i \in 1..m PROVE Goes(K, p[i], Opens(p, i), d[i], d[i + 1])
    BY <1>6, <1>10, <1>12, i \in 1..((m + 1) + n)
  <2>. QED BY <1>2, <1>10, <1>12, <2>1 DEF Nested
<1>15. Nested(K, q, d[m + 1], c)
  <2>. DEFINE f == [i \in 1..(n + 1) |-> d[i + (m + 1)]]
  <2>1. f[1] = d[m + 1] /\ f[n + 1] = c
    <3>1. 1 + (m + 1) = m + 2 /\ (n + 1) + (m + 1) = ((m + 1) + n) + 1
          /\ 1 \in 1..(n + 1) /\ n + 1 \in 1..(n + 1)
      OBVIOUS
    <3>. QED BY <1>10, <1>11, <3>1
  <2>2. ASSUME NEW i \in 1..n PROVE Goes(K, q[i], Opens(q, i), f[i], f[i + 1])
    <3>1. /\ i + (m + 1) \in 1..((m + 1) + n) /\ (i + 1) + (m + 1) = (i + (m + 1)) + 1
          /\ f[i + 1] = d[(i + 1) + (m + 1)] /\ f[i] = d[i + (m + 1)]
      OBVIOUS
    <3>. HIDE DEF f
    <3>2. Goes(K, r[i + (m + 1)], Opens(r, i + (m + 1)), d[i + (m + 1)], d[(i + (m + 1)) + 1])
      BY <1>10, <3>1
    <3>. QED BY <1>4, <1>13, <3>1, <3>2
  <2>. HIDE DEF f
  <2>. QED BY <1>2, <1>13, <2>1, <2>2 DEF Nested
<1>. QED BY <1>11, <1>14, <1>15

-----------------------------------------------------------------------------
(* Places.                                                                 *)

LEMMA PlaceParts ==
  ASSUME NEW p, IsPlace(p)
  PROVE  /\ p.depth \in Nat /\ p.open \in [1..p.depth -> Marks] /\ p.last \in Marks
         /\ p = [depth |-> p.depth, open |-> p.open, last |-> p.last]
BY DEF IsPlace, Places

LEMMA PlaceIs ==
  ASSUME NEW n \in Nat, NEW f \in [1..n -> Marks], NEW l \in Marks
  PROVE  IsPlace([depth |-> n, open |-> f, last |-> l])
BY DEF IsPlace, Places

\* The place where the last sub-program of an instruction op has just ended.
Ended(p, op) == [p EXCEPT !.last = op]

LEMMA EndedFacts ==
  ASSUME NEW p, BarePlace(p), NEW op \in Marks
  PROVE  /\ IsPlace(Ended(p, op)) /\ Bare(Ended(p, op)) = p /\ Bare(p) = p
         /\ Ended(p, op).last = op /\ Ended(p, op).depth = p.depth
<1>0. PICK n \in Nat : n = p.depth /\ p.open \in [1..n -> Marks]
  BY PlaceParts DEF BarePlace
<1>1. PICK f \in [1..n -> Marks] : p = [depth |-> n, open |-> f, last |-> "none"]
  BY <1>0, PlaceParts DEF BarePlace
<1>2. Ended(p, op) = [depth |-> n, open |-> f, last |-> op]
  BY <1>1 DEF Ended
<1>3. IsPlace([depth |-> n, open |-> f, last |-> op])
  BY PlaceIs
<1>. QED BY <1>1, <1>2, <1>3 DEF Bare

\* Pushing n sub-programs, and popping them one by one.
LEMMA PushIsPlace ==
  ASSUME NEW p, BarePlace(p), NEW op \in Marks, NEW n \in Nat
  PROVE  BarePlace(Push(p, op, n))
<1>1. p.depth \in Nat /\ p.open \in [1..p.depth -> Marks] /\ p.depth > 0
  BY PlaceParts DEF BarePlace
<1>. DEFINE f == [h \in 1..(p.depth + n) |-> IF h <= p.depth THEN p.open[h] ELSE op]
<1>2. f \in [1..(p.depth + n) -> Marks]
  BY <1>1
<1>3. Push(p, op, n) = [depth |-> p.depth + n, open |-> f, last |-> "none"]
  BY DEF Push
<1>. HIDE DEF f
<1>4. PICK k \in Nat : k = p.depth + n /\ k > 0
  <2>1. p.depth + n \in Nat /\ p.depth + n > 0
    BY <1>1
  <2>. QED BY <2>1
<1>5. IsPlace([depth |-> k, open |-> f, last |-> "none"])
  <2>1. f \in [1..k -> Marks]
    BY <1>2, <1>4, Zenon
  <2>2. "none" \in Marks
    BY DEF Marks
  <2>. QED BY <2>1, <2>2, PlaceIs
<1>. QED BY <1>3, <1>4, <1>5 DEF BarePlace

LEMMA PushNothing ==
  ASSUME NEW p, BarePlace(p), NEW op
  PROVE  Push(p, op, 0) = p
<1>0. PICK n \in Nat : n = p.depth /\ p.open \in [1..n -> Marks]
  BY PlaceParts DEF BarePlace
<1>1. PICK f \in [1..n -> Marks] : p = [depth |-> n, open |-> f, last |-> "none"]
  BY <1>0, PlaceParts DEF BarePlace
<1>2. [h \in 1..(n + 0) |-> IF h <= n THEN f[h] ELSE op] = f
  OBVIOUS
<1>. QED BY <1>1, <1>2 DEF Push

LEMMA PopPush ==
  ASSUME NEW p, BarePlace(p), NEW op \in Marks, NEW n \in Nat
  PROVE  /\ Bare(Pop(Push(p, op, n + 1))) = Push(p, op, n)
         /\ n = 0 => Pop(Push(p, op, n + 1)) = Ended(p, op)
<1>0. PICK m \in Nat : m = p.depth /\ p.open \in [1..m -> Marks]
  BY PlaceParts DEF BarePlace
<1>1. PICK f \in [1..m -> Marks] : p = [depth |-> m, open |-> f, last |-> "none"]
  BY <1>0, PlaceParts DEF BarePlace
<1>. DEFINE g(k) == [h \in 1..(m + k) |-> IF h <= m THEN f[h] ELSE op]
<1>2. \A k : Push(p, op, k) = [depth |-> m + k, open |-> g(k), last |-> "none"]
  BY <1>1 DEF Push
<1>3. (m + (n + 1)) - 1 = m + n /\ m + (n + 1) \in 1..(m + (n + 1)) /\ ~(m + (n + 1) <= m)
  OBVIOUS
<1>4. [h \in 1..(m + n) |-> g(n + 1)[h]] = g(n)
  <2>1. \A h \in 1..(m + n) : g(n + 1)[h] = g(n)[h]
    <3>1. \A h \in 1..(m + n) : h \in 1..(m + (n + 1))
      OBVIOUS
    <3>. QED BY <3>1
  <2>2. g(n) = [h \in 1..(m + n) |-> g(n)[h]]
    OBVIOUS
  <2>. HIDE DEF g
  <2>. QED BY <2>1, <2>2
<1>5. g(n + 1)[m + (n + 1)] = op
  BY <1>3
<1>6. Pop(Push(p, op, n + 1)) = [depth |-> m + n, open |-> g(n), last |-> op]
  <2>. HIDE DEF g
  <2>1. PICK q : q = Push(p, op, n + 1)
    OBVIOUS
  <2>2. q.depth = m + (n + 1) /\ q.open = g(n + 1)
    BY <1>2, <2>1
  <2>3. q.depth - 1 = m + n /\ q.open[q.depth] = op
        /\ [h \in 1..(m + n) |-> q.open[h]] = g(n)
    BY <1>3, <1>4, <1>5, <2>2
  <2>4. Pop(q) = [depth |-> m + n, open |-> g(n), last |-> op]
    BY <2>3 DEF Pop
  <2>. QED BY <2>1, <2>4
<1>7. n = 0 => g(n) = f /\ m + n = m
  OBVIOUS
<1>. HIDE DEF g
<1>8. Bare(Pop(Push(p, op, n + 1))) = Push(p, op, n)
  BY <1>2, <1>6 DEF Bare
<1>9. n = 0 => Pop(Push(p, op, n + 1)) = Ended(p, op)
  BY <1>1, <1>6, <1>7 DEF Ended
<1>. QED BY <1>8, <1>9

LEMMA PushSkippable ==
  ASSUME NEW p, BarePlace(p), NEW op, NEW n \in Nat, NEW skips, Skippable(skips, Push(p, op, n))
  PROVE  Skippable(skips, p) \/ op \in skips
<1>1. p.depth \in Nat
  BY PlaceParts DEF BarePlace
<1>2. PICK h \in 1..(p.depth + n) : (IF h <= p.depth THEN p.open[h] ELSE op) \in skips
  BY DEF Skippable, Push
<1>. QED BY <1>1, <1>2 DEF Skippable

-----------------------------------------------------------------------------
(* The plans.                                                              *)

LEMMA NestedNothing ==
  ASSUME NEW K, NEW p
  PROVE  Nested(K, <<>>, p, p)
<1>1. IsSeq(<<>>) /\ Len(<<>>) = 0
  BY EmptyIsSeq
<1>. DEFINE d == [i \in 1..1 |-> p]
<1>2. d[1] = p
  OBVIOUS
<1>. HIDE DEF d
<1>. QED BY <1>1, <1>2 DEF Nested

\* A step without operands.
LEMMA NestedStep ==
  ASSUME NEW K, NEW st, IsStep(K, st), NEW s, NEW t,
         Op(st) \notin {"CHECK_DEP_REQUIRED", "DISCRIMINATOR", "CHECK_CONTAINS"},
         Op(st) \in ManySubs \cup {"ENTER_PREFIX_ITEM"} => st.ins.arg \in Nat,
         NEW n, n = (IF Op(st) \in OneSub THEN 1
                     ELSE IF Op(st) \in ManySubs THEN st.ins.arg ELSE 0),
         Goes(K, st, n, s, t)
  PROVE  Nested(K, <<st>>, s, t)
<1>. DEFINE q == <<st>>
            d == [i \in 1..2 |-> IF i = 1 THEN s ELSE t]
<1>1. IsSeq(q) /\ Len(q) = 1 /\ q[1] = st
  BY q \in Seq({st}) DEF IsSeq
<1>2. d[1] = s /\ d[2] = t
  OBVIOUS
<1>. HIDE DEF q, d
<1>3. Operands(q, 1)
  BY <1>1 DEF Operands
<1>4. Opens(q, 1) = n
  BY <1>1 DEF Opens
<1>5. Nested(K, q, s, t)
  BY <1>1, <1>2, <1>3, <1>4 DEF Nested
<1>. QED BY <1>5 DEF q

\* A loop that carries out the plans of its elements one behind the other.
LEMMA FlattenIs ==
  ASSUME NEW seqs, IsSeq(seqs), Len(seqs) # 0, \A i \in 1..Len(seqs) : IsSeq(seqs[i])
  PROVE  \E f : /\ f[1] = seqs[1]
                /\ \A i \in 2..Len(seqs) : f[i] = f[i - 1] \o seqs[i]
                /\ FlattenSeq(seqs) = f[Len(seqs)]
<1>. DEFINE S == UNION {{seqs[i][j] : j \in 1..Len(seqs[i])} : i \in 1..Len(seqs)}
            step == [k \in 1..Len(seqs) |->
                       [s \in Seq(S) |-> IF k = 1 THEN seqs[k] ELSE s \o seqs[k]]]
            Solves(f) == f = [i \in 1..Len(seqs) |->
                                IF i = 1 THEN seqs[i] ELSE f[i - 1] \o seqs[i]]
            flat == CHOOSE f : Solves(f)
<1>1. Len(seqs) \in Nat /\ 1 \in 1..Len(seqs)
  BY SeqParts
<1>2. ASSUME NEW i \in 1..Len(seqs) PROVE seqs[i] \in Seq(S)
  <2>1. PICK T : seqs[i] \in Seq(T)
    BY DEF IsSeq
  <2>2. PICK n \in Nat : seqs[i] \in [1..n -> T] /\ Len(seqs[i]) = n
    BY <2>1, LenProperties, SeqDef
  <2>3. \A j \in 1..n : seqs[i][j] \in S
    BY <2>2
  <2>. HIDE DEF S
  <2>4. seqs[i] \in [1..n -> S]
    BY <2>2, <2>3
  <2>. QED BY <2>4, SeqDef
<1>. HIDE DEF S
<1>3. step \in [1..Len(seqs) -> [Seq(S) -> Seq(S)]]
  <2>1. ASSUME NEW k \in 1..Len(seqs), NEW s \in Seq(S)
        PROVE  (IF k = 1 THEN seqs[k] ELSE s \o seqs[k]) \in Seq(S)
    BY <1>2, ConcatProperties
  <2>. QED BY <2>1
<1>4. PICK g \in [0..Len(seqs) -> Seq(S)] : Recursion(g, Len(seqs), <<>>, step)
  <2>1. <<>> \in Seq(S)
    BY EmptySeq
  <2>. HIDE DEF step
  <2>. QED BY <1>1, <1>3, <2>1, RecursionExists
<1>5. \A i \in 1..Len(seqs) : g[i] = IF i = 1 THEN seqs[i] ELSE g[i - 1] \o seqs[i]
  <2>1. ASSUME NEW i \in 1..Len(seqs)
        PROVE  g[i] = step[i][g[i - 1]] /\ g[i - 1] \in Seq(S)
    <3>. HIDE DEF step
    <3>1. i - 1 \in 0..Len(seqs)
      BY <1>1
    <3>. QED BY <1>4, <3>1 DEF Recursion
  <2>. QED BY <2>1
<1>. HIDE DEF step
<1>. DEFINE h == [i \in 1..Len(seqs) |-> g[i]]
<1>6. Solves(h)
  <2>1. \A i \in 1..Len(seqs) : i # 1 => i - 1 \in 1..Len(seqs)
    BY <1>1
  <2>2. \A i \in 1..Len(seqs) : h[i] = IF i = 1 THEN seqs[i] ELSE h[i - 1] \o seqs[i]
    BY <1>5, <2>1
  <2>3. h = [i \in 1..Len(seqs) |-> h[i]]
    OBVIOUS
  <2>. HIDE DEF h
  <2>. QED BY <2>2, <2>3
<1>7. FlattenSeq(seqs) = flat[Len(seqs)]
  BY DEF FlattenSeq
<1>8. Solves(flat)
  <2>. HIDE DEF Solves, h
  <2>. QED BY <1>6
<1>9. \A i \in 1..Len(seqs) : flat[i] = IF i = 1 THEN seqs[i] ELSE flat[i - 1] \o seqs[i]
  <2>. HIDE DEF flat
  <2>. QED BY <1>8, Zenon
<1>10. \A i \in 2..Len(seqs) : i \in 1..Len(seqs) /\ i # 1
  BY <1>1
<1>. HIDE DEF flat, Solves
<1>11. flat[1] = seqs[1]
  BY <1>1, <1>9, Zenon
<1>12. ASSUME NEW i \in 2..Len(seqs) PROVE flat[i] = flat[i - 1] \o seqs[i]
  <2>1. i \in 1..Len(seqs) /\ i # 1
    BY <1>10, Zenon
  <2>. QED BY <1>9, <2>1, Zenon
<1>. QED BY <1>7, <1>11, <1>12, Zenon

LEMMA LoopIsSeq ==
  ASSUME NEW n \in Nat, NEW seqs, seqs = [i \in 1..n |-> seqs[i]]
  PROVE  IsSeq(seqs) /\ Len(seqs) = n
<1>1. seqs \in [1..n -> {seqs[i] : i \in 1..n}]
  OBVIOUS
<1>2. seqs \in Seq({seqs[i] : i \in 1..n})
  BY <1>1, SeqDef
<1>3. DOMAIN seqs = 1..n /\ DOMAIN seqs = 1..Len(seqs) /\ Len(seqs) \in Nat
  BY <1>1, <1>2, LenProperties
<1>4. Len(seqs) = n
  <2>1. \A l \in Nat : 1..n = 1..l => l = n
    OBVIOUS
  <2>. QED BY <1>3, <2>1
<1>5. IsSeq(seqs)
  BY <1>2, Zenon DEF IsSeq
<1>. QED BY <1>4, <1>5

LEMMA FlattenNested ==
  ASSUME NEW K, NEW seqs, IsSeq(seqs), NEW d,
         \A i \in 1..Len(seqs) : Nested(K, seqs[i], d[i - 1], d[i])
  PROVE  Nested(K, FlattenSeq(seqs), d[0], d[Len(seqs)])
<1>0. PICK n \in Nat : n = Len(seqs)
  BY SeqParts
<1>1. CASE n = 0
  <2>1. seqs = <<>>
    BY <1>0, <1>1, EmptySeq DEF IsSeq
  <2>2. FlattenSeq(seqs) = <<>>
    BY <1>0, <1>1, <2>1 DEF FlattenSeq
  <2>3. Nested(K, <<>>, d[0], d[0])
    BY NestedNothing
  <2>. QED BY <1>0, <1>1, <2>2, <2>3
<1>2. CASE n # 0
  <2>1. PICK f : /\ f[1] = seqs[1]
                 /\ \A i \in 2..n : f[i] = f[i - 1] \o seqs[i]
                 /\ FlattenSeq(seqs) = f[n]
    BY <1>0, <1>2, FlattenIs DEF Nested
  <2>. DEFINE T == {i \in 0..n : i # 0 => Nested(K, f[i], d[0], d[i])}
  <2>2. 0 \in T
    OBVIOUS
  <2>3. ASSUME NEW i \in 0..(n - 1), i \in T PROVE i + 1 \in T
    <3>1. i + 1 \in 1..n /\ i + 1 \in 0..n /\ (i + 1) - 1 = i
      OBVIOUS
    <3>2. Nested(K, seqs[i + 1], d[i], d[i + 1])
      BY <1>0, <3>1
    <3>3. CASE i = 0
      BY <2>1, <3>1, <3>2, <3>3
    <3>4. CASE i # 0
      <4>1. f[i + 1] = f[i] \o seqs[i + 1]
        BY <2>1, <3>1, <3>4, i + 1 \in 2..n
      <4>2. Nested(K, f[i], d[0], d[i])
        BY <2>3, <3>4
      <4>3. Nested(K, f[i] \o seqs[i + 1], d[0], d[i + 1])
        BY <3>2, <4>2, NestedConcat
      <4>. QED BY <3>1, <4>1, <4>3
    <3>. QED BY <3>3, <3>4
  <2>4. 0..n \subseteq T
    <3>. HIDE DEF T
    <3>. QED BY <2>2, <2>3, BoundedInduction
  <2>5. n \in 0..n
    OBVIOUS
  <2>. QED BY <1>0, <1>2, <2>1, <2>4, <2>5
<1>. QED BY <1>1, <1>2

\* q leads from each place back to it; plain: also from those that skip_to_end
\* may go over.
Closed(K, q, plain) ==
  \A p : BarePlace(p) /\ (Skippable(K.skips, p) => plain) => Nested(K, q, p, p)

\* A loop whose body closes what it opens.
LEMMA FlattenClosed ==
  ASSUME NEW K, NEW plain, NEW seqs, IsSeq(seqs),
         \A i \in 1..Len(seqs) : Closed(K, seqs[i], plain)
  PROVE  Closed(K, FlattenSeq(seqs), plain)
<1>. SUFFICES ASSUME NEW p, BarePlace(p), Skippable(K.skips, p) => plain
              PROVE  Nested(K, FlattenSeq(seqs), p, p)
  BY DEF Closed
<1>. DEFINE d == [i \in 0..Len(seqs) |-> p]
<1>1. \A i \in 0..Len(seqs) : d[i] = p
  OBVIOUS
<1>2. /\ 0 \in 0..Len(seqs) /\ Len(seqs) \in 0..Len(seqs)
      /\ \A i \in 1..Len(seqs) : i - 1 \in 0..Len(seqs) /\ i \in 0..Len(seqs)
  BY SeqParts
<1>. HIDE DEF d
<1>3. \A i \in 1..Len(seqs) : Nested(K, seqs[i], d[i - 1], d[i])
  <2>1. \A i \in 1..Len(seqs) : Nested(K, seqs[i], p, p)
    BY DEF Closed
  <2>. QED BY <1>1, <1>2, <2>1
<1>4. Nested(K, FlattenSeq(seqs), d[0], d[Len(seqs)])
  BY <1>3, FlattenNested
<1>. QED BY <1>1, <1>2, <1>4

LEMMA ConcatOne ==
  ASSUME NEW p, NEW q, IsSeq(p), IsSeq(q)
  PROVE  Len(q) = 1 =>
           /\ IsSeq(p \o q) /\ Len(p \o q) = Len(p) + 1
           /\ \A i \in 1..Len(p) : (p \o q)[i] = p[i]
           /\ (p \o q)[1 + Len(p)] = q[1]
<1>1. /\ IsSeq(p \o q) /\ Len(p \o q) = Len(p) + Len(q)
      /\ \A i \in 1..Len(p) : (p \o q)[i] = p[i]
      /\ \A i \in 1..Len(q) : (p \o q)[i + Len(p)] = q[i]
  BY ConcatAny
<1>2. Len(q) = 1 => (p \o q)[1 + Len(p)] = q[1]
  <2>1. Len(q) = 1 => 1 \in 1..Len(q)
    OBVIOUS
  <2>. QED BY <1>1, <2>1
<1>. QED BY <1>1, <1>2

\* A loop whose body is one step.
LEMMA FlattenSingles ==
  ASSUME NEW seqs, IsSeq(seqs), NEW e, \A i \in 1..Len(seqs) : seqs[i] = <<e[i]>>
  PROVE  /\ IsSeq(FlattenSeq(seqs)) /\ Len(FlattenSeq(seqs)) = Len(seqs)
         /\ \A i \in 1..Len(seqs) : FlattenSeq(seqs)[i] = e[i]
<1>0. PICK n \in Nat : n = Len(seqs)
  BY SeqParts
<1>1. CASE n = 0
  <2>1. FlattenSeq(seqs) = seqs /\ Len(seqs) = 0
    BY <1>0, <1>1 DEF FlattenSeq
  <2>. QED BY <2>1
<1>2. CASE n # 0
  <2>0. ASSUME NEW i \in 1..n
        PROVE  IsSeq(seqs[i]) /\ Len(seqs[i]) = 1 /\ seqs[i][1] = e[i]
    <3>1. <<e[i]>> \in Seq({e[i]}) /\ Len(<<e[i]>>) = 1 /\ <<e[i]>>[1] = e[i]
      OBVIOUS
    <3>. QED BY <1>0, <3>1 DEF IsSeq
  <2>1. PICK f : /\ f[1] = seqs[1]
                 /\ \A i \in 2..n : f[i] = f[i - 1] \o seqs[i]
                 /\ FlattenSeq(seqs) = f[n]
    BY <1>0, <1>2, <2>0, FlattenIs
  <2>. DEFINE Singles(q, i) == IsSeq(q) /\ Len(q) = i /\ \A j \in 1..i : q[j] = e[j]
              T == {i \in 0..n : i # 0 => Singles(f[i], i)}
  <2>2. 0 \in T
    OBVIOUS
  <2>3. ASSUME NEW i \in 0..(n - 1), i \in T PROVE i + 1 \in T
    <3>1. i + 1 \in 1..n /\ i + 1 \in 0..n
      OBVIOUS
    <3>2. IsSeq(seqs[i + 1]) /\ Len(seqs[i + 1]) = 1 /\ seqs[i + 1][1] = e[i + 1]
      BY <2>0, <3>1
    <3>3. CASE i = 0
      BY <2>1, <3>1, <3>2, <3>3
    <3>4. CASE i # 0
      <4>1. f[i + 1] = f[i] \o seqs[i + 1]
        <5>1. i + 1 \in 2..n /\ (i + 1) - 1 = i
          BY <3>4
        <5>. QED BY <2>1, <5>1
      <4>2. Singles(f[i], i)
        BY <2>3, <3>4
      <4>3. /\ IsSeq(f[i + 1]) /\ Len(f[i + 1]) = i + 1
            /\ \A j \in 1..i : f[i + 1][j] = f[i][j]
            /\ f[i + 1][1 + i] = seqs[i + 1][1]
        <5>. HIDE DEF Singles, T
        <5>1. PICK p, q : p = f[i] /\ q = seqs[i + 1]
          OBVIOUS
        <5>2. IsSeq(p) /\ Len(p) = i /\ IsSeq(q) /\ Len(q) = 1
          BY <3>2, <4>2, <5>1 DEF Singles
        <5>3. /\ IsSeq(p \o q) /\ Len(p \o q) = i + 1
              /\ \A j \in 1..i : (p \o q)[j] = p[j]
              /\ (p \o q)[1 + i] = q[1]
          BY <5>2, ConcatOne
        <5>4. f[i + 1] = p \o q
          BY <4>1, <5>1
        <5>. QED BY <5>1, <5>2, <5>3, <5>4
      <4>4. \A j \in 1..(i + 1) : j \in 1..i \/ j = 1 + i
        OBVIOUS
      <4>. QED BY <3>1, <3>2, <4>2, <4>3, <4>4
    <3>. QED BY <3>3, <3>4
  <2>4. 0..n \subseteq T
    <3>. HIDE DEF T
    <3>. QED BY <2>2, <2>3, BoundedInduction
  <2>5. n \in 0..n
    OBVIOUS
  <2>. QED BY <1>0, <1>2, <2>1, <2>4, <2>5
<1>. QED BY <1>1, <1>2

LEMMA EmitIsStep ==
  ASSUME NEW K, NEW op \in Ops, NEW arg
  PROVE  /\ IsStep(K, Emit(op, arg)) /\ Op(Emit(op, arg)) = op
         /\ Emit(op, arg).ins.arg = arg
BY DEF IsStep, Op, Emit, Instr

LEMMA SubIsStep ==
  ASSUME NEW K, NEW node \in K.ids
  PROVE  IsStep(K, Sub(node)) /\ Op(Sub(node)) = "call"
BY DEF IsStep, Op, Sub

\* The first of two or three steps, and the others.
LEMMA StepsAsConcat ==
  ASSUME NEW x, NEW y, NEW z
  PROVE  <<x>> \o <<y>> = <<x, y>> /\ <<x>> \o <<y, z>> = <<x, y, z>>
<1>. DEFINE S == {x, y, z}
<1>1. /\ <<x>> \in Seq(S) /\ <<y>> \in Seq(S) /\ <<y, z>> \in Seq(S)
      /\ <<x, y>> \in Seq(S) /\ <<x, y, z>> \in Seq(S)
  OBVIOUS
<1>2. /\ Len(<<x>>) = 1 /\ Len(<<y>>) = 1 /\ Len(<<y, z>>) = 2
      /\ Len(<<x, y>>) = 2 /\ Len(<<x, y, z>>) = 3
  OBVIOUS
<1>3. /\ <<x>>[1] = x /\ <<y>>[1] = y /\ <<y, z>>[1] = y /\ <<y, z>>[2] = z
      /\ <<x, y>>[1] = x /\ <<x, y>>[2] = y
      /\ <<x, y, z>>[1] = x /\ <<x, y, z>>[2] = y /\ <<x, y, z>>[3] = z
  OBVIOUS
<1>4. PICK a, b, c, d, e :
        a = <<x>> /\ b = <<y>> /\ c = <<y, z>> /\ d = <<x, y>> /\ e = <<x, y, z>>
  OBVIOUS
<1>. HIDE DEF S
<1>5. /\ a \in Seq(S) /\ b \in Seq(S) /\ c \in Seq(S) /\ d \in Seq(S) /\ e \in Seq(S)
      /\ Len(a) = 1 /\ Len(b) = 1 /\ Len(c) = 2 /\ Len(d) = 2 /\ Len(e) = 3
      /\ a[1] = x /\ b[1] = y /\ c[1] = y /\ c[2] = z /\ d[1] = x /\ d[2] = y
      /\ e[1] = x /\ e[2] = y /\ e[3] = z
  BY <1>1, <1>2, <1>3, <1>4
<1>6. d = a \o b
  <2>1. a \in Seq(S) /\ b \in Seq(S)
    BY <1>5
  <2>2. /\ a \o b \in Seq(S) /\ Len(a \o b) = Len(a) + Len(b)
        /\ \A i \in 1..(Len(a) + Len(b)) :
             (a \o b)[i] = IF i <= Len(a) THEN a[i] ELSE b[i - Len(a)]
    BY <2>1, ConcatProperties
  <2>3. PICK w : w = a \o b
    OBVIOUS
  <2>4. w \in Seq(S) /\ Len(w) = 2 /\ \A i \in 1..2 : w[i] = d[i]
    BY <1>5, <2>2, <2>3
  <2>. QED BY <1>5, <2>3, <2>4, SeqEqual
<1>7. e = a \o c
  <2>0. a \in Seq(S) /\ c \in Seq(S)
    BY <1>5
  <2>1. /\ a \o c \in Seq(S) /\ Len(a \o c) = Len(a) + Len(c)
        /\ \A i \in 1..(Len(a) + Len(c)) :
             (a \o c)[i] = IF i <= Len(a) THEN a[i] ELSE c[i - Len(a)]
    BY <2>0, ConcatProperties
  <2>2. PICK w : w = a \o c
    OBVIOUS
  <2>3. w \in Seq(S) /\ Len(w) = 3 /\ \A i \in 1..3 : w[i] = e[i]
    BY <1>5, <2>1, <2>2
  <2>. QED BY <1>5, <2>2, <2>3, SeqEqual
<1>. QED BY <1>4, <1>6, <1>7

\* An instruction that only tests the value, or an operand.
LEMMA LeafKinds ==
  ASSUME NEW op \in LeafOps \cup {"NOP"}
  PROVE  /\ op \in Ops /\ op # "END" /\ op \notin CompositionOps \cup CondParts
         /\ op \notin OneSub \cup ManySubs \cup {"CHECK_DEP_REQUIRED", "DISCRIMINATOR",
                                          "CHECK_CONTAINS", "ENTER_PREFIX_ITEM"}
BY DEF LeafOps, Ops, OneSub, ManySubs, BlockOps, BranchOps, CondParts, CompositionOps

LEMMA NestedLeaf ==
  ASSUME NEW K, NEW op \in LeafOps \cup {"NOP"}, NEW arg, NEW p, BarePlace(p)
  PROVE  Nested(K, <<Emit(op, arg)>>, p, p)
<1>. DEFINE st == Emit(op, arg)
<1>1. IsStep(K, st) /\ Op(st) = op /\ st.do = "emit" /\ st.ins.op = op
  BY LeafKinds, EmitIsStep DEF Emit, Instr
<1>. HIDE DEF st
<1>2. Permitted(K.skips, op, 0, p)
  BY LeafKinds DEF Permitted, BarePlace, CondParts
<1>3. After(op, 0, p) = p
  BY LeafKinds, PushNothing DEF After
<1>4. Goes(K, st, 0, p, p)
  BY <1>1, <1>2, <1>3 DEF Goes, BarePlace, Follows
<1>5. Nested(K, <<st>>, p, p)
  BY <1>1, <1>4, LeafKinds, NestedStep
<1>. QED BY <1>5 DEF st

LEMMA ClosedLeaf ==
  ASSUME NEW K, NEW plain, NEW op \in LeafOps \cup {"NOP"}, NEW arg
  PROVE  Closed(K, <<Emit(op, arg)>>, plain)
BY NestedLeaf DEF Closed

\* A call changes nothing, an END closes a sub-program.
LEMMA NestedSub ==
  ASSUME NEW K, NEW node \in K.ids, NEW p, BarePlace(p),
         Skippable(K.skips, p) => node \in K.plain
  PROVE  Nested(K, <<Sub(node)>>, p, p)
<1>. DEFINE st == Sub(node)
<1>1. IsStep(K, st) /\ Op(st) = "call" /\ st.do = "call" /\ st.node = node
  BY SubIsStep DEF Sub
<1>2. "call" \notin OneSub \cup ManySubs
  BY DEF OneSub, ManySubs, BlockOps, CondParts
<1>. HIDE DEF st
<1>3. Goes(K, st, 0, p, p)
  BY <1>1 DEF Goes
<1>4. Nested(K, <<st>>, p, p)
  BY <1>1, <1>2, <1>3, NestedStep
<1>. QED BY <1>4 DEF st

LEMMA NestedEnd ==
  ASSUME NEW K, NEW p, BarePlace(p), NEW op \in Marks, NEW n \in Nat,
         NEW t, t = Push(p, op, n) \/ (n = 0 /\ t = Ended(p, op))
  PROVE  Nested(K, <<Emit("END", 0)>>, Push(p, op, n + 1), t)
<1>. DEFINE st == Emit("END", 0)
<1>1. IsStep(K, st) /\ Op(st) = "END" /\ st.do = "emit" /\ st.ins.op = "END"
  BY EmitIsStep, "END" \in Ops DEF Ops, Emit, Instr
<1>2. "END" \notin OneSub \cup ManySubs \cup CompositionOps
  BY DEF OneSub, ManySubs, BlockOps, CondParts, CompositionOps
<1>. HIDE DEF st
<1>3. PICK s : s = Push(p, op, n + 1) /\ BarePlace(s)
  BY PushIsPlace
<1>4. Permitted(K.skips, "END", 0, s)
  BY <1>2, <1>3 DEF Permitted, BarePlace
<1>5. Follows("END", 0, s, t)
  BY <1>3, PopPush DEF Follows, After
<1>6. Goes(K, st, 0, s, t)
  BY <1>1, <1>3, <1>4, <1>5 DEF Goes, BarePlace
<1>7. Nested(K, <<st>>, s, t)
  BY <1>1, <1>2, <1>6, NestedStep
<1>. QED BY <1>3, <1>7 DEF st

\* The schema of a sub-program that op announces in the place p.
Reaches(K, op, p, node) ==
  /\ node \in K.ids
  /\ op \in K.skips \/ Skippable(K.skips, p) => node \in K.plain

\* A sub-program and its END.
LEMMA NestedBranch ==
  ASSUME NEW K, NEW p, BarePlace(p), NEW op \in Marks, NEW n \in Nat,
         NEW node, Reaches(K, op, p, node),
         NEW t, t = Push(p, op, n) \/ (n = 0 /\ t = Ended(p, op))
  PROVE  Nested(K, <<Sub(node), Emit("END", 0)>>, Push(p, op, n + 1), t)
<1>1. PICK s : s = Push(p, op, n + 1) /\ BarePlace(s)
  BY PushIsPlace
<1>2. Skippable(K.skips, s) => node \in K.plain
  BY <1>1, PushSkippable DEF Reaches
<1>3. node \in K.ids
  BY DEF Reaches
<1>4. Nested(K, <<Sub(node)>>, s, s)
  BY <1>1, <1>2, <1>3, NestedSub
<1>5. Nested(K, <<Emit("END", 0)>>, s, t)
  BY <1>1, NestedEnd
<1>6. Nested(K, <<Sub(node)>> \o <<Emit("END", 0)>>, s, t)
  BY <1>4, <1>5, NestedConcat
<1>. QED BY <1>1, <1>6, StepsAsConcat

LEMMA OneSubKinds ==
  ASSUME NEW op \in OneSub
  PROVE  /\ op \in Ops /\ op \in Marks /\ op # "END"
         /\ op \notin ManySubs \cup CompositionOps
                        \cup {"CHECK_DEP_REQUIRED", "DISCRIMINATOR"}
BY DEF OneSub, ManySubs, BlockOps, BranchOps, CondParts, CompositionOps, Ops, Marks

\* An instruction with its sub-program, in the place p, or where another one
\* has just ended there.
LEMMA NestedBlock ==
  ASSUME NEW K, NEW op \in OneSub \ {"CHECK_CONTAINS"}, NEW arg,
         op = "ENTER_PREFIX_ITEM" => arg \in Nat,
         NEW p, BarePlace(p), NEW node, Reaches(K, op, p, node),
         NEW s, IsPlace(s), Bare(s) = p, Permitted(K.skips, op, 1, s),
         NEW t \in {p, Ended(p, op)}
  PROVE  Nested(K, Block(op, arg, node), s, t)
<1>. DEFINE st == Emit(op, arg)
<1>1. IsStep(K, st) /\ Op(st) = op /\ st.do = "emit" /\ st.ins.op = op /\ st.ins.arg = arg
  BY OneSubKinds, EmitIsStep DEF Emit, Instr
<1>2. Push(s, op, 1) = Push(p, op, 1)
  <2>1. p.depth = s.depth /\ p.open = s.open
    BY PlaceParts DEF Bare
  <2>. QED BY <2>1 DEF Push
<1>3. Nested(K, <<st>>, s, Push(p, op, 0 + 1))
  <2>. HIDE DEF st
  <2>1. Follows(op, 1, s, Push(p, op, 1))
    BY <1>2, OneSubKinds DEF Follows, After
  <2>2. Goes(K, st, 1, s, Push(p, op, 1))
    BY <1>1, <2>1 DEF Goes
  <2>3. Nested(K, <<st>>, s, Push(p, op, 1))
    BY <1>1, <2>2, OneSubKinds, NestedStep
  <2>. QED BY <2>3, 0 + 1 = 1
<1>4. Nested(K, <<Sub(node), Emit("END", 0)>>, Push(p, op, 0 + 1), t)
  <2>1. t = Push(p, op, 0) \/ (0 = 0 /\ t = Ended(p, op))
    BY PushNothing
  <2>2. op \in Marks
    BY OneSubKinds
  <2>. QED BY <2>1, <2>2, NestedBranch
<1>5. Nested(K, <<st>> \o <<Sub(node), Emit("END", 0)>>, s, t)
  BY <1>3, <1>4, NestedConcat
<1>6. <<st>> \o <<Sub(node), Emit("END", 0)>> = Block(op, arg, node)
  <2>. HIDE DEF st
  <2>1. <<st>> \o <<Sub(node), Emit("END", 0)>> = <<st, Sub(node), Emit("END", 0)>>
    BY StepsAsConcat
  <2>. QED BY <2>1 DEF Block, st
<1>. QED BY <1>5, <1>6

\* Behind nothing but a THEN or ELSE has to follow another instruction.
LEMMA ClosedBlock ==
  ASSUME NEW K, NEW plain, NEW op \in OneSub \ ({"CHECK_CONTAINS"} \cup CondParts), NEW arg,
         op = "ENTER_PREFIX_ITEM" => arg \in Nat,
         NEW node \in K.ids, op \in K.skips \/ plain => node \in K.plain
  PROVE  Closed(K, Block(op, arg, node), plain)
<1>. SUFFICES ASSUME NEW p, BarePlace(p), Skippable(K.skips, p) => plain
              PROVE  Nested(K, Block(op, arg, node), p, p)
  BY DEF Closed
<1>1. Reaches(K, op, p, node)
  BY DEF Reaches
<1>2. Permitted(K.skips, op, 1, p)
  BY OneSubKinds DEF Permitted, BarePlace, CondParts
<1>3. IsPlace(p) /\ Bare(p) = p
  BY EndedFacts, "none" \in Marks DEF BarePlace, Marks
<1>. QED BY <1>1, <1>2, <1>3, NestedBlock

\* contains: both numbers, then the sub-program.
LEMMA ClosedContains ==
  ASSUME NEW K, NEW plain, NEW least \in Nat, NEW most \in Int,
         NEW node \in K.ids, "CHECK_CONTAINS" \in K.skips \/ plain => node \in K.plain
  PROVE  Closed(K, <<Emit("CHECK_CONTAINS", least), Emit("NOP", most), Sub(node),
                     Emit("END", 0)>>, plain)
<1>. SUFFICES ASSUME NEW p, BarePlace(p), Skippable(K.skips, p) => plain
              PROVE  Nested(K, <<Emit("CHECK_CONTAINS", least), Emit("NOP", most), Sub(node),
                                 Emit("END", 0)>>, p, p)
  BY DEF Closed
<1>. DEFINE w == Emit("CHECK_CONTAINS", least)
            x == Emit("NOP", most)
            y == Sub(node)
            z == Emit("END", 0)
            q == <<w, x, y, z>>
<1>0. "CHECK_CONTAINS" \in OneSub /\ "CHECK_CONTAINS" \in Marks
      /\ {"CHECK_CONTAINS", "NOP", "END"} \subseteq Ops
  BY DEF OneSub, BlockOps, Marks, Ops
<1>1. /\ IsStep(K, w) /\ Op(w) = "CHECK_CONTAINS" /\ w.ins.arg = least
      /\ IsStep(K, x) /\ Op(x) = "NOP" /\ x.ins.arg = most
      /\ IsStep(K, z) /\ Op(z) = "END"
  BY <1>0, EmitIsStep
<1>2. /\ IsStep(K, y) /\ Op(y) = "call" /\ y.do = "call" /\ y.node = node
      /\ w.do = "emit" /\ w.ins.op = "CHECK_CONTAINS"
      /\ x.do = "emit" /\ x.ins.op = "NOP"
      /\ z.do = "emit" /\ z.ins.op = "END"
  BY SubIsStep DEF Sub, Emit, Instr
<1>. HIDE DEF w, x, y, z
<1>3. IsSeq(q) /\ Len(q) = 4 /\ DOMAIN q = 1..4
      /\ q[1] = w /\ q[2] = x /\ q[3] = y /\ q[4] = z
  <2>1. q \in Seq({w, x, y, z}) /\ Len(q) = 4 /\ DOMAIN q = 1..4
        /\ q[1] = w /\ q[2] = x /\ q[3] = y /\ q[4] = z
    OBVIOUS
  <2>. QED BY <2>1 DEF IsSeq
<1>4. PICK s : s = Push(p, "CHECK_CONTAINS", 1) /\ BarePlace(s)
  BY <1>0, PushIsPlace
<1>. DEFINE d == [i \in 1..5 |-> IF i \in 2..4 THEN s ELSE p]
<1>5. d[1] = p /\ d[2] = s /\ d[3] = s /\ d[4] = s /\ d[5] = p
  OBVIOUS
<1>. HIDE DEF q, d
<1>6. Opens(q, 1) = 1 /\ Opens(q, 2) = 0 /\ Opens(q, 3) = 0 /\ Opens(q, 4) = 0
  BY <1>1, <1>2, <1>3 DEF Opens, OneSub, ManySubs, BlockOps, CondParts
<1>7. Operands(q, 1) /\ Operands(q, 2) /\ Operands(q, 3) /\ Operands(q, 4)
  BY <1>1, <1>2, <1>3 DEF Operands, IsNop, ManySubs
<1>8. \A i \in 1..Len(q) : i = 1 \/ i = 2 \/ i = 3 \/ i = 4
  BY <1>3
<1>9. \A i \in 1..Len(q) : IsStep(K, q[i]) /\ Operands(q, i)
  BY <1>1, <1>2, <1>3, <1>7, <1>8
<1>10. Goes(K, w, 1, p, s)
  <2>1. Permitted(K.skips, "CHECK_CONTAINS", 1, p)
    BY DEF Permitted, BarePlace, CompositionOps
  <2>2. Follows("CHECK_CONTAINS", 1, p, s)
    BY <1>4 DEF Follows, After
  <2>. QED BY <1>2, <2>1, <2>2 DEF Goes, BarePlace
<1>11. Goes(K, x, 0, s, s)
  <2>1. Permitted(K.skips, "NOP", 0, s)
    BY <1>4 DEF Permitted, BarePlace, CompositionOps
  <2>2. Follows("NOP", 0, s, s)
    BY <1>4, PushNothing DEF Follows, After
  <2>. QED BY <1>2, <1>4, <2>1, <2>2 DEF Goes, BarePlace
<1>12. Goes(K, y, 0, s, s)
  <2>1. Skippable(K.skips, s) => node \in K.plain
    BY <1>4, PushSkippable
  <2>. QED BY <1>2, <1>4, <2>1 DEF Goes
<1>13. Goes(K, z, 0, s, p)
  <2>1. Permitted(K.skips, "END", 0, s)
    BY <1>4 DEF Permitted, BarePlace, CompositionOps
  <2>2. Bare(Pop(Push(p, "CHECK_CONTAINS", 0 + 1))) = Push(p, "CHECK_CONTAINS", 0)
    BY <1>0, PopPush
  <2>3. Follows("END", 0, s, p)
    BY <1>4, <2>2, PushNothing, 0 + 1 = 1 DEF Follows, After
  <2>. QED BY <1>2, <1>4, <2>1, <2>3 DEF Goes, BarePlace
<1>14. \A i \in 1..Len(q) : Goes(K, q[i], Opens(q, i), d[i], d[i + 1])
  <2>1. d[1 + 1] = s /\ d[2 + 1] = s /\ d[3 + 1] = s /\ d[4 + 1] = p
    BY <1>5
  <2>. QED BY <1>3, <1>5, <1>6, <1>8, <1>10, <1>11, <1>12, <1>13, <2>1
<1>15. Nested(K, q, p, p)
  <2>1. d[Len(q) + 1] = p
    BY <1>3, <1>5
  <2>. QED BY <1>3, <1>5, <1>9, <1>14, <2>1 DEF Nested
<1>. QED BY <1>15 DEF q, w, x, y, z

\* An instruction with a count and that many names.
LEMMA NestedCounted ==
  ASSUME NEW K, NEW op \in {"CHECK_DEP_REQUIRED", "DISCRIMINATOR"}, NEW arg,
         NEW names, IsSeq(names),
         \A i \in 1..Len(names) : /\ IsStep(K, names[i]) /\ Op(names[i]) = "NOP"
                                  /\ names[i].do = "emit",
         NEW p, BarePlace(p),
         op = "DISCRIMINATOR" => Len(names) # 0 /\ ~Skippable(K.skips, p),
         NEW m, m = IF op = "DISCRIMINATOR" THEN Len(names) ELSE 0
  PROVE  Nested(K, <<Emit(op, arg), Emit("NOP", Len(names))>> \o names, p, Push(p, op, m))
<1>. DEFINE x == Emit(op, arg)
            y == Emit("NOP", Len(names))
            c == <<x, y>>
            r == c \o names
<1>0. PICK n \in Nat : n = Len(names)
  BY SeqParts
<1>1. /\ IsStep(K, x) /\ Op(x) = op /\ x.do = "emit" /\ x.ins.op = op
      /\ IsStep(K, y) /\ Op(y) = "NOP" /\ y.ins.arg = n /\ y.do = "emit"
  <2>1. op \in Ops /\ "NOP" \in Ops
    BY DEF Ops, BranchOps
  <2>. QED BY <1>0, <2>1, EmitIsStep DEF Emit, Instr
<1>. HIDE DEF x, y
<1>2. IsSeq(c) /\ Len(c) = 2 /\ c[1] = x /\ c[2] = y
  BY c \in Seq({x, y}) DEF IsSeq
<1>. HIDE DEF c
<1>3. /\ IsSeq(r) /\ Len(r) = Len(c) + Len(names)
      /\ \A i \in 1..Len(c) : r[i] = c[i]
      /\ \A i \in 1..Len(names) : r[i + Len(c)] = names[i]
  <2>1. IsSeq(c) /\ IsSeq(names)
    BY <1>2
  <2>. QED BY <2>1, ConcatAny
<1>. HIDE DEF r
<1>5. /\ Len(r) = n + 2 /\ DOMAIN r = 1..(n + 2) /\ r[1] = x /\ r[2] = y
      /\ \A i \in 1..n : r[i + 2] = names[i]
  <2>0. DOMAIN r = 1..Len(r)
    BY <1>3, SeqParts
  <2>1. Len(r) = n + 2 /\ DOMAIN r = 1..Len(r)
    BY <1>0, <1>2, <1>3, <2>0
  <2>2. 1 \in 1..Len(c) /\ 2 \in 1..Len(c)
    BY <1>2
  <2>. QED BY <1>0, <1>2, <1>3, <2>1, <2>2
<1>6. \A i \in 1..n : IsStep(K, names[i]) /\ Op(names[i]) = "NOP" /\ names[i].do = "emit"
  BY <1>0
<1>7. ASSUME NEW i \in 2..(n + 2)
      PROVE  IsStep(K, r[i]) /\ Op(r[i]) = "NOP" /\ r[i].do = "emit" /\ r[i].ins.op = "NOP"
  <2>1. IsStep(K, r[i]) /\ Op(r[i]) = "NOP" /\ r[i].do = "emit"
    <3>1. CASE i = 2
      BY <1>1, <1>5, <3>1
    <3>2. CASE i # 2
      <4>1. i - 2 \in 1..n /\ (i - 2) + 2 = i
        BY <3>2
      <4>. QED BY <1>5, <1>6, <4>1
    <3>. QED BY <3>1, <3>2
  <2>. QED BY <2>1 DEF Op
<1>8. ASSUME NEW i \in 1..(n + 2) PROVE IsStep(K, r[i]) /\ Operands(r, i)
  <2>1. CASE i = 1
    <3>0. 1 + 1 = 2 /\ 2 \in 1..(n + 2)
      OBVIOUS
    <3>1. IsNop(r, 1 + 1) /\ r[1 + 1].ins.arg = n
      BY <1>1, <1>5, <3>0 DEF IsNop
    <3>2. ASSUME NEW k \in 1..n PROVE IsNop(r, (1 + 1) + k)
      <4>1. (1 + 1) + k \in 2..(n + 2) /\ (1 + 1) + k \in 1..(n + 2)
        OBVIOUS
      <4>. QED BY <1>5, <1>7, <4>1 DEF IsNop
    <3>. QED BY <1>1, <1>5, <2>1, <3>1, <3>2 DEF Operands, ManySubs
  <2>2. CASE i # 1
    BY <1>7, <2>2 DEF Operands, ManySubs
  <2>. QED BY <2>1, <2>2
<1>9. /\ Opens(r, 1) = m
      /\ \A i \in 2..(n + 2) : Opens(r, i) = 0
  <2>1. Opens(r, 1) = m
    <3>1. r[1] = x /\ r[1 + 1].ins.arg = n /\ Op(x) = op
      BY <1>1, <1>5
    <3>. QED BY <1>0, <3>1 DEF Opens, OneSub, ManySubs, BlockOps, CondParts
  <2>2. ASSUME NEW i \in 2..(n + 2) PROVE Opens(r, i) = 0
    BY <1>7 DEF Opens, OneSub, ManySubs, BlockOps, CondParts
  <2>. QED BY <2>1, <2>2
<1>10. m \in Nat /\ (op = "DISCRIMINATOR" => m > 0)
  BY <1>0
<1>11. PICK s : s = Push(p, op, m) /\ BarePlace(s)
  <2>1. op \in Marks
    BY DEF Marks, Ops, BranchOps
  <2>. QED BY <1>10, <2>1, PushIsPlace
<1>. DEFINE d == [i \in 1..((n + 2) + 1) |-> IF i = 1 THEN p ELSE s]
<1>12. d[1] = p /\ \A i \in 2..((n + 2) + 1) : d[i] = s
  OBVIOUS
<1>. HIDE DEF d
<1>13. ASSUME NEW i \in 1..(n + 2) PROVE Goes(K, r[i], Opens(r, i), d[i], d[i + 1])
  <2>1. CASE i = 1
    <3>1. Permitted(K.skips, op, m, p)
      BY <1>10 DEF Permitted, BarePlace, CompositionOps
    <3>2. Follows(op, m, p, s)
      BY <1>11 DEF Follows, After
    <3>3. Goes(K, x, m, p, s)
      BY <1>1, <3>1, <3>2 DEF Goes, BarePlace
    <3>4. d[1 + 1] = s
      BY <1>12, 1 + 1 \in 2..((n + 2) + 1)
    <3>. QED BY <1>5, <1>9, <1>12, <2>1, <3>3, <3>4
  <2>2. CASE i # 1
    <3>1. i \in 2..(n + 2) /\ i \in 2..((n + 2) + 1) /\ i + 1 \in 2..((n + 2) + 1)
      BY <2>2
    <3>2. Permitted(K.skips, "NOP", 0, s)
      BY <1>11 DEF Permitted, BarePlace, CompositionOps
    <3>3. Follows("NOP", 0, s, s)
      BY <1>11, PushNothing DEF Follows, After
    <3>4. Goes(K, r[i], 0, s, s)
      BY <1>7, <1>11, <3>1, <3>2, <3>3 DEF Goes, BarePlace
    <3>. QED BY <1>9, <1>12, <3>1, <3>4
  <2>. QED BY <2>1, <2>2
<1>14. Nested(K, r, p, s)
  <2>1. d[(n + 2) + 1] = s
    BY <1>12, (n + 2) + 1 \in 2..((n + 2) + 1)
  <2>. QED BY <1>3, <1>5, <1>8, <1>12, <1>13, <2>1 DEF Nested
<1>. QED BY <1>11, <1>14 DEF r, c, x, y

\* The alternatives of a composition close as many sub-programs as they are.
LEMMA NestedBranches ==
  ASSUME NEW K, NEW nodes \in Seq(K.ids), NEW p, BarePlace(p), NEW op \in Marks,
         op \notin K.skips, ~Skippable(K.skips, p)
  PROVE  Nested(K, Branches(nodes), Push(p, op, Len(nodes)), p)
<1>. DEFINE seqs == [i \in DOMAIN nodes |-> <<Sub(nodes[i]), Emit("END", 0)>>]
            d == [i \in 0..Len(nodes) |-> Push(p, op, Len(nodes) - i)]
<1>1. PICK n \in Nat : n = Len(nodes) /\ DOMAIN nodes = 1..n
  BY LenProperties
<1>2. IsSeq(seqs) /\ Len(seqs) = n
  <2>1. seqs = [i \in 1..n |-> seqs[i]]
    BY <1>1
  <2>. HIDE DEF seqs
  <2>. QED BY <2>1, LoopIsSeq
<1>3. \A i \in 0..n : d[i] = Push(p, op, n - i)
  BY <1>1
<1>. HIDE DEF d
<1>4. ASSUME NEW i \in 1..n
      PROVE  Nested(K, seqs[i], d[i - 1], d[i])
  <2>1. PICK k \in Nat : k = n - i /\ n - (i - 1) = k + 1
    <3>1. n - i \in Nat /\ n - (i - 1) = (n - i) + 1
      OBVIOUS
    <3>. QED BY <3>1
  <2>2. d[i] = Push(p, op, k) /\ d[i - 1] = Push(p, op, k + 1)
    BY <1>3, <2>1, i \in 0..n, i - 1 \in 0..n
  <2>3. Reaches(K, op, p, nodes[i])
    BY <1>1 DEF Reaches
  <2>4. PICK node, t : node = nodes[i] /\ t = Push(p, op, k)
    OBVIOUS
  <2>5. Nested(K, <<Sub(node), Emit("END", 0)>>, Push(p, op, k + 1), t)
    BY <2>3, <2>4, NestedBranch
  <2>6. seqs[i] = <<Sub(node), Emit("END", 0)>>
    BY <1>1, <2>4
  <2>. HIDE DEF seqs
  <2>. QED BY <2>2, <2>4, <2>5, <2>6
<1>5. d[0] = Push(p, op, n) /\ d[n] = p
  BY <1>3, PushNothing, 0 \in 0..n, n \in 0..n, n - 0 = n, n - n = 0
<1>. HIDE DEF seqs
<1>6. Nested(K, FlattenSeq(seqs), d[0], d[Len(seqs)])
  <2>1. \A i \in 1..Len(seqs) : Nested(K, seqs[i], d[i - 1], d[i])
    BY <1>2, <1>4
  <2>. QED BY <1>2, <2>1, FlattenNested
<1>. QED BY <1>1, <1>2, <1>5, <1>6 DEF Branches, Loop, seqs

-----------------------------------------------------------------------------
(* What the keywords of one group compile to.                              *)

\* What is known of a schema: skip_to_end goes over plain ones only, and what a
\* plain one leads to is plain.
NodeSafe(K, s, plain) ==
  /\ K.skips \subseteq SkippedOps
  /\ K.skips # {} => SkippedChildren(s) \subseteq K.plain
  /\ plain => Children(s) \subseteq K.plain /\ ~HasComposition(s)

LEMMA FieldSafe ==
  ASSUME NEW K, NEW plain, NEW s, NodeSafe(K, s, plain),
         NEW field \in NodeFields, Has(s, field),
         NEW op, op \in K.skips => field \notin {"ref_resolved", "not_schema", "if_schema"}
  PROVE  op \in K.skips \/ plain => s[field] \in K.plain
<1>1. \A fields : field \in fields => s[field] \in Subschemas(s, fields)
  BY DEF Subschemas
<1>2. plain => s[field] \in K.plain
  BY <1>1 DEF NodeSafe, Children
<1>3. op \in K.skips => s[field] \in K.plain
  BY <1>1 DEF NodeSafe, SkippedChildren
<1>. QED BY <1>2, <1>3

LEMMA ListSafe ==
  ASSUME NEW K, NEW plain, NEW s, NodeSafe(K, s, plain), NEW field \in ListFields,
         NEW list, list = Opt(s, field, <<>>), NEW i \in DOMAIN list, NEW op
  PROVE  op \in K.skips \/ plain => list[i].schema \in K.plain
<1>1. Has(s, field) /\ list = s[field]
  BY DOMAIN <<>> = {} DEF Opt
<1>2. \A fields : s[field][i].schema \in Subschemas(s, fields)
  BY <1>1 DEF Subschemas
<1>3. list[i].schema \in Children(s) /\ list[i].schema \in SkippedChildren(s)
  BY <1>1, <1>2 DEF Children, SkippedChildren
<1>. QED BY <1>3 DEF NodeSafe

LEMMA PrefixSafe ==
  ASSUME NEW K, NEW plain, NEW s, NodeSafe(K, s, plain),
         NEW list, list = Opt(s, "prefix_items", <<>>), NEW i \in DOMAIN list, NEW op
  PROVE  op \in K.skips \/ plain => list[i] \in K.plain
<1>1. \A fields : list[i] \in Subschemas(s, fields)
  BY DEF Subschemas
<1>2. list[i] \in Children(s) /\ list[i] \in SkippedChildren(s)
  BY <1>1 DEF Children, SkippedChildren
<1>. QED BY <1>2 DEF NodeSafe

LEMMA ClosedConcat ==
  ASSUME NEW K, NEW plain, NEW p, NEW q, Closed(K, p, plain), Closed(K, q, plain)
  PROVE  Closed(K, p \o q, plain)
BY NestedConcat DEF Closed

LEMMA ClosedNothing ==
  ASSUME NEW K, NEW plain
  PROVE  Closed(K, <<>>, plain)
BY NestedNothing DEF Closed

LEMMA EmitIfClosed ==
  ASSUME NEW K, NEW plain, NEW s, NEW field, NEW op \in LeafOps
  PROVE  Closed(K, EmitIf(s, field, op), plain)
<1>1. Closed(K, <<Emit(op, s[field])>>, plain)
  BY ClosedLeaf
<1>. QED BY <1>1, ClosedNothing DEF EmitIf

LEMMA FlagIfClosed ==
  ASSUME NEW K, NEW plain, NEW s, NEW field, NEW op \in LeafOps
  PROVE  Closed(K, FlagIf(s, field, op), plain)
<1>1. Closed(K, <<Emit(op, 0)>>, plain)
  BY ClosedLeaf
<1>. QED BY <1>1, ClosedNothing DEF FlagIf

LEMMA BlockIfClosed ==
  ASSUME NEW K, NEW plain, NEW s, NodeSafe(K, s, plain), IsNode(s, K.ids), NEW field \in NodeFields,
         NEW op \in OneSub \ ({"CHECK_CONTAINS", "ENTER_PREFIX_ITEM"} \cup CondParts),
         op \in K.skips => field \notin {"ref_resolved", "not_schema", "if_schema"}
  PROVE  Closed(K, BlockIf(s, field, op), plain)
<1>1. CASE Has(s, field)
  <2>1. s[field] \in K.ids
    BY <1>1 DEF IsNode, NodeFields
  <2>2. op \in K.skips \/ plain => s[field] \in K.plain
    BY <1>1, FieldSafe
  <2>3. Closed(K, Block(op, 0, s[field]), plain)
    BY <2>1, <2>2, ClosedBlock
  <2>. QED BY <1>1, <2>3 DEF BlockIf
<1>2. CASE ~Has(s, field)
  BY <1>2, ClosedNothing DEF BlockIf
<1>. QED BY <1>1, <1>2

\* A loop over a list.
LEMMA LoopClosed ==
  ASSUME NEW K, NEW plain, NEW list, IsList(list), NEW seqs, seqs = [i \in DOMAIN list |-> seqs[i]],
         \A i \in DOMAIN list : Closed(K, seqs[i], plain)
  PROVE  Closed(K, FlattenSeq(seqs), plain)
<1>1. PICK n \in Nat : DOMAIN list = 1..n
  BY LenProperties DEF IsList
<1>2. IsSeq(seqs) /\ Len(seqs) = n
  BY <1>1, LoopIsSeq
<1>3. IsSeq(seqs) /\ \A i \in 1..Len(seqs) : Closed(K, seqs[i], plain)
  BY <1>1, <1>2
<1>. QED BY <1>3, FlattenClosed

LEMMA TypeClosed ==
  ASSUME NEW K, NEW plain, NEW s
  PROVE  Closed(K, TypePlan(s), plain)
<1>1. \A types : Closed(K, <<Emit("CHECK_TYPE", types)>>, plain)
  BY ClosedLeaf, "CHECK_TYPE" \in LeafOps DEF LeafOps
<1>. QED BY <1>1, ClosedNothing DEF TypePlan

LEMMA RegexClosed ==
  ASSUME NEW K, NEW plain, NEW pattern
  PROVE  Closed(K, <<Regex(pattern)>>, plain)
<1>. DEFINE st == Regex(pattern)
<1>1. IsStep(K, st) /\ Op(st) = "regex" /\ st.do = "regex"
  BY DEF IsStep, Op, Regex
<1>2. "regex" \notin OneSub \cup ManySubs
  BY DEF OneSub, ManySubs, BlockOps, CondParts
<1>. HIDE DEF st
<1>3. ASSUME NEW p, BarePlace(p) PROVE Nested(K, <<st>>, p, p)
  <2>1. Goes(K, st, 0, p, p)
    BY <1>1, <1>3 DEF Goes
  <2>. QED BY <1>1, <1>2, <2>1, NestedStep
<1>. QED BY <1>3 DEF Closed, st

LEMMA StringClosed ==
  ASSUME NEW K, NEW plain, NEW s, NEW cfg
  PROVE  Closed(K, StringPlan(s, cfg), plain)
<1>. DEFINE a == EmitIf(s, "min_length", "CHECK_MIN_LEN")
            b == EmitIf(s, "max_length", "CHECK_MAX_LEN")
            c == IF Has(s, "pattern") /\ cfg.regex
                 THEN <<Regex(s.pattern), Emit("CHECK_PATTERN", s.pattern)>> ELSE <<>>
            d == IF Opt(s, "format", "") \in KnownFormats /\ cfg.formats
                 THEN <<Emit("CHECK_FORMAT", s.format)>> ELSE <<>>
<1>1. {"CHECK_MIN_LEN", "CHECK_MAX_LEN", "CHECK_PATTERN", "CHECK_FORMAT"} \subseteq LeafOps
  BY DEF LeafOps
<1>2. Closed(K, a, plain) /\ Closed(K, b, plain)
  BY <1>1, EmitIfClosed
<1>3. Closed(K, c, plain)
  <2>1. Closed(K, <<Regex(s.pattern)>>, plain)
    BY RegexClosed
  <2>2. Closed(K, <<Emit("CHECK_PATTERN", s.pattern)>>, plain)
    BY <1>1, ClosedLeaf
  <2>3. Closed(K, <<Regex(s.pattern)>> \o <<Emit("CHECK_PATTERN", s.pattern)>>, plain)
    BY <2>1, <2>2, ClosedConcat
  <2>4. Closed(K, <<Regex(s.pattern), Emit("CHECK_PATTERN", s.pattern)>>, plain)
    BY <2>3, StepsAsConcat
  <2>. QED BY <2>4, ClosedNothing
<1>4. Closed(K, d, plain)
  <2>1. Closed(K, <<Emit("CHECK_FORMAT", s.format)>>, plain)
    BY <1>1, ClosedLeaf
  <2>. QED BY <2>1, ClosedNothing
<1>5. StringPlan(s, cfg) = ((a \o b) \o c) \o d
  BY DEF StringPlan
<1>. HIDE DEF a, b, c, d
<1>6. Closed(K, (a \o b) \o c, plain)
  BY <1>2, <1>3, ClosedConcat
<1>. QED BY <1>4, <1>5, <1>6, ClosedConcat

LEMMA NumberClosed ==
  ASSUME NEW K, NEW plain, NEW s
  PROVE  Closed(K, NumberPlan(s), plain)
<1>. DEFINE a == EmitIf(s, "minimum", "CHECK_MINIMUM")
            b == EmitIf(s, "maximum", "CHECK_MAXIMUM")
            c == EmitIf(s, "exclusive_minimum", "CHECK_EX_MINIMUM")
            d == EmitIf(s, "exclusive_maximum", "CHECK_EX_MAXIMUM")
            e == EmitIf(s, "multiple_of", "CHECK_MULTIPLE_OF")
<1>1. {"CHECK_MINIMUM", "CHECK_MAXIMUM", "CHECK_EX_MINIMUM", "CHECK_EX_MAXIMUM",
       "CHECK_MULTIPLE_OF"} \subseteq LeafOps
  BY DEF LeafOps
<1>2. /\ Closed(K, a, plain) /\ Closed(K, b, plain) /\ Closed(K, c, plain)
      /\ Closed(K, d, plain) /\ Closed(K, e, plain)
  BY <1>1, EmitIfClosed
<1>3. NumberPlan(s) = (((a \o b) \o c) \o d) \o e
  BY DEF NumberPlan
<1>. HIDE DEF a, b, c, d, e
<1>4. Closed(K, (a \o b) \o c, plain)
  BY <1>2, ClosedConcat
<1>5. Closed(K, ((a \o b) \o c) \o d, plain)
  BY <1>2, <1>4, ClosedConcat
<1>. QED BY <1>2, <1>3, <1>5, ClosedConcat

LEMMA ArrayClosed ==
  ASSUME NEW K, NEW plain, NEW s, IsNode(s, K.ids), NodeSafe(K, s, plain)
  PROVE  Closed(K, ArrayPlan(s), plain)
<1>. DEFINE prefix == Opt(s, "prefix_items", <<>>)
            seqs == [i \in DOMAIN prefix |-> Block("ENTER_PREFIX_ITEM", i - 1, prefix[i])]
            a == EmitIf(s, "min_items", "CHECK_MIN_ITEMS")
            b == EmitIf(s, "max_items", "CHECK_MAX_ITEMS")
            c == FlagIf(s, "unique_items", "CHECK_UNIQUE")
            d == FlattenSeq(seqs)
            e == BlockIf(s, "items", "ENTER_ITEMS")
<1>1. {"CHECK_MIN_ITEMS", "CHECK_MAX_ITEMS", "CHECK_UNIQUE"} \subseteq LeafOps
  BY DEF LeafOps
<1>2. /\ Closed(K, a, plain) /\ Closed(K, b, plain) /\ Closed(K, c, plain)
  BY <1>1, EmitIfClosed, FlagIfClosed
<1>3. Closed(K, d, plain)
  <2>1. prefix \in Seq(K.ids)
    BY DEF IsNode
  <2>. HIDE DEF prefix
  <2>2. PICK n \in Nat : DOMAIN prefix = 1..n
    BY <2>1, LenProperties
  <2>3. ASSUME NEW i \in 1..n PROVE Closed(K, seqs[i], plain)
    <3>1. prefix[i] \in K.ids /\ i - 1 \in Nat
      BY <2>1, <2>2
    <3>2. "ENTER_PREFIX_ITEM" \in OneSub \ ({"CHECK_CONTAINS"} \cup CondParts)
      BY DEF OneSub, BlockOps, CondParts
    <3>3. "ENTER_PREFIX_ITEM" \in K.skips \/ plain => prefix[i] \in K.plain
      BY <2>2, PrefixSafe DEF prefix
    <3>4. Closed(K, Block("ENTER_PREFIX_ITEM", i - 1, prefix[i]), plain)
      BY <3>1, <3>2, <3>3, ClosedBlock
    <3>. QED BY <2>2, <3>4
  <2>4. seqs = [i \in 1..n |-> seqs[i]]
    BY <2>2
  <2>. HIDE DEF seqs
  <2>5. IsSeq(seqs) /\ Len(seqs) = n
    BY <2>4, LoopIsSeq
  <2>6. IsSeq(seqs) /\ \A i \in 1..Len(seqs) : Closed(K, seqs[i], plain)
    BY <2>3, <2>5
  <2>. QED BY <2>6, FlattenClosed
<1>4. Closed(K, e, plain)
  <2>1. "ENTER_ITEMS" \in OneSub \ ({"CHECK_CONTAINS", "ENTER_PREFIX_ITEM"} \cup CondParts)
    BY DEF OneSub, BlockOps, CondParts
  <2>2. "items" \in NodeFields /\ "items" \notin {"ref_resolved", "not_schema", "if_schema"}
    BY DEF NodeFields
  <2>. QED BY <2>1, <2>2, BlockIfClosed
<1>5. ArrayPlan(s) = (((a \o b) \o c) \o d) \o e
  BY DEF ArrayPlan
<1>. HIDE DEF prefix, seqs, a, b, c, d, e
<1>6. Closed(K, (a \o b) \o c, plain)
  BY <1>2, ClosedConcat
<1>7. Closed(K, ((a \o b) \o c) \o d, plain)
  BY <1>3, <1>6, ClosedConcat
<1>. QED BY <1>4, <1>5, <1>7, ClosedConcat

LEMMA ObjectClosed ==
  ASSUME NEW K, NEW plain, NEW s, IsNode(s, K.ids), NodeSafe(K, s, plain)
  PROVE  Closed(K, ObjectPlan(s), plain)
<1>. DEFINE names == Opt(s, "required", <<>>)
            props == Opt(s, "properties", <<>>)
            nameSeqs == [i \in DOMAIN names |-> <<Emit("CHECK_REQUIRED", names[i])>>]
            propSeqs == [i \in DOMAIN props |->
                           Block("ENTER_PROPERTY", props[i].name, props[i].schema)]
            a == FlattenSeq(nameSeqs)
            b == FlattenSeq(propSeqs)
            c == BlockIf(s, "additional_properties", "ENTER_ADDITIONAL")
            d == EmitIf(s, "min_properties", "CHECK_MIN_PROPS")
            e == EmitIf(s, "max_properties", "CHECK_MAX_PROPS")
            f == BlockIf(s, "property_names", "CHECK_PROP_NAMES")
<1>1. {"CHECK_REQUIRED", "CHECK_MIN_PROPS", "CHECK_MAX_PROPS"} \subseteq LeafOps
  BY DEF LeafOps
<1>2. {"ENTER_PROPERTY", "ENTER_ADDITIONAL", "CHECK_PROP_NAMES"}
        \subseteq OneSub \ ({"CHECK_CONTAINS", "ENTER_PREFIX_ITEM"} \cup CondParts)
  BY DEF OneSub, BlockOps, CondParts
<1>3. Closed(K, a, plain)
  <2>1. IsList(names)
    BY DEF IsNode
  <2>. HIDE DEF names
  <2>2. \A i \in DOMAIN names : Closed(K, nameSeqs[i], plain)
    BY <1>1, ClosedLeaf
  <2>3. nameSeqs = [i \in DOMAIN names |-> nameSeqs[i]]
    OBVIOUS
  <2>. HIDE DEF nameSeqs
  <2>. QED BY <2>1, <2>2, <2>3, LoopClosed
<1>4. Closed(K, b, plain)
  <2>1. IsList(props) /\ \A i \in DOMAIN props : props[i].schema \in K.ids
    BY DEF IsNode, Opt
  <2>2. ASSUME NEW i \in DOMAIN props PROVE Closed(K, propSeqs[i], plain)
    <3>1. "ENTER_PROPERTY" \in K.skips \/ plain => props[i].schema \in K.plain
      <4>1. "properties" \in ListFields
        BY DEF ListFields
      <4>2. PICK list : list = props
        OBVIOUS
      <4>. HIDE DEF props
      <4>3. "ENTER_PROPERTY" \in K.skips \/ plain => list[i].schema \in K.plain
        BY <4>1, <4>2, ListSafe DEF props
      <4>. QED BY <4>2, <4>3
    <3>. HIDE DEF props
    <3>2. props[i].schema \in K.ids
      BY <2>1
    <3>3. Closed(K, Block("ENTER_PROPERTY", props[i].name, props[i].schema), plain)
      BY <1>2, <3>1, <3>2, ClosedBlock
    <3>. QED BY <3>3
  <2>. HIDE DEF props
  <2>3. propSeqs = [i \in DOMAIN props |-> propSeqs[i]]
    OBVIOUS
  <2>. HIDE DEF propSeqs
  <2>. QED BY <2>1, <2>2, <2>3, LoopClosed
<1>5. Closed(K, c, plain) /\ Closed(K, f, plain)
  <2>1. {"additional_properties", "property_names"}
          \subseteq NodeFields \ {"ref_resolved", "not_schema", "if_schema"}
    BY DEF NodeFields
  <2>. QED BY <1>2, <2>1, BlockIfClosed
<1>6. Closed(K, d, plain) /\ Closed(K, e, plain)
  BY <1>1, EmitIfClosed
<1>7. ObjectPlan(s) = ((((a \o b) \o c) \o d) \o e) \o f
  BY DEF ObjectPlan, Loop
<1>. HIDE DEF names, props, nameSeqs, propSeqs, a, b, c, d, e, f
<1>8. Closed(K, (a \o b) \o c, plain)
  BY <1>3, <1>4, <1>5, ClosedConcat
<1>9. Closed(K, ((a \o b) \o c) \o d, plain)
  BY <1>6, <1>8, ClosedConcat
<1>10. Closed(K, (((a \o b) \o c) \o d) \o e, plain)
  BY <1>6, <1>9, ClosedConcat
<1>. QED BY <1>5, <1>7, <1>10, ClosedConcat

LEMMA PatternPropsClosed ==
  ASSUME NEW K, NEW plain, NEW s, IsNode(s, K.ids), NodeSafe(K, s, plain), NEW cfg
  PROVE  Closed(K, PatternPropsPlan(s, cfg), plain)
<1>. DEFINE list == Opt(s, "pattern_properties", <<>>)
            seqs == [i \in DOMAIN list |->
                       <<Regex(list[i].pattern)>>
                         \o Block("CHECK_PATTERN_PROPS", list[i].pattern, list[i].schema)]
<1>1. IsList(list) /\ \A i \in DOMAIN list : list[i].schema \in K.ids
  BY DEF IsNode, Opt
<1>2. PatternPropsPlan(s, cfg) = IF cfg.regex THEN FlattenSeq(seqs) ELSE <<>>
  BY DEF PatternPropsPlan, Loop
<1>s. \A i \in DOMAIN list : "CHECK_PATTERN_PROPS" \in K.skips \/ plain
                               => list[i].schema \in K.plain
  <2>1. "pattern_properties" \in ListFields
    BY DEF ListFields
  <2>. QED BY <2>1, ListSafe
<1>. HIDE DEF list
<1>3. ASSUME NEW i \in DOMAIN list PROVE Closed(K, seqs[i], plain)
  <2>1. Closed(K, <<Regex(list[i].pattern)>>, plain)
    BY RegexClosed
  <2>2. Closed(K, Block("CHECK_PATTERN_PROPS", list[i].pattern, list[i].schema), plain)
    BY <1>1, <1>s, ClosedBlock,
       "CHECK_PATTERN_PROPS" \in OneSub \ ({"CHECK_CONTAINS"} \cup CondParts),
       "CHECK_PATTERN_PROPS" # "ENTER_PREFIX_ITEM"
    DEF OneSub, BlockOps, CondParts
  <2>3. Closed(K, <<Regex(list[i].pattern)>>
                      \o Block("CHECK_PATTERN_PROPS", list[i].pattern, list[i].schema), plain)
    BY <2>1, <2>2, ClosedConcat
  <2>. QED BY <2>3
<1>4. seqs = [i \in DOMAIN list |-> seqs[i]]
  OBVIOUS
<1>. HIDE DEF seqs
<1>5. Closed(K, FlattenSeq(seqs), plain)
  BY <1>1, <1>3, <1>4, LoopClosed
<1>. QED BY <1>2, <1>5, ClosedNothing

\* A count of names, and the names behind it, one to a sequence.
LEMMA NamesBehindCount ==
  ASSUME NEW K, NEW seqs, IsSeq(seqs), NEW names,
         \A i \in 1..Len(seqs) : seqs[i] = <<names[i]>>,
         \A i \in 1..Len(seqs) : /\ IsStep(K, names[i]) /\ Op(names[i]) = "NOP"
                                 /\ names[i].do = "emit",
         NEW op \in {"CHECK_DEP_REQUIRED", "DISCRIMINATOR"}, NEW arg,
         NEW p, BarePlace(p),
         op = "DISCRIMINATOR" => Len(seqs) # 0 /\ ~Skippable(K.skips, p),
         NEW m, m = IF op = "DISCRIMINATOR" THEN Len(seqs) ELSE 0
  PROVE  Nested(K, <<Emit(op, arg), Emit("NOP", Len(seqs))>> \o FlattenSeq(seqs), p,
                Push(p, op, m))
<1>1. PICK q : q = FlattenSeq(seqs)
  OBVIOUS
<1>2. IsSeq(q) /\ Len(q) = Len(seqs) /\ \A i \in 1..Len(seqs) : q[i] = names[i]
  <2>1. /\ IsSeq(FlattenSeq(seqs)) /\ Len(FlattenSeq(seqs)) = Len(seqs)
        /\ \A i \in 1..Len(seqs) : FlattenSeq(seqs)[i] = names[i]
    BY FlattenSingles, Zenon
  <2>. QED BY <1>1, <2>1
<1>3. \A i \in 1..Len(q) : IsStep(K, q[i]) /\ Op(q[i]) = "NOP" /\ q[i].do = "emit"
  BY <1>2
<1>4. m = IF op = "DISCRIMINATOR" THEN Len(q) ELSE 0
  BY <1>2
<1>5. op = "DISCRIMINATOR" => Len(q) # 0 /\ ~Skippable(K.skips, p)
  BY <1>2
<1>6. Nested(K, <<Emit(op, arg), Emit("NOP", Len(q))>> \o q, p, Push(p, op, m))
  BY <1>2, <1>3, <1>4, <1>5, NestedCounted
<1>. QED BY <1>1, <1>2, <1>6

\* The names that follow a count.
LEMMA CountedNames ==
  ASSUME NEW K, NEW list, IsList(list), NEW names,
         \A i \in DOMAIN list : /\ IsStep(K, names[i]) /\ Op(names[i]) = "NOP"
                                /\ names[i].do = "emit",
         NEW op \in {"CHECK_DEP_REQUIRED", "DISCRIMINATOR"}, NEW arg,
         NEW seqs, seqs = [i \in DOMAIN list |-> <<names[i]>>],
         NEW p, BarePlace(p),
         op = "DISCRIMINATOR" => Len(list) # 0 /\ ~Skippable(K.skips, p),
         NEW m, m = IF op = "DISCRIMINATOR" THEN Len(list) ELSE 0
  PROVE  Nested(K, <<Emit(op, arg), Emit("NOP", Len(list))>> \o FlattenSeq(seqs), p,
                Push(p, op, m))
<1>1. PICK n \in Nat : DOMAIN list = 1..n /\ n = Len(list)
  BY LenProperties DEF IsList
<1>2. seqs = [i \in 1..n |-> seqs[i]]
  BY <1>1
<1>3. IsSeq(seqs) /\ Len(seqs) = n
  BY <1>1, <1>2, LoopIsSeq
<1>4. /\ \A i \in 1..Len(seqs) : seqs[i] = <<names[i]>>
      /\ \A i \in 1..Len(seqs) : /\ IsStep(K, names[i]) /\ Op(names[i]) = "NOP"
                                 /\ names[i].do = "emit"
  BY <1>1, <1>3
<1>5. Len(seqs) = Len(list)
  BY <1>1, <1>3
<1>6. m = IF op = "DISCRIMINATOR" THEN Len(seqs) ELSE 0
  BY <1>5, Zenon
<1>7. op = "DISCRIMINATOR" => Len(seqs) # 0 /\ ~Skippable(K.skips, p)
  BY <1>5, Zenon
<1>8. Nested(K, <<Emit(op, arg), Emit("NOP", Len(seqs))>> \o FlattenSeq(seqs), p,
             Push(p, op, m))
  BY <1>3, <1>4, <1>6, <1>7, NamesBehindCount, Zenon
<1>. QED BY <1>5, <1>8, Zenon

LEMMA NopIsStep ==
  ASSUME NEW K, NEW arg
  PROVE  /\ IsStep(K, Emit("NOP", arg)) /\ Op(Emit("NOP", arg)) = "NOP"
         /\ Emit("NOP", arg).do = "emit"
BY EmitIsStep, "NOP" \in Ops DEF Ops, Emit

LEMMA DependentClosed ==
  ASSUME NEW K, NEW plain, NEW s, IsNode(s, K.ids), NodeSafe(K, s, plain)
  PROVE  Closed(K, DependentPlan(s), plain)
<1>. DEFINE reqs == Opt(s, "dependent_required", <<>>)
            subs == Opt(s, "dependent_schemas", <<>>)
            Names(i) == [k \in DOMAIN reqs[i].required |-> <<Emit("NOP", reqs[i].required[k])>>]
            reqSeqs == [i \in DOMAIN reqs |->
                          <<Emit("CHECK_DEP_REQUIRED", reqs[i].property),
                            Emit("NOP", Len(reqs[i].required))>> \o FlattenSeq(Names(i))]
            subSeqs == [i \in DOMAIN subs |->
                          Block("CHECK_DEP_SCHEMA", subs[i].property, subs[i].schema)]
            a == FlattenSeq(reqSeqs)
            b == FlattenSeq(subSeqs)
<1>1. Closed(K, a, plain)
  <2>1. IsList(reqs) /\ \A i \in DOMAIN reqs : IsList(reqs[i].required)
    BY DEF IsNode, Opt
  <2>. HIDE DEF reqs
  <2>2. ASSUME NEW i \in DOMAIN reqs PROVE Closed(K, reqSeqs[i], plain)
    <3>. DEFINE list == reqs[i].required
                names == [k \in DOMAIN list |-> Emit("NOP", list[k])]
                seqs == [k \in DOMAIN list |-> <<names[k]>>]
    <3>1. IsList(list)
      BY <2>1
    <3>2. \A k \in DOMAIN list : /\ IsStep(K, names[k]) /\ Op(names[k]) = "NOP"
                                 /\ names[k].do = "emit"
      BY NopIsStep
    <3>3. Names(i) = seqs
      OBVIOUS
    <3>4. PICK arg : arg = reqs[i].property
      OBVIOUS
    <3>5. reqSeqs[i] = <<Emit("CHECK_DEP_REQUIRED", arg), Emit("NOP", Len(list))>>
                         \o FlattenSeq(seqs)
      BY <3>3, <3>4
    <3>6. seqs = [k \in DOMAIN list |-> <<names[k]>>]
      OBVIOUS
    <3>. HIDE DEF list, names, seqs, reqSeqs
    <3>7. ASSUME NEW p, BarePlace(p)
          PROVE  Nested(K, <<Emit("CHECK_DEP_REQUIRED", arg), Emit("NOP", Len(list))>>
                             \o FlattenSeq(seqs), p, p)
      <4>1. 0 = IF "CHECK_DEP_REQUIRED" = "DISCRIMINATOR" THEN Len(list) ELSE 0
        OBVIOUS
      <4>2. "CHECK_DEP_REQUIRED" = "DISCRIMINATOR" => Len(list) # 0 /\ ~Skippable(K.skips, p)
        OBVIOUS
      <4>3. Nested(K, <<Emit("CHECK_DEP_REQUIRED", arg), Emit("NOP", Len(list))>>
                        \o FlattenSeq(seqs), p, Push(p, "CHECK_DEP_REQUIRED", 0))
        BY <3>1, <3>2, <3>6, <3>7, <4>1, <4>2, CountedNames
      <4>4. Push(p, "CHECK_DEP_REQUIRED", 0) = p
        BY <3>7, PushNothing
      <4>. QED BY <4>3, <4>4
    <3>. QED BY <3>5, <3>7 DEF Closed
  <2>3. reqSeqs = [i \in DOMAIN reqs |-> reqSeqs[i]]
    OBVIOUS
  <2>. HIDE DEF reqSeqs
  <2>. QED BY <2>1, <2>2, <2>3, LoopClosed
<1>2. Closed(K, b, plain)
  <2>1. IsList(subs) /\ \A i \in DOMAIN subs : subs[i].schema \in K.ids
    BY DEF IsNode, Opt
  <2>s. \A i \in DOMAIN subs : "CHECK_DEP_SCHEMA" \in K.skips \/ plain
                                 => subs[i].schema \in K.plain
    <3>1. "dependent_schemas" \in ListFields
      BY DEF ListFields
    <3>. QED BY <3>1, ListSafe
  <2>. HIDE DEF subs
  <2>2. "CHECK_DEP_SCHEMA" \in OneSub \ ({"CHECK_CONTAINS"} \cup CondParts)
        /\ "CHECK_DEP_SCHEMA" # "ENTER_PREFIX_ITEM"
    BY DEF OneSub, CondParts
  <2>3. \A i \in DOMAIN subs : Closed(K, subSeqs[i], plain)
    BY <2>1, <2>2, <2>s, ClosedBlock
  <2>4. subSeqs = [i \in DOMAIN subs |-> subSeqs[i]]
    OBVIOUS
  <2>. HIDE DEF subSeqs
  <2>. QED BY <2>1, <2>3, <2>4, LoopClosed
<1>3. DependentPlan(s) = a \o b
  BY DEF DependentPlan, Loop
<1>. HIDE DEF a, b
<1>. QED BY <1>1, <1>2, <1>3, ClosedConcat

LEMMA ContainsClosed ==
  ASSUME NEW K, NEW plain, NEW s, IsNode(s, K.ids), NodeSafe(K, s, plain)
  PROVE  Closed(K, ContainsPlan(s), plain)
<1>1. CASE Has(s, "contains")
  <2>1. /\ Opt(s, "min_contains", 1) \in Nat /\ Opt(s, "max_contains", -1) \in Int
        /\ s.contains \in K.ids
    BY <1>1 DEF IsNode
  <2>2. "CHECK_CONTAINS" \in K.skips \/ plain => s.contains \in K.plain
    <3>1. "contains" \in NodeFields \ {"ref_resolved", "not_schema", "if_schema"}
      BY DEF NodeFields
    <3>2. "CHECK_CONTAINS" \in K.skips \/ plain => s["contains"] \in K.plain
      BY <1>1, <3>1, FieldSafe
    <3>. QED BY <3>2
  <2>3. PICK least, most : least = Opt(s, "min_contains", 1) /\ most = Opt(s, "max_contains", -1)
    OBVIOUS
  <2>4. Closed(K, <<Emit("CHECK_CONTAINS", least), Emit("NOP", most), Sub(s.contains),
                    Emit("END", 0)>>, plain)
    BY <2>1, <2>2, <2>3, ClosedContains
  <2>. QED BY <1>1, <2>3, <2>4 DEF ContainsPlan
<1>2. CASE ~Has(s, "contains")
  BY <1>2, ClosedNothing DEF ContainsPlan
<1>. QED BY <1>1, <1>2

\* No composition has more alternatives than its count, of 16 bits, can say.
CompositionFits(s) ==
  \A field \in {"all_of", "any_of", "one_of"} : Len(Opt(s, field, <<>>)) < 65536

\* A composition is in no schema that skip_to_end may go over.
LEMMA NotPlain ==
  ASSUME NEW K, NEW plain, NEW s, NodeSafe(K, s, plain),
         NEW field \in {"all_of", "any_of", "one_of"}, Opt(s, field, <<>>) # <<>>
  PROVE  /\ ~plain
         /\ \A op \in CompositionOps : op \notin K.skips
BY DEF NodeSafe, HasComposition, CompositionOps, SkippedOps, BlockOps, CondParts

LEMMA CompositionClosed ==
  ASSUME NEW K, NEW plain, NEW s, IsNode(s, K.ids), NodeSafe(K, s, plain), CompositionFits(s),
         NEW field \in {"all_of", "any_of", "one_of"}, NEW op \in ManySubs
  PROVE  Closed(K, Composition(s, field, op), plain)
<1>. DEFINE nodes == Opt(s, field, <<>>)
<1>1. nodes \in Seq(K.ids) /\ Len(nodes) \in Nat /\ Len(nodes) < 65536
  <2>1. nodes \in Seq(K.ids) /\ Len(nodes) < 65536
    BY DEF IsNode, CompositionFits
  <2>. HIDE DEF nodes
  <2>. QED BY <2>1, LenProperties
<1>2. Composition(s, field, op)
        = IF nodes = <<>> THEN <<>>
          ELSE <<Emit(op, Len(nodes) % 65536)>> \o Branches(nodes)
  BY DEF Composition
<1>n. nodes # <<>> => ~plain /\ op \notin K.skips
  BY NotPlain DEF ManySubs, CompositionOps
<1>. HIDE DEF nodes
<1>3. PICK n \in Nat : n = Len(nodes) /\ n % 65536 = n
  <2>1. \A n \in Nat : n < 65536 => n % 65536 = n
    OBVIOUS
  <2>. QED BY <1>1, <2>1
<1>. DEFINE st == Emit(op, n)
<1>4. IsStep(K, st) /\ Op(st) = op /\ st.ins.arg = n /\ st.do = "emit" /\ st.ins.op = op
  BY EmitIsStep, op \in Ops DEF Ops, BranchOps, ManySubs, Emit, Instr
<1>5. /\ op \notin OneSub \cup CondParts
      /\ op \notin {"CHECK_DEP_REQUIRED", "DISCRIMINATOR", "CHECK_CONTAINS", "END"}
      /\ op \in Marks
  BY DEF ManySubs, OneSub, BlockOps, CondParts, Marks, Ops, BranchOps
<1>. HIDE DEF st
<1>6. ASSUME NEW p, BarePlace(p), nodes # <<>>, Skippable(K.skips, p) => plain
      PROVE  Nested(K, <<st>> \o Branches(nodes), p, p)
  <2>1. ~Skippable(K.skips, p) /\ op \notin K.skips
    BY <1>6, <1>n
  <2>2. n > 0
    BY <1>1, <1>3, <1>6, EmptySeq
  <2>3. Permitted(K.skips, op, n, p) /\ IsPlace(p)
    BY <1>5, <1>6, <2>1, <2>2 DEF Permitted, BarePlace, CondParts
  <2>4. Follows(op, n, p, Push(p, op, n))
    BY <1>5 DEF Follows, After
  <2>5. Goes(K, st, n, p, Push(p, op, n))
    BY <1>4, <2>3, <2>4 DEF Goes
  <2>6. Nested(K, <<st>>, p, Push(p, op, n))
    <3>1. st.ins.arg \in Nat /\ Op(st) \in ManySubs /\ Op(st) \notin OneSub
          /\ Op(st) \notin {"CHECK_DEP_REQUIRED", "DISCRIMINATOR", "CHECK_CONTAINS"}
      BY <1>4, <1>5
    <3>2. n = (IF Op(st) \in OneSub THEN 1
               ELSE IF Op(st) \in ManySubs THEN st.ins.arg ELSE 0)
      BY <1>4, <3>1
    <3>. QED BY <1>4, <2>5, <3>1, <3>2, NestedStep
  <2>7. Nested(K, Branches(nodes), Push(p, op, Len(nodes)), p)
    BY <1>1, <1>5, <1>6, <2>1, NestedBranches
  <2>8. Nested(K, Branches(nodes), Push(p, op, n), p)
    BY <1>3, <2>7
  <2>. QED BY <2>6, <2>8, NestedConcat
<1>7. nodes # <<>> => Closed(K, <<st>> \o Branches(nodes), plain)
  BY <1>6 DEF Closed
<1>. QED BY <1>2, <1>3, <1>7, ClosedNothing DEF st

LEMMA DiscriminatorClosed ==
  ASSUME NEW K, NEW plain, NEW s, IsNode(s, K.ids), NodeSafe(K, s, plain), HasDiscriminator(s)
  PROVE  Closed(K, Discriminator(s), plain)
<1>. DEFINE nodes == IF Opt(s, "one_of", <<>>) # <<>> THEN s.one_of
                     ELSE Opt(s, "any_of", <<>>)
            mapping == s.discriminator_mapping
            names == [i \in DOMAIN mapping |-> Emit("NOP", mapping[i].key)]
            seqs == [i \in DOMAIN mapping |-> <<names[i]>>]
            keys == FlattenSeq(seqs)
            header == <<Emit("DISCRIMINATOR", s.discriminator_property),
                        Emit("NOP", Len(mapping))>>
<1>1. nodes \in Seq(K.ids) /\ IsList(mapping)
  <2>1. Has(s, "discriminator_mapping")
    BY DEF HasDiscriminator, Opt
  <2>2. Opt(s, "one_of", <<>>) \in Seq(K.ids) /\ Opt(s, "any_of", <<>>) \in Seq(K.ids)
        /\ IsList(Opt(s, "discriminator_mapping", <<>>))
    BY DEF IsNode
  <2>. QED BY <2>1, <2>2 DEF Opt
<1>2. Discriminator(s) = IF nodes = <<>> \/ Len(nodes) # Len(mapping) THEN <<>>
                         ELSE (header \o keys) \o Branches(nodes)
  BY DEF Discriminator, Loop
<1>n. nodes # <<>> => ~plain /\ "DISCRIMINATOR" \notin K.skips
  <2>1. nodes # <<>> => Opt(s, "one_of", <<>>) # <<>> \/ Opt(s, "any_of", <<>>) # <<>>
    OBVIOUS
  <2>. QED BY <2>1, NotPlain, "DISCRIMINATOR" \in CompositionOps DEF CompositionOps
<1>3. ASSUME NEW p, BarePlace(p), ~Skippable(K.skips, p), Len(mapping) # 0
      PROVE  Nested(K, header \o keys, p, Push(p, "DISCRIMINATOR", Len(mapping)))
  <2>1. \A i \in DOMAIN mapping : /\ IsStep(K, names[i]) /\ Op(names[i]) = "NOP"
                                  /\ names[i].do = "emit"
    BY NopIsStep
  <2>2. seqs = [i \in DOMAIN mapping |-> <<names[i]>>]
    OBVIOUS
  <2>3. PICK arg : arg = s.discriminator_property
    OBVIOUS
  <2>4. header = <<Emit("DISCRIMINATOR", arg), Emit("NOP", Len(mapping))>>
    BY <2>3
  <2>. HIDE DEF mapping, names, seqs, header
  <2>5. PICK m : m = Len(mapping)
    OBVIOUS
  <2>6. m = IF "DISCRIMINATOR" = "DISCRIMINATOR" THEN Len(mapping) ELSE 0
    BY <2>5
  <2>7. "DISCRIMINATOR" = "DISCRIMINATOR" => Len(mapping) # 0 /\ ~Skippable(K.skips, p)
    BY <1>3
  <2>8. Nested(K, <<Emit("DISCRIMINATOR", arg), Emit("NOP", Len(mapping))>> \o FlattenSeq(seqs),
               p, Push(p, "DISCRIMINATOR", m))
    BY <1>1, <1>3, <2>1, <2>2, <2>6, <2>7, CountedNames
  <2>. QED BY <2>4, <2>5, <2>8
<1>. HIDE DEF nodes, mapping, names, seqs, keys, header
<1>4. ASSUME nodes # <<>>, Len(nodes) = Len(mapping),
             NEW p, BarePlace(p), Skippable(K.skips, p) => plain
      PROVE  Nested(K, (header \o keys) \o Branches(nodes), p, p)
  <2>1. ~Skippable(K.skips, p) /\ "DISCRIMINATOR" \notin K.skips
    BY <1>4, <1>n
  <2>2. Len(mapping) # 0
    BY <1>1, <1>4, EmptySeq
  <2>3. Nested(K, header \o keys, p, Push(p, "DISCRIMINATOR", Len(nodes)))
    BY <1>3, <1>4, <2>1, <2>2
  <2>4. "DISCRIMINATOR" \in Marks
    BY DEF Marks, Ops, BranchOps
  <2>5. Nested(K, Branches(nodes), Push(p, "DISCRIMINATOR", Len(nodes)), p)
    BY <1>1, <1>4, <2>1, <2>4, NestedBranches
  <2>. QED BY <2>3, <2>5, NestedConcat
<1>5. nodes # <<>> /\ Len(nodes) = Len(mapping)
        => Closed(K, (header \o keys) \o Branches(nodes), plain)
  BY <1>4 DEF Closed
<1>. QED BY <1>2, <1>5, ClosedNothing

LEMMA CompositionPlanClosed ==
  ASSUME NEW K, NEW plain, NEW s, IsNode(s, K.ids), NodeSafe(K, s, plain), CompositionFits(s)
  PROVE  Closed(K, CompositionPlan(s), plain)
<1>. DEFINE a == Composition(s, "all_of", "BRANCH_ALLOF")
            b == Composition(s, "any_of", "BRANCH_ANYOF")
            c == Composition(s, "one_of", "BRANCH_ONEOF")
            d == Discriminator(s)
<1>1. {"BRANCH_ALLOF", "BRANCH_ANYOF", "BRANCH_ONEOF"} \subseteq ManySubs
  BY DEF ManySubs
<1>2. Closed(K, a, plain) /\ Closed(K, b, plain) /\ Closed(K, c, plain)
  BY <1>1, CompositionClosed
<1>3. HasDiscriminator(s) => Closed(K, d, plain)
  BY DiscriminatorClosed
<1>4. CompositionPlan(s) = a \o (IF HasDiscriminator(s) THEN d ELSE b \o c)
  BY DEF CompositionPlan
<1>. HIDE DEF a, b, c, d
<1>5. Closed(K, b \o c, plain)
  BY <1>2, ClosedConcat
<1>6. Closed(K, IF HasDiscriminator(s) THEN d ELSE b \o c, plain)
  BY <1>3, <1>5
<1>. QED BY <1>2, <1>4, <1>6, ClosedConcat

\* The IF comes first; the THEN and the ELSE where a part of it has just ended.
LEMMA NestedPart ==
  ASSUME NEW K, NEW plain, NEW s, NodeSafe(K, s, plain), IsNode(s, K.ids),
         NEW p, BarePlace(p), Skippable(K.skips, p) => plain,
         NEW field, NEW op, NEW before,
         \/ field = "if_schema" /\ op = "COND_IF" /\ before = p
         \/ field = "then_schema" /\ op = "COND_THEN" /\ before = Ended(p, "COND_IF")
         \/ field = "else_schema" /\ op = "COND_ELSE" /\ before = Ended(p, "COND_IF")
         \/ field = "else_schema" /\ op = "COND_ELSE" /\ before = Ended(p, "COND_THEN"),
         Has(s, field), NEW after \in {p, Ended(p, op)}
  PROVE  Nested(K, BlockIf(s, field, op), before, after)
<1>1. op \in OneSub \ {"CHECK_CONTAINS", "ENTER_PREFIX_ITEM"} /\ op \notin CompositionOps
      /\ {"COND_IF", "COND_THEN"} \subseteq Marks /\ "none" \in Marks
  BY DEF OneSub, CondParts, CompositionOps, Marks, Ops, BranchOps
<1>2. field \in NodeFields
      /\ (op \in K.skips => field \notin {"ref_resolved", "not_schema", "if_schema"})
  BY DEF NodeFields, NodeSafe, SkippedOps, BlockOps, CondParts
<1>3. PICK node : node = s[field]
  OBVIOUS
<1>4. Reaches(K, op, p, node)
  <2>1. s[field] \in K.ids
    BY <1>2 DEF IsNode, NodeFields
  <2>2. op \in K.skips \/ plain => s[field] \in K.plain
    BY <1>2, FieldSafe
  <2>. QED BY <1>3, <2>1, <2>2 DEF Reaches
<1>5. /\ IsPlace(p) /\ Bare(p) = p /\ p.depth > 0
      /\ \A e \in {"COND_IF", "COND_THEN"} :
           /\ IsPlace(Ended(p, e)) /\ Bare(Ended(p, e)) = p
           /\ Ended(p, e).last = e /\ Ended(p, e).depth = p.depth
  BY <1>1, EndedFacts DEF BarePlace
<1>6. IsPlace(before) /\ Bare(before) = p /\ before.depth > 0
      /\ (op = "COND_THEN" => before.last = "COND_IF")
      /\ (op = "COND_ELSE" => before.last \in {"COND_IF", "COND_THEN"})
  BY <1>5
<1>7. Permitted(K.skips, op, 1, before)
  BY <1>1, <1>6 DEF Permitted
<1>8. Nested(K, Block(op, 0, node), before, after)
  BY <1>1, <1>4, <1>6, <1>7, NestedBlock
<1>. QED BY <1>3, <1>8 DEF BlockIf

LEMMA ConditionalClosed ==
  ASSUME NEW K, NEW plain, NEW s, NodeSafe(K, s, plain), IsNode(s, K.ids)
  PROVE  Closed(K, ConditionalPlan(s), plain)
<1>. DEFINE a == BlockIf(s, "not_schema", "NEGATE")
            b == BlockIf(s, "if_schema", "COND_IF")
            c == BlockIf(s, "then_schema", "COND_THEN")
            d == BlockIf(s, "else_schema", "COND_ELSE")
<1>1. Closed(K, a, plain)
  <2>1. "NEGATE" \in OneSub \ ({"CHECK_CONTAINS", "ENTER_PREFIX_ITEM"} \cup CondParts)
    BY DEF OneSub, BlockOps, CondParts
  <2>2. "not_schema" \in NodeFields /\ "NEGATE" \notin K.skips
    BY DEF NodeFields, NodeSafe, SkippedOps, BlockOps, CondParts
  <2>. QED BY <2>1, <2>2, BlockIfClosed
<1>2. ConditionalPlan(s) = a \o (IF Has(s, "if_schema") THEN (b \o c) \o d ELSE <<>>)
  BY DEF ConditionalPlan
<1>3. ASSUME NEW p, BarePlace(p), Skippable(K.skips, p) => plain, Has(s, "if_schema")
      PROVE  Nested(K, (b \o c) \o d, p, p)
  <2>. DEFINE i == Ended(p, "COND_IF")
              t == Ended(p, "COND_THEN")
  <2>1. Nested(K, b, p, p) /\ Nested(K, b, p, i)
    <3>1. \A after \in {p, Ended(p, "COND_IF")} : Nested(K, b, p, after)
      BY <1>3, NestedPart
    <3>. QED BY <3>1
  <2>2. Has(s, "then_schema") => Nested(K, c, i, p) /\ Nested(K, c, i, t)
    <3>1. Has(s, "then_schema") =>
            \A after \in {p, Ended(p, "COND_THEN")} : Nested(K, c, Ended(p, "COND_IF"), after)
      BY <1>3, NestedPart
    <3>. QED BY <3>1
  <2>3. Has(s, "else_schema") => Nested(K, d, i, p) /\ Nested(K, d, t, p)
    <3>1. Has(s, "else_schema") =>
            \A before \in {Ended(p, "COND_IF"), Ended(p, "COND_THEN")} : Nested(K, d, before, p)
      BY <1>3, NestedPart
    <3>. QED BY <3>1
  <2>4. /\ ~Has(s, "then_schema") => c = <<>>
        /\ ~Has(s, "else_schema") => d = <<>>
    BY DEF BlockIf
  <2>5. /\ ~Has(s, "then_schema") => \A e : Nested(K, c, e, e)
        /\ ~Has(s, "else_schema") => \A e : Nested(K, d, e, e)
    BY <2>4, NestedNothing
  <2>. HIDE DEF b, c, d, i, t
  <2>6. CASE Has(s, "then_schema") /\ Has(s, "else_schema")
    <3>1. Nested(K, b \o c, p, t)
      BY <2>1, <2>2, <2>6, NestedConcat
    <3>. QED BY <3>1, <2>3, <2>6, NestedConcat
  <2>7. CASE Has(s, "then_schema") /\ ~Has(s, "else_schema")
    <3>1. Nested(K, b \o c, p, p)
      BY <2>1, <2>2, <2>7, NestedConcat
    <3>. QED BY <3>1, <2>5, <2>7, NestedConcat
  <2>8. CASE ~Has(s, "then_schema") /\ Has(s, "else_schema")
    <3>1. Nested(K, b \o c, p, i)
      BY <2>1, <2>5, <2>8, NestedConcat
    <3>. QED BY <3>1, <2>3, <2>8, NestedConcat
  <2>9. CASE ~Has(s, "then_schema") /\ ~Has(s, "else_schema")
    <3>1. Nested(K, b \o c, p, p)
      BY <2>1, <2>5, <2>9, NestedConcat
    <3>. QED BY <3>1, <2>5, <2>9, NestedConcat
  <2>. QED BY <2>6, <2>7, <2>8, <2>9
<1>. HIDE DEF a, b, c, d
<1>4. Has(s, "if_schema") => Closed(K, (b \o c) \o d, plain)
  BY <1>3 DEF Closed
<1>5. Closed(K, IF Has(s, "if_schema") THEN (b \o c) \o d ELSE <<>>, plain)
  BY <1>4, ClosedNothing
<1>. QED BY <1>1, <1>2, <1>5, ClosedConcat

LEMMA ValueClosed ==
  ASSUME NEW K, NEW plain, NEW s
  PROVE  Closed(K, ValuePlan(s), plain)
<1>. DEFINE a == EmitIf(s, "enum_values", "CHECK_ENUM")
            b == EmitIf(s, "const_value", "CHECK_CONST")
            c == FlagIf(s, "read_only", "CHECK_READ_ONLY")
            d == FlagIf(s, "write_only", "CHECK_WRITE_ONLY")
<1>1. {"CHECK_ENUM", "CHECK_CONST", "CHECK_READ_ONLY", "CHECK_WRITE_ONLY"} \subseteq LeafOps
  BY DEF LeafOps
<1>2. /\ Closed(K, a, plain) /\ Closed(K, b, plain)
      /\ Closed(K, c, plain) /\ Closed(K, d, plain)
  BY <1>1, EmitIfClosed, FlagIfClosed
<1>3. ValuePlan(s) = ((a \o b) \o c) \o d
  BY DEF ValuePlan
<1>. HIDE DEF a, b, c, d
<1>4. Closed(K, (a \o b) \o c, plain)
  BY <1>2, ClosedConcat
<1>. QED BY <1>2, <1>3, <1>4, ClosedConcat

\* A node is compiled to a sequence that closes what it opens, or it is a $ref:
\* followed in return position, or rejected.
IsPlan(K, q, plain) ==
  \/ Closed(K, q, plain)
  \/ \E node \in K.ids : q = <<Follow(node)>> /\ (plain => node \in K.plain)
  \/ q = <<Reject>>

LEMMA PlanIsPlan ==
  ASSUME NEW K, NEW plain, NEW s, IsNode(s, K.ids), NodeSafe(K, s, plain), CompositionFits(s),
         NEW cfg
  PROVE  IsPlan(K, Plan(s, cfg), plain)
<1>1. CASE Has(s, "ref_resolved")
  <2>1. s.ref_resolved \in K.ids
    BY <1>1 DEF IsNode
  <2>3. plain => s.ref_resolved \in K.plain
    <3>1. "ref_resolved" \in NodeFields /\ "ref_resolved" = "ref_resolved"
      BY DEF NodeFields
    <3>2. PICK op : op \notin K.skips
      BY "PROGRAM" \notin SkippedOps DEF SkippedOps, BlockOps, CondParts, NodeSafe
    <3>3. op \in K.skips \/ plain => s["ref_resolved"] \in K.plain
      BY <1>1, <3>1, <3>2, FieldSafe
    <3>. QED BY <3>3
  <2>2. Plan(s, cfg) = <<Follow(s.ref_resolved)>>
    BY <1>1 DEF Plan
  <2>. QED BY <2>1, <2>2, <2>3 DEF IsPlan
<1>2. CASE ~Has(s, "ref_resolved") /\ Has(s, "ref")
  <2>1. Plan(s, cfg) = <<Reject>>
    BY <1>2 DEF Plan
  <2>. QED BY <2>1 DEF IsPlan
<1>3. CASE ~Has(s, "ref_resolved") /\ ~Has(s, "ref")
  <2>. DEFINE a == TypePlan(s)
              b == StringPlan(s, cfg)
              c == NumberPlan(s)
              d == ArrayPlan(s)
              e == ObjectPlan(s)
              f == PatternPropsPlan(s, cfg)
              g == DependentPlan(s)
              h == ContainsPlan(s)
              i == CompositionPlan(s)
              j == ConditionalPlan(s)
              k == ValuePlan(s)
  <2>1. Plan(s, cfg) = (((((((((a \o b) \o c) \o d) \o e) \o f) \o g) \o h) \o i) \o j) \o k
    BY <1>3 DEF Plan
  <2>2. Closed(K, a, plain) /\ Closed(K, b, plain) /\ Closed(K, c, plain)
    BY TypeClosed, StringClosed, NumberClosed
  <2>3. Closed(K, d, plain) /\ Closed(K, e, plain) /\ Closed(K, f, plain)
    BY ArrayClosed, ObjectClosed, PatternPropsClosed
  <2>4. Closed(K, g, plain) /\ Closed(K, h, plain) /\ Closed(K, i, plain)
    BY DependentClosed, ContainsClosed, CompositionPlanClosed
  <2>5. Closed(K, j, plain) /\ Closed(K, k, plain)
    BY ConditionalClosed, ValueClosed
  <2>. HIDE DEF a, b, c, d, e, f, g, h, i, j, k
  <2>6. Closed(K, (a \o b) \o c, plain)
    BY <2>2, ClosedConcat
  <2>7. Closed(K, ((((a \o b) \o c) \o d) \o e) \o f, plain)
    <3>1. Closed(K, ((a \o b) \o c) \o d, plain)
      BY <2>3, <2>6, ClosedConcat
    <3>2. Closed(K, (((a \o b) \o c) \o d) \o e, plain)
      BY <2>3, <3>1, ClosedConcat
    <3>. QED BY <2>3, <3>2, ClosedConcat
  <2>8. Closed(K, (((((((a \o b) \o c) \o d) \o e) \o f) \o g) \o h) \o i, plain)
    <3>1. Closed(K, (((((a \o b) \o c) \o d) \o e) \o f) \o g, plain)
      BY <2>4, <2>7, ClosedConcat
    <3>2. Closed(K, ((((((a \o b) \o c) \o d) \o e) \o f) \o g) \o h, plain)
      BY <2>4, <3>1, ClosedConcat
    <3>. QED BY <2>4, <3>2, ClosedConcat
  <2>9. Closed(K, ((((((((a \o b) \o c) \o d) \o e) \o f) \o g) \o h) \o i) \o j, plain)
    BY <2>5, <2>8, ClosedConcat
  <2>10. Closed(K, Plan(s, cfg), plain)
    BY <2>1, <2>5, <2>9, ClosedConcat
  <2>. QED BY <2>10 DEF IsPlan
<1>. QED BY <1>1, <1>2, <1>3

-----------------------------------------------------------------------------
(* The stack of activations.                                               *)

LEMMA AnyHeadTail ==
  ASSUME NEW q, IsSeq(q), q # <<>>
  PROVE  /\ IsSeq(<<Head(q)>>) /\ IsSeq(Tail(q)) /\ Len(q) \in Nat \ {0} /\ q[1] = Head(q)
         /\ q = <<Head(q)>> \o Tail(q)
<1>1. PICK S : q \in Seq(S)
  BY DEF IsSeq
<1>2. Len(q) \in Nat \ {0}
  BY <1>1, EmptySeq
<1>3. Head(q) \in S /\ Tail(q) \in Seq(S) /\ q[1] = Head(q) /\ <<Head(q)>> \in Seq(S)
  BY <1>1, HeadTailProperties
<1>4. SubSeq(q, 1, Len(q)) = <<q[1]>> \o SubSeq(q, 1 + 1, Len(q))
  BY <1>1, <1>2, 1 \in 1..Len(q), Len(q) \in 1..Len(q), SubSeqRecursiveFirst
<1>5. SubSeq(q, 1, Len(q)) = q /\ Tail(q) = SubSeq(q, 2, Len(q)) /\ 1 + 1 = 2
  BY <1>1, SubSeqFull, TailIsSubSeq
<1>. QED BY <1>2, <1>3, <1>4, <1>5 DEF IsSeq

LEMMA AnyAssociative ==
  ASSUME NEW p, NEW q, NEW r, IsSeq(p), IsSeq(q), IsSeq(r)
  PROVE  (p \o q) \o r = p \o (q \o r)
<1>1. PICK S, T, U : p \in Seq(S) /\ q \in Seq(T) /\ r \in Seq(U)
  BY DEF IsSeq
<1>. DEFINE V == S \cup T \cup U
<1>2. S \subseteq V /\ T \subseteq V /\ U \subseteq V
  OBVIOUS
<1>. HIDE DEF V
<1>3. p \in Seq(V) /\ q \in Seq(V) /\ r \in Seq(V)
  BY <1>1, <1>2, SeqMonotonic
<1>. QED BY <1>3, ConcatAssociative

\* The instructions emitted so far, as steps.
Emitted(c) == [i \in DOMAIN c |-> [do |-> "emit", ins |-> c[i]]]

LEMMA EmittedIsSeq ==
  ASSUME NEW c, IsSeq(c)
  PROVE  IsSeq(Emitted(c)) /\ Len(Emitted(c)) = Len(c)
<1>. DEFINE q == Emitted(c)
<1>1. PICK n \in Nat : n = Len(c) /\ DOMAIN c = 1..n
  BY SeqParts
<1>2. q = [i \in 1..n |-> q[i]]
  BY <1>1 DEF Emitted
<1>. HIDE DEF q
<1>3. IsSeq(q) /\ Len(q) = n
  BY <1>2, LoopIsSeq
<1>. QED BY <1>1, <1>3 DEF q

LEMMA AppendEmitted ==
  ASSUME NEW c, IsSeq(c), NEW ins
  PROVE  /\ IsSeq(Append(c, ins))
         /\ Emitted(Append(c, ins)) = Emitted(c) \o <<[do |-> "emit", ins |-> ins]>>
<1>1. PICK S : c \in Seq(S)
  BY DEF IsSeq
<1>2. c \in Seq(S \cup {ins})
  BY <1>1, SeqMonotonic, S \subseteq S \cup {ins}
<1>. DEFINE st == [do |-> "emit", ins |-> ins]
            T == {[do |-> "emit", ins |-> e] : e \in S \cup {ins}}
            a == Append(c, ins)
<1>3. PICK n \in Nat : n = Len(c) /\ DOMAIN c = 1..n
  BY <1>1, LenProperties
<1>4. /\ a \in Seq(S \cup {ins}) /\ Len(a) = n + 1
      /\ \A i \in 1..n : a[i] = c[i]
      /\ a[n + 1] = ins
  BY <1>2, <1>3, AppendProperties
<1>5. \A i \in 1..n : c[i] \in S \cup {ins}
  BY <1>2, <1>3
<1>6. DOMAIN a = 1..(n + 1)
  BY <1>4, LenProperties
<1>. HIDE DEF a
<1>7. Emitted(c) \in [1..n -> T] /\ Emitted(a) \in [1..(n + 1) -> T]
  <2>1. \A i \in 1..(n + 1) : a[i] \in S \cup {ins}
    BY <1>4, <1>5
  <2>. QED BY <1>3, <1>5, <1>6, <2>1 DEF Emitted
<1>8. PICK p, q : p = Emitted(c) /\ q = Emitted(a)
  OBVIOUS
<1>. HIDE DEF T, st
<1>9. p \in Seq(T) /\ q \in Seq(T) /\ Len(p) = n /\ Len(q) = n + 1
  <2>1. p \in Seq(T) /\ q \in Seq(T) /\ DOMAIN p = 1..n /\ DOMAIN q = 1..(n + 1)
    BY <1>7, <1>8, SeqDef
  <2>2. Len(p) \in Nat /\ Len(q) \in Nat /\ DOMAIN p = 1..Len(p) /\ DOMAIN q = 1..Len(q)
    BY <2>1, LenProperties
  <2>. QED BY <2>1, <2>2
<1>10. st \in T
  BY DEF st, T
<1>11. /\ \A i \in 1..n : q[i] = p[i]
       /\ q[n + 1] = st
  BY <1>3, <1>4, <1>6, <1>8 DEF Emitted, st
<1>12. q = Append(p, st)
  <2>1. /\ Append(p, st) \in Seq(T) /\ Len(Append(p, st)) = Len(p) + 1
        /\ \A i \in 1..Len(p) : Append(p, st)[i] = p[i]
        /\ Append(p, st)[Len(p) + 1] = st
    BY <1>9, <1>10, AppendProperties
  <2>2. \A i \in 1..(n + 1) : i \in 1..n \/ i = n + 1
    OBVIOUS
  <2>3. \A i \in 1..Len(q) : q[i] = Append(p, st)[i]
    BY <1>9, <1>11, <2>1, <2>2
  <2>. QED BY <1>9, <2>1, <2>3, SeqEqual
<1>13. Append(p, st) = p \o <<st>>
  BY <1>9, <1>10, AppendIsConcat
<1>. QED BY <1>4, <1>8, <1>12, <1>13 DEF IsSeq, a, st

LEMMA WholeIsBare ==
  BarePlace(Whole) /\ \A skips : Skippable(skips, Whole) => "PROGRAM" \in skips
<1>1. 1 \in Nat /\ "PROGRAM" \in Marks /\ "none" \in Marks
  BY DEF Marks
<1>2. [h \in 1..1 |-> "PROGRAM"] \in [1..1 -> Marks]
  BY <1>1
<1>3. IsPlace(Whole)
  BY <1>1, <1>2, PlaceIs DEF Whole
<1>. QED BY <1>3 DEF BarePlace, Whole, Skippable

\* With what has been emitted, the steps q lead to the place b.
Leads(K, c, q, b) ==
  /\ IsSeq(c) /\ IsSeq(q) /\ BarePlace(b)
  /\ \/ Nested(K, Emitted(c) \o q, Whole, b)
     \/ /\ Nested(K, Emitted(c), Whole, b)
        /\ \/ \E node \in K.ids : /\ q = <<Follow(node)>>
                                  /\ Skippable(K.skips, b) => node \in K.plain
           \/ q = <<Reject>>

LEMMA LeadsPlan ==
  ASSUME NEW K, NEW c, IsSeq(c), NEW b, BarePlace(b), Nested(K, Emitted(c), Whole, b),
         NEW q, NEW plain, IsPlan(K, q, plain), Skippable(K.skips, b) => plain
  PROVE  Leads(K, c, q, b)
<1>1. CASE Closed(K, q, plain)
  <2>1. Nested(K, q, b, b)
    BY <1>1 DEF Closed
  <2>2. Nested(K, Emitted(c) \o q, Whole, b)
    BY <2>1, NestedConcat
  <2>3. IsSeq(q)
    BY <2>1 DEF Nested
  <2>. QED BY <2>2, <2>3 DEF Leads
<1>2. CASE (\E node \in K.ids : q = <<Follow(node)>> /\ (plain => node \in K.plain))
           \/ q = <<Reject>>
  <2>1. \A st : <<st>> \in Seq({st})
    OBVIOUS
  <2>2. IsSeq(q)
    BY <1>2, <2>1 DEF IsSeq
  <2>. QED BY <1>2, <2>2 DEF Leads
<1>. QED BY <1>1, <1>2 DEF IsPlan

\* What the next step can be.
LEMMA LeadsStep ==
  ASSUME NEW K, NEW c, NEW q, NEW b, Leads(K, c, q, b), q # <<>>
  PROVE  \/ /\ Nested(K, (Emitted(c) \o <<Head(q)>>) \o Tail(q), Whole, b)
            /\ IsStep(K, Head(q))
         \/ /\ Nested(K, Emitted(c), Whole, b)
            /\ \/ /\ Head(q).do = "follow" /\ Head(q).node \in K.ids
                  /\ Skippable(K.skips, b) => Head(q).node \in K.plain
               \/ Head(q).do = "reject"
<1>1. IsSeq(c) /\ IsSeq(q) /\ IsSeq(Emitted(c))
  BY EmittedIsSeq DEF Leads
<1>2. /\ IsSeq(<<Head(q)>>) /\ IsSeq(Tail(q)) /\ q[1] = Head(q) /\ 1 \in 1..Len(q)
      /\ q = <<Head(q)>> \o Tail(q)
  BY <1>1, AnyHeadTail
<1>3. CASE Nested(K, Emitted(c) \o q, Whole, b)
  <2>1. Emitted(c) \o q = (Emitted(c) \o <<Head(q)>>) \o Tail(q)
    <3>1. PICK e, h, t : e = Emitted(c) /\ h = <<Head(q)>> /\ t = Tail(q)
      OBVIOUS
    <3>2. IsSeq(e) /\ IsSeq(h) /\ IsSeq(t) /\ q = h \o t
      BY <1>1, <1>2, <3>1
    <3>3. (e \o h) \o t = e \o (h \o t)
      <4>1. IsSeq(e) /\ IsSeq(h) /\ IsSeq(t)
        BY <3>2
      <4>. QED BY <4>1, AnyAssociative
    <3>. QED BY <3>1, <3>2, <3>3, Zenon
  <2>2. IsStep(K, q[1])
    <3>1. /\ Len(Emitted(c) \o q) = Len(Emitted(c)) + Len(q)
          /\ (Emitted(c) \o q)[1 + Len(Emitted(c))] = q[1]
      <4>1. IsSeq(Emitted(c)) /\ IsSeq(q) /\ 1 \in 1..Len(q)
        BY <1>1, <1>2
      <4>. QED BY <4>1, ConcatAny
    <3>2. Len(Emitted(c)) \in Nat /\ Len(q) \in Nat
      BY <1>1, SeqParts
    <3>3. 1 + Len(Emitted(c)) \in 1..Len(Emitted(c) \o q)
      BY <1>2, <3>1, <3>2
    <3>4. IsStep(K, (Emitted(c) \o q)[1 + Len(Emitted(c))])
      BY <1>3, <3>3 DEF Nested
    <3>. QED BY <3>1, <3>4
  <2>. QED BY <1>2, <1>3, <2>1, <2>2
<1>4. CASE \E node \in K.ids : /\ Nested(K, Emitted(c), Whole, b) /\ q = <<Follow(node)>>
                               /\ Skippable(K.skips, b) => node \in K.plain
  <2>1. PICK node \in K.ids : q = <<Follow(node)>> /\ (Skippable(K.skips, b) => node \in K.plain)
    BY <1>4
  <2>2. Head(q) = Follow(node)
    BY <1>2, <2>1
  <2>. QED BY <1>4, <2>1, <2>2 DEF Follow
<1>5. CASE Nested(K, Emitted(c), Whole, b) /\ q = <<Reject>>
  <2>1. Head(q) = Reject
    BY <1>2, <1>5
  <2>. QED BY <1>5, <2>1 DEF Reject
<1>. QED BY <1>3, <1>4, <1>5 DEF Leads

LEMMA LeadsEmit ==
  ASSUME NEW K, NEW c, NEW q, NEW b, Leads(K, c, q, b), q # <<>>, Head(q).do = "emit"
  PROVE  Leads(K, Append(c, Head(q).ins), Tail(q), b)
<1>1. Nested(K, (Emitted(c) \o <<Head(q)>>) \o Tail(q), Whole, b) /\ IsStep(K, Head(q))
  BY LeadsStep
<1>2. Head(q) = Emit(Head(q).ins.op, Head(q).ins.arg)
  BY <1>1 DEF IsStep
<1>3. PICK st, ins : st = Head(q) /\ ins = st.ins
  OBVIOUS
<1>4. st = [do |-> "emit", ins |-> ins]
  <2>1. st = [do |-> "emit", ins |-> Instr(st.ins.op, st.ins.arg)]
    BY <1>2, <1>3 DEF Emit
  <2>. QED BY <1>3, <2>1
<1>5. IsSeq(c) /\ IsSeq(q) /\ BarePlace(b)
  BY DEF Leads
<1>6. IsSeq(Append(c, ins)) /\ Emitted(Append(c, ins)) = Emitted(c) \o <<st>>
  BY <1>4, <1>5, AppendEmitted
<1>7. IsSeq(Tail(q))
  BY <1>5, AnyHeadTail
<1>. QED BY <1>1, <1>3, <1>5, <1>6, <1>7 DEF Leads

\* A regular expression is no instruction, and a call is replaced by what it
\* emits: the program is cut there.
LEMMA LeadsCut ==
  ASSUME NEW K, NEW c, NEW q, NEW b, Leads(K, c, q, b), q # <<>>,
         Head(q).do \in {"call", "regex"}
  PROVE  /\ Head(q).do = "call" => Head(q).node \in K.ids
         /\ \E m : /\ Nested(K, Emitted(c), Whole, m) /\ Nested(K, Tail(q), m, b)
                   /\ BarePlace(m)
                   /\ Head(q).do = "call" /\ Skippable(K.skips, m) => Head(q).node \in K.plain
<1>1. Nested(K, (Emitted(c) \o <<Head(q)>>) \o Tail(q), Whole, b) /\ IsStep(K, Head(q))
  BY LeadsStep
<1>2. IsSeq(Emitted(c)) /\ IsSeq(Tail(q))
  BY EmittedIsSeq, AnyHeadTail DEF Leads
<1>3. Head(q).do = "call" => Head(q).node \in K.ids
  BY <1>1 DEF IsStep, Emit
<1>4. \E m : Nested(K, Emitted(c), Whole, m) /\ Nested(K, Tail(q), m, b)
             /\ Goes(K, Head(q), 0, m, m)
  BY <1>1, <1>2, NestedAround
<1>5. \A m : Goes(K, Head(q), 0, m, m)
        => /\ BarePlace(m)
           /\ Head(q).do = "call" /\ Skippable(K.skips, m) => Head(q).node \in K.plain
  BY DEF Goes
<1>. QED BY <1>3, <1>4, <1>5

LEMMA LeadsRegex ==
  ASSUME NEW K, NEW c, NEW q, NEW b, Leads(K, c, q, b), q # <<>>, Head(q).do = "regex"
  PROVE  Leads(K, c, Tail(q), b)
<1>1. PICK m : Nested(K, Emitted(c), Whole, m) /\ Nested(K, Tail(q), m, b)
  BY LeadsCut
<1>2. Nested(K, Emitted(c) \o Tail(q), Whole, b)
  BY <1>1, NestedConcat
<1>3. IsSeq(c) /\ IsSeq(Tail(q)) /\ BarePlace(b)
  BY AnyHeadTail DEF Leads
<1>. QED BY <1>2, <1>3 DEF Leads

LEMMA LeadsFollow ==
  ASSUME NEW K, NEW c, NEW q, NEW b, Leads(K, c, q, b), q # <<>>, Head(q).do = "follow"
  PROVE  /\ Head(q).node \in K.ids /\ Nested(K, Emitted(c), Whole, b) /\ BarePlace(b)
         /\ Skippable(K.skips, b) => Head(q).node \in K.plain
<1>1. ~IsStep(K, Head(q))
  BY DEF IsStep, Emit
<1>2. BarePlace(b)
  BY DEF Leads
<1>. QED BY <1>1, <1>2, LeadsStep

LEMMA LeadsNowhere ==
  ASSUME NEW K, NEW c, NEW b, Leads(K, c, <<>>, b)
  PROVE  Nested(K, Emitted(c), Whole, b)
<1>1. PICK S : Emitted(c) \in Seq(S)
  BY EmittedIsSeq DEF Leads, IsSeq
<1>2. Emitted(c) \o <<>> = Emitted(c)
  BY <1>1, ConcatEmptySeq
<1>3. \A st : <<>> # <<st>>
  OBVIOUS
<1>. QED BY <1>2, <1>3 DEF Leads

\* The activations on the stack: each one leads, with the call it is waiting
\* for, to the place the one below it expects.
Stacked(K, c, s, d) ==
  /\ IsSeq(s) /\ d[0] = Whole
  /\ \A k \in 0..Len(s) : BarePlace(d[k])
  /\ \A k \in 1..(Len(s) - 1) : Nested(K, s[k], d[k], d[k - 1])
  /\ IF s = <<>> THEN IsSeq(c) /\ Nested(K, Emitted(c), Whole, Whole)
     ELSE Leads(K, c, s[Len(s)], d[Len(s) - 1])

\* The step of the activation on top, one that leads to the same.
LEMMA StackedTop ==
  ASSUME NEW K, NEW c, NEW s, NEW d, Stacked(K, c, s, d), s # <<>>,
         NEW c2, NEW q, Leads(K, c2, q, d[Len(s) - 1])
  PROVE  Stacked(K, c2, [s EXCEPT ![Len(s)] = q], d)
<1>1. PICK S : s \in Seq(S)
  BY DEF Stacked, IsSeq
<1>. DEFINE t == [s EXCEPT ![Len(s)] = q]
<1>2. PICK n \in Nat \ {0} : n = Len(s)
  BY <1>1, EmptySeq
<1>3. s \in Seq(S \cup {q})
  BY <1>1, SeqMonotonic, S \subseteq S \cup {q}
<1>4. n \in 1..Len(s) /\ q \in S \cup {q}
  BY <1>2
<1>5. t = [s EXCEPT ![n] = q]
  BY <1>2
<1>. HIDE DEF t
<1>6. /\ t \in Seq(S \cup {q}) /\ Len(t) = Len(s)
      /\ \A j \in 1..Len(s) : t[j] = IF j = n THEN q ELSE s[j]
  BY <1>3, <1>4, <1>5, ExceptSeq
<1>7. IsSeq(t) /\ Len(t) = n /\ t[n] = q /\ \A j \in 1..(n - 1) : t[j] = s[j]
  BY <1>2, <1>6 DEF IsSeq
<1>8. t # <<>>
  BY <1>7, EmptyIsSeq
<1>. QED BY <1>2, <1>7, <1>8 DEF Stacked, t

\* A call: what is left of the caller waits under the activation of the callee.
LEMMA StackedCall ==
  ASSUME NEW K, NEW c, NEW s, NEW d, Stacked(K, c, s, d), s # <<>>,
         NEW m, BarePlace(m), Nested(K, Emitted(c), Whole, m),
         NEW rest, Nested(K, rest, m, d[Len(s) - 1]),
         NEW q, IsSeq(c), NEW plain, IsPlan(K, q, plain), Skippable(K.skips, m) => plain
  PROVE  \E e : Stacked(K, c, Append([s EXCEPT ![Len(s)] = rest], q), e)
<1>1. PICK S : s \in Seq(S)
  BY DEF Stacked, IsSeq
<1>. DEFINE t == [s EXCEPT ![Len(s)] = rest]
            u == Append(t, q)
            V == S \cup {rest, q}
<1>2. PICK n \in Nat \ {0} : n = Len(s)
  BY <1>1, EmptySeq
<1>. DEFINE e == [k \in 0..(n + 1) |-> IF k < n THEN d[k] ELSE m]
<1>3. s \in Seq(V) /\ rest \in V /\ q \in V
  BY <1>1, SeqMonotonic, S \subseteq V
<1>4. n \in 1..Len(s) /\ t = [s EXCEPT ![n] = rest]
  BY <1>2
<1>. HIDE DEF t, V
<1>5. /\ t \in Seq(V) /\ Len(t) = Len(s)
      /\ \A j \in 1..Len(s) : t[j] = IF j = n THEN rest ELSE s[j]
  BY <1>3, <1>4, ExceptSeq
<1>6. t \in Seq(V) /\ Len(t) = n /\ \A j \in 1..n : t[j] = IF j = n THEN rest ELSE s[j]
  BY <1>2, <1>5
<1>7. /\ u \in Seq(V) /\ u # <<>> /\ Len(u) = n + 1
      /\ \A j \in 1..n : u[j] = t[j]
      /\ u[n + 1] = q
  BY <1>3, <1>6, AppendProperties
<1>. HIDE DEF u
<1>8. d[0] = Whole /\ (\A k \in 0..n : BarePlace(d[k]))
      /\ \A k \in 1..(n - 1) : Nested(K, s[k], d[k], d[k - 1])
  BY <1>2 DEF Stacked
<1>9. e[0] = Whole /\ e[n] = m /\ e[n + 1] = m /\ e[n - 1] = d[n - 1]
      /\ \A k \in 0..(n - 1) : e[k] = d[k]
  BY <1>8
<1>b. \A k \in 0..(n + 1) : BarePlace(e[k])
  <2>1. \A k \in 0..(n + 1) : k \in 0..(n - 1) \/ k = n \/ k = n + 1
    OBVIOUS
  <2>2. \A k \in 0..(n - 1) : k \in 0..n
    OBVIOUS
  <2>. HIDE DEF e
  <2>. QED BY <1>8, <1>9, <2>1, <2>2
<1>. HIDE DEF e
<1>10. ASSUME NEW k \in 1..n PROVE Nested(K, u[k], e[k], e[k - 1])
  <2>1. CASE k = n
    <3>1. u[n] = rest /\ e[n] = m /\ e[n - 1] = d[n - 1]
      BY <1>6, <1>7, <1>9, n \in 1..n
    <3>. QED BY <1>2, <2>1, <3>1
  <2>2. CASE k # n
    <3>1. k \in 1..(n - 1) /\ k \in 0..(n - 1) /\ k - 1 \in 0..(n - 1)
      BY <2>2
    <3>. QED BY <1>6, <1>7, <1>8, <1>9, <2>2, <3>1
  <2>. QED BY <2>1, <2>2
<1>11. Leads(K, c, q, m)
  BY LeadsPlan
<1>12. Stacked(K, c, u, e)
  <2>1. IsSeq(u) /\ (n + 1) - 1 = n
    BY <1>7 DEF IsSeq
  <2>. QED BY <1>7, <1>9, <1>b, <1>10, <1>11, <2>1 DEF Stacked
<1>. QED BY <1>12 DEF u, t

\* A return: the caller goes on with what its call has emitted.
LEMMA StackedReturn ==
  ASSUME NEW K, NEW c, NEW s, NEW d, Stacked(K, c, s, d), s # <<>>, s[Len(s)] = <<>>
  PROVE  \E e : Stacked(K, c, Front(s), e)
<1>1. PICK S : s \in Seq(S)
  BY DEF Stacked, IsSeq
<1>2. PICK n \in Nat \ {0} : n = Len(s)
  BY <1>1, EmptySeq
<1>. DEFINE t == Front(s)
            e == [k \in 0..(n - 1) |-> d[k]]
<1>3. /\ d[0] = Whole /\ (\A k \in 0..n : BarePlace(d[k]))
      /\ \A k \in 1..(n - 1) : Nested(K, s[k], d[k], d[k - 1])
      /\ Leads(K, c, <<>>, d[n - 1])
  BY <1>2 DEF Stacked
<1>4. IsSeq(c) /\ Nested(K, Emitted(c), Whole, d[n - 1])
  BY <1>3, LeadsNowhere DEF Leads
<1>5. t \in Seq(S) /\ Len(t) = n - 1 /\ \A i \in 1..(n - 1) : t[i] = s[i]
  <2>1. \A i \in 1..(n - 1) : s[i] \in S
    BY <1>1, <1>2, ElementOfSeq
  <2>2. t = SubSeq(s, 1, n - 1)
    BY <1>2 DEF Front
  <2>. HIDE DEF t
  <2>3. /\ t \in Seq(S) /\ Len(t) = IF 1 <= n - 1 THEN (n - 1) - 1 + 1 ELSE 0
        /\ \A i \in 1..((n - 1) - 1 + 1) : t[i] = s[1 + i - 1]
    BY <2>1, <2>2, SubSeqProperties
  <2>. QED BY <2>3
<1>6. e[0] = Whole /\ \A k \in 0..(n - 1) : e[k] = d[k] /\ BarePlace(e[k])
  BY <1>3
<1>. HIDE DEF t, e
<1>7. IsSeq(t)
  BY <1>5 DEF IsSeq
<1>8. CASE n = 1
  <2>1. t = <<>>
    BY <1>5, <1>8, EmptySeq
  <2>2. Nested(K, Emitted(c), Whole, Whole)
    BY <1>3, <1>4, <1>8
  <2>3. \A k \in 1..(Len(t) - 1) : FALSE
    BY <1>5, <1>8
  <2>. QED BY <1>4, <1>5, <1>6, <1>7, <2>1, <2>2, <2>3 DEF Stacked, t
<1>9. CASE n # 1
  <2>1. n - 1 \in 1..(n - 1) /\ t # <<>> /\ (n - 1) - 1 \in 0..(n - 1)
    BY <1>5, <1>9, EmptySeq
  <2>2. Nested(K, t[n - 1], d[n - 1], d[(n - 1) - 1])
    BY <1>3, <1>5, <2>1
  <2>3. Nested(K, Emitted(c) \o t[n - 1], Whole, d[(n - 1) - 1])
    BY <1>4, <2>2, NestedConcat
  <2>4. Leads(K, c, t[n - 1], e[(n - 1) - 1])
    BY <1>4, <1>6, <2>1, <2>2, <2>3 DEF Leads, Nested
  <2>5. ASSUME NEW k \in 1..((n - 1) - 1) PROVE Nested(K, t[k], e[k], e[k - 1])
    BY <1>3, <1>5, <1>6, k \in 1..(n - 1), k \in 0..(n - 1), k - 1 \in 0..(n - 1)
  <2>. QED BY <1>5, <1>6, <1>7, <2>1, <2>4, <2>5 DEF Stacked, t
<1>. QED BY <1>8, <1>9

\* The first activation.
LEMMA StackedFirst ==
  ASSUME NEW K, NEW q, NEW plain, IsPlan(K, q, plain), "PROGRAM" \notin K.skips
  PROVE  \E d : Stacked(K, <<>>, <<q>>, d)
<1>. DEFINE s == <<q>>
            d == [k \in 0..1 |-> Whole]
<1>1. s \in Seq({q}) /\ Len(s) = 1 /\ s[1] = q /\ s # <<>>
  OBVIOUS
<1>2. IsSeq(<<>>) /\ Nested(K, Emitted(<<>>), Whole, Whole)
  <2>1. Emitted(<<>>) = <<>>
    <3>1. DOMAIN <<>> = {}
      BY EmptyIsSeq, SeqParts
    <3>2. IsSeq(Emitted(<<>>)) /\ Len(Emitted(<<>>)) = 0
      BY EmptyIsSeq, EmittedIsSeq
    <3>. QED BY <3>2, EmptySeq DEF IsSeq
  <2>. QED BY <2>1, EmptyIsSeq, NestedNothing
<1>3. Leads(K, <<>>, q, Whole)
  BY <1>2, LeadsPlan, WholeIsBare
<1>4. d[0] = Whole /\ d[1 - 1] = Whole /\ \A k \in 0..1 : BarePlace(d[k])
  BY WholeIsBare
<1>. HIDE DEF s, d
<1>5. \A k \in 1..(1 - 1) : FALSE
  OBVIOUS
<1>6. IsSeq(s)
  BY <1>1 DEF IsSeq
<1>. QED BY <1>1, <1>3, <1>4, <1>5, <1>6 DEF Stacked, s

-----------------------------------------------------------------------------
(* The finished program.                                                   *)

\* The sub-programs of the steps q nest, and one END, that of the whole program,
\* follows them.
Finished(K, c) ==
  /\ IsSeq(c)
  /\ \E q : Nested(K, q, Whole, Whole) /\ Emitted(c) = q \o <<Emit("END", 0)>>

\* Its instructions before the last one, m of them, go through the places d.
Shape(K, c, m, d) ==
  /\ DOMAIN c = 1..(m + 1) /\ Len(c) = m + 1 /\ c # <<>>
  /\ \A i \in 1..(m + 1) :
       /\ Emitted(c)[i].ins = c[i] /\ Op(Emitted(c)[i]) = c[i].op
       /\ c[i].op \in Ops /\ Operands(Emitted(c), i)
  /\ d[1] = Whole /\ d[m + 1] = Whole
  /\ \A i \in 1..m : /\ IsPlace(d[i])
                     /\ Permitted(K.skips, c[i].op, Opens(Emitted(c), i), d[i])
                     /\ Follows(c[i].op, Opens(Emitted(c), i), d[i], d[i + 1])
  /\ c[m + 1].op = "END"

LEMMA FinishedShape ==
  ASSUME NEW K, NEW c, Finished(K, c)
  PROVE  \E m \in Nat : \E d : Shape(K, c, m, d)
<1>. DEFINE r == Emitted(c)
            st == Emit("END", 0)
            last == <<st>>
<1>1. PICK q : Nested(K, q, Whole, Whole) /\ r = q \o last
  BY DEF Finished
<1>2. IsSeq(q) /\ IsSeq(last) /\ Len(last) = 1 /\ last[1] = st
  BY <1>1, last \in Seq({st}) DEF IsSeq, Nested
<1>3. PICK m \in Nat : m = Len(q)
  BY <1>2, SeqParts
<1>4. IsSeq(c) /\ IsSeq(r) /\ Len(r) = Len(c)
  BY EmittedIsSeq DEF Finished
<1>5. /\ Part(q, r, 0)
      /\ Len(r) = Len(q) + 1 /\ r[1 + Len(q)] = last[1] /\ \A i \in 1..Len(q) : r[i] = q[i]
  <2>1. IsSeq(q) /\ IsSeq(last)
    BY <1>2
  <2>. HIDE DEF r, last
  <2>2. Part(q, r, 0)
    BY <1>1, <2>1, ConcatIsParts
  <2>3. /\ Len(r) = Len(q) + Len(last) /\ \A i \in 1..Len(q) : r[i] = q[i]
        /\ \A i \in 1..Len(last) : r[i + Len(q)] = last[i]
    BY <1>1, <2>1, ConcatAny
  <2>4. 1 \in 1..Len(last)
    BY <1>2
  <2>. QED BY <1>2, <2>2, <2>3, <2>4
<1>6. DOMAIN c = 1..(m + 1) /\ Len(c) = m + 1 /\ c # <<>>
  <2>1. Len(c) = m + 1 /\ DOMAIN c = 1..Len(c)
    BY <1>3, <1>4, <1>5, SeqParts
  <2>2. m + 1 # 0
    OBVIOUS
  <2>. QED BY <2>1, <2>2, EmptyIsSeq
<1>7. \A i \in 1..(m + 1) : r[i] = [do |-> "emit", ins |-> c[i]]
  BY <1>6 DEF Emitted
<1>8. IsStep(K, st) /\ Op(st) = "END" /\ r[m + 1] = st
  BY <1>2, <1>3, <1>5, EmitIsStep, "END" \in Ops DEF Ops
<1>9. PICK d : /\ d[1] = Whole /\ d[m + 1] = Whole
               /\ \A i \in 1..m : Goes(K, q[i], Opens(q, i), d[i], d[i + 1])
  BY <1>1, <1>3 DEF Nested
<1>. HIDE DEF r, st, last
<1>10. ASSUME NEW i \in 1..m
       PROVE  IsStep(K, r[i]) /\ Operands(r, i) /\ Opens(r, i) = Opens(q, i) /\ r[i] = q[i]
  <2>1. i \in 1..Len(q) /\ i + 0 = i /\ IsStep(K, q[i]) /\ Operands(q, i)
    BY <1>1, <1>3 DEF Nested
  <2>2. Operands(r, i + 0) /\ Opens(r, i + 0) = Opens(q, i)
    BY <1>5, <2>1, InTheWhole
  <2>. QED BY <1>5, <2>1, <2>2
<1>11. Operands(r, m + 1)
  BY <1>8 DEF Operands, ManySubs
<1>12. ASSUME NEW i \in 1..(m + 1)
       PROVE  /\ r[i].do = "emit" /\ r[i].ins = c[i] /\ Op(r[i]) = c[i].op
              /\ c[i].op \in Ops /\ Operands(r, i)
  <2>1. IsStep(K, r[i]) /\ Operands(r, i)
    <3>1. CASE i = m + 1
      BY <1>8, <1>11, <3>1
    <3>2. CASE i # m + 1
      <4>1. i \in 1..m
        BY <3>2
      <4>. QED BY <1>10, <4>1
    <3>. QED BY <3>1, <3>2
  <2>2. r[i].do = "emit" /\ r[i].ins = c[i]
    <3>1. r[i] = [do |-> "emit", ins |-> c[i]]
      BY <1>7
    <3>. QED BY <3>1
  <2>3. r[i].ins.op \in Ops
    BY <2>1, <2>2 DEF IsStep
  <2>. QED BY <2>1, <2>2, <2>3 DEF Op
<1>13. ASSUME NEW i \in 1..m
       PROVE  /\ IsPlace(d[i]) /\ Permitted(K.skips, c[i].op, Opens(r, i), d[i])
              /\ Follows(c[i].op, Opens(r, i), d[i], d[i + 1])
  <2>1. i \in 1..(m + 1)
    OBVIOUS
  <2>2. r[i].do = "emit" /\ r[i].ins = c[i]
    BY <1>12, <2>1
  <2>3. Goes(K, r[i], Opens(r, i), d[i], d[i + 1])
    BY <1>9, <1>10
  <2>. QED BY <2>2, <2>3 DEF Goes
<1>14. c[m + 1].op = "END"
  <2>1. m + 1 \in 1..(m + 1)
    OBVIOUS
  <2>. QED BY <1>8, <1>12, <2>1
<1>15. Shape(K, c, m, d)
  BY <1>6, <1>9, <1>12, <1>13, <1>14 DEF r, Shape
<1>. QED BY <1>15

LEMMA FinishedWellFormed ==
  ASSUME NEW K, NEW c, Finished(K, c)
  PROVE  WellFormed(c)
<1>1. PICK m \in Nat :
        /\ DOMAIN c = 1..(m + 1) /\ c # <<>>
        /\ \A i \in 1..(m + 1) :
             /\ Emitted(c)[i].ins = c[i] /\ Op(Emitted(c)[i]) = c[i].op
             /\ c[i].op \in Ops /\ Operands(Emitted(c), i)
  <2>1. PICK m \in Nat : \E d : Shape(K, c, m, d)
    BY FinishedShape
  <2>2. PICK d : Shape(K, c, m, d)
    BY <2>1
  <2>. QED BY <2>2 DEF Shape
<1>. DEFINE r == Emitted(c)
<1>2. DOMAIN r = DOMAIN c
  BY DEF Emitted
<1>. HIDE DEF r
<1>3. \A j : IsNop(r, j) => j \in DOMAIN c /\ c[j].op = "NOP" /\ r[j].ins = c[j]
  BY <1>1, <1>2 DEF IsNop, r
<1>4. ASSUME NEW i \in DOMAIN c,
             c[i].op \in {"CHECK_DEP_REQUIRED", "DISCRIMINATOR"}
      PROVE  /\ i + 1 \in DOMAIN c
             /\ c[i + 1].op = "NOP" /\ c[i + 1].arg \in Nat
             /\ i + 1 + c[i + 1].arg \in DOMAIN c
  <2>1. /\ IsNop(r, i + 1) /\ r[i + 1].ins.arg \in Nat
        /\ \A k \in 1..r[i + 1].ins.arg : IsNop(r, (i + 1) + k)
    BY <1>1, <1>4 DEF Operands, r
  <2>2. i + 1 \in DOMAIN c /\ c[i + 1].op = "NOP" /\ r[i + 1].ins = c[i + 1]
    BY <1>3, <2>1
  <2>3. PICK n \in Nat : n = c[i + 1].arg
    BY <2>1, <2>2
  <2>4. (i + 1) + n \in DOMAIN c
    <3>1. CASE n = 0
      BY <1>1, <2>2, <3>1
    <3>2. CASE n # 0
      BY <1>3, <2>1, <2>2, <2>3, <3>2, n \in 1..n
    <3>. QED BY <3>1, <3>2
  <2>. QED BY <2>2, <2>3, <2>4
<1>5. ASSUME NEW i \in DOMAIN c, c[i].op = "CHECK_CONTAINS"
      PROVE  /\ c[i].arg \in Nat
             /\ i + 1 \in DOMAIN c
             /\ c[i + 1].op = "NOP" /\ c[i + 1].arg \in Int
  <2>1. r[i].ins.arg \in Nat /\ IsNop(r, i + 1) /\ r[i + 1].ins.arg \in Int
    BY <1>1, <1>5 DEF Operands, r
  <2>. QED BY <1>1, <1>3, <2>1 DEF r
<1>6. ASSUME NEW i \in DOMAIN c,
             c[i].op \in {"BRANCH_ALLOF", "BRANCH_ANYOF", "BRANCH_ONEOF", "ENTER_PREFIX_ITEM"}
      PROVE  c[i].arg \in Nat
  <2>1. r[i].ins.arg \in Nat
    BY <1>1, <1>6 DEF Operands, ManySubs, r
  <2>. QED BY <1>1, <2>1 DEF r
<1>. QED BY <1>1, <1>4, <1>5, <1>6 DEF WellFormed

\* What an instruction announces, as an instruction and as a step.
LEMMA ShapeAnnounces ==
  ASSUME NEW K, NEW c, NEW m \in Nat, NEW d, Shape(K, c, m, d), NEW i \in 1..(m + 1)
  PROVE  /\ Announces(c, i) = Opens(Emitted(c), i) /\ Opens(Emitted(c), i) \in Nat
         /\ c[i].op = "END" => Opens(Emitted(c), i) = 0
<1>. DEFINE r == Emitted(c)
<1>1. /\ DOMAIN c = 1..(m + 1)
      /\ \A j \in 1..(m + 1) : r[j].ins = c[j] /\ Op(r[j]) = c[j].op /\ Operands(r, j)
  BY DEF Shape
<1>2. DOMAIN r = 1..(m + 1)
  BY <1>1 DEF Emitted
<1>. HIDE DEF r
<1>3. r[i].ins = c[i] /\ Op(r[i]) = c[i].op /\ Operands(r, i)
  BY <1>1
<1>4. c[i].op = "DISCRIMINATOR" => r[i + 1].ins = c[i + 1] /\ r[i + 1].ins.arg \in Nat
  BY <1>1, <1>2, <1>3 DEF Operands, IsNop
<1>5. c[i].op \in ManySubs => c[i].arg \in Nat
  BY <1>3 DEF Operands
<1>6. CASE c[i].op \in OneSub
  <2>1. c[i].op \notin ManySubs \cup {"DISCRIMINATOR", "END"}
    BY <1>6 DEF OneSub, ManySubs, BlockOps, CondParts
  <2>. QED BY <1>3, <1>6, <2>1 DEF Announces, Opens, OneSub, ManySubs, r
<1>7. CASE c[i].op \in ManySubs
  <2>1. c[i].op \notin OneSub \cup {"END"}
    BY <1>7 DEF OneSub, ManySubs, BlockOps, CondParts
  <2>. QED BY <1>3, <1>5, <1>7, <2>1 DEF Announces, Opens, OneSub, ManySubs, r
<1>8. CASE c[i].op = "DISCRIMINATOR"
  <2>1. c[i].op \notin OneSub \cup ManySubs \cup {"END"}
    BY <1>8 DEF OneSub, ManySubs, BlockOps, CondParts
  <2>. QED BY <1>3, <1>4, <1>8, <2>1 DEF Announces, Opens, OneSub, ManySubs, r
<1>9. CASE c[i].op \notin OneSub \cup ManySubs \cup {"DISCRIMINATOR"}
  BY <1>3, <1>9 DEF Announces, Opens, OneSub, ManySubs, r
<1>. QED BY <1>6, <1>7, <1>8, <1>9

\* How many sub-programs are open behind an instruction.
LEMMA DepthFollows ==
  ASSUME NEW op, NEW n \in Nat, op = "END" => n = 0,
         NEW p, p.depth \in Nat, NEW q, Follows(op, n, p, q)
  PROVE  q.depth = p.depth + n - (IF op = "END" THEN 1 ELSE 0)
<1>1. After(op, n, p).depth = IF op = "END" THEN p.depth - 1 ELSE p.depth + n
  BY DEF After, Pop, Push
<1>2. Bare(After(op, n, p)).depth = After(op, n, p).depth
  BY DEF Bare, After, Pop, Push
<1>. QED BY <1>1, <1>2 DEF Follows

LEMMA FinishedNests ==
  ASSUME NEW K, Finished(K, code)
  PROVE  /\ \A i \in 1..Len(code) : Open[i] > 0
         /\ Open[Len(code) + 1] = 0
<1>. DEFINE Solves(f) == f = [i \in 1..(Len(code) + 1) |->
                                IF i = 1 THEN 1
                                ELSE f[i - 1] + SubPrograms(i - 1)
                                       - (IF code[i - 1].op = "END" THEN 1 ELSE 0)]
            open == Open
<1>00. PICK m \in Nat : \E d : Shape(K, code, m, d)
  BY FinishedShape
<1>0. PICK d : Shape(K, code, m, d)
  BY <1>00
<1>1. DOMAIN code = 1..(m + 1) /\ Len(code) = m + 1 /\ code[m + 1].op = "END"
  BY <1>0 DEF Shape
<1>2. /\ d[1] = Whole /\ d[m + 1] = Whole
      /\ \A i \in 1..m : /\ IsPlace(d[i]) /\ d[i].depth > 0
                         /\ Follows(code[i].op, Opens(Emitted(code), i), d[i], d[i + 1])
  BY <1>0 DEF Shape, Permitted
<1>3. \A i \in 1..(m + 1) : d[i].depth \in Nat /\ d[i].depth > 0
  <2>1. Whole.depth = 1
    BY DEF Whole
  <2>2. \A i \in 1..(m + 1) : i \in 1..m \/ i = m + 1
    OBVIOUS
  <2>. QED BY <1>2, <2>1, <2>2, PlaceParts
<1>4. ASSUME NEW i \in 1..(m + 1)
      PROVE  /\ SubPrograms(i) = Opens(Emitted(code), i) /\ Opens(Emitted(code), i) \in Nat
             /\ code[i].op = "END" => Opens(Emitted(code), i) = 0
  <2>1. SubPrograms(i) = Announces(code, i)
    BY DEF SubPrograms, Announces
  <2>. QED BY <1>0, <2>1, ShapeAnnounces
<1>. DEFINE f == [i \in 1..(m + 2) |-> IF i = m + 2 THEN 0 ELSE d[i].depth]
<1>5. /\ f[1] = 1 /\ f[m + 1] = 1 /\ f[m + 2] = 0
      /\ \A i \in 1..(m + 1) : f[i] = d[i].depth /\ f[i] > 0 /\ f[i] \in Nat
  <2>1. \A i \in 1..(m + 1) : i \in 1..(m + 2) /\ i # m + 2
    OBVIOUS
  <2>2. 1 \in 1..(m + 1) /\ m + 1 \in 1..(m + 1) /\ m + 2 \in 1..(m + 2) /\ Whole.depth = 1
    BY DEF Whole
  <2>. QED BY <1>2, <1>3, <2>1, <2>2
<1>6. ASSUME NEW i \in 1..(m + 1)
      PROVE  f[i + 1] = f[i] + SubPrograms(i) - (IF code[i].op = "END" THEN 1 ELSE 0)
  <2>. HIDE DEF f
  <2>1. CASE i = m + 1
    <3>1. f[i + 1] = 0 /\ f[i] = 1 /\ SubPrograms(i) = 0
          /\ (IF code[i].op = "END" THEN 1 ELSE 0) = 1
      <4>1. (m + 1) + 1 = m + 2
        OBVIOUS
      <4>. QED BY <1>1, <1>4, <1>5, <2>1, <4>1
    <3>. QED BY <3>1
  <2>2. CASE i # m + 1
    <3>1. i \in 1..m /\ i + 1 \in 1..(m + 1)
      BY <2>2
    <3>2. PICK op, n, p, q : /\ op = code[i].op /\ n = Opens(Emitted(code), i)
                             /\ p = d[i] /\ q = d[i + 1]
      OBVIOUS
    <3>3. n \in Nat /\ (op = "END" => n = 0) /\ p.depth \in Nat /\ Follows(op, n, p, q)
      BY <1>2, <1>3, <1>4, <3>1, <3>2
    <3>4. q.depth = p.depth + n - (IF op = "END" THEN 1 ELSE 0)
      BY <3>3, DepthFollows
    <3>5. f[i + 1] = q.depth /\ f[i] = p.depth /\ SubPrograms(i) = n
      BY <1>4, <1>5, <3>1, <3>2
    <3>. QED BY <3>2, <3>4, <3>5, Zenon
  <2>. QED BY <2>1, <2>2
<1>7. Solves(f)
  <2>1. ASSUME NEW i \in 1..(m + 2)
        PROVE  f[i] = IF i = 1 THEN 1
                      ELSE f[i - 1] + SubPrograms(i - 1)
                             - (IF code[i - 1].op = "END" THEN 1 ELSE 0)
    <3>. HIDE DEF f
    <3>1. i # 1 => i - 1 \in 1..(m + 1) /\ (i - 1) + 1 = i
      OBVIOUS
    <3>2. i # 1 => f[(i - 1) + 1] = f[i - 1] + SubPrograms(i - 1)
                                     - (IF code[i - 1].op = "END" THEN 1 ELSE 0)
      BY <1>6, <3>1
    <3>. QED BY <1>5, <3>1, <3>2
  <2>2. f = [i \in 1..(m + 2) |-> f[i]] /\ Len(code) + 1 = m + 2
    BY <1>1
  <2>. HIDE DEF f
  <2>. QED BY <2>1, <2>2
<1>8. open = CHOOSE g : Solves(g)
  BY DEF Open
<1>9. Solves(open)
  <2>. HIDE DEF Solves, f, open
  <2>. QED BY <1>7, <1>8
<1>10. /\ open[1] = 1
       /\ \A i \in 1..(m + 1) :
            open[i + 1] = open[i] + SubPrograms(i) - (IF code[i].op = "END" THEN 1 ELSE 0)
  <2>. HIDE DEF open
  <2>1. \A i \in 1..(m + 2) :
          open[i] = IF i = 1 THEN 1
                    ELSE open[i - 1] + SubPrograms(i - 1)
                           - (IF code[i - 1].op = "END" THEN 1 ELSE 0)
    <3>1. Len(code) + 1 = m + 2
      BY <1>1
    <3>. QED BY <1>9, <3>1, Zenon
  <2>2. 1 \in 1..(m + 2)
        /\ \A i \in 1..(m + 1) : i + 1 \in 1..(m + 2) /\ i + 1 # 1 /\ (i + 1) - 1 = i
    OBVIOUS
  <2>3. ASSUME NEW i \in 1..(m + 1)
        PROVE open[i + 1] = open[i] + SubPrograms(i) - (IF code[i].op = "END" THEN 1 ELSE 0)
    <3>1. open[i + 1] = open[(i + 1) - 1] + SubPrograms((i + 1) - 1)
                          - (IF code[(i + 1) - 1].op = "END" THEN 1 ELSE 0)
      BY <2>1, <2>2, Zenon
    <3>. QED BY <2>2, <3>1
  <2>. QED BY <2>1, <2>2, <2>3
<1>. HIDE DEF open, Solves, f
<1>. DEFINE T == {i \in 0..(m + 1) : open[i + 1] = f[i + 1]}
<1>11. 0 \in T
  BY <1>5, <1>10
<1>12. ASSUME NEW i \in 0..((m + 1) - 1), i \in T PROVE i + 1 \in T
  <2>1. i + 1 \in 1..(m + 1) /\ i + 1 \in 0..(m + 1) /\ open[i + 1] = f[i + 1]
    BY <1>12
  <2>2. open[(i + 1) + 1] = f[(i + 1) + 1]
    BY <1>6, <1>10, <2>1
  <2>. QED BY <2>1, <2>2
<1>13. 0..(m + 1) \subseteq T
  <2>1. m + 1 \in Nat
    OBVIOUS
  <2>. HIDE DEF T
  <2>. QED BY <1>11, <1>12, <2>1, BoundedInduction
<1>14. \A i \in 1..(m + 2) : open[i] = f[i]
  <2>1. ASSUME NEW i \in 1..(m + 2) PROVE open[i] = f[i]
    <3>1. i - 1 \in 0..(m + 1) /\ (i - 1) + 1 = i
      OBVIOUS
    <3>2. open[(i - 1) + 1] = f[(i - 1) + 1]
      BY <1>13, <3>1
    <3>. QED BY <3>1, <3>2
  <2>. QED BY <2>1
<1>15. (m + 1) + 1 = m + 2 /\ m + 2 \in 1..(m + 2)
       /\ \A i \in 1..(m + 1) : i \in 1..(m + 2)
  OBVIOUS
<1>16. /\ \A i \in 1..(m + 1) : open[i] > 0
       /\ open[(m + 1) + 1] = 0
  BY <1>5, <1>14, <1>15
<1>. QED BY <1>1, <1>16 DEF open

\* A finished program goes through places from the whole program to its end, if
\* the schemas were such that skip_to_end goes over no composition.
LEMMA FinishedGoesThrough ==
  ASSUME NEW K, K.skips = SkippedOps, NEW c, Finished(K, c)
  PROVE  \E P : GoesThrough(c, P)
<1>1. PICK m \in Nat : \E d : Shape(K, c, m, d)
  BY FinishedShape
<1>2. PICK d : Shape(K, c, m, d)
  BY <1>1
<1>. DEFINE P == [i \in 1..(m + 2) |-> IF i = m + 2 THEN Pop(Whole) ELSE d[i]]
<1>3. /\ P[1] = Whole /\ P[m + 1] = Whole /\ P[m + 2] = Pop(Whole)
      /\ \A i \in 1..(m + 1) : P[i] = d[i]
  <2>1. d[1] = Whole /\ d[m + 1] = Whole
    BY <1>2 DEF Shape
  <2>2. \A i \in 1..(m + 1) : i \in 1..(m + 2) /\ i # m + 2
    OBVIOUS
  <2>3. 1 \in 1..(m + 1) /\ m + 1 \in 1..(m + 1) /\ m + 2 \in 1..(m + 2)
    OBVIOUS
  <2>. QED BY <2>1, <2>2, <2>3
<1>. HIDE DEF P
<1>4. Len(c) = m + 1 /\ c[m + 1].op = "END" /\ (m + 1) + 1 = m + 2
  BY <1>2 DEF Shape
<1>5. ASSUME NEW i \in 1..(m + 1)
      PROVE  /\ IsPlace(P[i])
             /\ Permitted(SkippedOps, c[i].op, Announces(c, i), P[i])
             /\ Follows(c[i].op, Announces(c, i), P[i], P[i + 1])
  <2>1. CASE i = m + 1
    <3>1. IsPlace(Whole) /\ Whole.depth > 0
      BY WholeIsBare DEF BarePlace
    <3>2. P[i] = Whole /\ P[i + 1] = Pop(Whole) /\ c[i].op = "END"
      BY <1>3, <1>4, <2>1
    <3>3. "END" \notin CompositionOps \cup {"COND_THEN", "COND_ELSE"}
      BY DEF CompositionOps
    <3>4. Permitted(SkippedOps, "END", Announces(c, i), Whole)
      BY <3>1, <3>3 DEF Permitted
    <3>5. Follows("END", Announces(c, i), Whole, Pop(Whole))
      BY DEF Follows, After
    <3>. QED BY <3>1, <3>2, <3>4, <3>5
  <2>2. CASE i # m + 1
    <3>1. i \in 1..m /\ i + 1 \in 1..(m + 1)
      BY <2>2
    <3>2. /\ IsPlace(d[i]) /\ Permitted(K.skips, c[i].op, Opens(Emitted(c), i), d[i])
          /\ Follows(c[i].op, Opens(Emitted(c), i), d[i], d[i + 1])
      BY <1>2, <3>1 DEF Shape
    <3>3. Announces(c, i) = Opens(Emitted(c), i)
      BY <1>2, ShapeAnnounces
    <3>4. P[i] = d[i] /\ P[i + 1] = d[i + 1]
      BY <1>3, <3>1
    <3>. QED BY <3>2, <3>3, <3>4
  <2>. QED BY <2>1, <2>2
<1>6. P[Len(c) + 1].depth = 0
  <2>1. Pop(Whole).depth = 0
    BY DEF Pop, Whole
  <2>. QED BY <1>3, <1>4, <2>1
<1>7. GoesThrough(c, P)
  BY <1>3, <1>4, <1>5, <1>6 DEF GoesThrough
<1>. QED BY <1>7

LEMMA FinishedNames ==
  ASSUME NEW K, NEW c, Finished(K, c)
  PROVE  NamesFollow(c)
<1>. DEFINE r == Emitted(c)
<1>1. PICK m \in Nat : \E d : Shape(K, c, m, d)
  BY FinishedShape
<1>2. /\ DOMAIN c = 1..(m + 1) /\ Len(c) = m + 1
      /\ \A i \in 1..(m + 1) : r[i].ins = c[i] /\ Op(r[i]) = c[i].op /\ Operands(r, i)
  BY <1>1 DEF Shape
<1>3. DOMAIN r = 1..(m + 1)
  BY <1>2 DEF Emitted
<1>. HIDE DEF r
<1>4. \A j : IsNop(r, j) => c[j].op = "NOP" /\ r[j].ins = c[j]
  BY <1>2, <1>3 DEF IsNop
<1>5. ASSUME NEW i \in 1..(m + 1), c[i].op \in {"CHECK_DEP_REQUIRED", "DISCRIMINATOR"}
      PROVE  \A k \in 1..c[i + 1].arg : c[(i + 1) + k].op = "NOP"
  <2>1. IsNop(r, i + 1) /\ \A k \in 1..r[i + 1].ins.arg : IsNop(r, (i + 1) + k)
    BY <1>2, <1>5 DEF Operands
  <2>2. r[i + 1].ins = c[i + 1]
    BY <1>4, <2>1
  <2>. QED BY <1>4, <2>1, <2>2
<1>. QED BY <1>2, <1>5 DEF NamesFollow

-----------------------------------------------------------------------------
(* The compilation.                                                        *)

\* The hypothesis of the theorems: the 16-bit counts are big enough.
CountsFit == \A g \in Graphs : \A m \in DOMAIN g : CompositionFits(g[m])

\* K says what is known of the schemas of the graph g.
Describes(K, g) ==
  /\ K.ids = DOMAIN g
  /\ \A m \in DOMAIN g : NodeSafe(K, g[m], m \in K.plain)

StructureInv(K) ==
  /\ graph \in Graphs /\ Describes(K, graph)
  /\ outcome = "compiling" => \E d : Stacked(K, code, calls, d)
  /\ outcome = "ok" => Finished(K, code)

LEMMA NodePlan ==
  ASSUME CountsFit, NEW g \in Graphs, NEW K, Describes(K, g), NEW m \in DOMAIN g, NEW cfg
  PROVE  IsPlan(K, Plan(g[m], cfg), m \in K.plain)
<1>1. IsNode(g[m], K.ids)
  BY GraphAssumption DEF Describes
<1>2. CompositionFits(g[m]) /\ NodeSafe(K, g[m], m \in K.plain)
  BY DEF CountsFit, Describes
<1>. QED BY <1>1, <1>2, PlanIsPlan

\* Without skip_to_end a graph needs no more than what GraphAssumption says.
LEMMA AnyGraph ==
  ASSUME NEW g
  PROVE  \E K : K.skips = {} /\ Describes(K, g)
<1>. DEFINE K == [ids |-> DOMAIN g, plain |-> {}, skips |-> {}]
<1>1. K.ids = DOMAIN g /\ K.plain = {} /\ K.skips = {}
  OBVIOUS
<1>. HIDE DEF K
<1>. QED BY <1>1 DEF Describes, NodeSafe

LEMMA SafeGraph ==
  ASSUME NEW g, SkipSafe(g)
  PROVE  \E K : K.skips = SkippedOps /\ Describes(K, g)
<1>1. PICK plain \in SUBSET DOMAIN g :
        /\ \A m \in DOMAIN g : SkippedChildren(g[m]) \subseteq plain
        /\ \A m \in plain : Children(g[m]) \subseteq plain /\ ~HasComposition(g[m])
  BY DEF SkipSafe
<1>. DEFINE K == [ids |-> DOMAIN g, plain |-> plain, skips |-> SkippedOps]
<1>2. K.ids = DOMAIN g /\ K.plain = plain /\ K.skips = SkippedOps
  OBVIOUS
<1>. HIDE DEF K
<1>. QED BY <1>1, <1>2 DEF Describes, NodeSafe

\* The activation on top.
LEMMA TopLeads ==
  ASSUME NEW K, NEW c, NEW s, NEW d, Stacked(K, c, s, d), s # <<>>
  PROVE  /\ Leads(K, c, s[Len(s)], d[Len(s) - 1]) /\ IsSeq(c)
         /\ BarePlace(d[Len(s) - 1])
BY DEF Stacked, Leads

\* While the schema is compiled the activations keep the program in its shape...
LEMMA CompileKeepsStack ==
  ASSUME CountsFit, NEW K, StructureInv(K), EmitInstr \/ CompilePattern \/ CallSub \/ FollowRef,
         outcome' = "compiling"
  PROVE  \E d : Stacked(K, code', calls', d)
<1>1. outcome = "compiling" /\ calls # <<>> /\ Steps # <<>>
  BY DEF EmitInstr, CompilePattern, CallSub, FollowRef, NextIs
<1>. DEFINE n == Len(calls)
<1>2. PICK d : Stacked(K, code, calls, d)
  BY <1>1 DEF StructureInv
<1>3. Leads(K, code, Steps, d[n - 1]) /\ IsSeq(code) /\ BarePlace(d[n - 1])
  BY <1>1, <1>2, TopLeads DEF Steps
<1>4. graph \in Graphs /\ Describes(K, graph) /\ K.ids = DOMAIN graph
  BY DEF StructureInv, Describes
<1>5. PICK st, rest : st = Head(Steps) /\ rest = Tail(Steps)
  OBVIOUS
<1>6. CASE EmitInstr
  <2>1. /\ st.do = "emit" /\ code' = Append(code, st.ins)
        /\ calls' = [calls EXCEPT ![n] = rest]
    BY <1>5, <1>6 DEF EmitInstr, NextIs, Append1, StepDone, EmitFails, Abort
  <2>2. Leads(K, code', rest, d[n - 1])
    BY <1>1, <1>3, <1>5, <2>1, LeadsEmit
  <2>3. Stacked(K, code', [calls EXCEPT ![n] = rest], d)
    BY <1>1, <1>2, <2>2, StackedTop
  <2>. QED BY <2>1, <2>3
<1>7. CASE CompilePattern
  <2>1. /\ st.do = "regex" /\ code' = code
        /\ calls' = [calls EXCEPT ![n] = rest]
    BY <1>5, <1>7 DEF CompilePattern, NextIs, StepDone, Abort
  <2>2. Leads(K, code, rest, d[n - 1])
    BY <1>1, <1>3, <1>5, <2>1, LeadsRegex
  <2>3. Stacked(K, code, [calls EXCEPT ![n] = rest], d)
    BY <1>1, <1>2, <2>2, StackedTop
  <2>. QED BY <2>1, <2>3
<1>8. CASE CallSub
  <2>1. PICK plan : plan = Plan(graph[st.node], config)
    OBVIOUS
  <2>2. /\ st.do = "call" /\ code' = code
        /\ calls' = Append([calls EXCEPT ![n] = rest], plan)
    BY <1>5, <1>8, <2>1 DEF CallSub, NextIs
  <2>3. /\ st.node \in K.ids
        /\ \E m : /\ Nested(K, Emitted(code), Whole, m) /\ Nested(K, rest, m, d[n - 1])
                  /\ BarePlace(m) /\ (Skippable(K.skips, m) => st.node \in K.plain)
    BY <1>1, <1>3, <1>5, <2>2, LeadsCut
  <2>4. PICK m : /\ Nested(K, Emitted(code), Whole, m) /\ Nested(K, rest, m, d[n - 1])
                 /\ BarePlace(m) /\ (Skippable(K.skips, m) => st.node \in K.plain)
    BY <2>3
  <2>5. IsPlan(K, plan, st.node \in K.plain)
    BY <1>4, <2>1, <2>3, NodePlan
  <2>6. \E e : Stacked(K, code, Append([calls EXCEPT ![n] = rest], plan), e)
    BY <1>1, <1>2, <1>3, <2>4, <2>5, StackedCall
  <2>. QED BY <2>2, <2>6
<1>9. CASE FollowRef
  <2>1. PICK plan : plan = Plan(graph[st.node], config)
    OBVIOUS
  <2>2. /\ st.do = "follow" /\ code' = code
        /\ calls' = [calls EXCEPT ![n] = plan]
    BY <1>5, <1>9, <2>1 DEF FollowRef, NextIs
  <2>3. /\ st.node \in K.ids /\ Nested(K, Emitted(code), Whole, d[n - 1])
        /\ Skippable(K.skips, d[n - 1]) => st.node \in K.plain
    BY <1>1, <1>3, <1>5, <2>2, LeadsFollow
  <2>4. IsPlan(K, plan, st.node \in K.plain)
    BY <1>4, <2>1, <2>3, NodePlan
  <2>5. Leads(K, code, plan, d[n - 1])
    BY <1>3, <2>3, <2>4, LeadsPlan
  <2>6. Stacked(K, code, [calls EXCEPT ![n] = plan], d)
    BY <1>1, <1>2, <2>5, StackedTop
  <2>. QED BY <2>2, <2>6
<1>. QED BY <1>6, <1>7, <1>8, <1>9

LEMMA ReturnKeepsStack ==
  ASSUME NEW K, StructureInv(K), ReturnFromSub
  PROVE  \E d : Stacked(K, code, Front(calls), d)
<1>1. outcome = "compiling" /\ calls # <<>> /\ calls[Len(calls)] = <<>>
  BY DEF ReturnFromSub, Steps
<1>2. PICK d : Stacked(K, code, calls, d)
  BY <1>1 DEF StructureInv
<1>. QED BY <1>1, <1>2, StackedReturn

\* ... and the last END closes it.
LEMMA FinalEndFinishes ==
  ASSUME NEW K, StructureInv(K), EmitFinalEnd, outcome' = "ok"
  PROVE  Finished(K, code')
<1>1. outcome = "compiling" /\ calls = <<>>
  BY DEF EmitFinalEnd
<1>2. code' = Append(code, Instr("END", 0))
  BY DEF EmitFinalEnd, EmitFails, Abort, Append1
<1>3. IsSeq(code) /\ Nested(K, Emitted(code), Whole, Whole)
  BY <1>1 DEF StructureInv, Stacked
<1>4. PICK c, ins : c = code /\ ins = Instr("END", 0)
  OBVIOUS
<1>5. IsSeq(c)
  BY <1>3, <1>4
<1>6. /\ IsSeq(Append(c, ins))
      /\ Emitted(Append(c, ins)) = Emitted(c) \o <<[do |-> "emit", ins |-> ins]>>
  BY <1>5, AppendEmitted
<1>7. [do |-> "emit", ins |-> ins] = Emit("END", 0)
  BY <1>4 DEF Emit
<1>. QED BY <1>2, <1>3, <1>4, <1>6, <1>7 DEF Finished

\* What is known of the graph stays known, and the program keeps its shape.
LEMMA StructureStep ==
  ASSUME CountsFit, NEW K, StructureInv(K), Next
  PROVE  StructureInv(K)'
<1>1. CASE EmitInstr \/ CompilePattern \/ CallSub \/ FollowRef
  <2>1. graph' = graph /\ outcome' # "ok"
    BY <1>1 DEF EmitInstr, CompilePattern, CallSub, FollowRef, NextIs, EmitFails, Abort
  <2>2. outcome' = "compiling" => \E d : Stacked(K, code', calls', d)
    BY <1>1, CompileKeepsStack
  <2>. QED BY <2>1, <2>2 DEF StructureInv
<1>2. CASE RejectRef
  BY <1>2 DEF RejectRef, Abort, StructureInv
<1>3. CASE ReturnFromSub
  <2>1. \E d : Stacked(K, code, Front(calls), d)
    BY <1>3, ReturnKeepsStack
  <2>. QED BY <1>3, <2>1 DEF ReturnFromSub, StructureInv
<1>4. CASE EmitFinalEnd
  <2>1. graph' = graph /\ outcome' # "compiling"
    BY <1>4 DEF EmitFinalEnd, EmitFails, Abort
  <2>2. outcome' = "ok" => Finished(K, code')
    BY <1>4, FinalEndFinishes
  <2>. QED BY <2>1, <2>2 DEF StructureInv
<1>5. CASE Free
  BY <1>5 DEF Free, StructureInv
<1>. QED BY <1>1, <1>2, <1>3, <1>4, <1>5 DEF Next, CompileStep

LEMMA StructureInit ==
  ASSUME CountsFit, Init, NEW K, Describes(K, graph)
  PROVE  StructureInv(K)
<1>1. graph \in Graphs /\ Root \in DOMAIN graph
  BY GraphAssumption DEF Init
<1>2. IsPlan(K, Plan(graph[Root], config), Root \in K.plain)
  BY <1>1, NodePlan
<1>3. "PROGRAM" \notin K.skips
  BY <1>1 DEF Describes, NodeSafe, SkippedOps, BlockOps, CondParts
<1>4. \E d : Stacked(K, <<>>, <<Plan(graph[Root], config)>>, d)
  BY <1>2, <1>3, StackedFirst
<1>. QED BY <1>1, <1>4 DEF Init, StructureInv

\* oas_schema_compile returns a program whose ENDs close what its instructions
\* open, for every schema graph whose compositions fit their 16-bit counts.
THEOREM ProgramsAreStructured ==
  ASSUME CountsFit
  PROVE  Spec => []ProgramIsStructured
<1>. DEFINE Inv == \E K : StructureInv(K)
<1>1. Init => Inv
  <2>1. \E K : Describes(K, graph)
    BY AnyGraph
  <2>. QED BY <2>1, StructureInit
<1>2. Inv /\ [Next]_compilerVars => Inv'
  <2>. SUFFICES ASSUME Inv, [Next]_compilerVars PROVE Inv'
    OBVIOUS
  <2>1. PICK K : StructureInv(K)
    OBVIOUS
  <2>2. StructureInv(K)'
    <3>1. CASE UNCHANGED compilerVars
      BY <2>1, <3>1 DEF StructureInv, compilerVars
    <3>2. CASE Next
      BY <2>1, <3>2, StructureStep
    <3>. QED BY <3>1, <3>2
  <2>. QED BY <2>2
<1>3. Inv => ProgramIsStructured
  BY FinishedWellFormed, FinishedNests DEF StructureInv, ProgramIsStructured
<1>. QED BY <1>1, <1>2, <1>3, PTL DEF Spec

-----------------------------------------------------------------------------
(* The program, run: the validation VM on what the compiler returns        *)
(* (SchemaExecution), from the proofs about the VM.                        *)

VMP == INSTANCE ValidationVMProofs
         WITH Values <- JsonValues, Codes <- {}, MemoryMayFail <- FALSE

\* ValidationVMProofs speaks of the programs and of the VM of SchemaExecution.
LEMMA SamePrograms ==
  /\ \A c : VMP!WellFormed(c) <=> WellFormed(c)
  /\ \A c, P : VMP!GoesThrough(c, P) <=> GoesThrough(c, P)
  /\ \A c : VMP!NamesFollow(c) <=> NamesFollow(c)
  /\ \A s : VMP!Str(s) = Str(s)
BY DEF WellFormed, GoesThrough, NamesFollow, Str, Ops, Whole, IsPlace, Permitted, SkippedOps,
       Announces, Follows, BlockOps, BranchOps, CondParts, LeafOps, Places, CompositionOps,
       Skippable, After, Bare, Marks, Pop, Push, VMP!WellFormed, VMP!GoesThrough,
       VMP!NamesFollow, VMP!Str, VMP!Ops, VMP!Whole, VMP!IsPlace, VMP!Permitted, VMP!SkippedOps,
       VMP!Announces, VMP!Follows, VMP!BlockOps, VMP!BranchOps, VMP!CondParts, VMP!LeafOps,
       VMP!Places, VMP!CompositionOps, VMP!Skippable, VMP!After, VMP!Bare, VMP!Marks, VMP!Pop,
       VMP!Push

LEMMA SameMachine ==
  /\ \A v, d : VM!Validate(v, d) <=> VMP!Validate(v, d)
  /\ VM!Execute \/ VM!Finish <=> VMP!Execute \/ VMP!Finish
BY DEF VM!Validate, VM!Execute, VM!Finish, VM!NewFrame, VM!Leaf, VM!Nop, VM!DepRequired,
       VM!Enter, VM!PassMember, VM!Call, VM!Return, VM!Close, VM!Cond, VM!Skip, VM!Fetching,
       VM!Top, VM!AtEnd, VM!OpAt, VM!LeafOps, VM!LeafFails, VM!SetTop, VM!AddError, VM!CondParts,
       VM!HasKey, VM!BlockOps, VM!BranchOps, VM!HeaderLength, VM!SubCount, VM!Unmatched,
       VM!NameLost, VM!SubValue, VM!Probing, VM!Merge, VM!Caller, VM!SubsDone, VM!Idle,
       VM!ClosingFails, VM!SkipsAfter, VM!AfterIf, VM!AfterThen, VM!SkipDepth, VM!TypeMask,
       VM!Magnitude, VM!HasDuplicateItems, VM!ObjGet, VM!Str, VM!SomeMatch, VM!Selects,
       VM!PastEnd, VM!Propagates, VM!Part, VM!NestingOps, VM!KeyMatches, VMP!Validate,
       VMP!Execute, VMP!Finish, VMP!NewFrame, VMP!Leaf, VMP!Nop, VMP!DepRequired, VMP!Enter,
       VMP!PassMember, VMP!Call, VMP!Return, VMP!Close, VMP!Cond, VMP!Skip, VMP!Fetching,
       VMP!Top, VMP!AtEnd, VMP!OpAt, VMP!LeafOps, VMP!LeafFails, VMP!SetTop, VMP!AddError,
       VMP!CondParts, VMP!HasKey, VMP!BlockOps, VMP!BranchOps, VMP!HeaderLength, VMP!SubCount,
       VMP!Unmatched, VMP!NameLost, VMP!SubValue, VMP!Probing, VMP!Merge, VMP!Caller,
       VMP!SubsDone, VMP!Idle, VMP!ClosingFails, VMP!SkipsAfter, VMP!AfterIf, VMP!AfterThen,
       VMP!SkipDepth, VMP!TypeMask, VMP!Magnitude, VMP!HasDuplicateItems, VMP!ObjGet, VMP!Str,
       VMP!SomeMatch, VMP!Selects, VMP!PastEnd, VMP!Propagates, VMP!Part, VMP!NestingOps,
       VMP!KeyMatches

LEMMA SameStop == VMP!StopsAtTheEnd <=> RunsToTheLastEnd
BY DEF RunsToTheLastEnd, VMP!StopsAtTheEnd, VM!Fetching, VMP!Fetching, VM!AtEnd, VMP!AtEnd,
       VM!OpAt, VMP!OpAt

LEMMA InstanceAssumptions ==
  VMP!ValuesAssumption /\ VMP!CodesAssumption /\ VMP!MemoryAssumption
BY ExecutionAssumption, SamePrograms
   DEF VMP!ValuesAssumption, VMP!CodesAssumption, VMP!MemoryAssumption

\* There is a program to run once the compiler has returned it, and until its
\* owner frees it.
SystemInv ==
  /\ \E K : K.skips = SkippedOps /\ StructureInv(K)
  /\ outcome = "ok" => VMP!IInv /\ VMP!Levelled
  /\ outcome # "ok" => stack = <<>>
  /\ outcome = "compiling" => (errors = <<>> /\ verdict = "idle" /\ direction = "none")

\* A finished program has places.
LEMMA FinishedPlaced ==
  ASSUME NEW K, K.skips = SkippedOps, NEW c, Finished(K, c)
  PROVE  \E P : VMP!Placed(c, P)
<1>1. PICK P : GoesThrough(c, P)
  BY FinishedGoesThrough
<1>2. NamesFollow(c) /\ WellFormed(c)
  BY FinishedNames, FinishedWellFormed
<1>3. Len(c) \in Nat /\ DOMAIN c = 1..Len(c)
  BY SeqParts DEF Finished
<1>4. VMP!Placed(c, P)
  BY <1>1, <1>2, <1>3, SamePrograms DEF VMP!Placed
<1>. QED BY <1>4

\* The VM before its first call, in the state that the last step of the
\* compiler leads to.
LEMMA IdleInv ==
  ASSUME Len(code') \in Nat, DOMAIN code' = 1..Len(code'), WellFormed(code'),
         stack' = <<>>, errors' = <<>>, verdict' = "idle", direction' = "none"
  PROVE  VMP!IInv'
<1>1. Len(stack') = 0
  OBVIOUS
<1>2. \A S : <<>> \in Seq(S)
  OBVIOUS
<1>3. stack' \in Seq(VMP!Frame) /\ errors' \in Seq([at : Nat, val : JsonValues])
  BY <1>2
<1>4. VMP!TypeOK'
  BY <1>1, <1>3, SamePrograms DEF VMP!TypeOK, VMP!Directions, VMP!Verdicts
<1>. QED BY <1>1, <1>4
     DEF VMP!IInv, VMP!CallersWait,
         VMP!DeeperIsFurther, VMP!Accounted, VMP!Phases, VMP!ErrorsExplainVerdict

\* The compiler goes on, and the VM has nothing to run before it returns.
LEMMA CompileKeepsSystem ==
  ASSUME CountsFit, SystemInv, Compile
  PROVE  SystemInv'
<1>1. PICK K : K.skips = SkippedOps /\ StructureInv(K)
  BY DEF SystemInv
<1>2. outcome = "compiling" /\ Next
  BY DEF Compile, CompileStep, Next, EmitInstr, CompilePattern, CallSub, FollowRef, RejectRef,
         ReturnFromSub, EmitFinalEnd, NextIs
<1>3. StructureInv(K)'
  BY <1>1, <1>2, StructureStep
<1>4. stack = <<>> /\ errors = <<>> /\ verdict = "idle" /\ direction = "none"
  BY <1>2 DEF SystemInv
<1>5. stack' = <<>> /\ errors' = <<>> /\ verdict' = "idle" /\ direction' = "none"
  BY <1>4 DEF Compile, validatorVars
<1>6. ASSUME outcome' = "ok"
      PROVE  VMP!IInv' /\ VMP!Levelled'
  <2>1. Finished(K, code')
    BY <1>3, <1>6 DEF StructureInv
  <2>2. PICK c : c = code'
    OBVIOUS
  <2>3. Finished(K, c)
    BY <2>1, <2>2
  <2>4. PICK P : VMP!Placed(c, P)
    BY <1>1, <2>3, FinishedPlaced
  <2>5. Len(code') \in Nat /\ DOMAIN code' = 1..Len(code') /\ WellFormed(code')
    BY <2>2, <2>4, SamePrograms DEF VMP!Placed
  <2>6. VMP!IInv'
    BY <1>5, <2>5, IdleInv
  <2>7. Len(stack') = 0
    BY <1>5
  <2>8. VMP!Levels(P)'
    BY <2>7 DEF VMP!Levels
  <2>9. VMP!Levelled'
    BY <2>2, <2>4, <2>8 DEF VMP!Levelled
  <2>. QED BY <2>6, <2>9
<1>7. \E L : L.skips = SkippedOps /\ StructureInv(L)'
  BY <1>1, <1>3
<1>. QED BY <1>5, <1>6, <1>7 DEF SystemInv

\* A validation begins, or takes a turn.
LEMMA SubmitKeepsSystem ==
  ASSUME SystemInv, Submit
  PROVE  SystemInv'
<1>1. PICK K : K.skips = SkippedOps /\ StructureInv(K)
  BY DEF SystemInv
<1>2. outcome = "ok" /\ outcome' = "ok" /\ graph' = graph /\ code' = code /\ calls' = calls
  BY DEF Submit, compilerVars
<1>3. StructureInv(K)'
  BY <1>1, <1>2 DEF StructureInv
<1>4. VMP!IInv /\ VMP!Levelled
  BY <1>2 DEF SystemInv
<1>5. PICK v \in JsonValues, d \in VMP!Directions : VMP!Validate(v, d)
  BY ExecutionAssumption, SameMachine DEF Submit, VM!Directions, VMP!Directions
<1>6. VMP!IInv'
  BY <1>4, <1>5, InstanceAssumptions, VMP!ValidateStep
<1>7. PICK P : VMP!Placed(code, P)
  BY <1>4 DEF VMP!Levelled
<1>8. VMP!Levels(P)'
  BY <1>4, <1>5, <1>7, InstanceAssumptions, VMP!ValidateLevels
<1>9. VMP!Levelled'
  BY <1>2, <1>7, <1>8 DEF VMP!Levelled
<1>10. \E L : L.skips = SkippedOps /\ StructureInv(L)'
  BY <1>1, <1>3
<1>. QED BY <1>2, <1>6, <1>9, <1>10 DEF SystemInv

LEMMA RunKeepsSystem ==
  ASSUME SystemInv, Run
  PROVE  SystemInv'
<1>1. PICK K : K.skips = SkippedOps /\ StructureInv(K)
  BY DEF SystemInv
<1>2. VMP!Execute \/ VMP!Finish
  BY SameMachine DEF Run
<1>3. outcome' = outcome /\ graph' = graph /\ calls' = calls
  BY DEF Run
<1>4. outcome = "ok"
  <2>1. SUFFICES ASSUME stack = <<>> PROVE FALSE
    BY DEF SystemInv
  <2>2. Len(stack) # 1
    BY <2>1
  <2>. QED BY <1>2, <2>1, <2>2
       DEF VMP!Execute, VMP!Finish, VMP!Leaf, VMP!Nop, VMP!DepRequired, VMP!Enter,
           VMP!PassMember, VMP!Call, VMP!Return, VMP!Close, VMP!Cond, VMP!Skip
<1>5. VMP!IInv /\ VMP!Levelled
  BY <1>4 DEF SystemInv
<1>6. VMP!IInv'
  BY <1>2, <1>5, InstanceAssumptions, VMP!TurnStep
<1>7. PICK P : VMP!Placed(code, P) /\ VMP!Levels(P)
  BY <1>5 DEF VMP!Levelled
<1>8. VMP!Levels(P)' /\ code' = code
  BY <1>2, <1>5, <1>7, InstanceAssumptions, VMP!LevelsStep
<1>9. VMP!Levelled'
  BY <1>7, <1>8 DEF VMP!Levelled
<1>10. StructureInv(K)'
  BY <1>1, <1>3, <1>8 DEF StructureInv
<1>11. \E L : L.skips = SkippedOps /\ StructureInv(L)'
  BY <1>1, <1>10
<1>. QED BY <1>3, <1>4, <1>6, <1>9, <1>11 DEF SystemInv

\* The owner frees the program when no validation is under way.
LEMMA ReleaseKeepsSystem ==
  ASSUME CountsFit, SystemInv, Release
  PROVE  SystemInv'
<1>1. PICK K : K.skips = SkippedOps /\ StructureInv(K)
  BY DEF SystemInv
<1>2. outcome = "ok" /\ outcome' = "freed" /\ Next /\ stack' = stack /\ verdict # "running"
  BY DEF Release, Free, Next, validatorVars
<1>3. StructureInv(K)'
  BY <1>1, <1>2, StructureStep
<1>4. stack = <<>>
  BY <1>2 DEF SystemInv, VMP!IInv, VMP!Phases
<1>5. \E L : L.skips = SkippedOps /\ StructureInv(L)'
  BY <1>1, <1>3
<1>. QED BY <1>2, <1>4, <1>5 DEF SystemInv

\* skip_to_end does not count the ENDs of a composition. In a schema where it
\* never goes over one, validation goes on to the last END of the program
\* (oas_compiler.c, compile_schema; oas_validator.c, execute, skip_to_end).
THEOREM ValidationRunsToTheLastEnd ==
  ASSUME CountsFit, \A g \in Graphs : SkipSafe(g)
  PROVE  SystemSpec => []RunsToTheLastEnd
<1>1. SystemInit => SystemInv
  <2>. SUFFICES ASSUME SystemInit
                PROVE  SystemInv
    OBVIOUS
  <2>1. graph \in Graphs /\ outcome = "compiling"
    BY DEF SystemInit, Init
  <2>2. PICK K : K.skips = SkippedOps /\ Describes(K, graph)
    BY <2>1, SafeGraph
  <2>3. StructureInv(K)
    BY <2>2, StructureInit DEF SystemInit
  <2>4. \E L : L.skips = SkippedOps /\ StructureInv(L)
    BY <2>2, <2>3
  <2>. QED BY <2>1, <2>4 DEF SystemInit, SystemInv
<1>2. SystemInv /\ [SystemNext]_systemVars => SystemInv'
  <2>. SUFFICES ASSUME SystemInv, [SystemNext]_systemVars
                PROVE  SystemInv'
    OBVIOUS
  <2>1. CASE UNCHANGED systemVars
    <3>1. /\ graph' = graph /\ outcome' = outcome /\ calls' = calls /\ code' = code
          /\ stack' = stack /\ errors' = errors /\ verdict' = verdict
          /\ direction' = direction
      BY <2>1 DEF systemVars, compilerVars, validatorVars
    <3>2. PICK K : K.skips = SkippedOps /\ StructureInv(K)
      BY DEF SystemInv
    <3>3. StructureInv(K)'
      BY <3>1, <3>2 DEF StructureInv
    <3>4. \E L : L.skips = SkippedOps /\ StructureInv(L)'
      BY <3>2, <3>3
    <3>5. ASSUME outcome = "ok" PROVE VMP!IInv' /\ VMP!Levelled'
      <4>1. VMP!IInv /\ VMP!Levelled
        BY <3>5 DEF SystemInv
      <4>2. UNCHANGED VMP!vmVars
        BY <3>1 DEF VMP!vmVars
      <4>3. VMP!IInv'
        BY <4>1, <4>2, InstanceAssumptions, VMP!StutterStep
      <4>4. PICK P : VMP!Placed(code, P) /\ VMP!Levels(P)
        BY <4>1 DEF VMP!Levelled
      <4>5. VMP!Levels(P)'
        BY <3>1, <4>4 DEF VMP!Levels, VMP!Begun
      <4>6. VMP!Levelled'
        BY <3>1, <4>4, <4>5 DEF VMP!Levelled
      <4>. QED BY <4>3, <4>6
    <3>. QED BY <3>1, <3>4, <3>5 DEF SystemInv
  <2>. QED BY <2>1, CompileKeepsSystem, SubmitKeepsSystem, RunKeepsSystem, ReleaseKeepsSystem
           DEF SystemNext
<1>3. SystemInv => RunsToTheLastEnd
  <2>. SUFFICES ASSUME SystemInv
                PROVE  RunsToTheLastEnd
    OBVIOUS
  <2>1. CASE outcome = "ok"
    <3>1. VMP!IInv
      BY <2>1 DEF SystemInv
    <3>2. PICK P : VMP!Placed(code, P) /\ VMP!Levels(P)
      BY <2>1 DEF SystemInv, VMP!Levelled
    <3>3. VMP!StopsAtTheEnd
      BY <3>1, <3>2, InstanceAssumptions, VMP!LevelsEnd
    <3>. QED BY <3>3, SameStop
  <2>2. CASE outcome # "ok"
    <3>1. Len(stack) = 0
      BY <2>2 DEF SystemInv
    <3>. QED BY <3>1 DEF RunsToTheLastEnd
  <2>. QED BY <2>1, <2>2
<1>. QED BY <1>1, <1>2, <1>3, PTL DEF SystemSpec
=============================================================================
