------------------------- MODULE ValidationVMProofs -------------------------
(***************************************************************************)
(* Proofs about the validation VM, for every set of JSON values, every set *)
(* of well-formed programs and every regex backend: the VM stays inside    *)
(* the program, its recursion is bounded by the program, its verdict and   *)
(* its error list agree, and it stops at the last instruction only.        *)
(***************************************************************************)
EXTENDS ValidationVM, SequenceTheorems, Induction, TLAPS

-----------------------------------------------------------------------------
(* Sequences.                                                              *)

\* Replacing the last element of a sequence.
LEMMA SetLast ==
  ASSUME NEW S, NEW s \in Seq(S), Len(s) >= 1, NEW e \in S,
         NEW t, t = [s EXCEPT ![Len(s)] = e]
  PROVE  /\ t \in Seq(S) /\ Len(t) = Len(s)
         /\ \A i \in 1..(Len(s) - 1) : t[i] = s[i]
         /\ t[Len(s)] = e
<1>1. Len(s) \in Nat /\ Len(s) \in 1..Len(s)
  BY LenProperties
<1> QED
  BY <1>1, ExceptSeq

\* Dropping the last element and replacing the one before it.
LEMMA DropAndSet ==
  ASSUME NEW S, NEW n \in Nat, NEW s \in Seq(S), Len(s) = n + 2, NEW e \in S,
         NEW t, t = Append(SubSeq(s, 1, n), e)
  PROVE  /\ t \in Seq(S) /\ Len(t) = n + 1
         /\ \A i \in 1..n : t[i] = s[i]
         /\ t[n + 1] = e
<1> DEFINE u == SubSeq(s, 1, n)
<1>1. \A i \in 1..n : s[i] \in S
  BY ElementOfSeq
<1>2. /\ u \in Seq(S)
      /\ Len(u) = IF 1 <= n THEN n - 1 + 1 ELSE 0
      /\ \A i \in 1..(n - 1 + 1) : u[i] = s[1 + i - 1]
  BY <1>1, SubSeqProperties
<1> HIDE DEF u
<1>3. Len(u) = n
  BY <1>2
<1>4. \A i \in 1..n : u[i] = s[i]
  <2>1. n - 1 + 1 = n /\ \A i \in 1..n : 1 + i - 1 = i
    OBVIOUS
  <2> QED
    BY <1>2, <2>1
<1>5. /\ Append(u, e) \in Seq(S)
      /\ Len(Append(u, e)) = Len(u) + 1
      /\ \A i \in 1..Len(u) : Append(u, e)[i] = u[i]
      /\ Append(u, e)[Len(u) + 1] = e
  BY <1>2, AppendProperties
<1>6. t = Append(u, e)
  BY DEF u
<1> QED
  BY <1>3, <1>4, <1>5, <1>6

-----------------------------------------------------------------------------
(* JSON values.                                                            *)

\* yyjson_obj_get finds a member, and the member's value is a JSON value.
LEMMA ObjGetIsValue ==
  ASSUME NEW v \in Values, v.kind = "object", NEW k, HasKey(v, k)
  PROVE  ObjGet(v, k) \in Values
<1> DEFINE I == {i \in DOMAIN v.members : v.members[i].key = k}
           First(i) == /\ v.members[i].key = k
                       /\ \A j \in 1..(i - 1) : v.members[j].key # k
<1>1. v.members \in Seq([key : STRING, val : Values])
  BY ValuesAssumption
<1>2. DOMAIN v.members = 1..Len(v.members) /\ Len(v.members) \in Nat
  BY <1>1, LenProperties
<1>3. I \subseteq Nat /\ I # {}
  <2>1. I # {}
    BY DEF HasKey
  <2> QED
    BY <1>2, <2>1
<1>4. PICK m \in I : \A i \in I : m <= i
  <2>1. PICK m \in I : \A i \in I : <<i, m>> \notin OpToRel(<, Nat)
    BY <1>3, NatLessThanWellFounded, WFMin
  <2>2. \A i \in I : ~(i < m)
    BY <1>3, <2>1 DEF OpToRel
  <2> QED
    BY <1>3, <2>2
<1>5. m \in DOMAIN v.members /\ First(m)
  <2>1. \A j \in 1..(m - 1) : j \in DOMAIN v.members /\ ~(m <= j)
    BY <1>2, <1>4
  <2> QED
    BY <1>4, <2>1
<1>6. ObjGet(v, k) = v.members[CHOOSE i \in DOMAIN v.members : First(i)].val
  BY DEF ObjGet
<1>7. (CHOOSE i \in DOMAIN v.members : First(i)) \in DOMAIN v.members
  BY <1>5
<1>8. \A i \in DOMAIN v.members : v.members[i] \in [key : STRING, val : Values]
  BY <1>1, <1>2, ElementOfSeq
<1> QED
  BY <1>6, <1>7, <1>8

\* The values the sub-executions run on are JSON values.
LEMMA SubValueIsValue ==
  ASSUME NEW c, WellFormed(c), NEW i \in DOMAIN c, NEW v \in Values, NEW k \in Nat,
         k >= 1, c[i].op \notin CondParts => k <= SubCount(c, i, v)
  PROVE  SubValue(c[i], v, k) \in Values
<1> DEFINE op == c[i].op
<1>1. CASE op \in {"ENTER_ITEMS", "CHECK_CONTAINS"}
  <2>1. v.kind = "array" /\ k \in 1..Len(v.items)
    BY <1>1 DEF SubCount, CondParts
  <2>2. v.items[k] \in Values
    BY <2>1, ValuesAssumption, ElementOfSeq
  <2> QED
    BY <1>1, <2>2 DEF SubValue
<1>2. CASE op = "ENTER_PREFIX_ITEM"
  <2>1. v.kind = "array" /\ c[i].arg < Len(v.items)
    BY <1>2 DEF SubCount, CondParts
  <2>2. v.items \in Seq(Values) /\ Len(v.items) \in Nat
    BY <2>1, ValuesAssumption, LenProperties
  <2>3. c[i].arg \in Nat
    BY <1>2 DEF WellFormed
  <2>4. v.items[c[i].arg + 1] \in Values
    BY <2>1, <2>2, <2>3, ElementOfSeq
  <2> QED
    BY <1>2, <2>4 DEF SubValue
<1>3. CASE op = "ENTER_PROPERTY"
  <2>1. v.kind = "object" /\ HasKey(v, c[i].arg)
    BY <1>3 DEF SubCount, CondParts
  <2> QED
    BY <1>3, <2>1, ObjGetIsValue DEF SubValue
<1>4. CASE op \in {"CHECK_PROP_NAMES", "CHECK_PATTERN_PROPS"}
  <2>1. v.kind = "object" /\ k \in 1..Len(v.members)
    BY <1>4 DEF SubCount, CondParts
  <2>2. v.members \in Seq([key : STRING, val : Values])
    BY <2>1, ValuesAssumption
  <2>3. v.members[k] \in [key : STRING, val : Values] /\ k \in DOMAIN v.members
    BY <2>1, <2>2, ElementOfSeq, LenProperties
  <2>4. v.members[k].val \in Values /\ Str(v.members[k].key) \in Values
    BY <2>1, <2>3, ValuesAssumption
  <2> QED
    BY <1>4, <2>4 DEF SubValue
<1>5. CASE op \notin {"ENTER_ITEMS", "CHECK_CONTAINS", "ENTER_PREFIX_ITEM", "ENTER_PROPERTY",
                      "CHECK_PROP_NAMES", "CHECK_PATTERN_PROPS"}
  BY <1>5 DEF SubValue
<1> QED
  BY <1>1, <1>2, <1>3, <1>4, <1>5

\* The number of sub-executions is a natural number, and the operands stored
\* after an instruction lie within the program.
LEMMA SubCountIsNat ==
  ASSUME NEW c, WellFormed(c), Len(c) \in Nat, DOMAIN c = 1..Len(c),
         NEW i \in DOMAIN c, NEW v \in Values
  PROVE  /\ SubCount(c, i, v) \in Nat
         /\ HeaderLength(c, i, v) \in Nat
         /\ i + 1 + HeaderLength(c, i, v) \in 1..(Len(c) + 1)
<1>1. /\ v.kind = "array" => Len(v.items) \in Nat
      /\ v.kind = "object" => Len(v.members) \in Nat
  BY ValuesAssumption, LenProperties
<1>2. /\ c[i].op \in {"BRANCH_ALLOF", "BRANCH_ANYOF", "BRANCH_ONEOF"} => c[i].arg \in Nat
      /\ c[i].op = "DISCRIMINATOR" => c[i + 1].arg \in Nat /\ i + 1 + c[i + 1].arg \in DOMAIN c
      /\ c[i].op = "CHECK_CONTAINS" => i + 1 \in DOMAIN c
  BY DEF WellFormed
<1>3. SubCount(c, i, v) \in Nat
  BY <1>1, <1>2 DEF SubCount
<1>4. HeaderLength(c, i, v) \in Nat /\ i + 1 + HeaderLength(c, i, v) \in 1..(Len(c) + 1)
  BY <1>2 DEF HeaderLength
<1> QED
  BY <1>3, <1>4

-----------------------------------------------------------------------------
(* Steps of the VM.                                                        *)

\* What add_error may do to the error list.
LEMMA AddErrorFacts ==
  ASSUME NEW f \in Frame, NEW at \in Nat, errors \in Seq([at : Nat, val : Values]),
         AddError(f, at)
  PROVE  /\ errors' \in Seq([at : Nat, val : Values])
         /\ \/ errors' = errors
            \/ errors' # <<>> /\ f.rec
         /\ f.rec /\ ~MemoryMayFail => errors' # <<>>
<1> DEFINE e == [at |-> at, val |-> f.val]
<1>1. e \in [at : Nat, val : Values]
  BY DEF Frame
<1>2. Append(errors, e) \in Seq([at : Nat, val : Values]) /\ Append(errors, e) # <<>>
  BY <1>1, AppendProperties
<1> QED
  BY <1>2 DEF AddError

\* The stack is empty exactly when it has no frame; its frames are frames.
LEMMA StackFacts ==
  ASSUME TypeOK
  PROVE  /\ Len(stack) \in Nat
         /\ stack # <<>> <=> Len(stack) >= 1
         /\ \A i \in 1..Len(stack) : stack[i] \in Frame /\ stack[i].ip \in 1..(Len(code) + 1)
<1>1. stack \in Seq(Frame)
  BY DEF TypeOK
<1>2. \A i \in 1..Len(stack) : stack[i] \in Frame
  BY <1>1, ElementOfSeq
<1>3. Len(stack) \in Nat /\ (stack = <<>> <=> Len(stack) = 0)
  BY <1>1, LenProperties, EmptySeq
<1> QED
  BY <1>2, <1>3 DEF TypeOK

\* A step that leaves a stack of m frames, changes only the m-th of them, and
\* takes over what the frame it drops (if any) has to answer for, preserves
\* the invariant.  All actions but Validate, Call and Finish are such steps.
LEMMA TopStep ==
  ASSUME IInv, UNCHANGED <<code, direction, verdict>>,
         NEW m \in Nat, m >= 1, m = Len(stack) \/ m = Len(stack) - 1,
         NEW g \in Frame, g.ip \in 1..(Len(code) + 1), LoopOK(code, g),
         g.ip >= stack[m].ip, g.rec = stack[m].rec, InFlight(g) => g.at >= m,
         stack' \in Seq(Frame), Len(stack') = m, stack'[m] = g,
         \A i \in 1..(m - 1) : stack'[i] = stack[i],
         errors' \in Seq([at : Nat, val : Values]),
         \/ errors' = errors
         \/ errors' # <<>> /\ Reproached(code, g),
         g.rec /\ ~g.valid /\ ~MemoryMayFail => errors' # <<>>,
         \A i \in m..Len(stack) : Reproached(code, stack[i]) => Reproached(code, g)
  PROVE  IInv'
<1>1. /\ Len(stack) \in Nat /\ stack # <<>> /\ m \in 1..Len(stack)
      /\ \A i \in 1..Len(stack) : stack[i] \in Frame /\ stack[i].ip \in 1..(Len(code) + 1)
  BY StackFacts DEF IInv
<1>2. stack' # <<>> /\ code' = code /\ direction' = direction /\ verdict' = verdict
  BY EmptySeq
<1>3. \A i \in 1..m : i = m \/ i \in 1..(m - 1)
  OBVIOUS
<1>4. \A i \in 1..(m - 1) : i \in 1..Len(stack) /\ i \in 1..(Len(stack) - 1) /\ i \in 1..m
  BY <1>1
<1>5. TypeOK'
  BY <1>1, <1>2, <1>3, <1>4 DEF IInv, TypeOK
<1>6. (\A i \in 1..Len(stack) : LoopOK(code, stack[i]))'
  BY <1>2, <1>3, <1>4 DEF IInv
<1>7. CallersWait'
  <2> SUFFICES ASSUME NEW i \in 1..(m - 1)
               PROVE  /\ Waits(stack[i])
                      /\ stack'[i + 1].ip >= stack[i].ip
                      /\ stack'[i + 1].rec <=> (stack[i].rec /\ ~Probing(code, stack[i]))
    BY <1>2 DEF CallersWait
  <2>1. /\ Waits(stack[i])
        /\ stack[i + 1].ip >= stack[i].ip
        /\ stack[i + 1].rec <=> (stack[i].rec /\ ~Probing(code, stack[i]))
    BY <1>4 DEF IInv, CallersWait
  <2>2. i + 1 \in 1..m /\ i \in 1..Len(stack) /\ stack[i].ip \in Nat /\ stack[m].ip \in Nat
    BY <1>1, <1>4
  <2>3. CASE i + 1 = m
    <3>1. stack'[i + 1] = g /\ g.rec = stack[i + 1].rec
      BY <2>3
    <3>2. g.ip \in Nat /\ g.ip >= stack[i + 1].ip /\ stack[i + 1].ip \in Nat
      BY <2>2, <2>3 DEF Frame
    <3>3. g.ip >= stack[i].ip
      BY <2>1, <2>2, <3>2
    <3>. QED BY <2>1, <3>1, <3>3
  <2>4. CASE i + 1 # m
    <3>1. i + 1 \in 1..(m - 1)
      BY <2>2, <2>4
    <3>2. stack'[i + 1] = stack[i + 1]
      BY <3>1
    <3>. QED BY <2>1, <3>2
  <2> QED
    BY <2>3, <2>4
<1>8. DeeperIsFurther'
  <2>1. stack[m].ip >= m /\ stack[m].ip \in Nat
    BY <1>1 DEF IInv, DeeperIsFurther
  <2>2. g.ip >= m
    BY <1>1, <2>1
  <2> QED
    BY <1>3, <1>4, <2>2 DEF IInv, DeeperIsFurther
<1>9. Accounted'
  <2>1. ASSUME ~MemoryMayFail, NEW i \in 1..m, stack'[i].rec, ~stack'[i].valid
        PROVE  errors' # <<>>
    BY <1>3, <1>4, <2>1 DEF IInv, Accounted
  <2>2. ASSUME errors' # <<>>
        PROVE  \E i \in 1..m : Reproached(code, stack'[i])
    <3>1. CASE Reproached(code, g)
      BY <3>1
    <3>2. CASE errors' = errors
      <4>1. PICK i \in 1..Len(stack) : Reproached(code, stack[i])
        BY <1>1, <2>2, <3>2 DEF IInv, Accounted
      <4>2. i \in 1..(m - 1) \/ i \in m..Len(stack)
        BY <1>1
      <4> QED
        BY <1>4, <4>1, <4>2
    <3> QED
      BY <3>1, <3>2
  <2> QED
    BY <1>2, <2>1, <2>2 DEF Accounted
<1>10. Phases'
  <2>1. verdict = "running" /\ stack[1].rec
    BY <1>1 DEF IInv, Phases
  <2>2. stack'[1].rec
    BY <1>3, <2>1
  <2> QED
    BY <1>2, <2>1, <2>2 DEF Phases
<1>11. ErrorsExplainVerdict'
  BY <1>1, <1>2 DEF IInv, Phases, ErrorsExplainVerdict
<1> QED
  BY <1>5, <1>6, <1>7, <1>8, <1>9, <1>10, <1>11 DEF IInv

\* What the invariant says of the innermost activation.
LEMMA TopFacts ==
  ASSUME IInv, stack # <<>>
  PROVE  /\ Len(stack) \in Nat /\ Len(stack) >= 1
         /\ Top \in Frame /\ Top.ip \in 1..(Len(code) + 1) /\ LoopOK(code, Top)
         /\ Top.ip >= Len(stack) /\ Top.ip \in Nat /\ Len(code) \in Nat
         /\ InFlight(Top) => Top.at >= Len(stack) /\ Top.at \in 1..Len(code)
         /\ OpAt(Top.ip) # "none" => Top.ip \in 1..Len(code)
         /\ Top.rec /\ ~Top.valid /\ ~MemoryMayFail => errors # <<>>
         /\ errors \in Seq([at : Nat, val : Values])
         /\ stack \in Seq(Frame)
<1>1. /\ Len(stack) \in Nat /\ Len(stack) >= 1 /\ Len(stack) \in 1..Len(stack)
      /\ Top \in Frame /\ Top.ip \in 1..(Len(code) + 1)
  BY StackFacts DEF IInv, Top
<1>2. LoopOK(code, Top)
  BY <1>1 DEF IInv, Top
<1>3. Top.ip >= Len(stack) /\ (InFlight(Top) => Top.at >= Len(stack))
  BY <1>1 DEF IInv, DeeperIsFurther, Top
<1>4. Len(code) \in Nat /\ errors \in Seq([at : Nat, val : Values]) /\ stack \in Seq(Frame)
  BY DEF IInv, TypeOK
<1>5. InFlight(Top) => Top.at \in 1..Len(code)
  <2>1. Top.at \in Nat /\ Top.ip \in Nat
    BY <1>1 DEF Frame
  <2>2. InFlight(Top) => Top.at # 0 /\ Top.at < Top.ip
    BY <1>2 DEF LoopOK, InFlight
  <2>3. Top.ip <= Len(code) + 1
    BY <1>1, <1>4
  <2> QED
    BY <1>4, <2>1, <2>2, <2>3
<1>6. Top.rec /\ ~Top.valid /\ ~MemoryMayFail => errors # <<>>
  BY <1>1 DEF IInv, Accounted, Top
<1>7. OpAt(Top.ip) # "none" => Top.ip \in 1..Len(code)
  BY DEF OpAt
<1> QED
  BY <1>1, <1>2, <1>3, <1>4, <1>5, <1>6, <1>7

\* TopStep for the steps that replace the innermost activation.
LEMMA SetTopStep ==
  ASSUME IInv, stack # <<>>, UNCHANGED <<code, direction, verdict>>,
         NEW g \in Frame, SetTop(g), g.ip \in 1..(Len(code) + 1), LoopOK(code, g),
         g.ip >= Top.ip, g.rec = Top.rec, InFlight(g) => g.at \in {Top.at, Top.ip},
         \/ errors' = errors /\ (g.valid \/ ~Top.valid)
         \/ ~g.valid /\ \E at \in Nat : AddError(Top, at),
         Reproached(code, Top) => Reproached(code, g)
  PROVE  IInv'
<1> DEFINE m == Len(stack)
<1>1. m \in Nat /\ m >= 1 /\ stack \in Seq(Frame) /\ Top = stack[m] /\ Top \in Frame
  BY TopFacts DEF Top
<1>2. /\ stack' \in Seq(Frame) /\ Len(stack') = m /\ stack'[m] = g
      /\ \A i \in 1..(m - 1) : stack'[i] = stack[i]
  BY <1>1, SetLast DEF SetTop
<1>3. InFlight(g) => g.at >= m
  <2>1. Top.ip >= m /\ (InFlight(Top) => Top.at >= m)
    BY TopFacts
  <2> QED
    BY <2>1 DEF InFlight
<1>4. /\ errors' \in Seq([at : Nat, val : Values])
      /\ \/ errors' = errors
         \/ errors' # <<>> /\ Reproached(code, g)
      /\ g.rec /\ ~g.valid /\ ~MemoryMayFail => errors' # <<>>
  <2>1. CASE errors' = errors /\ (g.valid \/ ~Top.valid)
    BY <2>1, TopFacts
  <2>2. CASE ~g.valid /\ \E at \in Nat : AddError(Top, at)
    <3>1. PICK at \in Nat : AddError(Top, at)
      BY <2>2
    <3>2. /\ errors' \in Seq([at : Nat, val : Values])
          /\ \/ errors' = errors
             \/ errors' # <<>> /\ Top.rec
          /\ Top.rec /\ ~MemoryMayFail => errors' # <<>>
      BY <1>1, <3>1, TopFacts, AddErrorFacts
    <3> QED
      BY <2>2, <3>2 DEF Reproached
  <2> QED
    BY <2>1, <2>2
<1>5. \A i \in m..Len(stack) : Reproached(code, stack[i]) => Reproached(code, g)
  BY <1>1
<1>6. g.ip >= stack[m].ip /\ g.rec = stack[m].rec
  BY <1>1
<1> HIDE DEF m
<1>7. m = Len(stack)
  BY DEF m
<1> QED
  BY <1>1, <1>2, <1>3, <1>4, <1>5, <1>6, <1>7, TopStep

-----------------------------------------------------------------------------
(* The invariant is inductive: one lemma per action that needs a proof of  *)
(* some length, the others in the theorem.                                 *)

LEMMA LeafStep ==
  ASSUME IInv, Leaf
  PROVE  IInv'
<1> DEFINE f == Top
           ok == ~LeafFails(code[f.ip], f.val, direction)
           ip == f.ip + 1
           valid == f.valid /\ ok
           g == [f EXCEPT !.ip = ip, !.valid = valid]
<1>1. stack # <<>> /\ Fetching(f) /\ SetTop(g) /\ UNCHANGED <<code, direction, verdict>>
  BY DEF Leaf
<1>2. f.ip \in 1..Len(code) /\ f.ip \in Nat /\ Len(code) \in Nat /\ f \in Frame
  BY <1>1, TopFacts DEF Leaf, LeafOps
<1>3. IF ok THEN UNCHANGED errors ELSE AddError(f, f.ip)
  BY DEF Leaf
<1>4. ip \in Nat /\ ip = f.ip + 1 /\ valid \in BOOLEAN /\ (valid <=> f.valid /\ ok)
  BY <1>2 DEF Frame
<1> HIDE DEF ip, ok, valid
<1>5. /\ g \in Frame /\ g.ip = ip /\ g.rec = f.rec /\ g.at = f.at /\ g.next = f.next
      /\ g.valid = valid
  BY <1>2, <1>4 DEF Frame
<1> HIDE DEF g
<1>6. f.at = 0 /\ f.next >= 1
  BY <1>1, TopFacts DEF Fetching, LoopOK
<1>7. \/ errors' = errors /\ (g.valid \/ ~f.valid)
      \/ ~g.valid /\ \E at \in Nat : AddError(f, at)
  BY <1>2, <1>3, <1>4, <1>5
<1>8. LoopOK(code, g) /\ ~InFlight(g)
  BY <1>5, <1>6 DEF LoopOK, InFlight
<1>9. Reproached(code, f) => Reproached(code, g)
  BY <1>4, <1>5, <1>6 DEF Reproached, Doomed, InFlight
<1>10. g.ip \in 1..(Len(code) + 1) /\ g.ip >= f.ip
  BY <1>2, <1>4, <1>5
<1> QED
  BY <1>1, <1>5, <1>7, <1>8, <1>9, <1>10, SetTopStep

LEMMA DepRequiredStep ==
  ASSUME IInv, DepRequired
  PROVE  IInv'
<1> DEFINE f == Top
           count == code[f.ip + 1].arg
           ok == \/ f.val.kind # "object"
                 \/ ~HasKey(f.val, code[f.ip].arg)
                 \/ \A i \in (f.ip + 2)..(f.ip + 1 + count) : HasKey(f.val, code[i].arg)
           ip == f.ip + 2 + count
           valid == f.valid /\ ok
           g == [f EXCEPT !.ip = ip, !.valid = valid]
<1>1. stack # <<>> /\ Fetching(f) /\ SetTop(g) /\ UNCHANGED <<code, direction, verdict>>
  BY DEF DepRequired
<1>2. f.ip \in 1..Len(code) /\ f.ip \in Nat /\ Len(code) \in Nat /\ f \in Frame
  BY <1>1, TopFacts DEF DepRequired
<1>3. count \in Nat /\ f.ip + 1 + count \in 1..Len(code)
  <2>1. code[f.ip].op = "CHECK_DEP_REQUIRED"
    BY <1>2 DEF DepRequired, OpAt
  <2>2. WellFormed(code) /\ DOMAIN code = 1..Len(code)
    BY DEF IInv, TypeOK
  <2> QED
    BY <1>2, <2>1, <2>2 DEF WellFormed
<1>4. IF ok THEN UNCHANGED errors ELSE AddError(f, f.ip)
  BY DEF DepRequired
<1>5. ip \in Nat /\ ip = f.ip + 2 + count /\ valid \in BOOLEAN /\ (valid <=> f.valid /\ ok)
  <2>1. valid \in BOOLEAN /\ (valid <=> f.valid /\ ok)
    BY <1>2 DEF Frame
  <2> QED
    BY <1>2, <1>3, <2>1
<1> HIDE DEF count, ip, ok, valid
<1>6. /\ g \in Frame /\ g.ip = ip /\ g.rec = f.rec /\ g.at = f.at
      /\ g.next = f.next /\ g.valid = valid
  BY <1>2, <1>5 DEF Frame
<1> HIDE DEF g
<1>7. f.at = 0 /\ f.next >= 1
  BY <1>1, TopFacts DEF Fetching, LoopOK
<1>8. \/ errors' = errors /\ (g.valid \/ ~f.valid)
      \/ ~g.valid /\ \E at \in Nat : AddError(f, at)
  BY <1>2, <1>4, <1>5, <1>6
<1>9. LoopOK(code, g) /\ ~InFlight(g)
  BY <1>6, <1>7 DEF LoopOK, InFlight
<1>10. Reproached(code, f) => Reproached(code, g)
  BY <1>5, <1>6, <1>7 DEF Reproached, Doomed, InFlight
<1>11. g.ip \in 1..(Len(code) + 1) /\ g.ip >= f.ip
  <2>1. f.ip + 1 + count <= Len(code)
    BY <1>2, <1>3
  <2> QED
    BY <1>2, <1>3, <1>5, <1>6, <2>1
<1> QED
  BY <1>1, <1>6, <1>8, <1>9, <1>10, <1>11, SetTopStep

LEMMA NopStep ==
  ASSUME IInv, Nop
  PROVE  IInv'
<1> DEFINE f == Top
           ip == f.ip + 1
           g == [f EXCEPT !.ip = ip]
<1>1. /\ stack # <<>> /\ Fetching(f) /\ SetTop(g)
      /\ UNCHANGED <<code, direction, verdict>> /\ errors' = errors
  BY DEF Nop
<1>2. f.ip \in 1..Len(code) /\ f.ip \in Nat /\ Len(code) \in Nat /\ f \in Frame
  BY <1>1, TopFacts DEF Nop, CondParts
<1>3. ip \in Nat /\ ip = f.ip + 1
  BY <1>2
<1> HIDE DEF ip
<1>4. /\ g \in Frame /\ g.ip = ip /\ g.rec = f.rec /\ g.at = f.at /\ g.next = f.next
      /\ g.valid = f.valid
  BY <1>2, <1>3 DEF Frame
<1> HIDE DEF g
<1>5. f.at = 0 /\ f.next >= 1
  BY <1>1, TopFacts DEF Fetching, LoopOK
<1>6. LoopOK(code, g) /\ ~InFlight(g) /\ (Reproached(code, f) => Reproached(code, g))
  BY <1>4, <1>5 DEF LoopOK, InFlight, Reproached, Doomed
<1>7. g.ip \in 1..(Len(code) + 1) /\ g.ip >= f.ip
  BY <1>2, <1>3, <1>4
<1> QED
  BY <1>1, <1>4, <1>6, <1>7, SetTopStep

LEMMA EnterStep ==
  ASSUME IInv, Enter
  PROVE  IInv'
<1> DEFINE f == Top
           at == f.ip
           ip == f.ip + 1 + HeaderLength(code, f.ip, f.val)
           n == SubCount(code, f.ip, f.val)
           g == [f EXCEPT !.at = at, !.ip = ip, !.next = 1, !.n = n, !.hits = 0]
<1>1. /\ stack # <<>> /\ Fetching(f) /\ SetTop(g)
      /\ UNCHANGED <<code, direction, verdict>> /\ errors' = errors
  BY DEF Enter
<1>2. f.ip \in 1..Len(code) /\ f.ip \in Nat /\ Len(code) \in Nat /\ f \in Frame
  BY <1>1, TopFacts DEF Enter, BlockOps, BranchOps
<1>3. code[f.ip].op \in BlockOps \cup BranchOps
  BY <1>2 DEF Enter, OpAt
<1>4. /\ n \in Nat
      /\ HeaderLength(code, f.ip, f.val) \in Nat
      /\ f.ip + 1 + HeaderLength(code, f.ip, f.val) \in 1..(Len(code) + 1)
  <2>1. WellFormed(code) /\ DOMAIN code = 1..Len(code)
    BY DEF IInv, TypeOK
  <2>2. f.val \in Values
    BY <1>2 DEF Frame
  <2> QED
    BY <1>2, <2>1, <2>2, SubCountIsNat
<1>5. ip \in Nat /\ ip > at /\ ip \in 1..(Len(code) + 1) /\ at \in Nat /\ at = f.ip
  BY <1>2, <1>4
<1>6. n = SubCount(code, at, f.val) /\ code[at].op \in BlockOps \cup BranchOps
  BY <1>3
<1> HIDE DEF at, ip, n
<1>7. /\ g \in Frame /\ g.ip = ip /\ g.rec = f.rec /\ g.at = at /\ g.next = 1
      /\ g.n = n /\ g.valid = f.valid /\ g.val = f.val
  BY <1>2, <1>4, <1>5 DEF Frame
<1> HIDE DEF g
<1>8. LoopOK(code, g)
  BY <1>5, <1>6, <1>7 DEF LoopOK
<1>9. Reproached(code, f) => Reproached(code, g)
  BY <1>1, <1>7 DEF Reproached, Doomed, InFlight, Fetching
<1>10. g.ip >= f.ip /\ (g.valid \/ ~f.valid)
  BY <1>5, <1>7
<1> QED
  BY <1>1, <1>5, <1>7, <1>8, <1>9, <1>10, SetTopStep

LEMMA PassMemberStep ==
  ASSUME IInv, PassMember
  PROVE  IInv'
<1> DEFINE f == Top
           next == f.next + 1
           g == [f EXCEPT !.next = next]
<1>1. /\ stack # <<>> /\ SetTop(g)
      /\ UNCHANGED <<code, direction, verdict>> /\ errors' = errors
  BY DEF PassMember
<1>2. f \in Frame /\ f.ip \in 1..(Len(code) + 1) /\ f.ip \in Nat /\ LoopOK(code, f)
  BY <1>1, TopFacts
<1>3. next \in Nat /\ next >= 1
  <2>1. f.next \in Nat
    BY <1>2 DEF Frame
  <2> QED
    BY <2>1
<1> HIDE DEF next
<1>4. /\ g \in Frame /\ g.ip = f.ip /\ g.rec = f.rec /\ g.at = f.at /\ g.next = next
      /\ g.n = f.n /\ g.valid = f.valid /\ g.val = f.val
  BY <1>2, <1>3 DEF Frame
<1> HIDE DEF g
<1>5. LoopOK(code, g)
  BY <1>2, <1>3, <1>4 DEF LoopOK, InFlight
<1>6. Reproached(code, f) => Reproached(code, g)
  BY <1>4 DEF Reproached, Doomed, InFlight, SomeMatch, KeyMatches
<1> QED
  BY <1>1, <1>2, <1>4, <1>5, <1>6, SetTopStep

LEMMA SkipStep ==
  ASSUME IInv, Skip
  PROVE  IInv'
<1> DEFINE f == Top
           past == f.ip > Len(code)
           ip == IF past THEN f.ip ELSE f.ip + 1
           depth == IF past THEN 0 ELSE SkipDepth(OpAt(f.ip), f.depth)
           g == [f EXCEPT !.ip = ip, !.depth = depth]
           g0 == [f EXCEPT !.depth = 0]
<1>1. /\ stack # <<>> /\ f.depth > 0
      /\ UNCHANGED <<code, direction, verdict>> /\ errors' = errors
  BY DEF Skip
<1>2. /\ f \in Frame /\ f.ip \in 1..(Len(code) + 1) /\ f.ip \in Nat /\ LoopOK(code, f)
      /\ Len(code) \in Nat
  BY <1>1, TopFacts
<1>3. f.depth \in Nat
  BY <1>2 DEF Frame
<1>4. ip \in Nat /\ ip \in 1..(Len(code) + 1) /\ ip >= f.ip /\ depth \in Nat
  BY <1>1, <1>2, <1>3 DEF SkipDepth
<1>5. past => SetTop(g0)
  BY DEF Skip
<1>6. ~past => SetTop(g)
  BY DEF Skip
<1> HIDE DEF past, ip, depth
<1>7. /\ g0 \in Frame /\ g0.ip = f.ip /\ g0.rec = f.rec /\ g0.at = f.at /\ g0.next = f.next
      /\ g0.n = f.n /\ g0.valid = f.valid /\ g0.val = f.val
  BY <1>2 DEF Frame
<1>8. /\ g \in Frame /\ g.ip = ip /\ g.rec = f.rec /\ g.at = f.at /\ g.next = f.next
      /\ g.n = f.n /\ g.valid = f.valid /\ g.val = f.val
  BY <1>2, <1>4 DEF Frame
<1> HIDE DEF g, g0
<1>9. ASSUME NEW h \in Frame, SetTop(h), h.ip \in {f.ip, ip}, h.rec = f.rec, h.at = f.at,
             h.next = f.next, h.n = f.n, h.valid = f.valid, h.val = f.val
      PROVE  IInv'
  <2>1. h.ip \in 1..(Len(code) + 1) /\ h.ip >= f.ip
    BY <1>2, <1>4, <1>9
  <2>2. LoopOK(code, h)
    <3>1. f.at \in Nat /\ h.ip \in Nat
      BY <1>2, <1>9 DEF Frame
    <3>2. InFlight(f) => f.at < h.ip
      BY <1>2, <2>1, <3>1 DEF LoopOK
    <3> QED
      BY <1>2, <1>9, <3>2 DEF LoopOK, InFlight
  <2>3. Reproached(code, f) => Reproached(code, h)
    BY <1>9 DEF Reproached, Doomed, InFlight, SomeMatch, KeyMatches
  <2> QED
    BY <1>1, <1>9, <2>1, <2>2, <2>3, SetTopStep
<1> QED
  BY <1>2, <1>4, <1>5, <1>6, <1>7, <1>8, <1>9

\* A frame whose instruction is done.
LEMMA IdleFrame ==
  ASSUME NEW f \in Frame
  PROVE  /\ Idle(f) \in Frame
         /\ Idle(f).ip = f.ip /\ Idle(f).rec = f.rec /\ Idle(f).at = 0 /\ Idle(f).next = 1
         /\ Idle(f).valid = f.valid /\ Idle(f).val = f.val
BY DEF Idle, Frame

\* A frame at the THEN or the ELSE of a conditional.
LEMMA PartFrame ==
  ASSUME NEW f \in Frame, NEW taken \in BOOLEAN
  PROVE  LET g == Part(f, taken)
         IN  /\ g \in Frame
             /\ g.ip = f.ip + 1 /\ g.rec = f.rec /\ g.at = f.ip /\ g.next = 1
             /\ g.valid = f.valid /\ g.val = f.val
<1> DEFINE at == f.ip
           ip == f.ip + 1
           n == IF taken THEN 1 ELSE 0
           depth == IF taken THEN 0 ELSE 1
           g == [f EXCEPT !.at = at, !.ip = ip, !.next = 1, !.n = n, !.depth = depth]
<1>1. g = Part(f, taken)
  BY DEF Part
<1>2. at \in Nat /\ ip \in Nat /\ ip = f.ip + 1 /\ at = f.ip
  BY DEF Frame
<1>3. n \in Nat /\ depth \in Nat
  OBVIOUS
<1> HIDE DEF at, ip, n, depth
<1>4. /\ g \in Frame
      /\ g.ip = ip /\ g.rec = f.rec /\ g.at = at /\ g.next = 1
      /\ g.valid = f.valid /\ g.val = f.val
  BY <1>2, <1>3 DEF Frame
<1> QED
  BY <1>1, <1>2, <1>4

LEMMA CloseStep ==
  ASSUME IInv, Close
  PROVE  IInv'
<1> DEFINE f == Top
           h == Idle(f)
           valid == f.valid /\ ~ClosingFails(f)
           depth == IF SkipsAfter(f) THEN 1 ELSE 0
           g == [h EXCEPT !.valid = valid, !.depth = depth]
<1>1. stack # <<>> /\ SubsDone(f) /\ SetTop(g) /\ UNCHANGED <<code, direction, verdict>>
  BY DEF Close
<1>2. /\ f \in Frame /\ f.ip \in 1..(Len(code) + 1) /\ f.ip \in Nat /\ LoopOK(code, f)
      /\ f.at \in Nat /\ InFlight(f)
  BY <1>1, TopFacts DEF Frame, SubsDone, InFlight
<1>3. IF ClosingFails(f) THEN AddError(f, f.at) ELSE UNCHANGED errors
  BY DEF Close
<1>4. valid \in BOOLEAN /\ (valid <=> f.valid /\ ~ClosingFails(f)) /\ depth \in Nat
  BY <1>2 DEF Frame
<1>5. /\ h \in Frame /\ h.ip = f.ip /\ h.rec = f.rec /\ h.at = 0 /\ h.next = 1
  BY <1>2, IdleFrame
<1> HIDE DEF h, valid, depth
<1>6. /\ g \in Frame /\ g.ip = h.ip /\ g.rec = h.rec /\ g.at = 0 /\ g.next = 1
      /\ g.valid = valid
  BY <1>4, <1>5 DEF Frame
<1> HIDE DEF g
<1>7. \/ errors' = errors /\ (g.valid \/ ~f.valid)
      \/ ~g.valid /\ \E at \in Nat : AddError(f, at)
  BY <1>2, <1>3, <1>4, <1>6
<1>8. LoopOK(code, g) /\ ~InFlight(g)
  BY <1>6 DEF LoopOK, InFlight
<1>9. Reproached(code, f) => Reproached(code, g)
  <2>1. Doomed(code, f) => ClosingFails(f)
    BY DEF Doomed, ClosingFails
  <2> QED
    BY <1>4, <1>5, <1>6, <2>1 DEF Reproached
<1>10. g.ip \in 1..(Len(code) + 1) /\ g.ip >= f.ip /\ g.rec = f.rec
  BY <1>2, <1>5, <1>6
<1> QED
  BY <1>1, <1>6, <1>7, <1>8, <1>9, <1>10, SetTopStep

LEMMA CondStep ==
  ASSUME IInv, Cond
  PROVE  IInv'
<1> DEFINE f == Top
<1>1. /\ stack # <<>> /\ SubsDone(f) /\ UNCHANGED <<code, direction, verdict>>
      /\ errors' = errors /\ code[f.at].op \in {"COND_IF", "COND_THEN"}
  BY DEF Cond
<1>2. /\ f \in Frame /\ f.ip \in 1..(Len(code) + 1) /\ f.ip \in Nat /\ Len(code) \in Nat
  BY <1>1, TopFacts
<1>3. ~Doomed(code, f)
  BY <1>1 DEF Doomed
<1>4. CASE SetTop(Idle(f))
  <2> DEFINE g == Idle(f)
  <2>1. /\ g \in Frame /\ g.ip = f.ip /\ g.rec = f.rec /\ g.at = 0 /\ g.next = 1
        /\ g.valid = f.valid
    BY <1>2, IdleFrame
  <2>2. SetTop(g)
    BY <1>4
  <2> HIDE DEF g
  <2>3. LoopOK(code, g) /\ ~InFlight(g)
    BY <2>1 DEF LoopOK, InFlight
  <2>4. Reproached(code, f) => Reproached(code, g)
    BY <1>3, <2>1 DEF Reproached
  <2>5. g.ip \in 1..(Len(code) + 1) /\ g.ip >= f.ip
    BY <1>2, <2>1
  <2> QED
    BY <1>1, <2>1, <2>2, <2>3, <2>4, <2>5, SetTopStep
<1>5. ASSUME NEW taken \in BOOLEAN, SetTop(Part(f, taken)),
             OpAt(f.ip) \in {"COND_THEN", "COND_ELSE"}
      PROVE  IInv'
  <2> DEFINE g == Part(f, taken)
  <2>1. /\ g \in Frame /\ g.ip = f.ip + 1 /\ g.rec = f.rec /\ g.at = f.ip /\ g.next = 1
        /\ g.valid = f.valid
    BY <1>2, PartFrame
  <2>2. SetTop(g)
    BY <1>5
  <2> HIDE DEF g
  <2>3. f.ip \in 1..Len(code) /\ code[f.ip].op \in CondParts
    BY <1>5 DEF OpAt, CondParts
  <2>4. LoopOK(code, g)
    BY <1>2, <2>1, <2>3 DEF LoopOK
  <2>5. Reproached(code, f) => Reproached(code, g)
    BY <1>3, <2>1 DEF Reproached
  <2>6. g.ip \in 1..(Len(code) + 1) /\ g.ip >= f.ip
    BY <1>2, <2>1, <2>3
  <2> QED
    BY <1>1, <2>1, <2>2, <2>4, <2>5, <2>6, SetTopStep
<1>6. \/ SetTop(Idle(f))
      \/ /\ OpAt(f.ip) \in {"COND_THEN", "COND_ELSE"}
         /\ \E taken \in BOOLEAN : SetTop(Part(f, taken))
  <2>1. (f.hits = 0) \in BOOLEAN /\ (f.hits = 1) \in BOOLEAN
    OBVIOUS
  <2>2. SetTop(AfterThen(f)) \/ SetTop(AfterIf(f))
    BY DEF Cond
  <2>3. AfterThen(f) = Idle(f) \/ (OpAt(f.ip) = "COND_ELSE" /\ AfterThen(f) = Part(f, f.hits = 0))
    BY DEF AfterThen
  <2>4. AfterIf(f) = AfterThen(f) \/ (OpAt(f.ip) = "COND_THEN" /\ AfterIf(f) = Part(f, f.hits = 1))
    BY DEF AfterIf
  <2> QED
    BY <2>1, <2>2, <2>3, <2>4
<1> QED
  BY <1>4, <1>5, <1>6

\* A sub-execution whose verdict its caller takes over reports to the caller,
\* and one that reports and whose verdict is dropped belongs to an instruction
\* that will fail: the heart of the agreement of verdict and error list.
LEMMA PropagationMatchesReporting ==
  ASSUME NEW f, LoopOK(code, f), Waits(f), f.next \in Nat
  PROVE  /\ Propagates(f) => ~Probing(code, f)
         /\ ~Probing(code, f) => Propagates(f) \/ Doomed(code, f)
<1> DEFINE op == code[f.at].op
<1>1. op \in BlockOps \cup BranchOps \cup CondParts /\ InFlight(f)
  BY DEF LoopOK, Waits
<1>2. CASE op = "DISCRIMINATOR"
  <2>1. Selects(code, f, f.next) => SomeMatch(code, f)
    BY DEF Selects, SomeMatch, Waits, LoopOK
  <2> QED
    BY <1>1, <1>2, <2>1 DEF Propagates, Probing, Doomed
<1>3. CASE op = "ENTER_ADDITIONAL"
  <2>1. f.n = 0
    BY <1>1, <1>3 DEF LoopOK, SubCount, CondParts
  <2> QED
    BY <2>1 DEF Waits, LoopOK
<1>4. CASE op \notin {"DISCRIMINATOR", "ENTER_ADDITIONAL"}
  BY <1>1, <1>4 DEF Propagates, Probing, BlockOps, BranchOps, CondParts
<1> QED
  BY <1>2, <1>3, <1>4

LEMMA ReturnStep ==
  ASSUME IInv, Return
  PROVE  IInv'
<1> DEFINE m == Len(stack) - 1
           f == Caller
           s == Top
           op == code[f.at].op
           ip == IF op \in BlockOps THEN f.ip ELSE PastEnd(s)
           valid == f.valid /\ (Propagates(f) => s.valid)
           hits == IF s.valid /\ op \notin CondParts THEN f.hits + 1 ELSE f.hits
           next == f.next + 1
           g == [f EXCEPT !.ip = ip, !.valid = valid, !.hits = hits, !.next = next]
<1>1. /\ Len(stack) > 1 /\ Fetching(s) /\ AtEnd(s) /\ UNCHANGED <<code, direction, verdict>>
      /\ stack' = Append(SubSeq(stack, 1, Len(stack) - 2), g)
      /\ IF op = "CHECK_PROP_NAMES" /\ ~s.valid THEN AddError(f, f.at) ELSE UNCHANGED errors
  BY DEF Return, Merge
<1>2. /\ stack \in Seq(Frame) /\ Len(stack) \in Nat /\ stack # <<>>
      /\ m \in 1..Len(stack) /\ m \in 1..(Len(stack) - 1) /\ m + 1 = Len(stack)
      /\ s = stack[m + 1] /\ f = stack[m] /\ m \in Nat /\ m >= 1
      /\ Len(stack) \in 1..Len(stack)
  <2>1. stack \in Seq(Frame) /\ Len(stack) \in Nat
    BY StackFacts DEF IInv, TypeOK
  <2> QED
    BY <1>1, <2>1, EmptySeq DEF Caller, Top
<1>3. /\ f \in Frame /\ f.ip \in Nat /\ f.ip \in 1..(Len(code) + 1)
      /\ s \in Frame /\ s.ip \in Nat /\ s.ip \in 1..(Len(code) + 1) /\ Len(code) \in Nat
  BY <1>2, StackFacts DEF IInv, TypeOK
<1>4. LoopOK(code, f) /\ (InFlight(f) => f.at >= m)
  BY <1>2 DEF IInv, DeeperIsFurther
<1>5. Waits(f) /\ s.ip >= f.ip /\ (s.rec <=> f.rec /\ ~Probing(code, f))
  BY <1>2 DEF IInv, CallersWait
<1>6. f.hits \in Nat /\ f.next \in Nat /\ f.at \in Nat
  BY <1>3 DEF Frame
<1>7. ip \in Nat /\ ip \in 1..(Len(code) + 1) /\ ip >= f.ip
  <2>1. PastEnd(s) \in 1..(Len(code) + 1) /\ PastEnd(s) >= s.ip
    BY <1>3 DEF PastEnd, OpAt
  <2> QED
    BY <1>3, <1>5, <2>1
<1>8. valid \in BOOLEAN /\ (valid <=> f.valid /\ (Propagates(f) => s.valid))
  BY <1>3 DEF Frame
<1>9. hits \in Nat /\ next \in Nat /\ next >= 1
  BY <1>6
<1>10. /\ stack' \in Seq(Frame) /\ Len(stack') = m /\ stack'[m] = g /\ g \in Frame
       /\ \A i \in 1..(m - 1) : stack'[i] = stack[i]
       /\ g.ip = ip /\ g.valid = valid /\ g.next = next /\ g.rec = f.rec /\ g.at = f.at
       /\ g.n = f.n /\ g.val = f.val
  <2>1. stack' = Append(SubSeq(stack, 1, m - 1), g)
    <3>1. Len(stack) - 2 = m - 1
      BY <1>2
    <3> QED
      BY <1>1, <3>1
  <2> HIDE DEF ip, valid, hits, next
  <2>2. /\ g \in Frame
        /\ g.ip = ip /\ g.valid = valid /\ g.next = next /\ g.rec = f.rec /\ g.at = f.at
        /\ g.n = f.n /\ g.val = f.val
    BY <1>3, <1>7, <1>8, <1>9 DEF Frame
  <2>3. m - 1 \in Nat /\ Len(stack) = (m - 1) + 2 /\ (m - 1) + 1 = m
    BY <1>2
  <2> HIDE DEF g, m
  <2>4. /\ stack' \in Seq(Frame) /\ Len(stack') = (m - 1) + 1
        /\ \A i \in 1..(m - 1) : stack'[i] = stack[i]
        /\ stack'[(m - 1) + 1] = g
    BY <1>2, <2>1, <2>2, <2>3, DropAndSet
  <2> QED
    BY <2>2, <2>3, <2>4
<1> HIDE DEF ip, valid, hits, next, g
<1>11. LoopOK(code, g) /\ InFlight(g)
  <2>1. f.at < g.ip
    BY <1>3, <1>4, <1>5, <1>6, <1>7, <1>10 DEF LoopOK, Waits
  <2> QED
    BY <1>4, <1>5, <1>9, <1>10, <2>1 DEF LoopOK, Waits, InFlight
<1>12. /\ Propagates(f) => ~Probing(code, f)
       /\ ~Probing(code, f) => Propagates(f) \/ Doomed(code, f)
  BY <1>4, <1>5, <1>6, PropagationMatchesReporting
<1>13. Doomed(code, f) <=> Doomed(code, g)
  BY <1>10 DEF Doomed, InFlight, SomeMatch, KeyMatches
<1>14. \A i \in m..Len(stack) : Reproached(code, stack[i]) => Reproached(code, g)
  <2>1. Reproached(code, f) => Reproached(code, g)
    BY <1>8, <1>10, <1>13 DEF Reproached
  <2>2. Reproached(code, s) => Reproached(code, g)
    <3>1. ~Doomed(code, s)
      BY <1>1 DEF Doomed, InFlight, Fetching
    <3> QED
      BY <1>5, <1>8, <1>10, <1>12, <1>13, <3>1 DEF Reproached
  <2>3. \A i \in m..Len(stack) : i = m \/ i = m + 1
    <3>1. m \in Nat /\ Len(stack) = m + 1
      BY <1>2
    <3> HIDE DEF m
    <3> QED
      BY <3>1
  <2> QED
    BY <1>2, <2>1, <2>2, <2>3
<1>15. /\ errors' \in Seq([at : Nat, val : Values])
       /\ \/ errors' = errors
          \/ errors' # <<>> /\ Reproached(code, g)
       /\ g.rec /\ ~g.valid /\ ~MemoryMayFail => errors' # <<>>
  <2>1. errors \in Seq([at : Nat, val : Values])
    BY DEF IInv, TypeOK
  <2>2. ~MemoryMayFail => /\ f.rec /\ ~f.valid => errors # <<>>
                          /\ s.rec /\ ~s.valid => errors # <<>>
    BY <1>2 DEF IInv, Accounted
  <2>3. CASE UNCHANGED errors
    <3>1. g.rec /\ ~g.valid => (f.rec /\ ~f.valid) \/ (s.rec /\ ~s.valid)
      BY <1>5, <1>8, <1>10, <1>12
    <3>2. errors' = errors
      BY <2>3
    <3> QED
      BY <2>1, <2>2, <3>1, <3>2
  <2>4. CASE op = "CHECK_PROP_NAMES" /\ ~s.valid /\ AddError(f, f.at)
    <3>1. Propagates(f)
      BY <2>4 DEF Propagates
    <3>2. ~g.valid
      BY <1>8, <1>10, <2>4, <3>1
    <3>3. /\ errors' \in Seq([at : Nat, val : Values])
          /\ \/ errors' = errors
             \/ errors' # <<>> /\ f.rec
          /\ f.rec /\ ~MemoryMayFail => errors' # <<>>
      BY <1>3, <1>6, <2>1, <2>4, AddErrorFacts
    <3> QED
      BY <1>10, <3>2, <3>3 DEF Reproached
  <2> QED
    BY <1>1, <2>3, <2>4
<1>16. g.ip \in 1..(Len(code) + 1) /\ g.ip >= stack[m].ip /\ g.rec = stack[m].rec /\ g.at >= m
  BY <1>2, <1>4, <1>7, <1>10, <1>11 DEF InFlight
<1>17. m = Len(stack) - 1
  OBVIOUS
<1> HIDE DEF m
<1> QED
  BY <1>1, <1>2, <1>10, <1>11, <1>14, <1>15, <1>16, <1>17, TopStep

LEMMA CallStep ==
  ASSUME IInv, Call
  PROVE  IInv'
<1> DEFINE m == Len(stack)
           f == Top
           v == SubValue(code[f.at], f.val, f.next)
           rec == f.rec /\ ~Probing(code, f)
           g == NewFrame(f.ip, v, f.valid, rec)
<1>1. /\ stack # <<>> /\ stack' = Append(stack, g)
      /\ Waits(f) /\ errors' = errors /\ UNCHANGED <<code, direction, verdict>>
  BY DEF Call, Waits, InFlight
<1>2. /\ m \in Nat /\ m >= 1 /\ m \in 1..m /\ f = stack[m] /\ f \in Frame
      /\ f.ip \in 1..(Len(code) + 1) /\ f.ip \in Nat /\ LoopOK(code, f) /\ stack \in Seq(Frame)
      /\ f.ip >= m /\ (InFlight(f) => f.at >= m /\ f.at \in 1..Len(code))
  BY <1>1, TopFacts DEF Top
<1>3. f.next \in Nat /\ f.at \in Nat /\ f.val \in Values /\ f.n \in Nat /\ f.valid \in BOOLEAN
      /\ f.rec \in BOOLEAN
  BY <1>2 DEF Frame
<1>4. v \in Values
  <2>1. WellFormed(code) /\ DOMAIN code = 1..Len(code)
    BY DEF IInv, TypeOK
  <2>2. f.next >= 1 /\ f.at \in DOMAIN code /\ f.next <= f.n
    BY <1>1, <1>2, <2>1 DEF LoopOK, Waits
  <2>3. code[f.at].op \notin CondParts => f.n = SubCount(code, f.at, f.val)
    BY <1>1, <1>2 DEF LoopOK, Waits
  <2> QED
    BY <1>3, <2>1, <2>2, <2>3, SubValueIsValue
<1>5. rec \in BOOLEAN /\ (rec <=> f.rec /\ ~Probing(code, f))
  BY <1>3
<1> HIDE DEF v, rec
<1>6. /\ g \in Frame /\ g.ip = f.ip /\ g.valid = f.valid /\ g.rec = rec /\ g.at = 0
      /\ g.next = 1
  BY <1>2, <1>3, <1>4, <1>5 DEF Frame, NewFrame
<1> HIDE DEF g
<1>7. /\ stack' \in Seq(Frame) /\ Len(stack') = m + 1 /\ stack'[m + 1] = g
      /\ \A i \in 1..m : stack'[i] = stack[i]
  BY <1>1, <1>2, <1>6, AppendProperties
<1> HIDE DEF m
<1>8. \A i \in 1..(m + 1) : i = m + 1 \/ i \in 1..m
  BY <1>2
<1>9. m = Len(stack) /\ stack' # <<>>
  BY <1>2, <1>7, EmptySeq DEF m
<1>10. \A i \in 1..m : stack[i].ip \in 1..(Len(code) + 1)
  BY <1>9 DEF IInv, TypeOK
<1>11. code' = code /\ direction' = direction /\ verdict' = verdict
  BY <1>1
<1>12. TypeOK'
  BY <1>1, <1>2, <1>6, <1>7, <1>8, <1>10, <1>11 DEF IInv, TypeOK
<1>13. (\A i \in 1..Len(stack) : LoopOK(code, stack[i]))'
  <2>1. LoopOK(code, g)
    BY <1>6 DEF LoopOK, InFlight
  <2> QED
    BY <1>7, <1>8, <1>9, <1>11, <2>1 DEF IInv
<1>14. CallersWait'
  <2> SUFFICES ASSUME NEW i \in 1..m
               PROVE  /\ Waits(stack'[i])
                      /\ stack'[i + 1].ip >= stack'[i].ip
                      /\ stack'[i + 1].rec <=> (stack'[i].rec /\ ~Probing(code, stack'[i]))
    BY <1>2, <1>7, <1>11 DEF CallersWait
  <2>1. CASE i = m
    BY <1>1, <1>2, <1>5, <1>6, <1>7, <2>1
  <2>2. CASE i # m
    <3>1. i \in 1..(m - 1) /\ i + 1 \in 1..m
      BY <1>2, <2>2
    <3> QED
      BY <1>7, <1>9, <3>1 DEF IInv, CallersWait
  <2> QED
    BY <2>1, <2>2
<1>15. DeeperIsFurther'
  <2>1. g.ip >= m + 1 /\ ~InFlight(g)
    <3>1. f.at < f.ip /\ f.at >= m
      BY <1>1, <1>2 DEF LoopOK, Waits
    <3> QED
      BY <1>2, <1>3, <1>6, <3>1 DEF InFlight
  <2> QED
    BY <1>7, <1>8, <1>9, <2>1 DEF IInv, DeeperIsFurther
<1>16. Accounted'
  <2>1. ASSUME ~MemoryMayFail, NEW i \in 1..(m + 1), stack'[i].rec, ~stack'[i].valid
        PROVE  errors' # <<>>
    BY <1>1, <1>2, <1>5, <1>6, <1>7, <1>8, <1>9, <2>1 DEF IInv, Accounted
  <2>2. ASSUME errors' # <<>>
        PROVE  \E i \in 1..(m + 1) : Reproached(code, stack'[i])
    <3>1. PICK i \in 1..m : Reproached(code, stack[i])
      BY <1>1, <1>9, <2>2 DEF IInv, Accounted
    <3> QED
      BY <1>2, <1>7, <3>1
  <2> QED
    BY <1>7, <1>11, <2>1, <2>2 DEF Accounted
<1>17. Phases'
  <2>1. verdict = "running" /\ stack[1].rec
    BY <1>1 DEF IInv, Phases
  <2> QED
    BY <1>2, <1>7, <1>9, <1>11, <2>1 DEF Phases
<1>18. ErrorsExplainVerdict'
  BY <1>1, <1>11 DEF IInv, Phases, ErrorsExplainVerdict
<1> QED
  BY <1>12, <1>13, <1>14, <1>15, <1>16, <1>17, <1>18 DEF IInv

LEMMA ValidateStep ==
  ASSUME IInv, NEW v \in Values, NEW d \in Directions, Validate(v, d)
  PROVE  IInv'
<1> DEFINE g == NewFrame(1, v, TRUE, TRUE)
<1>1. /\ stack' = <<g>> /\ verdict' = "running" /\ verdict = "idle" /\ direction' = d
      /\ code' = code /\ errors' = errors
  BY DEF Validate
<1>2. /\ g \in Frame /\ g.ip = 1 /\ g.valid = TRUE /\ g.rec = TRUE /\ g.at = 0 /\ g.next = 1
  BY DEF NewFrame, Frame
<1> HIDE DEF g
<1>3. stack' \in Seq(Frame) /\ Len(stack') = 1 /\ stack'[1] = g /\ stack' # <<>>
  BY <1>1, <1>2
<1>4. errors' = <<>>
  BY <1>1 DEF IInv, Phases
<1>5. TypeOK'
  <2>1. Len(code) \in Nat
    BY DEF IInv, TypeOK
  <2> QED
    BY <1>1, <1>2, <1>3, <2>1 DEF IInv, TypeOK, Verdicts
<1>6. (\A i \in 1..Len(stack) : LoopOK(code, stack[i]))'
  BY <1>2, <1>3 DEF LoopOK, InFlight
<1>7. CallersWait'
  BY <1>3 DEF CallersWait
<1>8. DeeperIsFurther'
  BY <1>2, <1>3 DEF DeeperIsFurther, InFlight
<1>9. Accounted' /\ Phases' /\ ErrorsExplainVerdict'
  BY <1>1, <1>2, <1>3, <1>4 DEF Accounted, Phases, ErrorsExplainVerdict
<1> QED
  BY <1>5, <1>6, <1>7, <1>8, <1>9 DEF IInv

LEMMA FinishStep ==
  ASSUME IInv, Finish
  PROVE  IInv'
<1>1. /\ Len(stack) = 1 /\ Fetching(Top) /\ stack' = <<>>
      /\ verdict' = IF Top.valid THEN "valid" ELSE "invalid"
      /\ code' = code /\ direction' = direction /\ errors' = errors
  BY DEF Finish
<1>2. stack # <<>> /\ Top = stack[1] /\ stack[1].rec /\ Len(stack') = 0
  BY <1>1, StackFacts DEF IInv, Phases, Top
<1>3. TypeOK'
  BY <1>1, <1>2 DEF IInv, TypeOK, Verdicts
<1>4. (\A i \in 1..Len(stack) : LoopOK(code, stack[i]))' /\ CallersWait' /\ DeeperIsFurther'
  BY <1>1, <1>2 DEF CallersWait, DeeperIsFurther
<1>5. Accounted' /\ Phases'
  BY <1>1, <1>2 DEF Accounted, Phases
<1>6. ErrorsExplainVerdict'
  <2>1. ASSUME Top.valid
        PROVE  errors = <<>>
    <3>1. ~Reproached(code, stack[1])
      BY <1>1, <1>2, <2>1 DEF Reproached, Doomed, InFlight, Fetching
    <3> QED
      BY <1>1, <1>2, <3>1 DEF IInv, Accounted
  <2>2. ASSUME ~Top.valid, ~MemoryMayFail
        PROVE  errors # <<>>
    BY <1>1, <1>2, <2>2 DEF IInv, Accounted
  <2> QED
    BY <1>1, <2>1, <2>2 DEF ErrorsExplainVerdict
<1> QED
  BY <1>3, <1>4, <1>5, <1>6 DEF IInv

-----------------------------------------------------------------------------
(* The theorems.                                                           *)

\* The VM has not been called.
LEMMA InitStep == Init => IInv
<1> SUFFICES ASSUME Init
             PROVE  IInv
  OBVIOUS
<1>1. Len(code) \in Nat /\ DOMAIN code = 1..Len(code) /\ WellFormed(code)
  BY CodesAssumption DEF Init
<1>2. Len(stack) = 0 /\ stack = <<>> /\ errors = <<>> /\ verdict = "idle" /\ direction = "none"
  BY DEF Init
<1>3. stack \in Seq(Frame) /\ errors \in Seq([at : Nat, val : Values])
  BY <1>2
<1> QED
  BY <1>1, <1>2, <1>3 DEF IInv, TypeOK, Directions, Verdicts, CallersWait, DeeperIsFurther,
                          Accounted, Phases, ErrorsExplainVerdict

\* Every turn of execute and skip_to_end, and the return of the call.
LEMMA TurnStep ==
  ASSUME IInv, Execute \/ Finish
  PROVE  IInv'
BY LeafStep, NopStep, DepRequiredStep, EnterStep, PassMemberStep, CallStep, ReturnStep, CloseStep,
   CondStep, SkipStep, FinishStep DEF Execute

\* Somebody else takes a step.
LEMMA StutterStep ==
  ASSUME IInv, UNCHANGED vmVars
  PROVE  IInv'
<1>1. /\ code' = code /\ direction' = direction /\ stack' = stack
      /\ errors' = errors /\ verdict' = verdict
  BY DEF vmVars
<1>2. TypeOK'
  BY <1>1 DEF IInv, TypeOK
<1>3. (\A i \in 1..Len(stack) : LoopOK(code, stack[i]))'
  BY <1>1 DEF IInv, LoopOK, InFlight
<1>4. CallersWait'
  BY <1>1 DEF IInv, CallersWait, Waits, InFlight, Probing
<1>5. DeeperIsFurther'
  BY <1>1 DEF IInv, DeeperIsFurther, InFlight
<1>6. Accounted'
  BY <1>1 DEF IInv, Accounted, Reproached, Doomed, InFlight, SomeMatch, KeyMatches, Selects
<1>7. Phases' /\ ErrorsExplainVerdict'
  BY <1>1 DEF IInv, Phases, ErrorsExplainVerdict
<1>. QED BY <1>2, <1>3, <1>4, <1>5, <1>6, <1>7 DEF IInv

\* The invariant holds when the VM has not been called, and every step of
\* execute() and skip_to_end preserves it.
THEOREM Inductive == Spec => []IInv
<1>1. Init => IInv
  BY InitStep
<1>2. IInv /\ [Next]_vmVars => IInv'
  <2> SUFFICES ASSUME IInv, [Next]_vmVars
               PROVE  IInv'
    OBVIOUS
  <2>1. CASE \E v \in Values, d \in Directions : Validate(v, d)
    BY <2>1, ValidateStep
  <2>2. CASE Execute \/ Finish
    BY <2>2, TurnStep
  <2>3. CASE UNCHANGED vmVars
    BY <2>3, StutterStep
  <2> QED
    BY <2>1, <2>2, <2>3 DEF Next
<1> QED
  BY <1>1, <1>2, PTL DEF Spec

\* The instruction pointer never leaves the program (execute, skip_to_end).
THEOREM TypeCorrect == Spec => []TypeOK
<1>1. IInv => TypeOK
  BY DEF IInv
<1> QED
  BY <1>1, Inductive, PTL

\* execute() nests no deeper than the program is long, whatever the value.
THEOREM RecursionIsBounded == Spec => []RecursionBounded
<1>1. IInv => RecursionBounded
  <2> SUFFICES ASSUME IInv
               PROVE  Len(stack) <= Len(code) + 1
    BY DEF RecursionBounded
  <2>1. Len(stack) \in Nat /\ Len(code) \in Nat
    BY StackFacts DEF IInv, TypeOK
  <2>2. CASE stack = <<>>
    BY <2>1, <2>2, StackFacts DEF IInv
  <2>3. CASE stack # <<>>
    <3>1. Top.ip >= Len(stack) /\ Top.ip \in 1..(Len(code) + 1)
      BY <2>3, TopFacts
    <3> QED
      BY <2>1, <3>1
  <2> QED
    BY <2>2, <2>3
<1> QED
  BY <1>1, Inductive, PTL

\* A valid verdict comes with an empty error list, and an invalid one with an
\* error unless the arena lost it (add_error, oas_validate_with_direction).
THEOREM VerdictAndErrorsAgree == Spec => []ErrorsExplainVerdict
<1>1. IInv => ErrorsExplainVerdict
  BY DEF IInv
<1> QED
  BY <1>1, Inductive, PTL

-----------------------------------------------------------------------------
(* Where the activations are: at the levels of the sub-programs they run.  *)
(* P are the places the program goes through (SchemaProgram).              *)

Agree(p, q, l) == \A h \in 1..l : p.open[h] = q.open[h]

\* The sub-programs of the instruction in effect that are still to be passed.
Remaining(c, f) ==
  IF c[f.at].op \in BlockOps \/ (c[f.at].op = "CHECK_DEP_SCHEMA" /\ f.n = 0)
  THEN 1 ELSE (f.n + 1) - f.next

\* Between two instructions an activation is at the level l it began on.
AtLevel(c, p, f, l) ==
  p.depth = l /\ (f.ip \in 1..Len(c) => c[f.ip].op \notin CondParts)

\* skip_to_end counts the sub-programs that are open beyond that level.
SkipsTo(c, p, f, l) ==
  /\ p.depth = l + f.depth /\ p.open[l + 1] \in SkippedOps
  /\ IF InFlight(f)
     THEN c[f.at].op \in CondParts /\ p.open[l + 1] = c[f.at].op /\ f.n = 0 /\ f.next = 1
     ELSE p.open[l + 1] \notin CondParts

\* The loop of an instruction leaves open what it has still to run.
LoopsAt(c, p, f, l) ==
  /\ p.depth = l + Remaining(c, f)
  /\ \A h \in (l + 1)..(l + Remaining(c, f)) : p.open[h] = c[f.at].op
  /\ p.last \in {"none", c[f.at].op}
  /\ Remaining(c, f) > 0 /\ p.last # "none" => c[f.at].op \in CompositionOps

\* Activation f, begun at instruction b.
Level(c, P, f, b) ==
  /\ b \in 1..(Len(c) + 1) /\ P[b].depth >= 1
  /\ P[f.ip].depth >= P[b].depth /\ Agree(P[b], P[f.ip], P[b].depth)
  /\ Fetching(f) => AtLevel(c, P[f.ip], f, P[b].depth)
  /\ f.depth > 0 => SkipsTo(c, P[f.ip], f, P[b].depth)
  /\ InFlight(f) /\ f.depth = 0 => LoopsAt(c, P[f.ip], f, P[b].depth)
  /\ InFlight(f) => f.next <= f.n + 1 /\ (c[f.at].op \in CondParts => f.n <= 1)

Begun(i) == IF i = 1 THEN 1 ELSE stack[i - 1].ip
Levels(P) == \A i \in 1..Len(stack) : Level(code, P, stack[i], Begun(i))

\* What Announces is, kind by kind.
LEMMA AnnouncesKinds ==
  ASSUME NEW c, NEW i
  PROVE  /\ c[i].op \in BlockOps \cup CondParts \cup {"NEGATE", "COND_IF", "CHECK_DEP_SCHEMA"}
              => Announces(c, i) = 1
         /\ c[i].op \in {"BRANCH_ALLOF", "BRANCH_ANYOF", "BRANCH_ONEOF"}
              => Announces(c, i) = c[i].arg
         /\ c[i].op = "DISCRIMINATOR" => Announces(c, i) = c[i + 1].arg
         /\ c[i].op \notin NestingOps \cup CompositionOps => Announces(c, i) = 0
<1>1. PICK op, one, counted, other, a : op = c[i].op /\ one = c[i].arg /\ counted = c[i + 1].arg
        /\ a = Announces(c, i)
        /\ other = (BlockOps \cup CondParts \cup {"NEGATE", "COND_IF", "CHECK_DEP_SCHEMA"})
  OBVIOUS
<1>2. a = CASE op \in other -> 1
            [] op \in {"BRANCH_ALLOF", "BRANCH_ANYOF", "BRANCH_ONEOF"} -> one
            [] op = "DISCRIMINATOR" -> counted
            [] OTHER -> 0
  BY <1>1 DEF Announces
<1>3. other = NestingOps /\ other \cap CompositionOps = {}
  BY <1>1 DEF BlockOps, CondParts, NestingOps, CompositionOps
<1>4. op \in other => a = 1
  BY <1>2, <1>3 DEF CompositionOps
<1>5. op \in {"BRANCH_ALLOF", "BRANCH_ANYOF", "BRANCH_ONEOF"} => a = one
  BY <1>2, <1>3 DEF CompositionOps
<1>6. op = "DISCRIMINATOR" => a = counted
  BY <1>2, <1>3 DEF CompositionOps
<1>7. op \notin other \cup CompositionOps => a = 0
  BY <1>2 DEF CompositionOps
<1>. QED BY <1>1, <1>3, <1>4, <1>5, <1>6, <1>7

LEMMA AnnouncesIsNat ==
  ASSUME NEW c, WellFormed(c), Len(c) \in Nat, DOMAIN c = 1..Len(c), NEW i \in 1..Len(c)
  PROVE  Announces(c, i) \in Nat
<1>1. /\ c[i].op \in {"BRANCH_ALLOF", "BRANCH_ANYOF", "BRANCH_ONEOF"} => c[i].arg \in Nat
      /\ c[i].op = "DISCRIMINATOR" => c[i + 1].arg \in Nat
  BY DEF WellFormed
<1>. QED BY <1>1 DEF Announces

\* What an instruction leads to, name by name.
LEMMA PlaceStep ==
  ASSUME NEW c, NEW P, GoesThrough(c, P), NEW i \in 1..Len(c), NEW n \in Nat,
         n = Announces(c, i)
  PROVE  /\ P[i].depth \in Nat /\ P[i].depth >= 1
         /\ c[i].op = "END" =>
              /\ P[i + 1].depth = P[i].depth - 1
              /\ \A h \in 1..(P[i].depth - 1) : P[i + 1].open[h] = P[i].open[h]
              /\ P[i + 1].last \in {"none", P[i].open[P[i].depth]}
         /\ c[i].op # "END" =>
              /\ P[i + 1].depth = P[i].depth + n
              /\ \A h \in 1..P[i].depth : P[i + 1].open[h] = P[i].open[h]
              /\ \A h \in (P[i].depth + 1)..(P[i].depth + n) : P[i + 1].open[h] = c[i].op
              /\ P[i + 1].last = "none"
<1>1. /\ IsPlace(P[i]) /\ P[i].depth > 0
      /\ Follows(c[i].op, n, P[i], P[i + 1])
  BY DEF GoesThrough, Permitted
<1>2. PICK p, q, op : p = P[i] /\ q = P[i + 1] /\ op = c[i].op
  OBVIOUS
<1>3. PICK k \in Nat : p \in Places(k)
  BY <1>1, <1>2 DEF IsPlace
<1>4. p.depth = k /\ k >= 1
  BY <1>1, <1>2, <1>3 DEF Places
<1>5. q = After(op, n, p) \/ q = Bare(After(op, n, p))
  BY <1>1, <1>2 DEF Follows
<1>6. CASE op = "END"
  <2>1. /\ Pop(p).depth = k - 1 /\ Pop(p).open = [h \in 1..(k - 1) |-> p.open[h]]
        /\ Pop(p).last = p.open[k]
    BY <1>4 DEF Pop
  <2>2. /\ Bare(Pop(p)).depth = k - 1 /\ Bare(Pop(p)).open = [h \in 1..(k - 1) |-> p.open[h]]
        /\ Bare(Pop(p)).last = "none"
    BY <1>4 DEF Pop, Bare
  <2>3. q = Pop(p) \/ q = Bare(Pop(p))
    BY <1>5, <1>6 DEF After
  <2>4. q.depth = k - 1 /\ q.open = [h \in 1..(k - 1) |-> p.open[h]]
        /\ q.last \in {"none", p.open[k]}
    BY <2>1, <2>2, <2>3
  <2>. QED BY <1>2, <1>4, <1>6, <2>4
<1>7. CASE op # "END"
  <2>1. /\ Push(p, op, n).depth = k + n /\ Push(p, op, n).last = "none"
        /\ Push(p, op, n).open = [h \in 1..(k + n) |-> IF h <= k THEN p.open[h] ELSE op]
    BY <1>4 DEF Push
  <2>2. Bare(Push(p, op, n)) = Push(p, op, n)
    BY DEF Push, Bare
  <2>3. q = Push(p, op, n)
    BY <1>5, <1>7, <2>2 DEF After
  <2>4. \A h \in 1..k : h \in 1..(k + n) /\ h <= k
    OBVIOUS
  <2>5. \A h \in (k + 1)..(k + n) : h \in 1..(k + n) /\ ~(h <= k)
    OBVIOUS
  <2>. QED BY <1>2, <1>4, <1>7, <2>1, <2>3, <2>4, <2>5
<1>. QED BY <1>6, <1>7

LEMMA Pushed ==
  ASSUME NEW c, NEW P, GoesThrough(c, P), NEW i \in 1..Len(c), NEW n \in Nat,
         n = Announces(c, i), c[i].op # "END"
  PROVE  /\ P[i + 1].depth = P[i].depth + n
         /\ \A h \in 1..P[i].depth : P[i + 1].open[h] = P[i].open[h]
         /\ \A h \in (P[i].depth + 1)..(P[i].depth + n) : P[i + 1].open[h] = c[i].op
         /\ P[i + 1].last = "none"
BY PlaceStep

LEMMA Popped ==
  ASSUME NEW c, NEW P, GoesThrough(c, P), NEW i \in 1..Len(c), NEW n \in Nat,
         n = Announces(c, i), c[i].op = "END"
  PROVE  /\ P[i + 1].depth = P[i].depth - 1
         /\ \A h \in 1..(P[i].depth - 1) : P[i + 1].open[h] = P[i].open[h]
         /\ P[i + 1].last \in {"none", P[i].open[P[i].depth]}
BY PlaceStep

\* A sub-program is open at every instruction, none at the end.
LEMMA PlaceDepth ==
  ASSUME NEW c, NEW P, GoesThrough(c, P), Len(c) \in Nat, NEW i \in 1..(Len(c) + 1)
  PROVE  /\ P[i].depth \in Nat
         /\ P[i].depth >= 1 <=> i \in 1..Len(c)
<1>1. CASE i \in 1..Len(c)
  <2>1. PICK k \in Nat : P[i] \in Places(k)
    BY <1>1 DEF GoesThrough, IsPlace
  <2>2. P[i].depth = k
    BY <2>1 DEF Places
  <2>3. P[i].depth > 0
    BY <1>1 DEF GoesThrough, Permitted
  <2>. QED BY <1>1, <2>2, <2>3
<1>2. CASE i = Len(c) + 1
  BY <1>2 DEF GoesThrough
<1>. QED BY <1>1, <1>2

\* Operands change nothing.
LEMMA OperandsKeepPlace ==
  ASSUME NEW c, NEW P, GoesThrough(c, P), WellFormed(c), Len(c) \in Nat, DOMAIN c = 1..Len(c),
         NEW i \in 1..(Len(c) + 1), NEW z \in i..(Len(c) + 1),
         \A h \in i..(z - 1) : c[h].op = "NOP", P[i].last = "none"
  PROVE  P[z].depth = P[i].depth /\ Agree(P[i], P[z], P[i].depth) /\ P[z].last = "none"
<1>0. PICK k \in Nat : z = i + k
  <2>1. z - i \in Nat /\ z = i + (z - i)
    OBVIOUS
  <2>. QED BY <2>1
<1>. DEFINE Kept(j) == /\ P[i + j].depth = P[i].depth /\ Agree(P[i], P[i + j], P[i].depth)
                       /\ P[i + j].last = "none"
            S == {j \in 0..k : Kept(j)}
<1>1. 0 \in S
  BY i + 0 = i DEF Agree
<1>2. ASSUME NEW j \in 0..(k - 1), j \in S PROVE j + 1 \in S
  <2>1. i + j \in 1..Len(c) /\ (i + j) + 1 = i + (j + 1) /\ j + 1 \in 0..k
    BY <1>0
  <2>0. i + j \in i..(z - 1)
    BY <1>0
  <2>2. c[i + j].op = "NOP" /\ Kept(j)
    BY <1>2, <2>0
  <2>3. Announces(c, i + j) = 0
    BY <2>2 DEF Announces, BlockOps, CondParts
  <2>4. PICK m \in Nat \ {0} : m = i + j
    BY <2>1
  <2>5. /\ P[m].depth \in Nat
        /\ P[m + 1].depth = P[m].depth + 0
        /\ \A h \in 1..P[m].depth : P[m + 1].open[h] = P[m].open[h]
        /\ P[m + 1].last = "none"
    <3>1. c[m].op # "END" /\ 0 = Announces(c, m) /\ m \in 1..Len(c)
      BY <2>1, <2>2, <2>3, <2>4
    <3>. QED BY <3>1, PlaceStep
  <2>6. P[m + 1].depth = P[m].depth
    BY <2>5
  <2>7. P[m].depth = P[i].depth /\ Agree(P[i], P[m], P[i].depth)
    BY <2>2, <2>4
  <2>8. Agree(P[i], P[m + 1], P[i].depth)
    BY <2>5, <2>7 DEF Agree
  <2>9. Kept(j + 1)
    BY <2>1, <2>4, <2>5, <2>6, <2>7, <2>8
  <2>. QED BY <2>1, <2>9
<1>3. 0..k \subseteq S
  <2>. HIDE DEF S
  <2>. QED BY <1>1, <1>2, BoundedInduction
<1>4. k \in S
  BY <1>3
<1>. QED BY <1>0, <1>4

-----------------------------------------------------------------------------
(* The levels, frame by frame: what each turn makes of an activation f     *)
(* that is at its level.                                                   *)

\* SkipsAfter, of any program.
SkipsAt(c, f) ==
  c[f.at].op \in BlockOps \/ (c[f.at].op = "CHECK_DEP_SCHEMA" /\ f.n = 0)

Placed(c, P) ==
  /\ Len(c) \in Nat /\ DOMAIN c = 1..Len(c) /\ WellFormed(c)
  /\ GoesThrough(c, P) /\ NamesFollow(c)

\* A THEN or ELSE is only where a conditional has just ended.
LEMMA NoCondPart ==
  ASSUME NEW c, NEW P, GoesThrough(c, P), NEW i \in 1..Len(c),
         P[i].last \notin {"COND_IF", "COND_THEN"}
  PROVE  c[i].op \notin CondParts
BY DEF GoesThrough, Permitted, CondParts

\* An activation that runs is before the end of the program.
LEMMA LevelFacts ==
  ASSUME NEW c, NEW P, Placed(c, P), NEW b, NEW f, f.ip \in 1..(Len(c) + 1),
         Level(c, P, f, b)
  PROVE  /\ P[b].depth \in Nat /\ P[b].depth >= 1 /\ P[f.ip].depth \in Nat
         /\ f.ip \in 1..Len(c) /\ Len(c) \in Nat /\ f.ip \in Nat
<1>1. /\ b \in 1..(Len(c) + 1) /\ P[b].depth >= 1 /\ P[f.ip].depth >= P[b].depth
      /\ GoesThrough(c, P) /\ Len(c) \in Nat
  BY DEF Level, Placed
<1>2. P[b].depth \in Nat /\ P[f.ip].depth \in Nat
  BY <1>1, PlaceDepth
<1>3. P[f.ip].depth >= 1
  BY <1>1, <1>2
<1>. QED BY <1>1, <1>2, <1>3, PlaceDepth

\* An instruction that runs nothing.
LEMMA LevelPasses ==
  ASSUME NEW c, NEW P, Placed(c, P), NEW b, NEW f, f.ip \in 1..(Len(c) + 1),
         Level(c, P, f, b), Fetching(f),
         NEW g, Fetching(g), NEW j \in 1..(Len(c) + 1), g.ip = j,
         P[j].depth = P[f.ip].depth, Agree(P[f.ip], P[j], P[f.ip].depth), P[j].last = "none"
  PROVE  Level(c, P, g, b)
<1>1. P[b].depth \in Nat /\ P[f.ip].depth = P[b].depth
  BY LevelFacts DEF Level, AtLevel
<1>2. Agree(P[b], P[j], P[b].depth)
  BY <1>1 DEF Level, Agree
<1>3. j \in 1..Len(c) => c[j].op \notin CondParts
  BY NoCondPart DEF Placed
<1>4. ~InFlight(g) /\ ~(g.depth > 0)
  BY DEF Fetching, InFlight
<1>. QED BY <1>1, <1>2, <1>3, <1>4 DEF Level, AtLevel

LEMMA AfterFirst ==
  ASSUME NEW e \in Nat, NEW k \in Nat, NEW h \in e..(e + k), h # e
  PROVE  h - e \in 1..k /\ e + (h - e) = h
OBVIOUS

\* Nor do those an instruction reads when it begins.
LEMMA HeaderKeepsPlace ==
  ASSUME NEW c, NEW P, Placed(c, P), NEW i \in 1..Len(c), NEW v,
         NEW j \in 1..(Len(c) + 1), j = i + 1 + HeaderLength(c, i, v),
         P[i + 1].last = "none"
  PROVE  /\ P[j].depth = P[i + 1].depth /\ Agree(P[i + 1], P[j], P[i + 1].depth)
         /\ P[j].last = "none"
<1>1. GoesThrough(c, P) /\ WellFormed(c) /\ Len(c) \in Nat /\ DOMAIN c = 1..Len(c)
  BY DEF Placed
<1>2. PICK e \in 1..(Len(c) + 1) : e = i + 1
  BY <1>1
<1>3. CASE c[i].op = "CHECK_CONTAINS"
  <2>1. j \in {e, e + 1}
    BY <1>1, <1>2, <1>3 DEF HeaderLength
  <2>2. c[e].op = "NOP"
    BY <1>1, <1>2, <1>3 DEF WellFormed
  <2>3. j \in e..(Len(c) + 1) /\ \A h \in e..(j - 1) : c[h].op = "NOP"
    BY <1>1, <2>1, <2>2
  <2>. QED BY <1>1, <1>2, <2>3, OperandsKeepPlace
<1>4. CASE c[i].op = "DISCRIMINATOR"
  <2>1. c[e].op = "NOP" /\ c[e].arg \in Nat
    BY <1>1, <1>2, <1>4 DEF WellFormed
  <2>2. j = e + 1 + c[e].arg
    BY <1>1, <1>2, <1>4, <2>1 DEF HeaderLength
  <2>3. j \in e..(Len(c) + 1)
    BY <1>1, <2>1, <2>2
  <2>4. ASSUME NEW h \in e..(j - 1) PROVE c[h].op = "NOP"
    <3>1. CASE h = e
      BY <2>1, <3>1
    <3>2. CASE h # e
      <4>1. h - e \in 1..c[e].arg /\ e + (h - e) = h
        <5>1. h \in e..(e + c[e].arg) /\ e \in Nat
          BY <1>1, <1>2, <2>1, <2>2
        <5>. QED BY <2>1, <3>2, <5>1, AfterFirst
      <4>. QED BY <1>2, <1>4, <4>1 DEF Placed, NamesFollow
    <3>. QED BY <3>1, <3>2
  <2>. QED BY <1>1, <1>2, <2>3, <2>4, OperandsKeepPlace
<1>5. CASE c[i].op \notin {"CHECK_CONTAINS", "DISCRIMINATOR"}
  <2>1. j = e
    BY <1>1, <1>2, <1>5 DEF HeaderLength
  <2>. QED BY <1>2, <2>1 DEF Agree
<1>. QED BY <1>3, <1>4, <1>5

\* How many sub-programs the instructions that count them have.
LEMMA SubCountKinds ==
  ASSUME NEW c, NEW i, NEW v
  PROVE  /\ c[i].op = "DISCRIMINATOR" => SubCount(c, i, v) = c[i + 1].arg
         /\ c[i].op \in {"NEGATE", "COND_IF"} => SubCount(c, i, v) = 1
         /\ c[i].op \in {"BRANCH_ALLOF", "BRANCH_ANYOF", "BRANCH_ONEOF"}
              => SubCount(c, i, v) = c[i].arg
<1>1. PICK op : op = c[i].op
  OBVIOUS
<1>2. CASE op = "DISCRIMINATOR"
  BY <1>1, <1>2 DEF SubCount
<1>3. CASE op \in {"NEGATE", "COND_IF"}
  BY <1>1, <1>3 DEF SubCount
<1>4. CASE op \in {"BRANCH_ALLOF", "BRANCH_ANYOF", "BRANCH_ONEOF"}
  BY <1>1, <1>4 DEF SubCount
<1>. QED BY <1>1, <1>2, <1>3, <1>4

\* A block or a branch begins.
LEMMA LevelEnters ==
  ASSUME NEW c, NEW P, Placed(c, P), NEW b, NEW f, f.ip \in 1..(Len(c) + 1),
         Level(c, P, f, b), Fetching(f),
         c[f.ip].op \in BlockOps \cup BranchOps,
         NEW n \in Nat, n = SubCount(c, f.ip, f.val),
         NEW g, NEW j \in 1..(Len(c) + 1), g.ip = j, g.at = f.ip, g.next = 1, g.n = n,
         g.depth = 0, j = f.ip + 1 + HeaderLength(c, f.ip, f.val)
  PROVE  Level(c, P, g, b)
<1>. DEFINE l == P[b].depth
<1>1. /\ l \in Nat /\ l >= 1 /\ P[f.ip].depth = l /\ Agree(P[b], P[f.ip], l)
      /\ f.ip \in 1..Len(c) /\ f.ip \in Nat /\ Len(c) \in Nat
  BY LevelFacts DEF Level, AtLevel
<1>2. PICK i, op : i \in 1..Len(c) /\ i = f.ip /\ op = c[i].op
  BY <1>1
<1>3. PICK a \in Nat : a = Announces(c, i)
  BY <1>2, AnnouncesIsNat DEF Placed
<1>4. /\ op # "END" /\ op \notin CondParts /\ GoesThrough(c, P)
  BY <1>2 DEF BlockOps, BranchOps, CondParts, Placed
<1>5. /\ P[i + 1].depth = l + a
      /\ \A h \in 1..l : P[i + 1].open[h] = P[i].open[h]
      /\ \A h \in (l + 1)..(l + a) : P[i + 1].open[h] = op
      /\ P[i + 1].last = "none"
  <2>1. /\ P[i + 1].depth = P[i].depth + a
        /\ \A h \in 1..P[i].depth : P[i + 1].open[h] = P[i].open[h]
        /\ \A h \in (P[i].depth + 1)..(P[i].depth + a) : P[i + 1].open[h] = c[i].op
        /\ P[i + 1].last = "none"
    <3>. HIDE DEF l
    <3>1. c[i].op # "END" /\ GoesThrough(c, P) /\ a = Announces(c, i)
      BY <1>2, <1>3, <1>4
    <3>2. i \in 1..Len(c)
      BY <1>2
    <3>. QED BY <3>1, <3>2, Pushed
  <2>2. P[i].depth = l
    BY <1>1, <1>2
  <2>. QED BY <1>2, <2>1, <2>2
<1>6. /\ P[j].depth = l + a /\ Agree(P[i + 1], P[j], l + a) /\ P[j].last = "none"
  <2>1. P[i + 1].last = "none" /\ j = i + 1 + HeaderLength(c, i, f.val)
    BY <1>2, <1>5
  <2>2. /\ P[j].depth = P[i + 1].depth /\ Agree(P[i + 1], P[j], P[i + 1].depth)
        /\ P[j].last = "none"
    BY <1>2, <2>1, HeaderKeepsPlace
  <2>. QED BY <1>5, <2>2
<1>7. Remaining(c, g) = a
  <2>1. op \in BlockOps \cup {"CHECK_DEP_SCHEMA"} => a = 1
    BY <1>2, <1>3, AnnouncesKinds
  <2>2. op = "CHECK_DEP_SCHEMA" => n \in {0, 1}
    BY <1>2 DEF SubCount
  <2>0. n = SubCount(c, i, f.val)
    BY <1>2
  <2>3. op \in {"NEGATE", "COND_IF"} => a = 1 /\ n = 1
    BY <1>2, <1>3, <2>0, AnnouncesKinds, SubCountKinds
  <2>4. op \in {"BRANCH_ALLOF", "BRANCH_ANYOF", "BRANCH_ONEOF"} => a = c[i].arg /\ n = c[i].arg
    BY <1>2, <1>3, <2>0, AnnouncesKinds, SubCountKinds
  <2>5. op = "DISCRIMINATOR" => a = n
    <3>1. c[i].op = "DISCRIMINATOR" => Announces(c, i) = c[i + 1].arg
      BY AnnouncesKinds
    <3>2. c[i].op = "DISCRIMINATOR" => SubCount(c, i, f.val) = c[i + 1].arg
      BY SubCountKinds
    <3>. QED BY <1>2, <1>3, <2>0, <3>1, <3>2
  <2>6. Remaining(c, g) = IF op \in BlockOps \/ (op = "CHECK_DEP_SCHEMA" /\ n = 0)
                          THEN 1 ELSE (n + 1) - 1
    BY <1>2 DEF Remaining
  <2>7. op \in BlockOps \cup BranchOps
    BY <1>2
  <2>8. op \in BranchOps \ {"CHECK_DEP_SCHEMA"} => a = n /\ op \notin BlockOps
    BY <2>3, <2>4, <2>5 DEF BranchOps, BlockOps
  <2>. QED BY <2>1, <2>2, <2>6, <2>7, <2>8
<1>8. Agree(P[b], P[j], l)
  <2>1. \A h \in 1..l : h \in 1..(l + a)
    BY <1>1
  <2>. QED BY <1>1, <1>2, <1>5, <1>6, <2>1 DEF Agree
<1>9. \A h \in (l + 1)..(l + a) : P[j].open[h] = op
  <2>1. \A h \in (l + 1)..(l + a) : h \in 1..(l + a)
    BY <1>1
  <2>. QED BY <1>5, <1>6, <2>1 DEF Agree
<1>10. LoopsAt(c, P[j], g, l)
  BY <1>2, <1>6, <1>7, <1>9 DEF LoopsAt
<1>11. ~Fetching(g) /\ ~(g.depth > 0) /\ l + a >= l /\ g.next <= g.n + 1
  BY <1>1 DEF Fetching
<1>12. c[g.at].op \notin CondParts
  BY <1>2, <1>4
<1>. HIDE DEF l
<1>13. l = P[b].depth
  BY DEF l
<1>. QED BY <1>6, <1>8, <1>10, <1>11, <1>12, <1>13 DEF Level

\* A turn of the instruction's loop, when the sub-program has been passed or
\* is a block's, which the next turn runs again.
LEMMA LevelTurns ==
  ASSUME NEW c, NEW P, NEW b, NEW f, Level(c, P, f, b),
         InFlight(f), f.depth = 0, f.next <= f.n, f.next \in Nat, f.n \in Nat,
         c[f.at].op \in BlockOps,
         NEW g, g.ip = f.ip, g.at = f.at, g.n = f.n, g.depth = 0, g.next = f.next + 1
  PROVE  Level(c, P, g, b)
<1>1. Remaining(c, f) = 1 /\ Remaining(c, g) = 1
  BY DEF Remaining
<1>2. InFlight(g) /\ ~Fetching(g) /\ g.next <= g.n + 1
  BY DEF InFlight, Fetching
<1>3. LoopsAt(c, P[g.ip], g, P[b].depth)
  BY <1>1 DEF Level, LoopsAt
<1>. QED BY <1>2, <1>3 DEF Level

\* The sub-programs still to run, when one of them runs.
LEMMA RemainingFacts ==
  ASSUME NEW c, NEW f, f.next <= f.n, f.next >= 1, f.next \in Nat, f.n \in Nat
  PROVE  /\ Remaining(c, f) \in Nat /\ Remaining(c, f) >= 1
         /\ c[f.at].op \notin BlockOps => Remaining(c, f) = (f.n + 1) - f.next
BY DEF Remaining

\* A sub-program begins.
LEMMA LevelBegins ==
  ASSUME NEW c, NEW P, Placed(c, P), NEW b, NEW f, f.ip \in 1..(Len(c) + 1),
         Level(c, P, f, b), Waits(f), f.next >= 1, f.next \in Nat, f.n \in Nat,
         NEW g, g.ip = f.ip, Fetching(g)
  PROVE  Level(c, P, g, f.ip)
<1>1. /\ P[f.ip].depth \in Nat /\ P[f.ip].depth >= 1 /\ f.ip \in 1..Len(c)
  <2>1. P[f.ip].depth >= P[b].depth
    BY DEF Level
  <2>. QED BY <2>1, LevelFacts
<1>2. Remaining(c, f) > 0 /\ LoopsAt(c, P[f.ip], f, P[b].depth)
  BY RemainingFacts DEF Level, Waits
<1>3. P[f.ip].last \notin {"COND_IF", "COND_THEN"}
  BY <1>2 DEF LoopsAt, CompositionOps
<1>4. c[f.ip].op \notin CondParts
  BY <1>1, <1>3, NoCondPart DEF Placed
<1>5. ~InFlight(g) /\ ~(g.depth > 0)
  BY DEF Fetching, InFlight
<1>. QED BY <1>1, <1>4, <1>5 DEF Level, AtLevel, Agree

\* A sub-program has ended: s is at its END.
LEMMA LevelEnds ==
  ASSUME NEW c, NEW P, Placed(c, P), NEW b, NEW s, s.ip \in 1..(Len(c) + 1),
         Level(c, P, s, b), Fetching(s), s.ip \in 1..Len(c) => c[s.ip].op = "END"
  PROVE  /\ s.ip \in 1..Len(c) /\ s.ip + 1 \in 1..(Len(c) + 1)
         /\ P[s.ip + 1].depth = P[b].depth - 1
         /\ Agree(P[b], P[s.ip + 1], P[b].depth - 1)
         /\ P[s.ip + 1].last \in {"none", P[b].open[P[b].depth]}
<1>1. /\ P[b].depth \in Nat /\ P[b].depth >= 1 /\ P[s.ip].depth = P[b].depth
      /\ Agree(P[b], P[s.ip], P[b].depth) /\ s.ip \in 1..Len(c) /\ Len(c) \in Nat
  BY LevelFacts DEF Level, AtLevel
<1>2. PICK i \in 1..Len(c), l \in Nat : i = s.ip /\ l = P[b].depth
  BY <1>1
<1>3. PICK a \in Nat : a = Announces(c, i)
  BY AnnouncesIsNat DEF Placed
<1>4. /\ P[i + 1].depth = l - 1
      /\ \A h \in 1..(l - 1) : P[i + 1].open[h] = P[i].open[h]
      /\ P[i + 1].last \in {"none", P[i].open[l]}
  <2>1. c[i].op = "END" /\ GoesThrough(c, P) /\ P[i].depth = l
    BY <1>1, <1>2 DEF Placed
  <2>2. /\ P[i + 1].depth = P[i].depth - 1
        /\ \A h \in 1..(P[i].depth - 1) : P[i + 1].open[h] = P[i].open[h]
        /\ P[i + 1].last \in {"none", P[i].open[P[i].depth]}
    BY <1>3, <2>1, Popped
  <2>. QED BY <2>1, <2>2
<1>5. \A h \in 1..(l - 1) : h \in 1..l
  OBVIOUS
<1>6. Agree(P[b], P[i + 1], l - 1)
  BY <1>1, <1>2, <1>4, <1>5 DEF Agree
<1>7. l \in 1..l /\ P[i].open[l] = P[b].open[l]
  BY <1>1, <1>2 DEF Agree
<1>. QED BY <1>1, <1>2, <1>4, <1>6, <1>7

LEMMA OneFewer ==
  ASSUME NEW n \in Nat, NEW x \in Nat, NEW l \in Nat, NEW r \in Nat, r = (n + 1) - x, x <= n
  PROVE  /\ l + r \in (l + 1)..(l + r) /\ (n + 1) - (x + 1) = r - 1 /\ r - 1 \in Nat
         /\ (l + r) - 1 >= l /\ l + (r - 1) = (l + r) - 1
OBVIOUS

\* What an activation takes over when a sub-program that another one ran has
\* ended: a branch goes on behind its END.
LEMMA LevelReturns ==
  ASSUME NEW c, NEW P, Placed(c, P), NEW b, NEW f, f.ip \in 1..(Len(c) + 1),
         Level(c, P, f, b), Waits(f), f.next >= 1, f.next \in Nat, f.n \in Nat,
         c[f.at].op \in BranchOps \cup CondParts,
         c[f.at].op \notin CondParts => f.n = SubCount(c, f.at, f.val),
         NEW s, s.ip \in 1..(Len(c) + 1), Level(c, P, s, f.ip), Fetching(s),
         s.ip \in 1..Len(c) => c[s.ip].op = "END",
         NEW g, g.ip = s.ip + 1, g.at = f.at, g.n = f.n, g.depth = 0, g.next = f.next + 1
  PROVE  Level(c, P, g, b) /\ g.ip \in 1..(Len(c) + 1)
<1>1. PICK l, r, op : /\ l \in Nat /\ r \in Nat
                        /\ l = P[b].depth /\ r = Remaining(c, f) /\ op = c[f.at].op
  <2>1. P[b].depth \in Nat
    BY LevelFacts
  <2>2. Remaining(c, f) \in Nat
    BY RemainingFacts DEF Waits
  <2>. QED BY <2>1, <2>2
<1>2. /\ l >= 1 /\ r = (f.n + 1) - f.next /\ r >= 1 /\ op \notin BlockOps
      /\ P[f.ip].depth = l + r /\ \A h \in (l + 1)..(l + r) : P[f.ip].open[h] = op
      /\ Agree(P[b], P[f.ip], l)
  <2>1. l >= 1
    BY <1>1, LevelFacts
  <2>2. op \notin BlockOps
    BY <1>1 DEF BlockOps, BranchOps, CondParts
  <2>3. r = (f.n + 1) - f.next /\ r >= 1
    BY <1>1, <2>2, RemainingFacts DEF Waits
  <2>. QED BY <1>1, <2>1, <2>2, <2>3 DEF Level, LoopsAt, Waits
<1>14. /\ l + r \in (l + 1)..(l + r) /\ (f.n + 1) - (f.next + 1) = r - 1 /\ r - 1 \in Nat
       /\ (l + r) - 1 >= l /\ l + (r - 1) = (l + r) - 1
  <2>1. PICK n \in Nat, x \in Nat : n = f.n /\ x = f.next
    OBVIOUS
  <2>2. x <= n /\ r = (n + 1) - x
    BY <1>2, <2>1 DEF Waits
  <2>3. /\ l + r \in (l + 1)..(l + r) /\ (n + 1) - (x + 1) = r - 1 /\ r - 1 \in Nat
        /\ (l + r) - 1 >= l /\ l + (r - 1) = (l + r) - 1
    BY <1>1, <2>2, OneFewer
  <2>. QED BY <2>1, <2>3
<1>3. PICK j, q, p : j \in 1..(Len(c) + 1) /\ j = s.ip + 1 /\ q = P[j] /\ p = P[f.ip]
  BY LevelEnds
<1>4. q.depth = (l + r) - 1 /\ Agree(p, q, (l + r) - 1) /\ q.last \in {"none", p.open[l + r]}
  <2>1. /\ P[s.ip + 1].depth = P[f.ip].depth - 1
        /\ Agree(P[f.ip], P[s.ip + 1], P[f.ip].depth - 1)
        /\ P[s.ip + 1].last \in {"none", P[f.ip].open[P[f.ip].depth]}
    BY LevelEnds
  <2>. QED BY <1>2, <1>3, <2>1
<1>6. q.last \in {"none", op}
  BY <1>2, <1>3, <1>4, <1>14
<1>7. Agree(P[b], q, l)
  <2>1. \A h \in 1..l : h \in 1..((l + r) - 1)
    BY <1>1, <1>2, <1>3
  <2>2. \A h \in 1..l : P[b].open[h] = p.open[h]
    BY <1>2, <1>3 DEF Agree
  <2>3. \A h \in 1..((l + r) - 1) : p.open[h] = q.open[h]
    BY <1>4 DEF Agree
  <2>. QED BY <2>1, <2>2, <2>3 DEF Agree
<1>8. \A h \in (l + 1)..((l + r) - 1) : q.open[h] = op
  <2>1. \A h \in (l + 1)..((l + r) - 1) : h \in 1..((l + r) - 1) /\ h \in (l + 1)..(l + r)
    BY <1>1
  <2>2. \A h \in (l + 1)..(l + r) : p.open[h] = op
    BY <1>2, <1>3
  <2>3. \A h \in 1..((l + r) - 1) : p.open[h] = q.open[h]
    BY <1>4 DEF Agree
  <2>. QED BY <2>1, <2>2, <2>3
<1>9. Remaining(c, g) = r - 1 /\ r - 1 \in Nat
  <2>1. ~(op = "CHECK_DEP_SCHEMA" /\ g.n = 0)
    BY DEF Waits
  <2>2. Remaining(c, g) = (g.n + 1) - g.next
    BY <1>1, <1>2, <2>1 DEF Remaining
  <2>. QED BY <1>14, <2>2
<1>10. ASSUME r - 1 > 0 PROVE op \in CompositionOps
  <2>1. f.n >= 2
    BY <1>2, <1>10
  <2>2. op \notin CondParts
    <3>1. op \in CondParts => f.n <= 1
      BY <1>1 DEF Level, Waits
    <3>. QED BY <2>1, <3>1
  <2>3. op \in {"NEGATE", "COND_IF", "CHECK_DEP_SCHEMA"} => f.n \in {0, 1}
    BY <1>1, <2>2 DEF SubCount
  <2>. QED BY <1>1, <2>1, <2>2, <2>3 DEF BranchOps, CompositionOps
<1>11. LoopsAt(c, q, g, l)
  <2>2. q.depth = l + (r - 1)
    BY <1>4, <1>14
  <2>. QED BY <1>1, <1>6, <1>8, <1>9, <1>10, <2>2 DEF LoopsAt
<1>12. InFlight(g) /\ ~Fetching(g) /\ ~(g.depth > 0) /\ g.next <= g.n + 1 /\ q.depth >= l
  <2>1. InFlight(g) /\ ~Fetching(g) /\ ~(g.depth > 0)
    BY DEF Waits, InFlight, Fetching
  <2>2. g.next <= g.n + 1
    BY DEF Waits
  <2>. QED BY <1>4, <1>14, <2>1, <2>2
<1>13. /\ g.ip = j /\ b \in 1..(Len(c) + 1) /\ P[b].depth >= 1
       /\ (c[g.at].op \in CondParts => g.n <= 1)
  BY <1>3 DEF Level, Waits
<1>. QED BY <1>1, <1>3, <1>7, <1>11, <1>12, <1>13 DEF Level

\* The instruction's loop is over.
LEMMA LevelAfterLoop ==
  ASSUME NEW c, NEW P, NEW b, NEW f, Level(c, P, f, b), SubsDone(f),
         P[b].depth \in Nat, f.next \in Nat, f.n \in Nat,
         c[f.at].op \in BlockOps \cup BranchOps \cup CondParts
  PROVE  /\ LoopsAt(c, P[f.ip], f, P[b].depth)
         /\ Remaining(c, f) = IF SkipsAt(c, f) THEN 1 ELSE 0
<1>1. f.depth = 0 /\ InFlight(f) /\ f.next > f.n /\ f.next <= f.n + 1
  BY DEF SubsDone, InFlight, Level
<1>2. f.next = f.n + 1
  BY <1>1
<1>. QED BY <1>1, <1>2 DEF Level, Remaining, SkipsAt

LEMMA LevelCloses ==
  ASSUME NEW c, NEW P, Placed(c, P), NEW b, NEW f, f.ip \in 1..(Len(c) + 1),
         Level(c, P, f, b), SubsDone(f), f.next \in Nat, f.n \in Nat,
         c[f.at].op \in BlockOps \cup BranchOps \cup CondParts,
         c[f.at].op \notin {"COND_IF", "COND_THEN"},
         NEW g, g.ip = f.ip, g.at = 0, g.depth = IF SkipsAt(c, f) THEN 1 ELSE 0
  PROVE  Level(c, P, g, b)
<1>1. PICK l, op, p, i : l \in Nat /\ l = P[b].depth /\ op = c[f.at].op /\ p = P[f.ip] /\ i = f.ip
  BY LevelFacts
<1>2. LoopsAt(c, p, f, l) /\ Remaining(c, f) = IF SkipsAt(c, f) THEN 1 ELSE 0
  BY <1>1, LevelAfterLoop
<1>3. i \in 1..Len(c) /\ p.last \notin {"COND_IF", "COND_THEN"}
  BY <1>1, <1>2, LevelFacts DEF LoopsAt
<1>4. c[i].op \notin CondParts
  BY <1>1, <1>3, NoCondPart DEF Placed
<1>5. ~InFlight(g) /\ (Fetching(g) <=> ~SkipsAt(c, f))
  BY DEF InFlight, Fetching
<1>6. CASE SkipsAt(c, f)
  <2>1. p.depth = l + 1 /\ p.open[l + 1] = op
    <3>1. l + 1 \in (l + 1)..(l + 1)
      OBVIOUS
    <3>. QED BY <1>1, <1>2, <1>6, <3>1 DEF LoopsAt
  <2>2. op \in SkippedOps /\ op \notin CondParts
    BY <1>1, <1>6 DEF SkipsAt, SkippedOps, BlockOps, CondParts
  <2>3. SkipsTo(c, p, g, l)
    BY <1>5, <1>6, <2>1, <2>2 DEF SkipsTo
  <2>. QED BY <1>1, <1>5, <1>6, <2>3 DEF Level
<1>7. CASE ~SkipsAt(c, f)
  <2>1. p.depth = l
    BY <1>1, <1>2, <1>7 DEF LoopsAt
  <2>. QED BY <1>1, <1>4, <1>5, <1>7, <2>1 DEF Level, AtLevel
<1>. QED BY <1>6, <1>7

\* A conditional goes on with its THEN or ELSE, taken or not.
LEMMA LevelPart ==
  ASSUME NEW c, NEW P, Placed(c, P), NEW b, NEW f, f.ip \in 1..(Len(c) + 1),
         Level(c, P, f, b), SubsDone(f), f.next \in Nat, f.n \in Nat,
         c[f.at].op \in {"COND_IF", "COND_THEN"}, f.ip \in 1..Len(c), c[f.ip].op \in CondParts,
         NEW g, g.ip = f.ip + 1, g.at = f.ip, g.next = 1,
         NEW taken \in BOOLEAN, g.n = IF taken THEN 1 ELSE 0,
         g.depth = IF taken THEN 0 ELSE 1
  PROVE  Level(c, P, g, b)
<1>0. P[b].depth \in Nat /\ f.ip \in 1..Len(c)
  BY LevelFacts
<1>1. PICK l, i, op : /\ l \in Nat /\ i \in 1..Len(c)
                        /\ l = P[b].depth /\ i = f.ip /\ op = c[i].op
  <2>1. PICK l \in Nat, i \in 1..Len(c) : l = P[b].depth /\ i = f.ip
    BY <1>0
  <2>. QED BY <2>1
<1>2. LoopsAt(c, P[i], f, l) /\ Remaining(c, f) = 0
  <2>1. c[f.at].op \in BlockOps \cup BranchOps \cup CondParts
    BY DEF BranchOps, CondParts
  <2>2. ~SkipsAt(c, f)
    BY DEF SkipsAt, BlockOps
  <2>. QED BY <1>1, <2>1, <2>2, LevelAfterLoop
<1>3. P[i].depth = l /\ Agree(P[b], P[i], l) /\ l >= 1 /\ Len(c) \in Nat
  BY <1>1, <1>2, LevelFacts DEF LoopsAt, Level
<1>4. op \in CondParts /\ op # "END" /\ GoesThrough(c, P)
  BY <1>1 DEF CondParts, Placed
<1>5. PICK a \in Nat : a = Announces(c, i) /\ a = 1
  BY <1>1, <1>4, AnnouncesKinds
<1>6. /\ P[i + 1].depth = P[i].depth + a
      /\ \A h \in 1..P[i].depth : P[i + 1].open[h] = P[i].open[h]
      /\ \A h \in (P[i].depth + 1)..(P[i].depth + a) : P[i + 1].open[h] = op
      /\ P[i + 1].last = "none"
  <2>1. /\ P[i + 1].depth = P[i].depth + a
        /\ \A h \in 1..P[i].depth : P[i + 1].open[h] = P[i].open[h]
        /\ \A h \in (P[i].depth + 1)..(P[i].depth + a) : P[i + 1].open[h] = c[i].op
        /\ P[i + 1].last = "none"
    <3>1. c[i].op # "END" /\ GoesThrough(c, P) /\ a = Announces(c, i)
      BY <1>1, <1>4, <1>5
    <3>. QED BY <1>1, <3>1, Pushed, SMTT(20)
  <2>. QED BY <1>1, <2>1
<1>7. PICK q : q = P[i + 1]
  OBVIOUS
<1>8. /\ q.depth = l + 1 /\ Agree(P[b], q, l) /\ q.open[l + 1] = op /\ q.last = "none"
  <2>1. l + 1 \in (l + 1)..(l + 1)
    OBVIOUS
  <2>. QED BY <1>3, <1>5, <1>6, <1>7, <2>1 DEF Agree
<1>9. InFlight(g) /\ ~Fetching(g) /\ g.next <= g.n + 1 /\ g.n <= 1
  BY <1>1 DEF InFlight, Fetching
<1>10. CASE taken
  <2>1. Remaining(c, g) = 1
    BY <1>1, <1>4, <1>10 DEF Remaining, CondParts, BlockOps
  <2>2. LoopsAt(c, q, g, l)
    <3>1. \A h \in (l + 1)..(l + 1) : h = l + 1
      OBVIOUS
    <3>. QED BY <1>1, <1>8, <2>1, <3>1 DEF LoopsAt
  <2>3. ~(g.depth > 0)
    BY <1>10
  <2>. QED BY <1>1, <1>3, <1>7, <1>8, <1>9, <2>2, <2>3 DEF Level
<1>11. CASE ~taken
  <2>1. SkipsTo(c, q, g, l)
    BY <1>1, <1>4, <1>8, <1>9, <1>11 DEF SkipsTo, SkippedOps
  <2>2. ~(g.depth = 0)
    BY <1>11
  <2>. QED BY <1>1, <1>3, <1>7, <1>8, <1>9, <2>1, <2>2 DEF Level
<1>. QED BY <1>10, <1>11

\* A conditional is left.
LEMMA LevelLeaves ==
  ASSUME NEW c, NEW P, Placed(c, P), NEW b, NEW f, f.ip \in 1..(Len(c) + 1),
         Level(c, P, f, b), SubsDone(f), f.next \in Nat, f.n \in Nat,
         c[f.at].op \in {"COND_IF", "COND_THEN"},
         f.ip \in 1..Len(c) => c[f.ip].op # "COND_ELSE",
         f.ip \in 1..Len(c) /\ c[f.at].op = "COND_IF" => c[f.ip].op # "COND_THEN",
         NEW g, g.ip = f.ip, g.at = 0, g.depth = 0
  PROVE  Level(c, P, g, b)
<1>1. PICK l \in Nat, i \in 1..Len(c) : l = P[b].depth /\ i = f.ip
  <2>1. P[b].depth \in Nat /\ f.ip \in 1..Len(c)
    BY LevelFacts
  <2>. QED BY <2>1
<1>2. LoopsAt(c, P[i], f, l) /\ Remaining(c, f) = 0
  <2>1. c[f.at].op \in BlockOps \cup BranchOps \cup CondParts
    BY DEF BranchOps, CondParts
  <2>2. ~SkipsAt(c, f)
    BY DEF SkipsAt, BlockOps
  <2>. QED BY <1>1, <2>1, <2>2, LevelAfterLoop
<1>3. P[i].depth = l /\ P[i].last \in {"none", c[f.at].op}
  BY <1>2 DEF LoopsAt
<1>4. c[i].op = "COND_THEN" => P[i].last = "COND_IF"
  BY DEF Placed, GoesThrough, Permitted
<1>5. c[i].op \notin CondParts
  BY <1>1, <1>3, <1>4 DEF CondParts
<1>6. ~InFlight(g) /\ ~(g.depth > 0)
  BY DEF InFlight
<1>. QED BY <1>1, <1>3, <1>5, <1>6 DEF Level, AtLevel

\* A turn of skip_to_end.
LEMMA LevelSkips ==
  ASSUME NEW c, NEW P, Placed(c, P), NEW b, NEW f, f.ip \in 1..(Len(c) + 1),
         Level(c, P, f, b), f.depth > 0, f.depth \in Nat,
         NEW g, g.ip = f.ip + 1, g.at = f.at, g.n = f.n, g.next = f.next,
         g.depth = SkipDepth(c[f.ip].op, f.depth)
  PROVE  Level(c, P, g, b)
<1>0. P[b].depth \in Nat /\ f.ip \in 1..Len(c)
  BY LevelFacts
<1>1. PICK l, i, d, op :
        /\ l \in Nat /\ i \in 1..Len(c) /\ d \in Nat
        /\ l = P[b].depth /\ i = f.ip /\ d = f.depth /\ op = c[i].op
  <2>1. PICK l \in Nat, i \in 1..Len(c), d \in Nat : l = P[b].depth /\ i = f.ip /\ d = f.depth
    BY <1>0
  <2>. QED BY <2>1
<1>2. /\ l >= 1 /\ d >= 1 /\ Len(c) \in Nat /\ GoesThrough(c, P)
      /\ P[i].depth = l + d /\ P[i].open[l + 1] \in SkippedOps /\ Agree(P[b], P[i], l)
      /\ SkipsTo(c, P[i], f, l)
  <2>1. l >= 1 /\ d >= 1
    BY <1>1, LevelFacts
  <2>. QED BY <1>1, <2>1 DEF Level, SkipsTo, Placed
<1>3. PICK a, k : a \in Nat /\ a = Announces(c, i) /\ k = g.depth
  BY <1>1, AnnouncesIsNat DEF Placed
<1>4. PICK q, p : q = P[i + 1] /\ p = P[i]
  OBVIOUS
<1>5. /\ op = "END" => /\ q.depth = p.depth - 1
                       /\ \A h \in 1..(p.depth - 1) : q.open[h] = p.open[h]
                       /\ q.last \in {"none", p.open[p.depth]}
      /\ op # "END" => /\ q.depth = p.depth + a
                       /\ \A h \in 1..p.depth : q.open[h] = p.open[h]
  <2>1. c[i].op = "END" =>
          /\ P[i + 1].depth = P[i].depth - 1
          /\ \A h \in 1..(P[i].depth - 1) : P[i + 1].open[h] = P[i].open[h]
          /\ P[i + 1].last \in {"none", P[i].open[P[i].depth]}
    <3>1. ASSUME c[i].op = "END"
          PROVE  /\ P[i + 1].depth = P[i].depth - 1
                 /\ \A h \in 1..(P[i].depth - 1) : P[i + 1].open[h] = P[i].open[h]
                 /\ P[i + 1].last \in {"none", P[i].open[P[i].depth]}
      <4>1. GoesThrough(c, P) /\ a = Announces(c, i)
        BY <1>2, <1>3
      <4>2. i \in 1..Len(c) /\ a \in Nat
        BY <1>1, <1>3
      <4>. QED BY <3>1, <4>1, <4>2, Popped
    <3>. QED BY <3>1
  <2>2. c[i].op # "END" =>
          /\ P[i + 1].depth = P[i].depth + a
          /\ \A h \in 1..P[i].depth : P[i + 1].open[h] = P[i].open[h]
    <3>1. ASSUME c[i].op # "END"
          PROVE  /\ P[i + 1].depth = P[i].depth + a
                 /\ \A h \in 1..P[i].depth : P[i + 1].open[h] = P[i].open[h]
      <4>1. GoesThrough(c, P) /\ a = Announces(c, i)
        BY <1>2, <1>3
      <4>2. i \in 1..Len(c) /\ a \in Nat
        BY <1>1, <1>3
      <4>. QED BY <3>1, <4>1, <4>2, Pushed
    <3>. QED BY <3>1
  <2>. QED BY <1>1, <1>4, <2>1, <2>2
<1>6. k = IF op = "END" THEN d - 1 ELSE d + a
  <2>1. op \notin CompositionOps
    <3>1. l + 1 \in 1..p.depth /\ p.open[l + 1] \in SkippedOps
      BY <1>1, <1>3, <1>2, <1>4
    <3>2. Skippable(SkippedOps, p)
      BY <3>1 DEF Skippable
    <3>. QED BY <1>1, <1>2, <1>4, <3>2 DEF GoesThrough, Permitted
  <2>2. op \in NestingOps => a = 1
    BY <1>1, <1>3, AnnouncesKinds DEF NestingOps, BlockOps, CondParts
  <2>3. op \notin NestingOps => a = 0
    BY <1>1, <1>3, <2>1, AnnouncesKinds
  <2>. QED BY <1>1, <1>3, <2>2, <2>3 DEF SkipDepth
<1>14. l \in Nat /\ d \in Nat /\ a \in Nat /\ l >= 1 /\ d >= 1 /\ p.depth = l + d
  BY <1>1, <1>2, <1>3, <1>4
<1>7. q.depth = l + k /\ k \in Nat
  BY <1>5, <1>6, <1>14
<1>8. \A h \in 1..(l + k) : h <= l + d => q.open[h] = p.open[h]
  <2>1. CASE op = "END"
    <3>1. l + k = p.depth - 1
      BY <1>6, <1>14, <2>1
    <3>. QED BY <1>5, <2>1, <3>1
  <2>2. CASE op # "END"
    <3>1. \A h \in 1..(l + k) : h <= l + d => h \in 1..p.depth
      BY <1>2, <1>4
    <3>. QED BY <1>5, <2>2, <3>1
  <2>. QED BY <2>1, <2>2
<1>9. Agree(P[b], q, l)
  <2>1. \A h \in 1..l : h \in 1..(l + k) /\ h <= l + d
    BY <1>1, <1>3, <1>7
  <2>. QED BY <1>2, <1>4, <1>8, <2>1 DEF Agree
<1>10. (InFlight(g) <=> InFlight(f)) /\ (Fetching(g) <=> k = 0 /\ ~InFlight(f))
  BY <1>3 DEF InFlight, Fetching
<1>11. InFlight(g) => g.next <= g.n + 1 /\ (c[g.at].op \in CondParts => g.n <= 1)
  BY <1>10 DEF Level
<1>12. CASE k > 0
  <2>1. q.open[l + 1] = p.open[l + 1]
    <3>1. l + 1 \in 1..(l + k) /\ l + 1 <= l + d
      BY <1>7, <1>12, <1>14
    <3>. QED BY <1>8, <3>1
  <2>2. SkipsTo(c, q, g, l)
    BY <1>2, <1>3, <1>4, <1>7, <1>10, <2>1 DEF SkipsTo
  <2>3. q.depth >= l /\ k # 0
    BY <1>1, <1>3, <1>7, <1>12
  <2>. QED BY <1>1, <1>3, <1>4, <1>9, <1>10, <1>11, <2>2, <2>3 DEF Level
<1>13. CASE k = 0
  <2>1. op = "END" /\ d = 1
    BY <1>1, <1>3, <1>2, <1>6, <1>13
  <2>2. q.depth = l /\ q.last \in {"none", p.open[l + 1]}
    <3>1. p.depth = l + 1
      BY <1>2, <1>4, <2>1
    <3>. QED BY <1>1, <1>3, <1>5, <1>7, <1>13, <2>1, <3>1
  <2>3. CASE ~InFlight(f)
    <3>1. p.open[l + 1] \in SkippedOps \ CondParts
      BY <1>2, <1>4, <2>3 DEF SkipsTo
    <3>2. q.last \notin {"COND_IF", "COND_THEN"}
      BY <2>2, <3>1 DEF SkippedOps, BlockOps, CondParts
    <3>3. i + 1 \in 1..Len(c) => c[i + 1].op \notin CondParts
      BY <1>2, <1>4, <3>2, NoCondPart
    <3>. QED BY <1>1, <1>3, <1>4, <1>9, <1>10, <1>13, <2>2, <2>3, <3>3 DEF Level, AtLevel
  <2>4. CASE InFlight(f)
    <3>1. /\ c[f.at].op \in CondParts /\ p.open[l + 1] = c[f.at].op /\ f.n = 0 /\ f.next = 1
      BY <1>2, <1>4, <2>4 DEF SkipsTo
    <3>2. Remaining(c, g) = 0
      BY <3>1 DEF Remaining, CondParts, BlockOps
    <3>3. LoopsAt(c, q, g, l)
      BY <1>1, <2>2, <3>1, <3>2 DEF LoopsAt
    <3>. QED BY <1>1, <1>3, <1>4, <1>9, <1>10, <1>11, <1>13, <2>2, <2>4, <3>3 DEF Level
  <2>. QED BY <2>3, <2>4
<1>. QED BY <1>7, <1>12, <1>13

-----------------------------------------------------------------------------
(* The levels, turn by turn.                                               *)

\* What is known of the innermost activation.
LEMMA TopLevel ==
  ASSUME IInv, stack # <<>>, NEW P, Placed(code, P), Levels(P)
  PROVE  /\ Level(code, P, Top, Begun(Len(stack))) /\ Top.ip \in 1..(Len(code) + 1)
         /\ Top.ip \in 1..Len(code) /\ OpAt(Top.ip) = code[Top.ip].op
         /\ Top.next \in Nat /\ Top.n \in Nat /\ Top.depth \in Nat
         /\ Top.next >= 1
         /\ InFlight(Top) => code[Top.at].op \in BlockOps \cup BranchOps \cup CondParts
<1>1. /\ Len(stack) \in 1..Len(stack) /\ Top = stack[Len(stack)] /\ Top \in Frame
      /\ Top.ip \in 1..(Len(code) + 1) /\ LoopOK(code, Top)
  BY TopFacts DEF Top
<1>2. Level(code, P, Top, Begun(Len(stack)))
  BY <1>1 DEF Levels
<1>3. Top.ip \in 1..Len(code)
  BY <1>1, <1>2, LevelFacts
<1>. QED BY <1>1, <1>2, <1>3 DEF OpAt, Frame, LoopOK

\* A turn that leaves a stack of m activations and changes only the last.
LEMMA LevelsKept ==
  ASSUME NEW P, Levels(P), code' = code, NEW m \in Nat, m >= 1,
         Len(stack) \in Nat, m <= Len(stack) + 1,
         NEW g, Len(stack') = m, stack'[m] = g, \A i \in 1..(m - 1) : stack'[i] = stack[i],
         Level(code, P, g, Begun(m))
  PROVE  Levels(P)'
<1>1. ASSUME NEW i \in 1..m PROVE Level(code', P, stack'[i], Begun(i)')
  <2>1. Begun(i)' = Begun(i)
    <3>1. i # 1 => i - 1 \in 1..(m - 1)
      OBVIOUS
    <3>. QED BY <3>1 DEF Begun
  <2>2. CASE i = m
    <3>1. PICK b : b = Begun(m) /\ b = Begun(i)'
      BY <2>1, <2>2
    <3>. QED BY <2>2, <3>1
  <2>3. CASE i # m
    <3>1. i \in 1..(m - 1) /\ i \in 1..Len(stack)
      BY <2>3
    <3>2. Level(code, P, stack[i], Begun(i))
      BY <3>1 DEF Levels
    <3>3. PICK b : b = Begun(i) /\ b = Begun(i)'
      BY <2>1
    <3>4. stack'[i] = stack[i]
      BY <3>1
    <3>. QED BY <3>2, <3>3, <3>4
  <2>. QED BY <2>2, <2>3
<1>. QED BY <1>1 DEF Levels

\* A turn that replaces the innermost activation.
LEMMA SetTopLevel ==
  ASSUME IInv, stack # <<>>, NEW P, Levels(P), code' = code,
         NEW g, SetTop(g), Level(code, P, g, Begun(Len(stack)))
  PROVE  Levels(P)'
<1>1. PICK m \in Nat : m = Len(stack) /\ m >= 1
  BY TopFacts
<1>2. stack \in Seq(Frame) /\ m \in 1..Len(stack)
  BY <1>1, TopFacts
<1>3. Len(stack') = m /\ stack'[m] = g /\ \A i \in 1..(m - 1) : stack'[i] = stack[i]
  <2>1. stack' = [stack EXCEPT ![m] = g]
    BY <1>1 DEF SetTop
  <2>2. stack \in [1..m -> Frame]
    BY <1>1, <1>2
  <2>3. DOMAIN stack' = 1..m
    BY <2>1, <2>2
  <2>4. Len(stack') = m
    BY <1>1, <2>1, <2>2
  <2>. QED BY <1>1, <1>2, <2>1, <2>2, <2>4
<1>4. Level(code, P, g, Begun(m))
  BY <1>1
<1>. QED BY <1>1, <1>3, <1>4, LevelsKept

LEMMA LeafLevels ==
  ASSUME IInv, NEW P, Placed(code, P), Levels(P), Leaf \/ Nop
  PROVE  Levels(P)'
<1>1. stack # <<>> /\ Fetching(Top) /\ OpAt(Top.ip) \in LeafOps \cup CondParts \cup {"NOP"}
  BY DEF Leaf, Nop
<1>2. PICK f, i, b : f = Top /\ i = Top.ip /\ b = Begun(Len(stack))
  OBVIOUS
<1>3. /\ Level(code, P, f, b) /\ f.ip \in 1..(Len(code) + 1) /\ Fetching(f)
      /\ i \in 1..Len(code) /\ f.ip = i /\ code[i].op \in LeafOps \cup CondParts \cup {"NOP"}
      /\ f \in Frame /\ Len(code) \in Nat
  BY <1>1, <1>2, TopLevel, TopFacts
<1>4. code[i].op \notin CondParts
  BY <1>3 DEF Level, AtLevel
<1>5. code[i].op # "END" /\ code[i].op \notin NestingOps \cup CompositionOps
  BY <1>3, <1>4 DEF LeafOps, NestingOps, CompositionOps, CondParts
<1>6. 0 = Announces(code, i)
  BY <1>5, AnnouncesKinds
<1>7. PICK j \in 1..(Len(code) + 1) : j = i + 1
  BY <1>3
<1>8. P[i].depth \in Nat /\ P[j].depth = P[i].depth + 0 /\ P[j].last = "none"
      /\ \A h \in 1..P[i].depth : P[j].open[h] = P[i].open[h]
  <2>1. GoesThrough(code, P) /\ P[i].depth \in Nat
    BY <1>3, PlaceDepth DEF Placed
  <2>. QED BY <1>3, <1>5, <1>6, <1>7, <2>1, Pushed
<1>9. P[j].depth = P[i].depth /\ Agree(P[i], P[j], P[i].depth)
  BY <1>8 DEF Agree
<1>10. PICK valid, g : g = [f EXCEPT !.ip = j, !.valid = valid] /\ SetTop(g) /\ code' = code
  <2>1. CASE Leaf
    BY <1>2, <1>7, <2>1 DEF Leaf
  <2>2. CASE Nop
    <3>1. [f EXCEPT !.ip = j] = [f EXCEPT !.ip = j, !.valid = f.valid]
      BY <1>3 DEF Frame
    <3>. QED BY <1>2, <1>7, <2>2, <3>1 DEF Nop
  <2>. QED BY <2>1, <2>2
<1>11. g.ip = j /\ Fetching(g)
  BY <1>3, <1>10 DEF Frame, Fetching
<1>12. Level(code, P, g, b)
  BY <1>3, <1>8, <1>9, <1>11, LevelPasses
<1>. QED BY <1>1, <1>2, <1>10, <1>12, SetTopLevel

LEMMA DepRequiredLevels ==
  ASSUME IInv, NEW P, Placed(code, P), Levels(P), DepRequired
  PROVE  Levels(P)'
<1>1. stack # <<>> /\ Fetching(Top) /\ OpAt(Top.ip) = "CHECK_DEP_REQUIRED"
  BY DEF DepRequired
<1>2. PICK f, i, b : f = Top /\ i = Top.ip /\ b = Begun(Len(stack))
  OBVIOUS
<1>3. /\ Level(code, P, f, b) /\ f.ip \in 1..(Len(code) + 1) /\ Fetching(f)
      /\ i \in 1..Len(code) /\ f.ip = i /\ code[i].op = "CHECK_DEP_REQUIRED"
      /\ f \in Frame /\ Len(code) \in Nat
  BY <1>1, <1>2, TopLevel, TopFacts
<1>4. code[i].op # "END" /\ 0 = Announces(code, i)
  BY <1>3, AnnouncesKinds DEF NestingOps, CompositionOps
<1>5. PICK e \in 1..(Len(code) + 1) : e = i + 1
  BY <1>3
<1>6. P[i].depth \in Nat /\ P[e].depth = P[i].depth + 0 /\ P[e].last = "none"
      /\ \A h \in 1..P[i].depth : P[e].open[h] = P[i].open[h]
  <2>1. GoesThrough(code, P) /\ P[i].depth \in Nat
    BY <1>3, PlaceDepth DEF Placed
  <2>. QED BY <1>3, <1>4, <1>5, <2>1, Pushed
<1>7. PICK count \in Nat : /\ count = code[e].arg /\ code[e].op = "NOP" /\ e + count <= Len(code)
                           /\ \A k \in 1..count : code[e + k].op = "NOP"
  <2>1. WellFormed(code) /\ DOMAIN code = 1..Len(code) /\ NamesFollow(code)
    BY DEF Placed
  <2>2. /\ code[i + 1].op = "NOP" /\ code[i + 1].arg \in Nat
        /\ i + 1 + code[i + 1].arg \in 1..Len(code)
    BY <1>3, <2>1 DEF WellFormed
  <2>3. \A k \in 1..code[i + 1].arg : code[(i + 1) + k].op = "NOP"
    BY <1>3, <2>1 DEF NamesFollow
  <2>. QED BY <1>5, <2>2, <2>3
<1>8. PICK j \in e..(Len(code) + 1) : j = e + 1 + count
  BY <1>3, <1>7
<1>9. ASSUME NEW h \in e..(j - 1) PROVE code[h].op = "NOP"
  <2>1. CASE h = e
    BY <1>7, <2>1
  <2>2. CASE h # e
    <3>1. h - e \in 1..count /\ e + (h - e) = h
      BY <1>8, <2>2
    <3>. QED BY <1>7, <3>1
  <2>. QED BY <2>1, <2>2
<1>10. P[j].depth = P[e].depth /\ Agree(P[e], P[j], P[e].depth) /\ P[j].last = "none"
  BY <1>6, <1>9, OperandsKeepPlace DEF Placed
<1>11. P[j].depth = P[i].depth /\ Agree(P[i], P[j], P[i].depth) /\ j \in 1..(Len(code) + 1)
  <2>1. P[e].depth = P[i].depth
    BY <1>6
  <2>. QED BY <1>6, <1>10, <2>1 DEF Agree
<1>12. PICK valid, g : g = [f EXCEPT !.ip = j, !.valid = valid] /\ SetTop(g) /\ code' = code
  <2>1. f.ip + 2 + code[f.ip + 1].arg = j
    BY <1>3, <1>5, <1>7, <1>8
  <2>. QED BY <1>2, <2>1 DEF DepRequired
<1>13. g.ip = j /\ Fetching(g)
  BY <1>3, <1>12 DEF Frame, Fetching
<1>14. Level(code, P, g, b)
  BY <1>3, <1>10, <1>11, <1>13, LevelPasses
<1>. QED BY <1>1, <1>2, <1>12, <1>14, SetTopLevel

LEMMA EnterLevels ==
  ASSUME IInv, NEW P, Placed(code, P), Levels(P), Enter
  PROVE  Levels(P)'
<1>1. stack # <<>> /\ Fetching(Top) /\ OpAt(Top.ip) \in BlockOps \cup BranchOps /\ code' = code
  BY DEF Enter
<1>2. PICK f, b : f = Top /\ b = Begun(Len(stack))
  OBVIOUS
<1>3. /\ Level(code, P, f, b) /\ f.ip \in 1..(Len(code) + 1) /\ Fetching(f)
      /\ f.ip \in 1..Len(code) /\ code[f.ip].op \in BlockOps \cup BranchOps
      /\ f \in Frame /\ f.val \in Values /\ Len(code) \in Nat
  <2>1. f \in Frame /\ f.val \in Values
    BY <1>1, <1>2, TopFacts DEF Frame
  <2>. QED BY <1>1, <1>2, <2>1, TopLevel, TopFacts
<1>4. PICK n \in Nat, j \in 1..(Len(code) + 1) :
        n = SubCount(code, f.ip, f.val) /\ j = f.ip + 1 + HeaderLength(code, f.ip, f.val)
  <2>1. Len(code) \in Nat /\ DOMAIN code = 1..Len(code) /\ WellFormed(code)
    BY DEF Placed
  <2>. QED BY <1>3, <2>1, SubCountIsNat
<1>5. PICK g : /\ g = [f EXCEPT !.at = f.ip, !.ip = j, !.next = 1, !.n = n, !.hits = 0]
               /\ SetTop(g)
  BY <1>2, <1>4 DEF Enter
<1>6. g.ip = j /\ g.at = f.ip /\ g.next = 1 /\ g.n = n /\ g.depth = 0
  BY <1>3, <1>5 DEF Frame, Fetching
<1>7. Level(code, P, g, b)
  BY <1>3, <1>4, <1>6, LevelEnters
<1>. QED BY <1>1, <1>2, <1>5, <1>7, SetTopLevel

LEMMA PassMemberLevels ==
  ASSUME IInv, NEW P, Placed(code, P), Levels(P), PassMember
  PROVE  Levels(P)'
<1>1. /\ stack # <<>> /\ Top.at # 0 /\ Top.depth = 0 /\ Top.next <= Top.n /\ code' = code
      /\ code[Top.at].op \in BlockOps
  BY DEF PassMember, Unmatched, NameLost, BlockOps
<1>2. PICK f, b : f = Top /\ b = Begun(Len(stack))
  OBVIOUS
<1>3. /\ Level(code, P, f, b) /\ f \in Frame /\ f.next \in Nat /\ f.n \in Nat
      /\ InFlight(f) /\ f.depth = 0 /\ f.next <= f.n /\ code[f.at].op \in BlockOps
  BY <1>1, <1>2, TopLevel, TopFacts DEF InFlight
<1>4. PICK g : g = [f EXCEPT !.next = f.next + 1] /\ SetTop(g)
  BY <1>2 DEF PassMember
<1>5. g.ip = f.ip /\ g.at = f.at /\ g.n = f.n /\ g.depth = 0 /\ g.next = f.next + 1
  BY <1>3, <1>4 DEF Frame
<1>6. Level(code, P, g, b)
  BY <1>3, <1>5, LevelTurns
<1>. QED BY <1>1, <1>2, <1>4, <1>6, SetTopLevel

LEMMA CallLevels ==
  ASSUME IInv, NEW P, Placed(code, P), Levels(P), Call
  PROVE  Levels(P)'
<1>1. /\ stack # <<>> /\ Waits(Top) /\ code' = code
      /\ \E val, valid, rec : stack' = Append(stack, NewFrame(Top.ip, val, valid, rec))
  BY DEF Call, Waits, InFlight
<1>2. PICK m, f, b, g, val, valid, rec :
        /\ m \in Nat /\ f = Top /\ b = Begun(Len(stack)) /\ m = Len(stack)
        /\ g = NewFrame(f.ip, val, valid, rec) /\ stack' = Append(stack, g)
  <2>1. PICK val, valid, rec : stack' = Append(stack, NewFrame(Top.ip, val, valid, rec))
    BY <1>1
  <2>2. PICK m, f, b, g : /\ m \in Nat /\ f = Top /\ b = Begun(Len(stack)) /\ m = Len(stack)
                          /\ g = NewFrame(Top.ip, val, valid, rec)
    <3>1. PICK m \in Nat : m = Len(stack)
      BY <1>1, TopFacts
    <3>. QED BY <3>1
  <2>. QED BY <2>1, <2>2
<1>3. /\ Level(code, P, f, b) /\ f.ip \in 1..(Len(code) + 1) /\ Waits(f)
      /\ f.next >= 1 /\ f.next \in Nat /\ f.n \in Nat
  BY <1>1, <1>2, TopLevel
<1>4. g.ip = f.ip /\ Fetching(g)
  BY <1>2 DEF NewFrame, Fetching
<1>5. Level(code, P, g, f.ip)
  BY <1>3, <1>4, LevelBegins
<1>6. stack \in Seq(Frame) /\ m >= 1
  BY <1>1, <1>2, TopFacts
<1>7. /\ Len(stack') = m + 1 /\ stack'[m + 1] = g
      /\ \A i \in 1..((m + 1) - 1) : stack'[i] = stack[i]
  BY <1>2, <1>6
<1>8. Begun(m + 1) = f.ip
  BY <1>2, <1>6 DEF Begun, Top
<1>9. PICK k \in Nat : k = m + 1
  BY <1>2
<1>10. /\ k >= 1 /\ k <= Len(stack) + 1 /\ Len(stack') = k /\ stack'[k] = g
       /\ \A i \in 1..(k - 1) : stack'[i] = stack[i] /\ Len(stack) \in Nat
       /\ Level(code, P, g, Begun(k))
  BY <1>2, <1>5, <1>7, <1>8, <1>9
<1>. QED BY <1>1, <1>2, <1>10, LevelsKept

LEMMA ReturnLevels ==
  ASSUME IInv, NEW P, Placed(code, P), Levels(P), Return
  PROVE  Levels(P)'
<1>1. /\ Len(stack) > 1 /\ Fetching(Top) /\ AtEnd(Top) /\ code' = code
      /\ stack' = Append(SubSeq(stack, 1, Len(stack) - 2), Merge(Caller, Top))
      /\ stack \in Seq(Frame) /\ Len(stack) \in Nat
  BY StackFacts DEF Return, IInv, TypeOK
<1>2. PICK n \in Nat, m \in Nat : /\ Len(stack) = n + 2 /\ m = n + 1
                                  /\ Top = stack[n + 2] /\ Caller = stack[m]
  <2>1. /\ Len(stack) - 2 \in Nat /\ (Len(stack) - 2) + 1 = Len(stack) - 1
        /\ Len(stack) = (Len(stack) - 2) + 2 /\ Len(stack) - 1 \in Nat
    BY <1>1
  <2>. QED BY <2>1 DEF Top, Caller
<1>3. PICK f, s, g : f = stack[m] /\ s = stack[n + 2] /\ g = Merge(f, s)
  OBVIOUS
<1>4. /\ m \in 1..Len(stack) /\ n + 2 \in 1..Len(stack) /\ m \in 1..(Len(stack) - 1)
      /\ m + 1 = n + 2 /\ n + 2 # 1 /\ (n + 2) - 1 = m
  BY <1>2
<1>5. /\ f \in Frame /\ f.ip \in 1..(Len(code) + 1) /\ LoopOK(code, f) /\ Waits(f)
      /\ s \in Frame /\ s.ip \in 1..(Len(code) + 1) /\ Len(code) \in Nat
  BY <1>3, <1>4, StackFacts DEF IInv, CallersWait, TypeOK
<1>6. /\ Level(code, P, f, Begun(m)) /\ Level(code, P, s, f.ip)
  <2>1. Begun(n + 2) = f.ip
    BY <1>3, <1>4 DEF Begun
  <2>. QED BY <1>3, <1>4, <2>1 DEF Levels
<1>7. PICK b : b = Begun(m)
  OBVIOUS
<1>8. Fetching(s) /\ (s.ip \in 1..Len(code) => code[s.ip].op = "END") /\ s.ip \in 1..Len(code)
  <2>1. s.ip \in 1..Len(code)
    BY <1>5, <1>6, LevelFacts
  <2>2. OpAt(s.ip) \in {"none", "END"} /\ Fetching(s)
    BY <1>1, <1>2, <1>3 DEF AtEnd
  <2>3. code[s.ip].op \in Ops
    BY <2>1 DEF Placed, WellFormed
  <2>. QED BY <2>1, <2>2, <2>3 DEF OpAt, Ops, BlockOps, BranchOps, CondParts, LeafOps
<1>9. /\ g.at = f.at /\ g.n = f.n /\ g.depth = 0 /\ g.next = f.next + 1
      /\ g.ip = IF code[f.at].op \in BlockOps THEN f.ip ELSE s.ip + 1
  <2>1. PastEnd(s) = s.ip + 1
    BY <1>8 DEF PastEnd, OpAt
  <2>. QED BY <1>3, <1>5, <2>1 DEF Merge, Frame, Waits
<1>10. /\ f.next \in Nat /\ f.n \in Nat /\ f.next >= 1 /\ f.next <= f.n /\ f.depth = 0
       /\ InFlight(f) /\ code[f.at].op \in BlockOps \cup BranchOps \cup CondParts
       /\ code[f.at].op \notin CondParts => f.n = SubCount(code, f.at, f.val)
  BY <1>5 DEF Frame, LoopOK, Waits
<1>11. Level(code, P, g, b)
  <2>1. CASE code[f.at].op \in BlockOps
    BY <1>6, <1>7, <1>9, <1>10, <2>1, LevelTurns
  <2>2. CASE code[f.at].op \notin BlockOps
    <3>1. code[f.at].op \in BranchOps \cup CondParts /\ g.ip = s.ip + 1
      BY <1>9, <1>10, <2>2
    <3>2. Level(code, P, f, b) /\ Level(code, P, s, f.ip)
      BY <1>6, <1>7
    <3>3. f.ip \in 1..(Len(code) + 1) /\ s.ip \in 1..(Len(code) + 1) /\ Waits(f)
      BY <1>5
    <3>4. g.at = f.at /\ g.n = f.n /\ g.depth = 0 /\ g.next = f.next + 1
      BY <1>9
    <3>. QED BY <1>8, <1>10, <3>1, <3>2, <3>3, <3>4, LevelReturns
  <2>. QED BY <2>1, <2>2
<1>12. /\ Len(stack') = m /\ stack'[m] = g
       /\ \A i \in 1..(m - 1) : stack'[i] = stack[i]
  <2>1. stack' = Append(SubSeq(stack, 1, n), g) /\ Len(stack) - 2 = n
    BY <1>1, <1>2, <1>3
  <2>2. /\ SubSeq(stack, 1, n) \in Seq(Frame) /\ Len(SubSeq(stack, 1, n)) = n
        /\ \A i \in 1..n : SubSeq(stack, 1, n)[i] = stack[i]
    <3>1. \A i \in 1..n : i \in 1..Len(stack)
      BY <1>2
    <3>. QED BY <1>1, <1>2, <3>1
  <2>3. PICK u : u = SubSeq(stack, 1, n)
    OBVIOUS
  <2>4. /\ Len(Append(u, g)) = n + 1 /\ Append(u, g)[n + 1] = g
        /\ \A i \in 1..n : Append(u, g)[i] = u[i]
    BY <2>2, <2>3
  <2>5. m - 1 = n /\ m = n + 1
    BY <1>2
  <2>. QED BY <2>1, <2>2, <2>3, <2>4, <2>5
<1>13. m >= 1 /\ m <= Len(stack) + 1 /\ Len(stack) \in Nat
  BY <1>2
<1>. QED BY <1>1, <1>7, <1>11, <1>12, <1>13, LevelsKept

LEMMA CloseLevels ==
  ASSUME IInv, NEW P, Placed(code, P), Levels(P), Close
  PROVE  Levels(P)'
<1>1. /\ stack # <<>> /\ SubsDone(Top) /\ code' = code
      /\ code[Top.at].op \notin {"COND_IF", "COND_THEN"}
  BY DEF Close
<1>2. PICK f, b : f = Top /\ b = Begun(Len(stack))
  OBVIOUS
<1>3. /\ Level(code, P, f, b) /\ f.ip \in 1..(Len(code) + 1) /\ SubsDone(f) /\ f \in Frame
      /\ f.next \in Nat /\ f.n \in Nat
      /\ code[f.at].op \in BlockOps \cup BranchOps \cup CondParts
      /\ code[f.at].op \notin {"COND_IF", "COND_THEN"}
  BY <1>1, <1>2, TopLevel, TopFacts DEF SubsDone, InFlight
<1>4. PICK valid, d, g : /\ g = [Idle(f) EXCEPT !.valid = valid, !.depth = d] /\ SetTop(g)
                         /\ d = IF SkipsAt(code, f) THEN 1 ELSE 0
  <2>1. SkipsAfter(f) <=> SkipsAt(code, f)
    BY DEF SkipsAfter, SkipsAt
  <2>. QED BY <1>2, <2>1 DEF Close
<1>5. g.ip = f.ip /\ g.at = 0 /\ g.depth = d
  BY <1>3, <1>4 DEF Frame, Idle
<1>6. Level(code, P, g, b)
  BY <1>3, <1>4, <1>5, LevelCloses
<1>. QED BY <1>1, <1>2, <1>4, <1>6, SetTopLevel

LEMMA CondLevels ==
  ASSUME IInv, NEW P, Placed(code, P), Levels(P), Cond
  PROVE  Levels(P)'
<1>1. /\ stack # <<>> /\ SubsDone(Top) /\ code' = code
      /\ code[Top.at].op \in {"COND_IF", "COND_THEN"}
  BY DEF Cond
<1>2. PICK f, b : f = Top /\ b = Begun(Len(stack))
  OBVIOUS
<1>3. /\ Level(code, P, f, b) /\ f.ip \in 1..(Len(code) + 1) /\ SubsDone(f) /\ f \in Frame
      /\ f.next \in Nat /\ f.n \in Nat /\ f.ip \in 1..Len(code)
      /\ code[f.at].op \in {"COND_IF", "COND_THEN"} /\ OpAt(f.ip) = code[f.ip].op
  BY <1>1, <1>2, TopLevel, TopFacts
<1>4. PICK g : /\ g = (IF code[f.at].op = "COND_IF" THEN AfterIf(f) ELSE AfterThen(f))
               /\ SetTop(g)
  BY <1>2 DEF Cond
<1>5. ASSUME NEW taken \in BOOLEAN, g = Part(f, taken), code[f.ip].op \in CondParts
      PROVE  Level(code, P, g, b)
  <2>1. /\ g.ip = f.ip + 1 /\ g.at = f.ip /\ g.next = 1 /\ g.n = (IF taken THEN 1 ELSE 0)
        /\ g.depth = IF taken THEN 0 ELSE 1
    BY <1>3, <1>5 DEF Part, Frame
  <2>. QED BY <1>3, <1>5, <2>1, LevelPart
<1>6. ASSUME g = Idle(f), code[f.ip].op # "COND_ELSE",
             code[f.at].op = "COND_IF" => code[f.ip].op # "COND_THEN"
      PROVE  Level(code, P, g, b)
  <2>1. g.ip = f.ip /\ g.at = 0 /\ g.depth = 0
    BY <1>3, <1>6 DEF Idle, Frame, SubsDone
  <2>. QED BY <1>3, <1>6, <2>1, LevelLeaves
<1>7. \/ \E taken \in BOOLEAN : g = Part(f, taken) /\ code[f.ip].op \in CondParts
      \/ /\ g = Idle(f) /\ code[f.ip].op # "COND_ELSE"
         /\ code[f.at].op = "COND_IF" => code[f.ip].op # "COND_THEN"
  BY <1>3, <1>4 DEF AfterIf, AfterThen, CondParts
<1>8. Level(code, P, g, b)
  BY <1>5, <1>6, <1>7
<1>. QED BY <1>1, <1>2, <1>4, <1>8, SetTopLevel

LEMMA SkipLevels ==
  ASSUME IInv, NEW P, Placed(code, P), Levels(P), Skip
  PROVE  Levels(P)'
<1>1. stack # <<>> /\ Top.depth > 0 /\ code' = code
  BY DEF Skip
<1>2. PICK f, b : f = Top /\ b = Begun(Len(stack))
  OBVIOUS
<1>3. /\ Level(code, P, f, b) /\ f.ip \in 1..(Len(code) + 1) /\ f.depth > 0 /\ f \in Frame
      /\ f.depth \in Nat /\ f.ip \in 1..Len(code) /\ OpAt(f.ip) = code[f.ip].op
      /\ Len(code) \in Nat
  BY <1>1, <1>2, TopLevel, TopFacts
<1>4. ~(f.ip > Len(code))
  BY <1>3
<1>5. PICK g : /\ g = [f EXCEPT !.ip = f.ip + 1, !.depth = SkipDepth(code[f.ip].op, f.depth)]
               /\ SetTop(g)
  BY <1>2, <1>3, <1>4 DEF Skip
<1>6. /\ g.ip = f.ip + 1 /\ g.at = f.at /\ g.n = f.n /\ g.next = f.next
      /\ g.depth = SkipDepth(code[f.ip].op, f.depth)
  BY <1>3, <1>5 DEF Frame
<1>7. Level(code, P, g, b)
  BY <1>3, <1>6, LevelSkips
<1>. QED BY <1>1, <1>2, <1>5, <1>7, SetTopLevel

LEMMA ValidateLevels ==
  ASSUME IInv, NEW P, Placed(code, P), NEW v, NEW d, Validate(v, d)
  PROVE  Levels(P)'
<1>1. code' = code /\ stack' = <<NewFrame(1, v, TRUE, TRUE)>> /\ code # <<>>
  BY DEF Validate
<1>2. PICK g : g = NewFrame(1, v, TRUE, TRUE)
  OBVIOUS
<1>3. g.ip = 1 /\ g.depth = 0 /\ g.at = 0
  BY <1>2 DEF NewFrame
<1>4. GoesThrough(code, P) /\ Len(code) \in Nat /\ P[1] = Whole
  BY DEF Placed, GoesThrough
<1>5. P[1].depth = 1 /\ P[1].last = "none"
  BY <1>4 DEF Whole
<1>6. 1 \in 1..(Len(code) + 1)
  BY <1>4
<1>7. 1 \in 1..Len(code) => code[1].op \notin CondParts
  BY <1>4, <1>5, NoCondPart
<1>8. Level(code, P, g, 1)
  BY <1>3, <1>5, <1>6, <1>7 DEF Level, AtLevel, Agree, InFlight
<1>9. Len(stack') = 1 /\ stack'[1] = g
  BY <1>1, <1>2
<1>10. ASSUME NEW i \in 1..1 PROVE Level(code', P, stack'[i], Begun(i)')
  <2>1. i = 1 /\ Begun(i)' = 1
    BY DEF Begun
  <2>2. PICK e : e = Begun(i)' /\ e = 1
    BY <2>1
  <2>. QED BY <1>1, <1>8, <1>9, <2>1, <2>2
<1>. QED BY <1>9, <1>10 DEF Levels

\* The VM keeps its activations at their levels.
LEMMA LevelsStep ==
  ASSUME IInv, NEW P, Placed(code, P), Levels(P), Execute \/ Finish
  PROVE  Levels(P)' /\ code' = code
<1>1. code' = code
  BY DEF Execute, Finish, Leaf, Nop, DepRequired, Enter, PassMember, Call, Return, Close, Cond,
         Skip
<1>2. CASE Finish
  <2>1. stack' = <<>>
    BY <1>2 DEF Finish
  <2>2. Len(stack') = 0
    BY <2>1
  <2>. QED BY <1>1, <2>2 DEF Levels
<1>. QED BY <1>1, <1>2, LeafLevels, DepRequiredLevels, EnterLevels, PassMemberLevels,
            CallLevels, ReturnLevels, CloseLevels, CondLevels, SkipLevels DEF Execute

StopsAtTheEnd ==
  Len(stack) = 1 /\ Fetching(stack[1]) /\ AtEnd(stack[1]) => stack[1].ip = Len(code)

\* The outermost activation is at level 1, which only the last END leaves.
LEMMA LevelsEnd ==
  ASSUME IInv, NEW P, Placed(code, P), Levels(P)
  PROVE  StopsAtTheEnd
<1>. SUFFICES ASSUME Len(stack) = 1, Fetching(stack[1]), AtEnd(stack[1])
              PROVE  stack[1].ip = Len(code)
  BY DEF StopsAtTheEnd
<1>1. PICK f, i : f = stack[1] /\ i = f.ip
  OBVIOUS
<1>2. f.ip \in 1..(Len(code) + 1) /\ Len(code) \in Nat
  BY <1>1, StackFacts DEF IInv, TypeOK
<1>3. Level(code, P, f, 1)
  <2>1. Begun(1) = 1 /\ 1 \in 1..1
    BY DEF Begun
  <2>. QED BY <1>1, <2>1 DEF Levels
<1>4. i \in 1..Len(code) /\ i \in Nat
  BY <1>1, <1>2, <1>3, LevelFacts
<1>5. code[i].op = "END"
  <2>1. OpAt(i) \in {"none", "END"}
    BY <1>1 DEF AtEnd
  <2>2. code[i].op \in Ops
    BY <1>4 DEF Placed, WellFormed
  <2>. QED BY <1>4, <2>1, <2>2 DEF OpAt, Ops, BlockOps, BranchOps, CondParts, LeafOps
<1>6. P[1].depth = 1
  BY DEF Placed, GoesThrough, Whole
<1>7. i + 1 \in 1..(Len(code) + 1) /\ P[i + 1].depth = P[1].depth - 1
  BY <1>1, <1>2, <1>3, <1>5, LevelEnds
<1>8. ~(P[i + 1].depth >= 1)
  BY <1>6, <1>7
<1>9. i + 1 \notin 1..Len(code)
  BY <1>2, <1>7, <1>8, PlaceDepth DEF Placed
<1>. QED BY <1>1, <1>2, <1>4, <1>7, <1>9

\* The program has places, and the activations are at their levels.
Levelled == \E P : Placed(code, P) /\ Levels(P)

\* However the value directs it, the VM leaves a program that has places only
\* at its last instruction (execute, skip_to_end): no END of a sub-program
\* that was skipped, probed or run ends the outermost loop.
THEOREM StopsOnlyAtTheEnd ==
  ASSUME \A c \in Codes : \E P : Placed(c, P)
  PROVE  Spec => []StopsAtTheEnd
<1>1. Init => IInv /\ Levelled
  <2> SUFFICES ASSUME Init
               PROVE  IInv /\ Levelled
    OBVIOUS
  <2>1. PICK P : Placed(code, P)
    BY DEF Init
  <2>2. Levels(P)
    BY DEF Init, Levels
  <2>3. Levelled
    BY <2>1, <2>2 DEF Levelled
  <2>. QED BY <2>3, InitStep
<1>2. IInv /\ Levelled /\ [Next]_vmVars => Levelled'
  <2> SUFFICES ASSUME IInv, Levelled, [Next]_vmVars
               PROVE  Levelled'
    OBVIOUS
  <2>1. PICK P : Placed(code, P) /\ Levels(P)
    BY DEF Levelled
  <2>2. Placed(code', P) /\ Levels(P)'
    <3>1. CASE \E v \in Values, d \in Directions : Validate(v, d)
      <4>1. PICK v \in Values, d \in Directions : Validate(v, d)
        BY <3>1
      <4>2. code' = code
        BY <4>1 DEF Validate
      <4>. QED BY <2>1, <4>1, <4>2, ValidateLevels
    <3>2. CASE Execute \/ Finish
      <4>1. Levels(P)' /\ code' = code
        BY <2>1, <3>2, LevelsStep
      <4>. QED BY <2>1, <4>1
    <3>3. CASE UNCHANGED vmVars
      <4>1. code' = code /\ stack' = stack
        BY <3>3 DEF vmVars
      <4>. QED BY <2>1, <4>1 DEF Levels, Begun
    <3>. QED BY <3>1, <3>2, <3>3 DEF Next
  <2>. QED BY <2>2 DEF Levelled
<1>3. IInv /\ Levelled => StopsAtTheEnd
  BY LevelsEnd DEF Levelled
<1>. QED BY <1>1, <1>2, <1>3, Inductive, PTL DEF Spec
=============================================================================
