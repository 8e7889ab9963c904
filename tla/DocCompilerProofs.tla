--------------------------- MODULE DocCompilerProofs --------------------------
(***************************************************************************)
(* For every document, every configuration and every failing allocation:   *)
(* each compiled schema is freed exactly once, the regex backend is not    *)
(* destroyed before the schemas whose patterns it made, a document that is *)
(* returned is complete, and one that is rejected for a schema has had all *)
(* of its bad patterns reported.  An adapter implements the compiler's      *)
(* specification, and releases what it took, once and in order.            *)
(***************************************************************************)
EXTENDS Adapter, SequenceTheorems, Induction, TLAPS

Tracks(seq, s) == \E j \in 1..Len(seq) : seq[j] = s
Distinct(seq)  == \A j, k \in 1..Len(seq) : seq[j] = seq[k] => j = k

\* Appending an element that is not in a sequence keeps its elements distinct.
LEMMA AppendDistinct ==
  ASSUME NEW S, NEW seq \in Seq(S), NEW e \in S, Distinct(seq), ~Tracks(seq, e)
  PROVE  /\ Distinct(Append(seq, e))
         /\ \A s : Tracks(Append(seq, e), s) <=> Tracks(seq, s) \/ s = e
<1>1. /\ Len(seq) \in Nat
      /\ Len(Append(seq, e)) = Len(seq) + 1
      /\ \A i \in 1..Len(seq) : Append(seq, e)[i] = seq[i]
      /\ Append(seq, e)[Len(seq) + 1] = e
  BY AppendProperties, LenProperties
<1>2. Distinct(Append(seq, e))
  <2>1. SUFFICES ASSUME NEW j \in 1..(Len(seq) + 1), NEW k \in 1..(Len(seq) + 1),
                        Append(seq, e)[j] = Append(seq, e)[k]
                 PROVE  j = k
    BY <1>1 DEF Distinct
  <2>2. CASE j \in 1..Len(seq) /\ k \in 1..Len(seq)
    BY <1>1, <2>1, <2>2 DEF Distinct
  <2>3. CASE j = Len(seq) + 1 /\ k \in 1..Len(seq)
    BY <1>1, <2>1, <2>3 DEF Tracks
  <2>4. CASE j \in 1..Len(seq) /\ k = Len(seq) + 1
    BY <1>1, <2>1, <2>4 DEF Tracks
  <2>. QED BY <1>1, <2>2, <2>3, <2>4
<1>3. ASSUME NEW s PROVE Tracks(Append(seq, e), s) <=> Tracks(seq, s) \/ s = e
  <2>1. ASSUME Tracks(Append(seq, e), s) PROVE Tracks(seq, s) \/ s = e
    BY <1>1, <2>1 DEF Tracks
  <2>2. ASSUME Tracks(seq, s) PROVE Tracks(Append(seq, e), s)
    BY <1>1, <2>2 DEF Tracks
  <2>3. ASSUME s = e PROVE Tracks(Append(seq, e), s)
    BY <1>1, <2>3 DEF Tracks
  <2>. QED BY <2>1, <2>2, <2>3
<1>. QED BY <1>2, <1>3

\* The tail of a sequence of distinct elements has all of them but the head.
LEMMA TailDistinct ==
  ASSUME NEW S, NEW seq \in Seq(S), seq # <<>>, Distinct(seq)
  PROVE  /\ Distinct(Tail(seq))
         /\ Tracks(seq, Head(seq))
         /\ \A s : Tracks(Tail(seq), s) <=> Tracks(seq, s) /\ s # Head(seq)
<1>1. /\ Len(seq) \in Nat \ {0}
      /\ Len(Tail(seq)) = Len(seq) - 1
      /\ \A i \in 1..(Len(seq) - 1) : Tail(seq)[i] = seq[i + 1]
      /\ Head(seq) = seq[1]
  BY HeadTailProperties, EmptySeq, LenProperties
<1>2. Distinct(Tail(seq))
  <2>1. SUFFICES ASSUME NEW j \in 1..(Len(seq) - 1), NEW k \in 1..(Len(seq) - 1),
                        Tail(seq)[j] = Tail(seq)[k]
                 PROVE  j = k
    BY <1>1 DEF Distinct
  <2>2. seq[j + 1] = seq[k + 1] /\ j + 1 \in 1..Len(seq) /\ k + 1 \in 1..Len(seq)
    BY <1>1, <2>1
  <2>3. j + 1 = k + 1
    BY <2>2 DEF Distinct
  <2>. QED BY <2>3
<1>3. Tracks(seq, Head(seq))
  BY <1>1 DEF Tracks
<1>4. ASSUME NEW s PROVE Tracks(Tail(seq), s) <=> Tracks(seq, s) /\ s # Head(seq)
  <2>1. ASSUME Tracks(Tail(seq), s) PROVE Tracks(seq, s) /\ s # Head(seq)
    <3>1. PICK j \in 1..(Len(seq) - 1) : seq[j + 1] = s
      BY <1>1, <2>1 DEF Tracks
    <3>2. j + 1 \in 1..Len(seq) /\ 1 \in 1..Len(seq) /\ j + 1 # 1
      BY <1>1
    <3>3. seq[j + 1] # seq[1]
      BY <3>2 DEF Distinct
    <3>. QED BY <1>1, <3>1, <3>2, <3>3 DEF Tracks
  <2>2. ASSUME Tracks(seq, s), s # Head(seq) PROVE Tracks(Tail(seq), s)
    <3>1. PICK j \in 1..Len(seq) : seq[j] = s
      BY <2>2 DEF Tracks
    <3>2. j - 1 \in 1..(Len(seq) - 1) /\ (j - 1) + 1 = j
      BY <1>1, <2>2, <3>1
    <3>3. Tail(seq)[j - 1] = s
      BY <1>1, <3>1, <3>2
    <3>. QED BY <1>1, <3>2, <3>3 DEF Tracks
  <2>. QED BY <2>1, <2>2
<1>. QED BY <1>2, <1>3, <1>4

-----------------------------------------------------------------------------
LEMMA OwnershipInitially == Init => OwnershipInv
BY EmptySeq DEF Init, OwnershipInv

\* The actions that make no schema and free none.
LEMMA OwnershipUnchanged ==
  ASSUME OwnershipInv, UNCHANGED <<input, resources, destroys>>, phase' # phase => 
           \/ phase # "release" /\ phase' \notin {"begin", "over"}
           \/ phase = "begin" /\ phase' = "over",
         phase # "over"
  PROVE  OwnershipInv'
BY DEF OwnershipInv, input, resources

\* A new schema that is tracked, or freed at once when that fails.
LEMMA OwnershipGrows ==
  ASSUME OwnershipInv, phase = "compile", UNCHANGED <<input, destroys>>, made' = made + 1,
         \/ frees' = Append(frees, 0) /\ tracked' = Append(tracked, made + 1) /\ phase' = phase
         \/ frees' = Append(frees, 1) /\ tracked' = tracked /\ phase' = "release"
  PROVE  OwnershipInv'
<1>1. /\ made \in Nat
      /\ frees \in Seq({0, 1}) /\ Len(frees) = made
      /\ tracked \in Seq(1..made)
      /\ Distinct(tracked)
      /\ \A s \in 1..made : frees[s] = 0 <=> Tracks(tracked, s)
      /\ \A s \in 1..made : frees[s] = 0
      /\ destroys = 0
  BY DEF OwnershipInv, Distinct, Tracks, input
<1>2. tracked \in Seq(1..(made + 1)) /\ made + 1 \in 1..(made + 1)
  <2>1. \A j \in 1..Len(tracked) : tracked[j] \in 1..made
    BY <1>1, ElementOfSeq
  <2>. QED BY <1>1, <2>1
<1>3. ~Tracks(tracked, made + 1)
  <2>1. SUFFICES ASSUME NEW j \in 1..Len(tracked), tracked[j] = made + 1 PROVE FALSE
    BY DEF Tracks
  <2>2. tracked[j] \in 1..made
    BY <1>1, ElementOfSeq
  <2>. QED BY <1>1, <2>1, <2>2
<1>4. CASE frees' = Append(frees, 0) /\ tracked' = Append(tracked, made + 1) /\ phase' = phase
  <2>1. frees' \in Seq({0, 1}) /\ Len(frees') = made + 1
        /\ (\A s \in 1..made : frees'[s] = frees[s]) /\ frees'[made + 1] = 0
    BY <1>1, <1>4, AppendProperties
  <2>2. Distinct(tracked') /\ tracked' \in Seq(1..(made + 1))
        /\ \A s : Tracks(tracked', s) <=> Tracks(tracked, s) \/ s = made + 1
    BY <1>1, <1>2, <1>3, <1>4, AppendDistinct, AppendProperties
  <2>3. \A s \in 1..(made + 1) : frees'[s] = 0
    BY <1>1, <2>1
  <2>4. \A s \in 1..(made + 1) : Tracks(tracked', s)
    BY <1>1, <2>2
  <2>5. \A s \in 1..(made + 1) : \E j \in 1..Len(tracked') : tracked'[j] = s
    BY <2>4 DEF Tracks
  <2>6. phase' = "compile" /\ made' = made + 1 /\ destroys' = 0
    BY <1>1, <1>4
  <2>7. \A j, k \in 1..Len(tracked') : tracked'[j] = tracked'[k] => j = k
    BY <2>2 DEF Distinct
  <2>. QED BY <1>1, <2>1, <2>2, <2>3, <2>5, <2>6, <2>7 DEF OwnershipInv, input
<1>5. CASE frees' = Append(frees, 1) /\ tracked' = tracked /\ phase' = "release"
  <2>1. frees' \in Seq({0, 1}) /\ Len(frees') = made + 1
        /\ (\A s \in 1..made : frees'[s] = frees[s]) /\ frees'[made + 1] = 1
    BY <1>1, <1>5, AppendProperties
  <2>2. \A s \in 1..(made + 1) : frees'[s] = 0 <=> Tracks(tracked, s)
    BY <1>1, <1>3, <2>1
  <2>. QED BY <1>1, <1>2, <1>5, <2>1, <2>2 DEF OwnershipInv, Distinct, Tracks, input
<1>. QED BY <1>4, <1>5

LEMMA OwnershipFreesHead == ASSUME OwnershipInv, FreeSchema PROVE OwnershipInv'
<1>1. /\ made \in Nat
      /\ frees \in Seq({0, 1}) /\ Len(frees) = made
      /\ tracked \in Seq(1..made) /\ tracked # <<>>
      /\ Distinct(tracked)
      /\ \A s \in 1..made : frees[s] = 0 <=> Tracks(tracked, s)
      /\ phase = "release" /\ destroys = 0
  BY DEF OwnershipInv, Distinct, Tracks, FreeSchema
<1>2. Head(tracked) \in 1..made /\ Tail(tracked) \in Seq(1..made)
  BY <1>1, HeadTailProperties
<1>3. frees[Head(tracked)] = 0
  BY <1>1, <1>2, TailDistinct
<1>4. frees' \in Seq({0, 1}) /\ Len(frees') = made
      /\ frees' = [frees EXCEPT ![Head(tracked)] = 1]
  <2>1. frees' = [frees EXCEPT ![Head(tracked)] = 1]
    BY <1>3 DEF FreeSchema
  <2>. QED BY <1>1, <1>2, <2>1, ExceptSeq
<1>5. \A s \in 1..made : frees'[s] = IF s = Head(tracked) THEN 1 ELSE frees[s]
  BY <1>1, <1>4, LenProperties
<1>6. Distinct(Tail(tracked))
      /\ \A s : Tracks(Tail(tracked), s) <=> Tracks(tracked, s) /\ s # Head(tracked)
  BY <1>1, TailDistinct
<1>7. \A s \in 1..made : frees'[s] = 0 <=> Tracks(Tail(tracked), s)
  BY <1>1, <1>5, <1>6
<1>8. tracked' = Tail(tracked) /\ made' = made /\ phase' = "release" /\ destroys' = 0 /\ cc' = cc
  BY <1>1 DEF FreeSchema, input
<1>. QED BY <1>1, <1>2, <1>4, <1>6, <1>7, <1>8 DEF OwnershipInv, Distinct, Tracks, input

LEMMA OwnershipInductive == OwnershipInv /\ [Next]_docVars => OwnershipInv'
<1>. SUFFICES ASSUME OwnershipInv, [Next]_docVars PROVE OwnershipInv'
  OBVIOUS
<1>1. CASE CompileEntry
  BY <1>1, OwnershipGrows DEF CompileEntry, Compilable, AtEntry
<1>2. CASE TrackFails
  BY <1>2, OwnershipGrows DEF TrackFails, GoToFail, Compilable, AtEntry
<1>3. CASE FreeSchema
  BY <1>3, OwnershipFreesHead
<1>4. CASE ReleaseRest
  BY <1>4 DEF ReleaseRest, OwnershipInv, input, resources
<1>5. CASE Begin \/ BeginFails \/ MakeMatcher \/ MatcherFails \/ AllocateOperations \/ OperationsFail
  BY <1>5, OwnershipUnchanged
     DEF Begin, BeginFails, MakeMatcher, MatcherFails, AllocateOperations, OperationsFail, GoToFail
<1>6. CASE ArrayFails \/ SkipEntry \/ SchemaFails \/ NextList \/ NextOperation \/ LastOperation
  BY <1>6, OwnershipUnchanged
     DEF ArrayFails, SkipEntry, SchemaFails, NextList, NextOperation, LastOperation, GoToFail,
         AtEntry, AtListEnd
<1>7. CASE Finish \/ FinishFailed \/ Free
  BY <1>7, OwnershipUnchanged DEF Finish, FinishFailed, Free, GoToFail
<1>8. CASE UNCHANGED docVars
  BY <1>8 DEF docVars, OwnershipInv
<1>. QED BY <1>1, <1>2, <1>3, <1>4, <1>5, <1>6, <1>7, <1>8 DEF Next, Compiling

LEMMA OwnershipMeans == OwnershipInv => SchemasFreedOnce /\ BackendOutlivesPatterns
<1>. SUFFICES ASSUME OwnershipInv PROVE SchemasFreedOnce /\ BackendOutlivesPatterns
  OBVIOUS
<1>1. \A s \in 1..made : frees[s] \in {0, 1}
  BY ElementOfSeq DEF OwnershipInv
<1>2. phase = "over" => \A s \in 1..made : frees[s] = 1
  BY <1>1, EmptySeq DEF OwnershipInv
<1>. QED BY <1>1, <1>2 DEF OwnershipInv, SchemasFreedOnce, BackendOutlivesPatterns

\* OwnershipInv is inductive: the tracked schemas are the live ones
\* (track_schema, oas_compiled_doc_free).
THEOREM OwnershipInvariant == Spec => []OwnershipInv
BY OwnershipInitially, OwnershipInductive, PTL DEF Spec

\* Whatever step of oas_doc_compile fails, each compiled schema is freed exactly
\* once by the time the document is gone, and none before.
THEOREM EverySchemaFreedOnce == Spec => []SchemasFreedOnce
BY OwnershipInvariant, OwnershipMeans, PTL

\* The regex backend is destroyed at most once, only when the document owns it,
\* and never before the last schema.
THEOREM BackendDestroyedLast == Spec => []BackendOutlivesPatterns
BY OwnershipInvariant, OwnershipMeans, PTL

-----------------------------------------------------------------------------
(* What is compiled, and what is reported, of the entries passed so far.   *)

\* How many entries of each list of the operation have been gone through.
BodyDone(o) == IF at.part = "body" THEN at.entry - 1 ELSE Len(o.body)
ContentDone(o, r) ==
  IF at.part = "body" \/ (at.part = "responses" /\ r > at.resp) THEN 0
  ELSE IF at.part = "responses" /\ r = at.resp THEN at.entry - 1
  ELSE Len(o.responses[r].content)
ParamsDone == IF at.part = "params" THEN at.entry - 1 ELSE 0

CompiledSoFar(o) ==
  [path |-> PathOf(o), method |-> o.method, bodyRequired |-> o.bodyRequired,
   body |-> Kept(o.body)[BodyDone(o)],
   params |-> Kept(o.params)[ParamsDone],
   responses |-> [r \in DOMAIN o.responses |->
                    [status |-> o.responses[r].status,
                     content |-> Kept(o.responses[r].content)[ContentDone(o, r)]]]]

Parts == {"body", "responses", "params"}

PlaceInv ==
  /\ parsed \in ParsedDocs
  /\ at \in [op : Nat \ {0}, part : Parts, resp : Nat \ {0}, entry : Nat \ {0}]
  /\ phase \in {"begin", "matcher", "operations"} => at = Start(1) /\ ~failed
  /\ phase = "compile" =>
       /\ at.op <= Len(Operations)
       /\ at.entry <= Len(Here) + 1
       /\ at.part = "body" => at.resp = 1
       /\ at.part = "responses" => at.resp = 1 \/ at.resp <= Len(Op.responses)
       /\ at.part = "params" => at.resp >= Len(Op.responses)

\* As long as no schema failed, what is compiled is what has been passed.
CompleteInv ==
  /\ phase \in {"begin", "matcher", "operations"} => compiled = <<>>
  /\ phase = "ready" => ~failed
  /\ outcome = "compiled" => phase = "ready"
  /\ ~failed /\ phase \in {"compile", "check", "ready"} =>
       /\ compiled \in Seq({CompiledFrom(Operations[k]) : k \in 1..Len(Operations)})
       /\ \A k \in 1..Len(compiled) : compiled[k] = CompiledFrom(Operations[k])
       /\ Len(compiled) = IF phase = "compile" THEN at.op - 1 ELSE Len(Operations)
       /\ phase = "compile" => out = CompiledSoFar(Op)

Reported(e) == e.schema \in BadSchemas /\ e.schema # NoSchema => e.schema \in errors

\* While memory lasts, every schema with a bad pattern that has been passed is
\* reported.
ReportInv ==
  /\ errors \subseteq SchemasOf(parsed) \cap BadSchemas
  /\ ~scarce /\ phase = "compile" =>
       /\ \A k \in 1..(at.op - 1) : \A e \in EntriesOf(Operations[k]) : Reported(e)
       /\ \A j \in 1..BodyDone(Op) : Reported(Op.body[j])
       /\ \A r \in 1..Len(Op.responses) :
            \A j \in 1..ContentDone(Op, r) : Reported(Op.responses[r].content[j])
       /\ \A j \in 1..ParamsDone : Reported(Op.params[j])
  /\ ~scarce /\ failed /\ phase \in {"check", "release", "over"} =>
       \A k \in DOMAIN Operations : \A e \in EntriesOf(Operations[k]) : Reported(e)

\* What is kept of a list is kept entry by entry.
LEMMA KeptIs ==
  ASSUME NEW S, NEW entries \in Seq(S)
  PROVE  /\ Kept(entries)[0] = <<>>
         /\ \A n \in 1..Len(entries) :
              Kept(entries)[n] = IF entries[n].schema = NoSchema THEN Kept(entries)[n - 1]
                                 ELSE Append(Kept(entries)[n - 1], entries[n])
<1>. DEFINE step == [n \in 1..Len(entries) |->
                       [s \in Seq(S) |-> IF entries[n].schema = NoSchema THEN s
                                         ELSE Append(s, entries[n])]]
            Solves(f) == f = [n \in 0..Len(entries) |->
                                IF n = 0 THEN <<>>
                                ELSE IF entries[n].schema = NoSchema THEN f[n - 1]
                                ELSE Append(f[n - 1], entries[n])]
            kept == Kept(entries)
<1>1. Len(entries) \in Nat
  BY LenProperties
<1>2. step \in [1..Len(entries) -> [Seq(S) -> Seq(S)]]
  <2>1. ASSUME NEW n \in 1..Len(entries), NEW s \in Seq(S)
        PROVE  (IF entries[n].schema = NoSchema THEN s ELSE Append(s, entries[n])) \in Seq(S)
    BY <2>1, ElementOfSeq, AppendProperties
  <2>. QED BY <2>1
<1>3. PICK g \in [0..Len(entries) -> Seq(S)] : Recursion(g, Len(entries), <<>>, step)
  <2>1. <<>> \in Seq(S)
    BY EmptySeq
  <2>. HIDE DEF step
  <2>. QED BY <1>1, <1>2, <2>1, RecursionExists
<1>4. \A n \in 1..Len(entries) :
        g[n] = IF entries[n].schema = NoSchema THEN g[n - 1] ELSE Append(g[n - 1], entries[n])
  <2>1. ASSUME NEW n \in 1..Len(entries)
        PROVE  g[n] = step[n][g[n - 1]] /\ g[n - 1] \in Seq(S)
    <3>. HIDE DEF step
    <3>1. n - 1 \in 0..Len(entries)
      BY <1>1
    <3>. QED BY <1>3, <3>1 DEF Recursion
  <2>. QED BY <2>1
<1>5. Solves(g)
  <2>1. g[0] = <<>>
    BY <1>3 DEF Recursion
  <2>. HIDE DEF step
  <2>2. \A n \in 0..Len(entries) : n # 0 => n \in 1..Len(entries)
    BY <1>1
  <2>. QED BY <1>3, <1>4, <2>1, <2>2
<1>6. kept = CHOOSE f : Solves(f)
  BY DEF Kept
<1>7. Solves(kept)
  <2>. HIDE DEF Solves, kept
  <2>. QED BY <1>5, <1>6
<1>8. \A n \in 0..Len(entries) :
        kept[n] = IF n = 0 THEN <<>>
                  ELSE IF entries[n].schema = NoSchema THEN kept[n - 1]
                  ELSE Append(kept[n - 1], entries[n])
  <2>. HIDE DEF kept
  <2>. QED BY <1>7, Zenon
<1>9. /\ kept[0] = <<>>
      /\ \A n \in 1..Len(entries) :
           kept[n] = IF entries[n].schema = NoSchema THEN kept[n - 1]
                     ELSE Append(kept[n - 1], entries[n])
  <2>. HIDE DEF kept
  <2>1. 0 \in 0..Len(entries) /\ \A n \in 1..Len(entries) : n \in 0..Len(entries) /\ n # 0
    BY <1>1
  <2>. QED BY <1>8, <2>1, Zenon
<1>. QED BY <1>9, Zenon

LEMMA ListIsKept ==
  ASSUME NEW entries, IsList(entries)
  PROVE  /\ Len(entries) \in Nat
         /\ DOMAIN entries = 1..Len(entries)
         /\ Kept(entries)[0] = <<>>
         /\ \A n \in 1..Len(entries) :
              Kept(entries)[n] = IF entries[n].schema = NoSchema THEN Kept(entries)[n - 1]
                                 ELSE Append(Kept(entries)[n - 1], entries[n])
<1>1. entries \in Seq({entries[j] : j \in DOMAIN entries})
  BY DEF IsList
<1>2. Len(entries) \in Nat /\ DOMAIN entries = 1..Len(entries)
  BY <1>1, LenProperties
<1>. QED BY <1>1, <1>2, KeptIs

\* The lists of an operation of the document.
LEMMA OperationLists ==
  ASSUME parsed \in ParsedDocs, NEW k \in 1..Len(Operations)
  PROVE  /\ Len(Operations) \in Nat /\ DOMAIN Operations = 1..Len(Operations)
         /\ IsList(Operations[k].body) /\ IsList(Operations[k].params)
         /\ Len(Operations[k].responses) \in Nat
         /\ DOMAIN Operations[k].responses = 1..Len(Operations[k].responses)
         /\ \A r \in 1..Len(Operations[k].responses) :
              IsList(Operations[k].responses[r].content)
<1>1. IsList(Operations)
  BY DocCompilerAssumption DEF Operations
<1>2. Len(Operations) \in Nat /\ DOMAIN Operations = 1..Len(Operations)
  BY <1>1, ListIsKept
<1>3. IsList(Operations[k].responses)
  BY <1>2, DocCompilerAssumption DEF Operations
<1>4. Len(Operations[k].responses) \in Nat
      /\ DOMAIN Operations[k].responses = 1..Len(Operations[k].responses)
  BY <1>3, ListIsKept
<1>. QED BY <1>2, <1>4, DocCompilerAssumption DEF Operations

\* The list at the place is one of them.
LEMMA HereIs ==
  ASSUME PlaceInv, phase = "compile"
  PROVE  /\ at.op \in 1..Len(Operations)
         /\ IsList(Here) \/ (Here = <<>> /\ at.part = "responses" /\ Len(Op.responses) = 0)
         /\ Len(Here) \in Nat
         /\ at.part = "body" => Here = Op.body
         /\ at.part = "params" => Here = Op.params
         /\ at.part = "responses" =>
              Here = IF at.resp <= Len(Op.responses) THEN Op.responses[at.resp].content ELSE <<>>
<1>1. at.op \in 1..Len(Operations) /\ at.part \in Parts /\ at.resp \in Nat \ {0}
      /\ (at.part = "responses" => at.resp = 1 \/ at.resp <= Len(Op.responses))
  <2>1. parsed \in ParsedDocs /\ at.op \in Nat \ {0} /\ at.op <= Len(Operations)
    BY DEF PlaceInv
  <2>2. Len(Operations) \in Nat
    BY <2>1, DocCompilerAssumption, ListIsKept DEF Operations
  <2>. QED BY <2>1, <2>2 DEF PlaceInv
<1>2. /\ IsList(Op.body) /\ IsList(Op.params) /\ Len(Op.responses) \in Nat
      /\ \A r \in 1..Len(Op.responses) : IsList(Op.responses[r].content)
  BY <1>1, OperationLists DEF PlaceInv, Op
<1>3. CASE at.part = "body"
  BY <1>1, <1>2, <1>3, ListIsKept DEF Here, EntriesAt
<1>4. CASE at.part = "params"
  BY <1>1, <1>2, <1>4, ListIsKept DEF Here, EntriesAt
<1>5. CASE at.part = "responses"
  <2>1. Here = IF at.resp <= Len(Op.responses) THEN Op.responses[at.resp].content ELSE <<>>
    BY <1>5 DEF Here, EntriesAt
  <2>2. CASE at.resp <= Len(Op.responses)
    BY <1>1, <1>2, <1>5, <2>1, <2>2, ListIsKept
  <2>3. CASE ~(at.resp <= Len(Op.responses))
    BY <1>1, <1>2, <1>5, <2>1, <2>3
  <2>. QED BY <2>2, <2>3
<1>. QED BY <1>1, <1>3, <1>4, <1>5 DEF Parts

-----------------------------------------------------------------------------
\* The loop over a list goes on: one entry more of that list has been passed.
LEMMA EntryPassed ==
  ASSUME PlaceInv, AtEntry, at' = [at EXCEPT !.entry = @ + 1], UNCHANGED <<parsed, phase>>,
         ~failed' => ~failed
  PROVE  /\ PlaceInv'
         /\ Op' = Op /\ Operations' = Operations /\ at'.op = at.op
         /\ BodyDone(Op)' = BodyDone(Op) + (IF at.part = "body" THEN 1 ELSE 0)
         /\ ParamsDone' = ParamsDone + (IF at.part = "params" THEN 1 ELSE 0)
         /\ \A r \in 1..Len(Op.responses) :
              ContentDone(Op, r)' =
                ContentDone(Op, r) + (IF at.part = "responses" /\ r = at.resp THEN 1 ELSE 0)
<1>1. /\ at \in [op : Nat \ {0}, part : Parts, resp : Nat \ {0}, entry : Nat \ {0}]
      /\ phase = "compile" /\ parsed \in ParsedDocs /\ at.entry <= Len(Here)
  BY DEF PlaceInv, AtEntry
<1>2. /\ at' \in [op : Nat \ {0}, part : Parts, resp : Nat \ {0}, entry : Nat \ {0}]
      /\ at'.op = at.op /\ at'.part = at.part /\ at'.resp = at.resp /\ at'.entry = at.entry + 1
  BY <1>1
<1>3. Op' = Op /\ Operations' = Operations /\ Here' = Here
  BY <1>2 DEF Op, Operations, Here
<1>4. at.op \in 1..Len(Operations) /\ Len(Here) \in Nat
  BY <1>1, HereIs
<1>5. /\ Len(Op.body) \in Nat /\ Len(Op.params) \in Nat /\ Len(Op.responses) \in Nat
      /\ \A r \in 1..Len(Op.responses) : Len(Op.responses[r].content) \in Nat
  BY <1>1, <1>4, OperationLists, ListIsKept DEF Op
<1>6. PlaceInv'
  <2>1. phase' = "compile"
    BY <1>1
  <2>2. at'.entry <= Len(Here') + 1
    BY <1>1, <1>2, <1>3, <1>4
  <2>. QED BY <1>1, <1>2, <1>3, <2>1, <2>2 DEF PlaceInv
<1>7. BodyDone(Op)' = BodyDone(Op) + (IF at.part = "body" THEN 1 ELSE 0)
  BY <1>1, <1>2, <1>3, <1>5 DEF BodyDone
<1>8. ParamsDone' = ParamsDone + (IF at.part = "params" THEN 1 ELSE 0)
  BY <1>1, <1>2 DEF ParamsDone
<1>9. ASSUME NEW r \in 1..Len(Op.responses)
      PROVE  ContentDone(Op, r)' =
                ContentDone(Op, r) + (IF at.part = "responses" /\ r = at.resp THEN 1 ELSE 0)
  <2>1. Len(Op.responses[r].content) \in Nat
    BY <1>5
  <2>2. CASE at.part = "body"
    BY <1>2, <1>3, <2>2 DEF ContentDone
  <2>3. CASE at.part = "params"
    BY <1>2, <1>3, <2>1, <2>3 DEF ContentDone
  <2>4. CASE at.part = "responses" /\ r = at.resp
    <3>1. ContentDone(Op, r) = at.entry - 1 /\ ContentDone(Op, r)' = at'.entry - 1
      BY <1>2, <1>3, <2>4 DEF ContentDone
    <3>. QED BY <1>1, <1>2, <2>4, <3>1
  <2>5. CASE at.part = "responses" /\ r # at.resp
    <3>1. r \in Nat /\ at.resp \in Nat
      BY <1>1, <1>5
    <3>2. ContentDone(Op, r)' = ContentDone(Op, r) /\ ContentDone(Op, r) \in Nat
      BY <1>2, <1>3, <2>1, <2>5, <3>1 DEF ContentDone
    <3>. QED BY <2>5, <3>2
  <2>. QED BY <1>1, <2>2, <2>3, <2>4, <2>5 DEF Parts
<1>. QED BY <1>2, <1>3, <1>6, <1>7, <1>8, <1>9

\* The entry at the place is the next one of its list.
LEMMA EntryIsNext ==
  ASSUME PlaceInv, AtEntry
  PROVE  /\ at.part = "body" =>
              BodyDone(Op) + 1 \in 1..Len(Op.body) /\ Entry = Op.body[BodyDone(Op) + 1]
         /\ at.part = "params" =>
              ParamsDone + 1 \in 1..Len(Op.params) /\ Entry = Op.params[ParamsDone + 1]
         /\ at.part = "responses" =>
              /\ at.resp \in 1..Len(Op.responses)
              /\ ContentDone(Op, at.resp) + 1 \in 1..Len(Op.responses[at.resp].content)
              /\ Entry = Op.responses[at.resp].content[ContentDone(Op, at.resp) + 1]
<1>1. /\ at \in [op : Nat \ {0}, part : Parts, resp : Nat \ {0}, entry : Nat \ {0}]
      /\ phase = "compile" /\ at.entry <= Len(Here)
  BY DEF PlaceInv, AtEntry
<1>2. /\ Len(Here) \in Nat
      /\ at.part = "body" => Here = Op.body
      /\ at.part = "params" => Here = Op.params
      /\ at.part = "responses" =>
           Here = IF at.resp <= Len(Op.responses) THEN Op.responses[at.resp].content ELSE <<>>
  BY <1>1, HereIs
<1>3. (at.entry - 1) + 1 = at.entry /\ at.entry \in 1..Len(Here)
  BY <1>1, <1>2
<1>4. at.part = "responses" => at.resp \in 1..Len(Op.responses)
  <2>1. Len(Op.responses) \in Nat
    BY <1>1, HereIs, OperationLists DEF PlaceInv, Op
  <2>. QED BY <1>1, <1>2, <1>3, <2>1
<1>5. at.part = "responses" => ContentDone(Op, at.resp) = at.entry - 1
  BY <1>1 DEF ContentDone
<1>6. at.part = "body" => BodyDone(Op) = at.entry - 1
  BY DEF BodyDone
<1>7. at.part = "params" => ParamsDone = at.entry - 1
  BY DEF ParamsDone
<1>8. CASE at.part = "body"
  BY <1>2, <1>3, <1>6, <1>8 DEF Entry
<1>9. CASE at.part = "params"
  BY <1>2, <1>3, <1>7, <1>9 DEF Entry
<1>10. CASE at.part = "responses"
  BY <1>1, <1>2, <1>3, <1>4, <1>5, <1>10 DEF Entry
<1>. QED BY <1>1, <1>8, <1>9, <1>10 DEF Parts

LEMMA CountsAreNat ==
  ASSUME PlaceInv, phase = "compile"
  PROVE  /\ BodyDone(Op) \in Nat /\ ParamsDone \in Nat
         /\ \A r \in 1..Len(Op.responses) : ContentDone(Op, r) \in Nat
<1>1. at.entry \in Nat \ {0} /\ parsed \in ParsedDocs
  BY DEF PlaceInv
<1>2. /\ Len(Op.body) \in Nat
      /\ \A r \in 1..Len(Op.responses) : Len(Op.responses[r].content) \in Nat
  BY <1>1, HereIs, OperationLists, ListIsKept DEF Op
<1>. QED BY <1>1, <1>2 DEF BodyDone, ContentDone, ParamsDone

\* What is kept of a list grows by the entry at the place when it has a schema.
KeptWith(kept, here) ==
  IF here /\ Entry.schema # NoSchema THEN Append(kept, Entry) ELSE kept

LEMMA KeptSoFar ==
  ASSUME PlaceInv, AtEntry, at' = [at EXCEPT !.entry = @ + 1], UNCHANGED <<parsed, phase>>,
         ~failed' => ~failed
  PROVE  /\ Kept(Op.body)[BodyDone(Op)'] = KeptWith(Kept(Op.body)[BodyDone(Op)], at.part = "body")
         /\ Kept(Op.params)[ParamsDone'] = KeptWith(Kept(Op.params)[ParamsDone], at.part = "params")
         /\ \A r \in 1..Len(Op.responses) :
              Kept(Op.responses[r].content)[ContentDone(Op, r)'] =
                KeptWith(Kept(Op.responses[r].content)[ContentDone(Op, r)],
                         at.part = "responses" /\ r = at.resp)
<1>1. phase = "compile" /\ at.op \in 1..Len(Operations) /\ parsed \in ParsedDocs
  BY HereIs DEF PlaceInv, AtEntry
<1>2. /\ BodyDone(Op) \in Nat /\ ParamsDone \in Nat
      /\ \A r \in 1..Len(Op.responses) : ContentDone(Op, r) \in Nat
  BY <1>1, CountsAreNat
<1>3. /\ IsList(Op.body) /\ IsList(Op.params)
      /\ \A r \in 1..Len(Op.responses) : IsList(Op.responses[r].content)
  BY <1>1, OperationLists DEF Op
<1>4. ASSUME NEW entries, IsList(entries), NEW n \in Nat, n + 1 \in 1..Len(entries)
      PROVE  Kept(entries)[n + 1] =
               IF entries[n + 1].schema # NoSchema THEN Append(Kept(entries)[n], entries[n + 1])
               ELSE Kept(entries)[n]
  <2>1. (n + 1) - 1 = n
    OBVIOUS
  <2>. QED BY <1>4, <2>1, ListIsKept
<1>5. Kept(Op.body)[BodyDone(Op)'] = KeptWith(Kept(Op.body)[BodyDone(Op)], at.part = "body")
  <2>1. BodyDone(Op)' = BodyDone(Op) + (IF at.part = "body" THEN 1 ELSE 0)
    BY EntryPassed
  <2>2. CASE at.part = "body"
    BY <1>2, <1>3, <1>4, <2>1, <2>2, EntryIsNext DEF KeptWith
  <2>3. CASE at.part # "body"
    BY <1>2, <2>1, <2>3 DEF KeptWith
  <2>. QED BY <2>2, <2>3
<1>6. Kept(Op.params)[ParamsDone'] = KeptWith(Kept(Op.params)[ParamsDone], at.part = "params")
  <2>1. ParamsDone' = ParamsDone + (IF at.part = "params" THEN 1 ELSE 0)
    BY EntryPassed
  <2>2. CASE at.part = "params"
    BY <1>2, <1>3, <1>4, <2>1, <2>2, EntryIsNext DEF KeptWith
  <2>3. CASE at.part # "params"
    BY <1>2, <2>1, <2>3 DEF KeptWith
  <2>. QED BY <2>2, <2>3
<1>7. ASSUME NEW r \in 1..Len(Op.responses)
      PROVE  Kept(Op.responses[r].content)[ContentDone(Op, r)'] =
                KeptWith(Kept(Op.responses[r].content)[ContentDone(Op, r)],
                         at.part = "responses" /\ r = at.resp)
  <2>1. ContentDone(Op, r)' =
          ContentDone(Op, r) + (IF at.part = "responses" /\ r = at.resp THEN 1 ELSE 0)
    BY EntryPassed
  <2>2. CASE at.part = "responses" /\ r = at.resp
    BY <1>2, <1>3, <1>4, <2>1, <2>2, EntryIsNext DEF KeptWith
  <2>3. CASE ~(at.part = "responses" /\ r = at.resp)
    BY <1>2, <2>1, <2>3 DEF KeptWith
  <2>. QED BY <2>2, <2>3
<1>. QED BY <1>5, <1>6, <1>7

LEMMA SoFarSkipped ==
  ASSUME PlaceInv, SkipEntry
  PROVE  CompiledSoFar(Op)' = CompiledSoFar(Op)
<1>1. /\ AtEntry /\ at' = [at EXCEPT !.entry = @ + 1] /\ UNCHANGED <<parsed, phase>>
      /\ failed' = failed /\ Entry.schema = NoSchema
  BY DEF SkipEntry, input, verdict
<1>2. Op' = Op /\ PathOf(Op)' = PathOf(Op)
  BY <1>1, EntryPassed DEF PathOf
<1>3. /\ Kept(Op.body)[BodyDone(Op)'] = Kept(Op.body)[BodyDone(Op)]
      /\ Kept(Op.params)[ParamsDone'] = Kept(Op.params)[ParamsDone]
      /\ \A r \in 1..Len(Op.responses) :
           Kept(Op.responses[r].content)[ContentDone(Op, r)'] =
             Kept(Op.responses[r].content)[ContentDone(Op, r)]
  BY <1>1, KeptSoFar DEF KeptWith
<1>4. DOMAIN Op.responses = 1..Len(Op.responses)
  BY <1>1, HereIs, OperationLists DEF PlaceInv, AtEntry, Op
<1>. QED BY <1>2, <1>3, <1>4 DEF CompiledSoFar

LEMMA SoFarStored ==
  ASSUME PlaceInv, CompileEntry
  PROVE  CompiledSoFar(Op)' = Stored(CompiledSoFar(Op), at.part, at.resp, Entry)
<1>1. /\ AtEntry /\ at' = [at EXCEPT !.entry = @ + 1] /\ UNCHANGED <<parsed, phase>>
      /\ failed' = failed /\ Entry.schema # NoSchema /\ at.part \in Parts
  BY DEF CompileEntry, Compilable, input, verdict, PlaceInv
<1>2. Op' = Op /\ PathOf(Op)' = PathOf(Op)
  BY <1>1, EntryPassed DEF PathOf
<1>3. /\ Kept(Op.body)[BodyDone(Op)'] =
           (IF at.part = "body" THEN Append(Kept(Op.body)[BodyDone(Op)], Entry)
            ELSE Kept(Op.body)[BodyDone(Op)])
      /\ Kept(Op.params)[ParamsDone'] =
           (IF at.part = "params" THEN Append(Kept(Op.params)[ParamsDone], Entry)
            ELSE Kept(Op.params)[ParamsDone])
      /\ \A r \in 1..Len(Op.responses) :
           Kept(Op.responses[r].content)[ContentDone(Op, r)'] =
             IF at.part = "responses" /\ r = at.resp
             THEN Append(Kept(Op.responses[r].content)[ContentDone(Op, r)], Entry)
             ELSE Kept(Op.responses[r].content)[ContentDone(Op, r)]
  BY <1>1, KeptSoFar DEF KeptWith
<1>4. /\ DOMAIN Op.responses = 1..Len(Op.responses)
      /\ at.part = "responses" => at.resp \in 1..Len(Op.responses)
  BY <1>1, HereIs, EntryIsNext, OperationLists DEF PlaceInv, AtEntry, Op
<1>5. CASE at.part = "body"
  BY <1>2, <1>3, <1>4, <1>5 DEF CompiledSoFar, Stored
<1>6. CASE at.part = "params"
  BY <1>2, <1>3, <1>4, <1>6 DEF CompiledSoFar, Stored
<1>7. CASE at.part = "responses"
  <2>. DEFINE old == [r \in DOMAIN Op.responses |->
                       [status |-> Op.responses[r].status,
                        content |-> Kept(Op.responses[r].content)[ContentDone(Op, r)]]]
              new == [r \in DOMAIN Op.responses |->
                       [status |-> Op.responses[r].status,
                        content |-> Kept(Op.responses[r].content)[ContentDone(Op, r)']]]
  <2>1. ASSUME NEW r \in DOMAIN Op.responses
        PROVE  new[r] = IF r = at.resp THEN [old[r] EXCEPT !.content = Append(@, Entry)]
                        ELSE old[r]
    BY <1>3, <1>4, <1>7, <2>1
  <2>2. new = [old EXCEPT ![at.resp].content = Append(@, Entry)]
    <3>. DEFINE changed == [old[at.resp] EXCEPT !.content = Append(@, Entry)]
    <3>1. at.resp \in DOMAIN Op.responses
      BY <1>4, <1>7
    <3>2. ASSUME NEW r \in DOMAIN Op.responses
          PROVE  new[r] = IF r = at.resp THEN changed ELSE old[r]
      BY <2>1
    <3>3. /\ new = [r \in DOMAIN Op.responses |-> new[r]]
          /\ old = [r \in DOMAIN Op.responses |-> old[r]]
      OBVIOUS
    <3>. HIDE DEF changed, old, new
    <3>4. new = [old EXCEPT ![at.resp] = changed]
      BY <3>1, <3>2, <3>3
    <3>. QED BY <3>4 DEF changed
  <2>3. CompiledSoFar(Op)' =
          [path |-> PathOf(Op), method |-> Op.method, bodyRequired |-> Op.bodyRequired,
           body |-> Kept(Op.body)[BodyDone(Op)], params |-> Kept(Op.params)[ParamsDone],
           responses |-> new]
    BY <1>2, <1>3, <1>7 DEF CompiledSoFar
  <2>4. CompiledSoFar(Op) =
          [path |-> PathOf(Op), method |-> Op.method, bodyRequired |-> Op.bodyRequired,
           body |-> Kept(Op.body)[BodyDone(Op)], params |-> Kept(Op.params)[ParamsDone],
           responses |-> old]
    BY DEF CompiledSoFar
  <2>. DEFINE changed == [old EXCEPT ![at.resp].content = Append(@, Entry)]
  <2>5. Stored(CompiledSoFar(Op), at.part, at.resp, Entry) =
          [CompiledSoFar(Op) EXCEPT !.responses[at.resp].content = Append(@, Entry)]
    <3>. HIDE DEF CompiledSoFar
    <3>. QED BY <1>7, Zenon DEF Stored
  <2>6. CompiledSoFar(Op).responses = old
    BY <2>4
  <2>7. Stored(CompiledSoFar(Op), at.part, at.resp, Entry) =
          [CompiledSoFar(Op) EXCEPT !.responses = changed]
    <3>. HIDE DEF old
    <3>. QED BY <2>5, <2>6
  <2>. HIDE DEF old, new, changed
  <2>8. new = changed
    BY <2>2 DEF changed
  <2>. QED BY <2>3, <2>4, <2>7, <2>8
<1>. QED BY <1>1, <1>5, <1>6, <1>7 DEF Parts

\* Going on to the next list passes no entry.
LEMMA ListPassed ==
  ASSUME PlaceInv, NextList
  PROVE  /\ PlaceInv'
         /\ Op' = Op /\ Operations' = Operations /\ at'.op = at.op
         /\ BodyDone(Op)' = BodyDone(Op) /\ ParamsDone' = ParamsDone
         /\ \A r \in 1..Len(Op.responses) : ContentDone(Op, r)' = ContentDone(Op, r)
<1>1. /\ at \in [op : Nat \ {0}, part : Parts, resp : Nat \ {0}, entry : Nat \ {0}]
      /\ phase = "compile" /\ parsed \in ParsedDocs /\ at.entry = Len(Here) + 1
      /\ at.part \in {"body", "responses"}
      /\ UNCHANGED <<parsed, phase, failed>>
  <2>1. Len(Here) \in Nat
    BY HereIs DEF NextList, AtListEnd
  <2>. QED BY <2>1 DEF PlaceInv, NextList, AtListEnd, Parts, input, verdict
<1>2. /\ at.op \in 1..Len(Operations)
      /\ Len(Op.body) \in Nat /\ Len(Op.params) \in Nat /\ Len(Op.responses) \in Nat
      /\ \A r \in 1..Len(Op.responses) : Len(Op.responses[r].content) \in Nat
  BY <1>1, HereIs, OperationLists, ListIsKept DEF Op
<1>3. at'.op = at.op /\ at'.entry = 1
  BY <1>1 DEF NextList
<1>4. Op' = Op /\ Operations' = Operations
  BY <1>1, <1>3 DEF Op, Operations
<1>5. CASE at.part = "body"
  <2>0. at' = [at EXCEPT !.part = "responses", !.entry = 1] /\ at.resp = 1
    BY <1>1, <1>5 DEF NextList, PlaceInv
  <2>1. at'.part = "responses" /\ at'.resp = 1 /\ at.resp = 1
    BY <1>1, <2>0
  <2>2. at' \in [op : Nat \ {0}, part : Parts, resp : Nat \ {0}, entry : Nat \ {0}]
    BY <1>1, <2>0 DEF Parts
  <2>3. Len(Here) = Len(Op.body) /\ at.entry - 1 = Len(Op.body)
    BY <1>1, <1>2, <1>5, HereIs
  <2>4. Len(Here') \in Nat
    BY <1>1, <1>2, <1>4, <2>1 DEF Here, EntriesAt
  <2>5. PlaceInv'
    BY <1>1, <1>2, <1>3, <1>4, <2>1, <2>2, <2>4 DEF PlaceInv
  <2>6. BodyDone(Op)' = BodyDone(Op) /\ ParamsDone' = ParamsDone
    BY <1>4, <1>5, <2>1, <2>3 DEF BodyDone, ParamsDone
  <2>7. ASSUME NEW r \in 1..Len(Op.responses) PROVE ContentDone(Op, r)' = ContentDone(Op, r)
    BY <1>3, <1>4, <1>5, <2>1, <2>7 DEF ContentDone
  <2>. QED BY <1>3, <1>4, <2>5, <2>6, <2>7
<1>6. CASE at.part = "responses" /\ at.resp < Len(Op.responses)
  <2>0. at' = [at EXCEPT !.resp = at.resp + 1, !.entry = 1]
    BY <1>6 DEF NextList
  <2>1. at'.part = "responses" /\ at'.resp = at.resp + 1
    BY <1>1, <1>6, <2>0
  <2>2. at' \in [op : Nat \ {0}, part : Parts, resp : Nat \ {0}, entry : Nat \ {0}]
    <3>1. at' = [op |-> at.op, part |-> at.part, resp |-> at.resp + 1, entry |-> 1]
      BY <1>1, <2>0
    <3>. QED BY <1>1, <3>1
  <2>3. at.resp \in 1..Len(Op.responses) /\ at.entry - 1 = Len(Op.responses[at.resp].content)
    BY <1>1, <1>2, <1>6, HereIs
  <2>4. Len(Here') \in Nat
    BY <1>1, <1>2, <1>4, <1>6, <2>1 DEF Here, EntriesAt
  <2>5. PlaceInv'
    BY <1>1, <1>2, <1>3, <1>4, <1>6, <2>1, <2>2, <2>4 DEF PlaceInv
  <2>6. BodyDone(Op)' = BodyDone(Op) /\ ParamsDone' = ParamsDone
    BY <1>4, <1>6, <2>1 DEF BodyDone, ParamsDone
  <2>7. ASSUME NEW r \in 1..Len(Op.responses) PROVE ContentDone(Op, r)' = ContentDone(Op, r)
    BY <1>1, <1>2, <1>3, <1>4, <1>6, <2>1, <2>3, <2>7 DEF ContentDone
  <2>. QED BY <1>3, <1>4, <2>5, <2>6, <2>7
<1>7. CASE at.part = "responses" /\ ~(at.resp < Len(Op.responses))
  <2>0. at' = [at EXCEPT !.part = "params", !.entry = 1]
    BY <1>7 DEF NextList
  <2>1. at'.part = "params" /\ at'.resp = at.resp
    BY <1>1, <2>0
  <2>2. at' \in [op : Nat \ {0}, part : Parts, resp : Nat \ {0}, entry : Nat \ {0}]
    <3>1. at' = [op |-> at.op, part |-> "params", resp |-> at.resp, entry |-> 1]
      BY <1>1, <2>0
    <3>. QED BY <1>1, <3>1 DEF Parts
  <2>3. at.resp <= Len(Op.responses) => at.entry - 1 = Len(Op.responses[at.resp].content)
    BY <1>1, <1>2, <1>7, HereIs
  <2>4. Len(Here') \in Nat
    BY <1>1, <1>2, <1>4, <2>1 DEF Here, EntriesAt
  <2>5. PlaceInv'
    BY <1>1, <1>2, <1>3, <1>4, <1>7, <2>1, <2>2, <2>4 DEF PlaceInv
  <2>6. BodyDone(Op)' = BodyDone(Op) /\ ParamsDone' = ParamsDone
    BY <1>3, <1>4, <1>7, <2>1 DEF BodyDone, ParamsDone
  <2>7. ASSUME NEW r \in 1..Len(Op.responses) PROVE ContentDone(Op, r)' = ContentDone(Op, r)
    BY <1>1, <1>2, <1>4, <1>7, <2>1, <2>3, <2>7 DEF ContentDone
  <2>. QED BY <1>3, <1>4, <2>5, <2>6, <2>7
<1>. QED BY <1>1, <1>5, <1>6, <1>7

\* At the end of its parameters all of an operation has been passed.
LEMMA OperationEnds ==
  ASSUME PlaceInv, AtListEnd, at.part = "params"
  PROVE  /\ BodyDone(Op) = Len(Op.body) /\ ParamsDone = Len(Op.params)
         /\ \A r \in 1..Len(Op.responses) : ContentDone(Op, r) = Len(Op.responses[r].content)
         /\ CompiledSoFar(Op) = CompiledFrom(Op)
<1>1. phase = "compile" /\ parsed \in ParsedDocs /\ at.entry > Len(Here)
      /\ at.entry <= Len(Here) + 1 /\ at.entry \in Nat
  BY DEF PlaceInv, AtListEnd
<1>2. Here = Op.params /\ at.op \in 1..Len(Operations) /\ Len(Here) \in Nat
  BY <1>1, HereIs
<1>3. DOMAIN Op.responses = 1..Len(Op.responses)
  BY <1>1, <1>2, OperationLists DEF Op
<1>4. /\ BodyDone(Op) = Len(Op.body) /\ ParamsDone = Len(Op.params)
      /\ \A r \in 1..Len(Op.responses) : ContentDone(Op, r) = Len(Op.responses[r].content)
  BY <1>1, <1>2 DEF BodyDone, ParamsDone, ContentDone
<1>. QED BY <1>3, <1>4 DEF CompiledSoFar, CompiledFrom, WithSchema

\* The first entry of the operation that is begun.
LEMMA PlaceStarts ==
  ASSUME PlaceInv, NEW op \in 1..Len(Operations), at' = Start(op), parsed' = parsed,
         phase' = "compile"
  PROVE  /\ PlaceInv'
         /\ Op' = Operations[op] /\ Operations' = Operations
         /\ BodyDone(Op)' = 0 /\ ParamsDone' = 0
         /\ \A r \in 1..Len(Operations[op].responses) : ContentDone(Op, r)' = 0
         /\ CompiledSoFar(Op)' = Blank(Operations[op])
<1>1. /\ IsList(Operations[op].body) /\ IsList(Operations[op].params)
      /\ IsList(Operations[op].responses)
      /\ \A r \in 1..Len(Operations[op].responses) : IsList(Operations[op].responses[r].content)
      /\ parsed \in ParsedDocs /\ Len(Operations) \in Nat
  <2>1. parsed \in ParsedDocs
    BY DEF PlaceInv
  <2>. QED BY <2>1, OperationLists, DocCompilerAssumption DEF Operations
<1>2. at'.op = op /\ at'.part = "body" /\ at'.resp = 1 /\ at'.entry = 1
      /\ at' \in [op : Nat \ {0}, part : Parts, resp : Nat \ {0}, entry : Nat \ {0}]
  BY <1>1 DEF Start, Parts
<1>3. Op' = Operations[op] /\ Operations' = Operations
  BY <1>2 DEF Op, Operations
<1>4. Here' = Operations[op].body /\ Len(Here') \in Nat
  BY <1>1, <1>2, <1>3, ListIsKept DEF Here, EntriesAt
<1>5. PlaceInv'
  BY <1>1, <1>2, <1>3, <1>4 DEF PlaceInv
<1>6. /\ BodyDone(Op)' = 0 /\ ParamsDone' = 0
      /\ \A r \in 1..Len(Operations[op].responses) : ContentDone(Op, r)' = 0
  BY <1>2, <1>3 DEF BodyDone, ParamsDone, ContentDone
<1>7. CompiledSoFar(Op)' = Blank(Operations[op])
  <2>1. /\ Kept(Operations[op].body)[0] = <<>> /\ Kept(Operations[op].params)[0] = <<>>
        /\ DOMAIN Operations[op].responses = 1..Len(Operations[op].responses)
        /\ \A r \in 1..Len(Operations[op].responses) :
             Kept(Operations[op].responses[r].content)[0] = <<>>
    BY <1>1, ListIsKept
  <2>2. PathOf(Op)' = PathOf(Operations[op])
    BY <1>3 DEF PathOf
  <2>. QED BY <1>3, <1>6, <2>1, <2>2 DEF CompiledSoFar, Blank
<1>. QED BY <1>3, <1>5, <1>6, <1>7

LEMMA PlaceInductive == PlaceInv /\ [Next]_docVars => PlaceInv'
<1>. SUFFICES ASSUME PlaceInv, [Next]_docVars PROVE PlaceInv'
  OBVIOUS
<1>1. CASE Begin \/ BeginFails \/ MakeMatcher \/ MatcherFails \/ OperationsFail
  BY <1>1 DEF Begin, BeginFails, MakeMatcher, MatcherFails, OperationsFail, GoToFail, PlaceInv,
              input, building, verdict
<1>2. CASE AllocateOperations
  <2>1. at' = Start(1) /\ parsed' = parsed /\ UNCHANGED failed /\ ~failed
    BY <1>2 DEF AllocateOperations, PlaceInv, input, verdict
  <2>2. CASE Operations # <<>>
    <3>1. IsList(Operations)
      BY DocCompilerAssumption DEF PlaceInv, Operations
    <3>2. 1 \in 1..Len(Operations)
      BY <2>2, <3>1, EmptySeq, LenProperties DEF IsList
    <3>. QED BY <1>2, <2>1, <2>2, <3>2, PlaceStarts DEF AllocateOperations
  <2>3. CASE Operations = <<>>
    BY <1>2, <2>1, <2>3 DEF AllocateOperations, PlaceInv
  <2>. QED BY <2>2, <2>3
<1>3. CASE SkipEntry \/ SchemaFails \/ CompileEntry
  BY <1>3, EntryPassed
     DEF SkipEntry, SchemaFails, CompileEntry, Compilable, AtEntry, input, verdict
<1>4. CASE ArrayFails \/ TrackFails
  BY <1>4 DEF ArrayFails, TrackFails, GoToFail, PlaceInv, input, building, verdict
<1>5. CASE NextList
  BY <1>5, ListPassed
<1>6. CASE NextOperation
  <2>1. at.op + 1 \in 1..Len(Operations)
    <3>1. Len(Operations) \in Nat /\ at.op \in Nat
      BY <1>6, HereIs, OperationLists DEF NextOperation, AtListEnd, PlaceInv
    <3>. QED BY <1>6, <3>1 DEF NextOperation
  <2>. QED BY <1>6, <2>1, PlaceStarts DEF NextOperation, AtListEnd, input
<1>7. CASE LastOperation \/ Finish \/ FinishFailed \/ Free \/ FreeSchema \/ ReleaseRest
  BY <1>7 DEF LastOperation, Finish, FinishFailed, Free, FreeSchema, ReleaseRest, GoToFail,
              PlaceInv, input, building, verdict
<1>8. CASE UNCHANGED docVars
  BY <1>8 DEF docVars, PlaceInv, Here, Op, Operations
<1>. QED BY <1>1, <1>2, <1>3, <1>4, <1>5, <1>6, <1>7, <1>8 DEF Next, Compiling

\* One more operation is compiled whole.
LEMMA OperationCompiled ==
  ASSUME PlaceInv, CompleteInv, ~failed, AtListEnd, at.part = "params"
  PROVE  /\ Append(compiled, out) \in Seq({CompiledFrom(Operations[k]) : k \in 1..Len(Operations)})
         /\ Len(Append(compiled, out)) = at.op
         /\ \A k \in 1..at.op : Append(compiled, out)[k] = CompiledFrom(Operations[k])
<1>. DEFINE All == {CompiledFrom(Operations[k]) : k \in 1..Len(Operations)}
<1>1. phase = "compile" /\ at.op \in 1..Len(Operations) /\ Len(Operations) \in Nat
  BY HereIs, OperationLists DEF AtListEnd, PlaceInv
<1>2. out = CompiledFrom(Operations[at.op])
  BY <1>1, OperationEnds DEF CompleteInv, Op
<1>3. /\ compiled \in Seq(All) /\ Len(compiled) = at.op - 1
      /\ \A k \in 1..Len(compiled) : compiled[k] = CompiledFrom(Operations[k])
  BY <1>1 DEF CompleteInv
<1>4. out \in All
  BY <1>1, <1>2
<1>5. /\ Append(compiled, out) \in Seq(All)
      /\ Len(Append(compiled, out)) = Len(compiled) + 1
      /\ \A k \in 1..Len(compiled) : Append(compiled, out)[k] = compiled[k]
      /\ Append(compiled, out)[Len(compiled) + 1] = out
  <2>. HIDE DEF All
  <2>. QED BY <1>3, <1>4, AppendProperties
<1>6. ASSUME NEW k \in 1..at.op PROVE Append(compiled, out)[k] = CompiledFrom(Operations[k])
  BY <1>1, <1>2, <1>3, <1>5
<1>. QED BY <1>1, <1>3, <1>5, <1>6

LEMMA CompleteInductive == PlaceInv /\ CompleteInv /\ [Next]_docVars => CompleteInv'
<1>. SUFFICES ASSUME PlaceInv, CompleteInv, [Next]_docVars PROVE CompleteInv'
  OBVIOUS
<1>0. IsList(Operations) /\ Len(Operations) \in Nat
  BY DocCompilerAssumption, ListIsKept DEF PlaceInv, Operations
<1>1. CASE Begin \/ BeginFails \/ MakeMatcher \/ MatcherFails \/ OperationsFail
  BY <1>1 DEF Begin, BeginFails, MakeMatcher, MatcherFails, OperationsFail, GoToFail,
              CompleteInv, input, building, verdict
<1>2. CASE AllocateOperations
  <2>1. /\ at' = Start(1) /\ UNCHANGED <<parsed, compiled, failed, outcome>> /\ compiled = <<>>
        /\ Operations' = Operations /\ outcome # "compiled"
    BY <1>2 DEF AllocateOperations, PlaceInv, CompleteInv, input, verdict, Operations
  <2>2. Len(compiled) = 0 /\ compiled \in Seq({CompiledFrom(Operations[k]) : k \in 1..Len(Operations)})
    BY <2>1, EmptySeq
  <2>3. CASE Operations # <<>>
    <3>1. 1 \in 1..Len(Operations)
      BY <1>0, <2>3, EmptySeq, LenProperties DEF IsList
    <3>2. phase' = "compile" /\ out' = Blank(Operations[1]) /\ at'.op = 1
      BY <1>2, <2>1, <2>3 DEF AllocateOperations, Start
    <3>3. CompiledSoFar(Op)' = out'
      BY <2>1, <3>1, <3>2, PlaceStarts
    <3>4. \A k : CompiledFrom(Operations[k])' = CompiledFrom(Operations[k])
      BY <2>1 DEF CompiledFrom, PathOf
    <3>. QED BY <2>1, <2>2, <3>2, <3>3, <3>4 DEF CompleteInv
  <2>4. CASE Operations = <<>>
    <3>1. phase' = "check" /\ Len(Operations) = 0
      BY <1>2, <2>4, EmptySeq DEF AllocateOperations
    <3>2. \A k : CompiledFrom(Operations[k])' = CompiledFrom(Operations[k])
      BY <2>1 DEF CompiledFrom, PathOf
    <3>. QED BY <2>1, <2>2, <3>1, <3>2 DEF CompleteInv
  <2>. QED BY <2>3, <2>4
<1>3. CASE SkipEntry
  <2>1. AtEntry /\ UNCHANGED <<parsed, phase, compiled, out, failed, outcome>>
        /\ at' = [at EXCEPT !.entry = @ + 1]
    BY <1>3 DEF SkipEntry, input, verdict
  <2>2. at'.op = at.op /\ CompiledSoFar(Op)' = CompiledSoFar(Op) /\ Operations' = Operations
    BY <1>3, <2>1, EntryPassed, SoFarSkipped
  <2>3. \A k : CompiledFrom(Operations[k])' = CompiledFrom(Operations[k])
    BY <2>1 DEF CompiledFrom, PathOf, Operations
  <2>. QED BY <2>1, <2>2, <2>3 DEF CompleteInv, AtEntry
<1>4. CASE CompileEntry
  <2>1. AtEntry /\ UNCHANGED <<parsed, phase, compiled, failed, outcome>>
        /\ at' = [at EXCEPT !.entry = @ + 1]
    BY <1>4 DEF CompileEntry, Compilable, input, verdict
  <2>2. at'.op = at.op /\ Operations' = Operations
        /\ CompiledSoFar(Op)' = Stored(CompiledSoFar(Op), at.part, at.resp, Entry)
    BY <1>4, <2>1, EntryPassed, SoFarStored
  <2>3. \A k : CompiledFrom(Operations[k])' = CompiledFrom(Operations[k])
    BY <2>1 DEF CompiledFrom, PathOf, Operations
  <2>4. ~failed => out' = CompiledSoFar(Op)'
    BY <1>4, <2>1, <2>2 DEF CompleteInv, CompileEntry, AtEntry
  <2>. QED BY <2>1, <2>2, <2>3, <2>4 DEF CompleteInv, AtEntry
<1>5. CASE SchemaFails
  BY <1>5 DEF SchemaFails, AtEntry, CompleteInv, input
<1>6. CASE ArrayFails \/ TrackFails \/ FinishFailed \/ Free
  BY <1>6 DEF ArrayFails, TrackFails, FinishFailed, Free, GoToFail, CompleteInv
<1>7. CASE NextList
  <2>1. UNCHANGED <<parsed, phase, compiled, out, failed, outcome>> /\ phase = "compile"
    BY <1>7 DEF NextList, AtListEnd, input, verdict
  <2>2. /\ at'.op = at.op /\ Op' = Op /\ Operations' = Operations
        /\ BodyDone(Op)' = BodyDone(Op) /\ ParamsDone' = ParamsDone
        /\ \A r \in 1..Len(Op.responses) : ContentDone(Op, r)' = ContentDone(Op, r)
    BY <1>7, ListPassed
  <2>3. \A k : CompiledFrom(Operations[k])' = CompiledFrom(Operations[k])
    BY <2>1 DEF CompiledFrom, PathOf, Operations
  <2>4. CompiledSoFar(Op)' = CompiledSoFar(Op)
    <3>1. DOMAIN Op.responses = 1..Len(Op.responses) /\ PathOf(Op)' = PathOf(Op)
      BY <2>1, <2>2, HereIs, OperationLists DEF PlaceInv, Op, PathOf
    <3>. QED BY <2>2, <3>1 DEF CompiledSoFar
  <2>. QED BY <2>1, <2>2, <2>3, <2>4 DEF CompleteInv
<1>8. CASE NextOperation
  <2>1. /\ AtListEnd /\ at.part = "params" /\ at' = Start(at.op + 1)
        /\ out' = Blank(Operations[at.op + 1]) /\ compiled' = Append(compiled, out)
        /\ UNCHANGED <<parsed, phase, failed, outcome>> /\ phase = "compile"
    BY <1>8 DEF NextOperation, AtListEnd, input, verdict
  <2>2. at.op + 1 \in 1..Len(Operations) /\ at.op \in Nat
    BY <1>0, <1>8, <2>1, HereIs DEF NextOperation
  <2>3. CompiledSoFar(Op)' = out' /\ Operations' = Operations
    BY <2>1, <2>2, PlaceStarts
  <2>4. at'.op = at.op + 1
    BY <2>1 DEF Start
  <2>5. \A k : CompiledFrom(Operations[k])' = CompiledFrom(Operations[k])
    BY <2>1 DEF CompiledFrom, PathOf, Operations
  <2>. QED BY <2>1, <2>2, <2>3, <2>4, <2>5, OperationCompiled DEF CompleteInv
<1>9. CASE LastOperation
  <2>1. /\ AtListEnd /\ at.part = "params" /\ at.op = Len(Operations)
        /\ compiled' = Append(compiled, out) /\ phase' = "check"
        /\ UNCHANGED <<parsed, failed, outcome>> /\ phase = "compile"
    BY <1>9 DEF LastOperation, AtListEnd, input, verdict
  <2>2. Operations' = Operations /\ \A k : CompiledFrom(Operations[k])' = CompiledFrom(Operations[k])
    BY <2>1 DEF CompiledFrom, PathOf, Operations
  <2>. QED BY <2>1, <2>2, OperationCompiled DEF CompleteInv
<1>10. CASE Finish
  <2>1. /\ phase = "check" /\ ~failed /\ phase' = "ready"
        /\ UNCHANGED <<parsed, compiled, failed>>
    BY <1>10 DEF Finish, input, building, verdict
  <2>2. Operations' = Operations /\ \A k : CompiledFrom(Operations[k])' = CompiledFrom(Operations[k])
    BY <2>1 DEF CompiledFrom, PathOf, Operations
  <2>. QED BY <2>1, <2>2 DEF CompleteInv
<1>11. CASE FreeSchema \/ ReleaseRest
  BY <1>11 DEF FreeSchema, ReleaseRest, CompleteInv, building, verdict
<1>12. CASE UNCHANGED docVars
  <2>1. UNCHANGED <<parsed, phase, at, out, compiled, failed, outcome>>
    BY <1>12 DEF docVars
  <2>2. Operations' = Operations /\ \A k : CompiledFrom(Operations[k])' = CompiledFrom(Operations[k])
    BY <2>1 DEF CompiledFrom, PathOf, Operations
  <2>3. CompiledSoFar(Op)' = CompiledSoFar(Op)
    BY <2>1 DEF CompiledSoFar, PathOf, Op, Operations, BodyDone, ContentDone, ParamsDone
  <2>. QED BY <2>1, <2>2, <2>3 DEF CompleteInv
<1>. QED BY <1>1, <1>2, <1>3, <1>4, <1>5, <1>6, <1>7, <1>8, <1>9, <1>10, <1>11, <1>12
         DEF Next, Compiling

\* All of an operation's entries are in its lists.
LEMMA EntriesAreListed ==
  ASSUME parsed \in ParsedDocs, NEW k \in 1..Len(Operations), NEW e \in EntriesOf(Operations[k])
  PROVE  \/ \E j \in 1..Len(Operations[k].body) : e = Operations[k].body[j]
         \/ \E j \in 1..Len(Operations[k].params) : e = Operations[k].params[j]
         \/ \E r \in 1..Len(Operations[k].responses) :
              \E j \in 1..Len(Operations[k].responses[r].content) :
                e = Operations[k].responses[r].content[j]
<1>1. /\ DOMAIN Operations[k].body = 1..Len(Operations[k].body)
      /\ DOMAIN Operations[k].params = 1..Len(Operations[k].params)
      /\ DOMAIN Operations[k].responses = 1..Len(Operations[k].responses)
      /\ \A r \in 1..Len(Operations[k].responses) :
           DOMAIN Operations[k].responses[r].content = 1..Len(Operations[k].responses[r].content)
  BY OperationLists, ListIsKept
<1>. QED BY <1>1 DEF EntriesOf

LEMMA EntryIsOfSchemas ==
  ASSUME PlaceInv, AtEntry, Entry.schema # NoSchema
  PROVE  Entry.schema \in SchemasOf(parsed)
<1>1. /\ parsed \in ParsedDocs /\ at.op \in 1..Len(Operations)
      /\ DOMAIN Operations = 1..Len(Operations) /\ at.part \in Parts
  BY HereIs, OperationLists DEF PlaceInv, AtEntry
<1>2. /\ DOMAIN Op.body = 1..Len(Op.body) /\ DOMAIN Op.params = 1..Len(Op.params)
      /\ DOMAIN Op.responses = 1..Len(Op.responses)
      /\ \A r \in 1..Len(Op.responses) :
           DOMAIN Op.responses[r].content = 1..Len(Op.responses[r].content)
  BY <1>1, OperationLists, ListIsKept DEF Op
<1>3. Entry \in EntriesOf(Op)
  <2>1. CASE at.part = "body"
    BY <1>2, <2>1, EntryIsNext DEF EntriesOf
  <2>2. CASE at.part = "params"
    BY <1>2, <2>2, EntryIsNext DEF EntriesOf
  <2>3. CASE at.part = "responses"
    BY <1>2, <2>3, EntryIsNext DEF EntriesOf
  <2>. QED BY <1>1, <2>1, <2>2, <2>3 DEF Parts
<1>4. Op = parsed.operations[at.op] /\ at.op \in DOMAIN parsed.operations
  BY <1>1 DEF Op, Operations
<1>5. Entry.schema \in {e.schema : e \in EntriesOf(parsed.operations[at.op])}
  BY <1>3, <1>4
<1>. QED BY <1>4, <1>5 DEF SchemasOf

\* An entry that is passed while errors only grows, and that it is added to when
\* it is bad, keeps what has been passed reported.
LEMMA ReportedSoFar ==
  ASSUME PlaceInv, ReportInv, AtEntry, ~scarce,
         at' = [at EXCEPT !.entry = @ + 1], UNCHANGED <<parsed, phase>>,
         ~failed' => ~failed, errors \subseteq errors',
         Entry.schema \in BadSchemas /\ Entry.schema # NoSchema => Entry.schema \in errors'
  PROVE  /\ \A k \in 1..(at.op - 1) : \A e \in EntriesOf(Operations[k]) : Reported(e)'
         /\ \A j \in 1..BodyDone(Op)' : Reported(Op.body[j])'
         /\ \A r \in 1..Len(Op.responses) :
              \A j \in 1..ContentDone(Op, r)' : Reported(Op.responses[r].content[j])'
         /\ \A j \in 1..ParamsDone' : Reported(Op.params[j])'
<1>0. /\ BodyDone(Op) \in Nat /\ ParamsDone \in Nat
      /\ \A r \in 1..Len(Op.responses) : ContentDone(Op, r) \in Nat
      /\ at.op \in 1..Len(Operations)
  BY CountsAreNat, HereIs DEF AtEntry
<1>1. \A e : Reported(e) => (e.schema \in BadSchemas /\ e.schema # NoSchema => e.schema \in errors')
  BY DEF Reported
<1>2. Op' = Op /\ Operations' = Operations
  BY EntryPassed
<1>3. \A k \in 1..(at.op - 1) : \A e \in EntriesOf(Operations[k]) : Reported(e)'
  BY <1>1 DEF ReportInv, AtEntry, Reported
<1>4. \A j \in 1..BodyDone(Op)' : Reported(Op.body[j])'
  <2>1. BodyDone(Op)' = BodyDone(Op) + (IF at.part = "body" THEN 1 ELSE 0)
    BY EntryPassed
  <2>2. \A j \in 1..BodyDone(Op) : Reported(Op.body[j])
    BY DEF ReportInv, AtEntry
  <2>3. ASSUME NEW j \in 1..BodyDone(Op)', j \notin 1..BodyDone(Op)
        PROVE  Op.body[j] = Entry
    BY <1>0, <2>1, <2>3, EntryIsNext
  <2>. QED BY <1>1, <1>2, <2>2, <2>3 DEF Reported
<1>5. \A j \in 1..ParamsDone' : Reported(Op.params[j])'
  <2>1. ParamsDone' = ParamsDone + (IF at.part = "params" THEN 1 ELSE 0)
    BY EntryPassed
  <2>2. \A j \in 1..ParamsDone : Reported(Op.params[j])
    BY DEF ReportInv, AtEntry
  <2>3. ASSUME NEW j \in 1..ParamsDone', j \notin 1..ParamsDone
        PROVE  Op.params[j] = Entry
    BY <1>0, <2>1, <2>3, EntryIsNext
  <2>. QED BY <1>1, <1>2, <2>2, <2>3 DEF Reported
<1>6. ASSUME NEW r \in 1..Len(Op.responses)
      PROVE  \A j \in 1..ContentDone(Op, r)' : Reported(Op.responses[r].content[j])'
  <2>1. ContentDone(Op, r)' =
          ContentDone(Op, r) + (IF at.part = "responses" /\ r = at.resp THEN 1 ELSE 0)
    BY EntryPassed
  <2>2. \A j \in 1..ContentDone(Op, r) : Reported(Op.responses[r].content[j])
    BY DEF ReportInv, AtEntry
  <2>3. ASSUME NEW j \in 1..ContentDone(Op, r)', j \notin 1..ContentDone(Op, r)
        PROVE  Op.responses[r].content[j] = Entry
    BY <1>0, <2>1, <2>3, EntryIsNext
  <2>. QED BY <1>1, <1>2, <2>2, <2>3 DEF Reported
<1>. QED BY <1>3, <1>4, <1>5, <1>6

\* When its last list is through, all of an operation is reported.
LEMMA OperationReported ==
  ASSUME PlaceInv, ReportInv, ~scarce, AtListEnd, at.part = "params"
  PROVE  \A k \in 1..at.op : \A e \in EntriesOf(Operations[k]) : Reported(e)
<1>1. /\ parsed \in ParsedDocs /\ at.op \in 1..Len(Operations) /\ phase = "compile"
      /\ Len(Operations) \in Nat
  BY HereIs, OperationLists DEF PlaceInv, AtListEnd
<1>2. ASSUME NEW e \in EntriesOf(Op) PROVE Reported(e)
  <2>1. \/ \E j \in 1..Len(Op.body) : e = Op.body[j]
        \/ \E j \in 1..Len(Op.params) : e = Op.params[j]
        \/ \E r \in 1..Len(Op.responses) :
             \E j \in 1..Len(Op.responses[r].content) : e = Op.responses[r].content[j]
    BY <1>1, EntriesAreListed DEF Op
  <2>2. /\ BodyDone(Op) = Len(Op.body) /\ ParamsDone = Len(Op.params)
        /\ \A r \in 1..Len(Op.responses) : ContentDone(Op, r) = Len(Op.responses[r].content)
    BY OperationEnds
  <2>. QED BY <1>1, <2>1, <2>2 DEF ReportInv
<1>3. \A k \in 1..(at.op - 1) : \A e \in EntriesOf(Operations[k]) : Reported(e)
  BY <1>1 DEF ReportInv
<1>4. \A k \in 1..at.op : k = at.op \/ k \in 1..(at.op - 1)
  BY <1>1
<1>. QED BY <1>2, <1>3, <1>4 DEF Op

LEMMA ReportInductive == PlaceInv /\ CompleteInv /\ ReportInv /\ [Next]_docVars => ReportInv'
<1>. SUFFICES ASSUME PlaceInv, CompleteInv, ReportInv, [Next]_docVars PROVE ReportInv'
  OBVIOUS
<1>0. UNCHANGED <<parsed, scarce>> /\ Operations' = Operations
  BY DEF Next, Compiling, Begin, BeginFails, MakeMatcher, MatcherFails, AllocateOperations,
         OperationsFail, ArrayFails, SkipEntry, SchemaFails, TrackFails, CompileEntry, NextList,
         NextOperation, LastOperation, Finish, FinishFailed, Free, FreeSchema, ReleaseRest,
         GoToFail, input, docVars, Operations
<1>1. CASE Begin \/ BeginFails \/ MakeMatcher \/ MatcherFails \/ OperationsFail
  <2>1. errors' = errors /\ failed' = failed /\ ~failed /\ phase' # "compile"
    BY <1>1 DEF Begin, BeginFails, MakeMatcher, MatcherFails, OperationsFail, GoToFail, PlaceInv,
                verdict
  <2>. QED BY <1>0, <2>1 DEF ReportInv
<1>2. CASE AllocateOperations
  <2>1. errors' = errors /\ failed' = failed /\ ~failed /\ at' = Start(1)
    BY <1>2 DEF AllocateOperations, PlaceInv, verdict
  <2>2. CASE Operations # <<>>
    <3>1. IsList(Operations)
      BY DocCompilerAssumption DEF PlaceInv, Operations
    <3>2. 1 \in 1..Len(Operations) /\ phase' = "compile"
      BY <1>2, <2>2, <3>1, EmptySeq, LenProperties DEF IsList, AllocateOperations
    <3>3. /\ Op' = Operations[1] /\ at'.op = 1
          /\ BodyDone(Op)' = 0 /\ ParamsDone' = 0
          /\ \A r \in 1..Len(Operations[1].responses) : ContentDone(Op, r)' = 0
      BY <1>0, <2>1, <3>2, PlaceStarts DEF Start
    <3>. QED BY <1>0, <2>1, <3>2, <3>3 DEF ReportInv
  <2>3. CASE Operations = <<>>
    <3>1. phase' = "check"
      BY <1>2, <2>3 DEF AllocateOperations
    <3>. QED BY <1>0, <2>1, <2>3, <3>1 DEF ReportInv
  <2>. QED BY <2>2, <2>3
<1>3. CASE SkipEntry \/ SchemaFails \/ CompileEntry
  <2>1. /\ AtEntry /\ at' = [at EXCEPT !.entry = @ + 1] /\ UNCHANGED <<parsed, phase>>
        /\ ~failed' => ~failed
        /\ phase' = "compile"
    BY <1>3 DEF SkipEntry, SchemaFails, CompileEntry, Compilable, AtEntry, input, verdict
  <2>2. /\ errors' = errors \/ (errors' = errors \cup {Entry.schema} /\ Entry.schema # NoSchema
                                /\ Entry.schema \in BadSchemas)
        /\ ~scarce /\ Entry.schema \in BadSchemas /\ Entry.schema # NoSchema
             => Entry.schema \in errors'
    BY <1>3, DocCompilerAssumption
       DEF SkipEntry, SchemaFails, Report, CompileEntry, Compilable, verdict
  <2>3. errors \subseteq errors' /\ errors' \subseteq SchemasOf(parsed) \cap BadSchemas
    BY <2>1, <2>2, EntryIsOfSchemas DEF ReportInv
  <2>4. Op' = Op /\ at'.op = at.op
    BY <2>1, EntryPassed
  <2>5. CASE ~scarce
    <3>1. /\ \A k \in 1..(at.op - 1) : \A e \in EntriesOf(Operations[k]) : Reported(e)'
          /\ \A j \in 1..BodyDone(Op)' : Reported(Op.body[j])'
          /\ \A r \in 1..Len(Op.responses) :
               \A j \in 1..ContentDone(Op, r)' : Reported(Op.responses[r].content[j])'
          /\ \A j \in 1..ParamsDone' : Reported(Op.params[j])'
      BY <2>1, <2>2, <2>3, <2>5, ReportedSoFar
    <3>. QED BY <1>0, <2>1, <2>3, <2>4, <3>1 DEF ReportInv
  <2>6. CASE scarce
    BY <1>0, <2>3, <2>6 DEF ReportInv
  <2>. QED BY <2>5, <2>6
<1>4. CASE ArrayFails \/ TrackFails
  <2>1. scarce /\ errors' = errors
    BY <1>4 DEF ArrayFails, TrackFails, GoToFail, verdict
  <2>. QED BY <1>0, <2>1 DEF ReportInv
<1>5. CASE NextList
  <2>1. errors' = errors /\ phase' = "compile" /\ phase = "compile"
    BY <1>5 DEF NextList, AtListEnd, verdict
  <2>2. /\ at'.op = at.op /\ Op' = Op
        /\ BodyDone(Op)' = BodyDone(Op) /\ ParamsDone' = ParamsDone
        /\ \A r \in 1..Len(Op.responses) : ContentDone(Op, r)' = ContentDone(Op, r)
    BY <1>5, ListPassed
  <2>. QED BY <1>0, <2>1, <2>2 DEF ReportInv, Reported
<1>6. CASE NextOperation
  <2>1. /\ AtListEnd /\ at.part = "params" /\ at' = Start(at.op + 1) /\ at.op < Len(Operations)
        /\ errors' = errors /\ phase' = "compile" /\ phase = "compile"
    BY <1>6 DEF NextOperation, AtListEnd, verdict
  <2>2. at.op \in 1..Len(Operations) /\ Len(Operations) \in Nat
    BY <2>1, HereIs, OperationLists DEF PlaceInv
  <2>3. at.op + 1 \in 1..Len(Operations) /\ at'.op = at.op + 1 /\ (at.op + 1) - 1 = at.op
    BY <2>1, <2>2 DEF Start
  <2>4. /\ Op' = Operations[at.op + 1]
        /\ BodyDone(Op)' = 0 /\ ParamsDone' = 0
        /\ \A r \in 1..Len(Operations[at.op + 1].responses) : ContentDone(Op, r)' = 0
    BY <1>0, <2>1, <2>3, PlaceStarts
  <2>5. ~scarce => \A k \in 1..at.op : \A e \in EntriesOf(Operations[k]) : Reported(e)
    BY <2>1, OperationReported
  <2>6. \A e : Reported(e)' <=> Reported(e)
    BY <2>1 DEF Reported
  <2>7. ASSUME ~scarce
        PROVE  (/\ \A k \in 1..(at.op - 1) : \A e \in EntriesOf(Operations[k]) : Reported(e)
                /\ \A j \in 1..BodyDone(Op) : Reported(Op.body[j])
                /\ \A r \in 1..Len(Op.responses) :
                     \A j \in 1..ContentDone(Op, r) : Reported(Op.responses[r].content[j])
                /\ \A j \in 1..ParamsDone : Reported(Op.params[j]))'
    <3>1. (\A k \in 1..(at.op - 1) : \A e \in EntriesOf(Operations[k]) : Reported(e))'
      BY <1>0, <2>3, <2>5, <2>6, <2>7
    <3>2. \A j : j \notin 1..0
      OBVIOUS
    <3>3. (/\ \A j \in 1..BodyDone(Op) : Reported(Op.body[j])
           /\ \A j \in 1..ParamsDone : Reported(Op.params[j]))'
      BY <2>4, <3>2
    <3>4. (\A r \in 1..Len(Op.responses) :
             \A j \in 1..ContentDone(Op, r) : Reported(Op.responses[r].content[j]))'
      BY <2>4, <3>2
    <3>. QED BY <3>1, <3>3, <3>4, Zenon
  <2>8. (errors \subseteq SchemasOf(parsed) \cap BadSchemas)'
    BY <1>0, <2>1 DEF ReportInv
  <2>9. phase' \notin {"check", "release", "over"} /\ (~scarce' => ~scarce)
    BY <1>0, <2>1
  <2>10. (~scarce /\ phase = "compile" =>
           /\ \A k \in 1..(at.op - 1) : \A e \in EntriesOf(Operations[k]) : Reported(e)
           /\ \A j \in 1..BodyDone(Op) : Reported(Op.body[j])
           /\ \A r \in 1..Len(Op.responses) :
                \A j \in 1..ContentDone(Op, r) : Reported(Op.responses[r].content[j])
           /\ \A j \in 1..ParamsDone : Reported(Op.params[j]))'
    BY <2>7, <2>9, Zenon
  <2>. QED BY <2>8, <2>9, <2>10, Zenon DEF ReportInv
<1>7. CASE LastOperation
  <2>1. /\ AtListEnd /\ at.part = "params" /\ at.op = Len(Operations)
        /\ errors' = errors /\ phase' = "check" /\ phase = "compile"
    BY <1>7 DEF LastOperation, AtListEnd, verdict
  <2>2. DOMAIN Operations = 1..at.op
    BY <2>1, HereIs, OperationLists DEF PlaceInv
  <2>3. ~scarce => \A k \in 1..at.op : \A e \in EntriesOf(Operations[k]) : Reported(e)
    BY <2>1, OperationReported
  <2>. QED BY <1>0, <2>1, <2>2, <2>3 DEF ReportInv, Reported
<1>8. CASE Finish \/ FinishFailed \/ FreeSchema \/ ReleaseRest
  <2>1. /\ errors' = errors /\ failed' = failed /\ phase' # "compile"
        /\ failed /\ phase' \in {"check", "release", "over"} => phase \in {"check", "release"}
    BY <1>8 DEF Finish, FinishFailed, FreeSchema, ReleaseRest, GoToFail, verdict
  <2>. QED BY <1>0, <2>1 DEF ReportInv, Reported
<1>9. CASE Free
  BY <1>0, <1>9 DEF Free, CompleteInv, ReportInv, verdict
<1>10. CASE UNCHANGED docVars
  <2>1. UNCHANGED <<parsed, scarce, phase, at, failed, errors>>
    BY <1>10 DEF docVars
  <2>2. Operations' = Operations /\ Op' = Op
    BY <2>1 DEF Op, Operations
  <2>3. /\ BodyDone(Op)' = BodyDone(Op) /\ ParamsDone' = ParamsDone
        /\ \A r : ContentDone(Op, r)' = ContentDone(Op, r)
    BY <2>1, <2>2 DEF BodyDone, ContentDone, ParamsDone
  <2>4. \A e : Reported(e)' <=> Reported(e)
    BY <2>1 DEF Reported
  <2>. QED BY <2>1, <2>2, <2>3, <2>4 DEF ReportInv
<1>. QED BY <1>1, <1>2, <1>3, <1>4, <1>5, <1>6, <1>7, <1>8, <1>9, <1>10 DEF Next, Compiling

LEMMA ProgressInitially == Init => PlaceInv /\ CompleteInv /\ ReportInv
<1>. SUFFICES ASSUME Init PROVE PlaceInv /\ CompleteInv /\ ReportInv
  OBVIOUS
<1>1. at = Start(1) /\ Start(1) \in [op : Nat \ {0}, part : Parts, resp : Nat \ {0}, entry : Nat \ {0}]
  BY DEF Init, Start, Parts
<1>. QED BY <1>1 DEF Init, PlaceInv, CompleteInv, ReportInv

LEMMA ProgressMeans ==
  PlaceInv /\ CompleteInv /\ ReportInv => CompiledDocIsComplete /\ EveryBadPatternReported
<1>. SUFFICES ASSUME PlaceInv, CompleteInv, ReportInv
              PROVE  CompiledDocIsComplete /\ EveryBadPatternReported
  OBVIOUS
<1>1. ASSUME outcome = "compiled"
      PROVE  /\ Len(compiled) = Len(Operations)
             /\ \A k \in DOMAIN compiled : compiled[k] = CompiledFrom(Operations[k])
  <2>1. /\ compiled \in Seq({CompiledFrom(Operations[k]) : k \in 1..Len(Operations)})
        /\ \A k \in 1..Len(compiled) : compiled[k] = CompiledFrom(Operations[k])
        /\ Len(compiled) = Len(Operations)
    BY <1>1 DEF CompleteInv
  <2>. QED BY <2>1, LenProperties
<1>2. ASSUME failed, phase = "over", ~scarce
      PROVE  errors = SchemasOf(parsed) \cap BadSchemas
  <2>1. ASSUME NEW s \in SchemasOf(parsed), s \in BadSchemas PROVE s \in errors
    <3>1. PICK k \in DOMAIN Operations : \E e \in EntriesOf(Operations[k]) : s = e.schema
      BY <2>1 DEF SchemasOf, Operations
    <3>2. s # NoSchema
      BY <2>1 DEF SchemasOf
    <3>. QED BY <1>2, <2>1, <3>1, <3>2 DEF ReportInv, Reported
  <2>. QED BY <2>1 DEF ReportInv
<1>. QED BY <1>1, <1>2 DEF CompiledDocIsComplete, EveryBadPatternReported

LEMMA ProgressInvariant == Spec => [](PlaceInv /\ CompleteInv /\ ReportInv)
<1>1. PlaceInv /\ CompleteInv /\ ReportInv /\ [Next]_docVars => (PlaceInv /\ CompleteInv /\ ReportInv)'
  BY PlaceInductive, CompleteInductive, ReportInductive
<1>. QED BY <1>1, ProgressInitially, PTL DEF Spec

\* A document that oas_doc_compile returns has every operation, and of each every
\* body, response and parameter that has a schema, in its place and order.
THEOREM CompiledWhole == Spec => []CompiledDocIsComplete
BY ProgressInvariant, ProgressMeans, PTL

\* A document that is rejected for a schema has had all its bad patterns reported
\* (the loops of compile_media_types and compile_params go on after a failure).
THEOREM AllBadPatternsReported == Spec => []EveryBadPatternReported
BY ProgressInvariant, ProgressMeans, PTL

-----------------------------------------------------------------------------
(* The adapter: it implements DocCompiler, and releases what it took.      *)

Lives == {"none", "record", "arena", "parse", "compile", "ready", "destroy",
          "free spec", "free text", "free arena", "free record", "gone"}

\* What the adapter has of each resource, by where its functions are.
RecordInv ==
  has["record"] \in IF life \in {"none", "record"} THEN {"none"}
                    ELSE IF life = "gone" THEN {"none", "released"} ELSE {"held"}
SpecInv ==
  has["spec"] \in IF life \in {"none", "record", "arena", "parse", "compile"} THEN {"none"}
                  ELSE IF life \in {"ready", "destroy", "free spec"} THEN {"none", "held"}
                  ELSE {"none", "released"}
ArenaInv ==
  has["arena"] \in IF route = "from_doc" THEN {"lent"}
                   ELSE IF life \in {"none", "record", "arena"} THEN {"none"}
                   ELSE IF life = "free record" THEN {"released"}
                   ELSE IF life = "gone" THEN {"none", "released"} ELSE {"held"}
TextInv ==
  has["text"] \in IF route = "from_doc" THEN {"lent"}
                  ELSE IF life \in {"none", "record", "arena", "parse"} THEN {"none"}
                  ELSE IF life \in {"compile", "ready"} THEN {"held"}
                  ELSE IF life \in {"destroy", "free spec", "free text"} THEN {"none", "held"}
                  ELSE {"none", "released"}

\* Where the compiler is when the adapter's functions are there.
PhaseInv ==
  /\ life \in {"record", "arena", "parse"} => phase = "begin"
  /\ life = "ready" => phase = "ready"
  /\ life = "destroy" => phase \in {"begin", "release", "over"}
  /\ life = "destroy" /\ has["text"] = "none" => phase = "begin"
  /\ life \in {"free spec", "free text", "free arena", "free record", "gone"} =>
       phase \in {"begin", "over"}

AdapterInv ==
  /\ route \in {"direct", "create", "from_doc"}
  /\ life \in Lives
  /\ route = "direct" <=> life = "none"
  /\ life \in {"arena", "parse", "free text", "free arena"} => route = "create"
  /\ has \in [Resources -> Holdings]
  /\ RecordInv /\ SpecInv /\ ArenaInv /\ TextInv /\ PhaseInv

LEMMA TakeGives ==
  ASSUME has \in [Resources -> Holdings], NEW r \in Resources, Take(r)
  PROVE  /\ has' \in [Resources -> Holdings]
         /\ has'[r] = "held"
         /\ \A q \in Resources : q # r => has'[q] = has[q]
BY DEF Take, Holdings

LEMMA ReleaseGives ==
  ASSUME has \in [Resources -> Holdings], NEW r \in Resources, has[r] = "held", Release(r)
  PROVE  /\ has' \in [Resources -> Holdings]
         /\ has'[r] = "released"
         /\ \A q \in Resources : q # r => has'[q] = has[q]
BY DEF Release, Holdings

LEMMA ReleaseIfTakenGives ==
  ASSUME has \in [Resources -> Holdings], NEW r \in Resources, has[r] \in {"none", "held"},
         ReleaseIfTaken(r)
  PROVE  /\ has' \in [Resources -> Holdings]
         /\ has'[r] \in {"none", "released"}
         /\ \A q \in Resources : q # r => has'[q] = has[q]
<1>1. CASE has[r] = "none"
  BY <1>1 DEF ReleaseIfTaken
<1>2. CASE has[r] = "held"
  BY <1>2, ReleaseGives DEF ReleaseIfTaken
<1>. QED BY <1>1, <1>2

LEMMA AdapterInitial == AdapterInit => AdapterInv
BY DEF AdapterInit, Init, AdapterInv, Lives, Resources, Holdings,
       RecordInv, SpecInv, ArenaInv, TextInv, PhaseInv

\* While the compiled document is released the compiler does nothing else.
LEMMA ReleasingGoesOn ==
  ASSUME phase = "release", Compiling
  PROVE  phase' \in {"release", "over"}
BY DEF Compiling, Begin, BeginFails, MakeMatcher, MatcherFails, AllocateOperations,
       OperationsFail, ArrayFails, SkipEntry, SchemaFails, TrackFails, CompileEntry, AtEntry,
       Compilable, NextList, NextOperation, LastOperation, AtListEnd, Finish, FinishFailed,
       FreeSchema, ReleaseRest

LEMMA AdapterInductive ==
  AdapterInv /\ [AdapterNext]_<<docVars, adapterVars>> => AdapterInv'
<1>. SUFFICES ASSUME AdapterInv, [AdapterNext]_<<docVars, adapterVars>> PROVE AdapterInv'
  OBVIOUS
<1>. USE DEF AdapterInv, RecordInv, SpecInv, ArenaInv, TextInv, PhaseInv, Lives, docVars
<1>r. {"record", "arena", "text", "spec"} = Resources
  BY DEF Resources
<1>1. CASE RecordFails
  BY <1>1 DEF RecordFails
<1>2. CASE TakeRecord
  <2>1. has["record"] = "none" /\ Take("record")
    BY <1>2 DEF TakeRecord
  <2>2. /\ has' \in [Resources -> Holdings]
        /\ has'["record"] = "held"
        /\ \A q \in {"arena", "text", "spec"} : has'[q] = has[q]
    BY <1>r, <2>1, TakeGives
  <2>. QED BY <1>2, <2>2 DEF TakeRecord
<1>3. CASE ArenaFails
  <2>1. has["record"] = "held" /\ Release("record")
    BY <1>3 DEF ArenaFails
  <2>2. /\ has' \in [Resources -> Holdings]
        /\ has'["record"] = "released"
        /\ \A q \in {"arena", "text", "spec"} : has'[q] = has[q]
    BY <1>r, <2>1, ReleaseGives
  <2>. QED BY <1>3, <2>2 DEF ArenaFails
<1>4. CASE TakeArena
  <2>1. Take("arena")
    BY <1>4 DEF TakeArena
  <2>2. /\ has' \in [Resources -> Holdings]
        /\ has'["arena"] = "held"
        /\ \A q \in {"record", "text", "spec"} : has'[q] = has[q]
    BY <1>r, <2>1, TakeGives
  <2>. QED BY <1>4, <2>2 DEF TakeArena
<1>5. CASE ParseFails
  BY <1>5 DEF ParseFails
<1>6. CASE Parse
  <2>1. Take("text")
    BY <1>6 DEF Parse
  <2>2. /\ has' \in [Resources -> Holdings]
        /\ has'["text"] = "held"
        /\ \A q \in {"record", "arena", "spec"} : has'[q] = has[q]
    BY <1>r, <2>1, TakeGives
  <2>. QED BY <1>6, <2>2 DEF Parse
<1>7. CASE CompileInside
  <2>1. UNCHANGED <<route, life, has>>
    BY <1>7 DEF CompileInside, adapterVars
  <2>2. life = "destroy" => phase = "release" /\ phase' \in {"release", "over"}
    BY <1>7, ReleasingGoesOn DEF CompileInside
  <2>3. life \in {"compile", "destroy"}
    BY <1>7 DEF CompileInside
  <2>. QED BY <2>1, <2>2, <2>3
<1>8. CASE CompileFailed
  BY <1>8 DEF CompileFailed
<1>9. CASE Finished
  <2>1. Take("spec") \/ has' = has
    BY <1>9 DEF Finished
  <2>2. /\ has' \in [Resources -> Holdings]
        /\ has'["spec"] \in {"none", "held"}
        /\ \A q \in {"record", "arena", "text"} : has'[q] = has[q]
    <3>1. CASE Take("spec")
      BY <1>r, <3>1, TakeGives
    <3>2. CASE has' = has
      BY <1>9, <3>2 DEF Finished
    <3>. QED BY <2>1, <3>1, <3>2
  <2>. QED BY <1>9, <2>2 DEF Finished
<1>10. CASE CompiledGone
  BY <1>10 DEF CompiledGone
<1>11. CASE ReleaseSpec
  <2>1. has["spec"] \in {"none", "held"} /\ ReleaseIfTaken("spec")
    BY <1>11 DEF ReleaseSpec
  <2>2. /\ has' \in [Resources -> Holdings]
        /\ has'["spec"] \in {"none", "released"}
        /\ \A q \in {"record", "arena", "text"} : has'[q] = has[q]
    BY <1>r, <2>1, ReleaseIfTakenGives
  <2>. QED BY <1>11, <2>2 DEF ReleaseSpec, owns_arena
<1>12. CASE ReleaseText
  <2>1. has["text"] \in {"none", "held"} /\ ReleaseIfTaken("text")
    BY <1>12 DEF ReleaseText
  <2>2. /\ has' \in [Resources -> Holdings]
        /\ has'["text"] \in {"none", "released"}
        /\ \A q \in {"record", "arena", "spec"} : has'[q] = has[q]
    BY <1>r, <2>1, ReleaseIfTakenGives
  <2>. QED BY <1>12, <2>2 DEF ReleaseText
<1>13. CASE ReleaseArena
  <2>1. has["arena"] = "held" /\ Release("arena")
    BY <1>13 DEF ReleaseArena
  <2>2. /\ has' \in [Resources -> Holdings]
        /\ has'["arena"] = "released"
        /\ \A q \in {"record", "text", "spec"} : has'[q] = has[q]
    BY <1>r, <2>1, ReleaseGives
  <2>. QED BY <1>13, <2>2 DEF ReleaseArena
<1>14. CASE ReleaseRecord
  <2>1. has["record"] = "held" /\ Release("record")
    BY <1>14 DEF ReleaseRecord
  <2>2. /\ has' \in [Resources -> Holdings]
        /\ has'["record"] = "released"
        /\ \A q \in {"arena", "text", "spec"} : has'[q] = has[q]
    BY <1>r, <2>1, ReleaseGives
  <2>. QED BY <1>14, <2>2 DEF ReleaseRecord
<1>15. CASE Destroy
  BY <1>15 DEF Destroy, Free
<1>16. CASE CompileDirectly
  BY <1>16 DEF CompileDirectly, adapterVars
<1>17. CASE UNCHANGED <<docVars, adapterVars>>
  BY <1>17 DEF adapterVars
<1>. QED
  BY <1>1, <1>2, <1>3, <1>4, <1>5, <1>6, <1>7, <1>8, <1>9, <1>10, <1>11, <1>12, <1>13,
     <1>14, <1>15, <1>16, <1>17 DEF AdapterNext, Working

LEMMA AdapterInvReleases == AdapterInv => AdapterReleasesAll
BY DEF AdapterInv, RecordInv, SpecInv, ArenaInv, TextInv, PhaseInv, Lives,
       AdapterReleasesAll, Resources, Holdings

\* An adapter releases everything it took once, leaves what it was lent alone,
\* and keeps the text and the arena as long as the compiled document
\* (oas_adapter.c, adapter_finish and oas_adapter_destroy).
THEOREM AdapterLeaksNothing == AdapterSpec => []AdapterReleasesAll
<1>1. AdapterInit => AdapterInv
  BY AdapterInitial
<1>2. AdapterInv /\ [AdapterNext]_<<docVars, adapterVars>> => AdapterInv'
  BY AdapterInductive
<1>3. AdapterInv => AdapterReleasesAll
  BY AdapterInvReleases
<1>. QED BY <1>1, <1>2, <1>3, PTL DEF AdapterSpec

\* Seen from the compiler an adapter is one more caller: its steps are steps of
\* oas_doc_compile and oas_compiled_doc_free, or change nothing there.
THEOREM AdapterCallsTheCompiler == AdapterSpec => Spec
<1>1. AdapterInit => Init
  BY DEF AdapterInit
<1>2. [AdapterNext]_<<docVars, adapterVars>> => [Next]_docVars
  BY DEF AdapterNext, Working, RecordFails, TakeRecord, ArenaFails, TakeArena, ParseFails,
         Parse, CompileInside, CompileFailed, Finished, CompiledGone, ReleaseSpec,
         ReleaseText, ReleaseArena, ReleaseRecord, Destroy, CompileDirectly, Next
<1>. QED BY <1>1, <1>2, PTL DEF AdapterSpec, Spec
=============================================================================
