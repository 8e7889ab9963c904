---------------------------- MODULE DocumentLife ----------------------------
(***************************************************************************)
(* A program that builds a document call by call, or parses the text of    *)
(* one, and then emits it and parses it again.                             *)
(*                                                                         *)
(* Allocations may fail: in a builder at any of its calls to the arena     *)
(* (what a call leaves behind depends only on where it returns), in the    *)
(* parser for the pairs of site and value of a set chosen for the parse.   *)
(*                                                                         *)
(* A schema handed to the document is not modified by the caller later on. *)
(* The caller starts with one finished schema, to use inside others.       *)
(***************************************************************************)
EXTENDS DocModel

CONSTANTS
  Texts,        \* JSON texts the caller may parse
  Accepted,     \* version texts that begin with "3."
  FailureSets,  \* sets of allocations that fail in one parse (NoMemory)
  ServerArgs, PathArgs, MethodArgs, OpArgs,  \* arguments of the doc builder
  NameArgs,     \* names of components and properties
  TextArgs,     \* descriptions; Null clears
  StringOpts, NumberOpts,       \* options of the constrained builders
  MaxCalls,     \* bound: builder calls in one life
  MaxEmits      \* bound: emissions in one life

VARIABLES
  doc,      \* the document, or Null
  text,     \* the JSON text in the caller's hands, or Null
  schema,   \* the schema being built, or Null
  parts,    \* finished schemas
  rc,       \* what the last call returned
  failed,   \* the allocations that failed in the parse that made doc
  origin,   \* the document the text was emitted from, Null for a given text
  calls, emits

vars == <<doc, text, schema, parts, rc, failed, origin, calls, emits>>

Init ==
  /\ text \in Texts \cup {Null}
  /\ doc = Null /\ schema = Null /\ rc = "none"
  /\ parts = <<build_type("string")>>
  /\ failed = {} /\ origin = Null /\ calls = 0 /\ emits = 0

-----------------------------------------------------------------------------
RECURSIVE HasGarbage(_)
HasGarbage(v) ==
  CASE Is("garbage", v) -> TRUE
    [] Is("struct", v)  -> \E k \in DOMAIN v[2] : HasGarbage(v[2][k])
    [] Is("list", v)    -> \E i \in DOMAIN v[2] : HasGarbage(v[2][i])
    [] Is("table", v)   -> \E i \in DOMAIN v[2] : HasGarbage(v[2][i][2])
    [] OTHER            -> FALSE

\* oas_doc_parse: null on a malformed root or without memory for the document;
\* every other failed allocation leaves a member unset and is not reported.
\* Bound: memory fails only in the parse of a given text.
Parse ==
  /\ text # Null /\ doc = Null /\ rc # "refused"
  /\ \E f \in IF origin = Null THEN FailureSets ELSE {{}} :
       LET d == oas_doc_parse(text, Accepted, f)
       IN  /\ doc' = d /\ failed' = f
           /\ rc' = IF d = Null THEN "refused" ELSE "parsed"
  /\ UNCHANGED <<text, schema, parts, origin, calls, emits>>

\* oas_doc_emit_json; the caller keeps the text and frees the document.  A
\* document with an unwritten pointer is not followed any further.
EmitJson ==
  /\ doc # Null /\ ~HasGarbage(doc) /\ emits < MaxEmits
  /\ text' = oas_emit_build_doc(doc) /\ origin' = doc
  /\ doc' = Null /\ schema' = Null /\ parts' = <<>>
  /\ rc' = "emitted" /\ failed' = {} /\ emits' = emits + 1
  /\ UNCHANGED calls

-----------------------------------------------------------------------------
\* A call of a builder.
Call == text = Null /\ calls < MaxCalls /\ calls' = calls + 1

Unchanged == UNCHANGED <<text, failed, origin, emits>>

\* A null argument, or no memory.
Refused == rc' \in {"EINVAL", "ENOMEM"}

BuildDoc ==
  /\ Call /\ doc = Null
  /\ \/ doc' = oas_doc_build(Str("title"), Str("1")) /\ rc' = "ok"
     \/ doc' = Null /\ rc' = "ENOMEM"
  /\ UNCHANGED <<schema, parts>> /\ Unchanged

AddServer ==
  /\ Call /\ doc # Null
  /\ \/ \E s \in ServerArgs :
          doc' = oas_doc_add_server(doc, s.url, s.description) /\ rc' = "ok"
     \/ doc' = doc /\ Refused
  /\ UNCHANGED <<schema, parts>> /\ Unchanged

\* A failure after the components were made leaves them behind, empty.
AddComponentSchema ==
  /\ Call /\ doc # Null /\ schema # Null
  /\ \/ \E n \in NameArgs :
          /\ doc' = oas_doc_add_component_schema(doc, n, schema)
          /\ schema' = Null /\ rc' = "ok"
     \/ doc' = doc /\ Refused /\ schema' = schema
     \/ doc' = WithComponents(doc) /\ rc' = "ENOMEM" /\ schema' = schema
  /\ UNCHANGED parts /\ Unchanged

\* strcasecmp, for the two spellings a caller uses.
Loud == [get |-> "GET", post |-> "POST", put |-> "PUT", delete |-> "DELETE",
         patch |-> "PATCH", head |-> "HEAD", options |-> "OPTIONS"]
Names(method, slot) == method \in {slot, Loud[slot]}

\* Mutant of the next: the slot is assigned before the operation is complete.
AddPathOpAssignsFirst ==
  /\ Call /\ doc # Null
  /\ \E p \in PathArgs, m \in MethodArgs, op \in OpArgs, slot \in ToSet(Methods) :
       LET d == find_or_create_path(doc, p)
       IN  /\ Names(m, slot)
           /\ doc' = SetOperation(d, p, slot, build_operation(op))
           /\ rc' \in {"ok", "ENOMEM"}
  /\ UNCHANGED <<schema, parts>> /\ Unchanged

\* The path is found or made first, the operation is built next, and the name
\* of the method is looked at last.
AddPathOp ==
  /\ Call /\ doc # Null
  /\ \E p \in PathArgs, m \in MethodArgs, op \in OpArgs :
       LET d == find_or_create_path(doc, p)
       IN  \/ doc' = doc /\ Refused
           \/ doc' = d /\ rc' = "ENOMEM"
           \/ \E slot \in ToSet(Methods) :
                /\ Names(m, slot) /\ rc' = "ok"
                /\ doc' = SetOperation(d, p, slot, build_operation(op))
           \/ /\ \A slot \in ToSet(Methods) : ~Names(m, slot)
              /\ doc' = d /\ rc' = "EINVAL"
  /\ UNCHANGED <<schema, parts>> /\ Unchanged

\* The schema a constructor returns; nothing but null when memory is out.
NewSchemas ==
  {build_type(t) : t \in {"string", "number", "boolean", "object"}}
  \cup {build_int(f) : f \in {"int32", "int64"}}
  \cup {oas_schema_build_string_ex(o) : o \in StringOpts}
  \cup {build_numeric_ex(t, o) : t \in {"integer", "number"}, o \in NumberOpts}
  \cup {oas_schema_build_array(s) : s \in ToSet(parts) \cup {Null}}

BuildSchema ==
  /\ Call /\ schema = Null
  /\ \/ \E s \in NewSchemas : schema' = s /\ rc' = "ok"
     \/ schema' = Null /\ rc' = "ENOMEM"
  /\ UNCHANGED <<doc, parts>> /\ Unchanged

\* The caller puts a finished schema aside, to use it inside another one.
Keep ==
  /\ Call /\ schema # Null
  /\ parts' = Append(parts, schema) /\ schema' = Null /\ rc' = "ok"
  /\ UNCHANGED doc /\ Unchanged

AddProperty ==
  /\ Call /\ schema # Null
  /\ \/ \E n \in NameArgs, s \in ToSet(parts) :
          schema' = oas_schema_add_property(schema, n, s) /\ rc' = "ok"
     \/ schema' = schema /\ Refused
  /\ UNCHANGED <<doc, parts>> /\ Unchanged

ModifySchema ==
  /\ Call /\ schema # Null
  /\ \/ /\ rc' = "ok"
        /\ \/ \E names \in SeqOf({Str(n) : n \in NameArgs}, 2) :
                schema' = oas_schema_set_required(schema, names)
           \/ \E t \in TextArgs : schema' = oas_schema_set_description(schema, t)
           \/ \E s \in ToSet(parts) \cup {Null} :
                schema' = oas_schema_set_additional_properties(schema, s)
     \/ Refused /\ schema' = schema
  /\ UNCHANGED <<doc, parts>> /\ Unchanged

Builder ==
  \/ BuildDoc \/ AddServer \/ AddComponentSchema \/ AddPathOp
  \/ BuildSchema \/ Keep \/ AddProperty \/ ModifySchema

Next == Parse \/ EmitJson \/ Builder

Spec == Init /\ [][Next]_vars

-----------------------------------------------------------------------------
(***************************************************************************)
(* The part of a document the round trip is claimed for: without the       *)
(* members that are parsed and that no emitter writes, and, when asked,    *)
(* without a boolean additionalProperties, which the emitter negates       *)
(* (BooleansSurvive, below).                                               *)
(***************************************************************************)
Unwritten == {"unevaluatedProperties", "unevaluatedItems", "flows",
              "openIdConnectUrl"}

Unclaimed(m, booleans) ==
  Unwritten \cup IF booleans \/ "additionalBool" \notin DOMAIN m THEN {}
                 ELSE {"additionalBool", "additionalProperties"}

RECURSIVE Claimed(_, _)
Claimed(v, booleans) ==
  CASE Is("struct", v) ->
         Struct([k \in DOMAIN v[2] \ Unclaimed(v[2], booleans) |->
                   Claimed(v[2][k], booleans)])
    [] Is("list", v)  -> List([i \in DOMAIN v[2] |-> Claimed(v[2][i], booleans)])
    [] Is("table", v) ->
         Table([i \in DOMAIN v[2] |-> <<v[2][i][1], Claimed(v[2][i][2], booleans)>>])
    [] OTHER -> v

(***************************************************************************)
(* What of it is there after emitting and parsing it.  Lost are a          *)
(* discriminator mapping without a property name, null entries of arrays,  *)
(* arrays that are empty without them, and negative limits, none of which  *)
(* means anything; the list of properties comes back reversed.             *)
(***************************************************************************)
Vanishes(k, v) ==
  \/ Is("int", v) /\ v[2] < 0
  \/ v[1] \in {"list", "table"} /\ v[2] = <<>> /\ k # "scopes"

RECURSIVE Kept(_)

KeptMember(k, v) ==
  CASE Is("list", v) ->
         LET q == IF k = "security" THEN v[2] ELSE NonNull(v[2])
         IN  List([i \in DOMAIN q |-> Kept(q[i])])
    [] Is("table", v) ->
         LET m == CASE k \in {"responses", "content"} ->
                         [i \in DOMAIN v[2] |->
                            <<v[2][i][1], IF v[2][i][2] = Null
                                          THEN Struct(NoMembers)
                                          ELSE v[2][i][2]>>]
                    [] k = "properties" -> Reverse(v[2])
                    [] OTHER -> SelectSeq(v[2], LAMBDA e : e[2] # Null)
         IN  Table([i \in DOMAIN m |-> <<m[i][1], Kept(m[i][2])>>])
    [] OTHER -> Kept(v)

Kept(v) ==
  CASE Is("struct", v) ->
         LET own == {k \in DOMAIN v[2] :
                       k = "mapping" => "propertyName" \in DOMAIN v[2]}
             all == [k \in own |-> KeptMember(k, v[2][k])]
         IN  Struct([k \in {k \in own : ~Vanishes(k, all[k])} |-> all[k]])
    [] Is("list", v) -> List(NonNull(v[2]))
    [] OTHER -> v

Survives(booleans) ==
  rc = "parsed" /\ origin # Null =>
    Claimed(doc, booleans) = Kept(Claimed(origin, booleans))

\* A document emitted and parsed with enough memory is the document that was
\* emitted, but for the losses above: emitter and parser agree on the name,
\* the place and the kind of every keyword the claim is about (CHANGELOG.md:17,
\* "JSON and YAML emission (round-trip)").
SurvivesRoundTrip == Survives(FALSE)

\* The same with the boolean form of additionalProperties, of which
\* oas_emitter.c:202 says: "additionalProperties was set as true/false".  The
\* code does not have it: what is written is whether there is a sentinel
\* schema, and the parser makes one for false.
BooleansSurvive == Survives(TRUE)

\* What oas_doc_emit_json writes, oas_doc_parse accepts, unless the document
\* itself has no info (its allocation failed when it was parsed).
EmittedTextIsAccepted ==
  rc = "refused" /\ origin # Null => ~Has(origin, "info")

-----------------------------------------------------------------------------
\* a is b with members left out, slots of arrays null, arrays empty, and
\* entries missing from the list of properties.
RECURSIVE Within(_, _)

\* The entries of a are among those of b, in their order.
Thinned(a, b) ==
  \E at \in [DOMAIN a -> DOMAIN b] :
    /\ \A i, j \in DOMAIN a : i < j => at[i] < at[j]
    /\ \A i \in DOMAIN a : a[i][1] = b[at[i]][1] /\ Within(a[i][2], b[at[i]][2])

Within(a, b) ==
  CASE a \in {Null, Garbage} -> TRUE
    [] Is("struct", a) -> /\ Is("struct", b) /\ DOMAIN a[2] \subseteq DOMAIN b[2]
                          /\ \A k \in DOMAIN a[2] :
                               IF k = "properties"
                               THEN Thinned(a[2][k][2], b[2][k][2])
                               ELSE Within(a[2][k], b[2][k])
    [] Is("list", a)   -> \/ a = List(<<>>)
                          \/ /\ Len(a[2]) = Len(b[2])
                             /\ \A i \in DOMAIN a[2] : Within(a[2][i], b[2][i])
    [] Is("table", a)  -> /\ Len(a[2]) = Len(b[2])
                          /\ \A i \in DOMAIN a[2] :
                               /\ a[2][i][1] = b[2][i][1]
                               /\ Within(a[2][i][2], b[2][i][2])
    [] OTHER           -> a = b

\* Running out of memory in a parse, for one value or at a site for all of them,
\* takes members and properties away and never adds, moves or changes one: what
\* is left is a part of the document there would be, and the slots of its arrays
\* are where they would be.  Only the list of properties closes up.  (A
\* part may mean more than the whole: `additionalProperties: false' without
\* its sentinel schema reads as true, and nothing is reported.)
OutOfMemoryOnlyDrops ==
  rc = "parsed" => Within(doc, oas_doc_parse(text, Accepted, {}))

\* A pointer no one wrote comes from a name in `required' that is not a string
\* or from a server variable there was no memory for, and from nothing else.
RECURSIVE OddRequired(_)
OddRequired(v) ==
  CASE Is("obj", v) -> \E i \in DOMAIN v[2] :
                         \/ /\ v[2][i][1] = "required" /\ Is("arr", v[2][i][2])
                            /\ \E x \in ToSet(v[2][i][2][2]) : ~Is("str", x)
                         \/ OddRequired(v[2][i][2])
    [] Is("arr", v) -> \E i \in DOMAIN v[2] : OddRequired(v[2][i])
    [] OTHER        -> FALSE

UnwrittenOnlyThere ==
  HasGarbage(doc) => (\E f \in failed : f[1] = "variable") \/ OddRequired(text)

-----------------------------------------------------------------------------
\* The document as it was, but for the empty path item or the empty components
\* a failed call may have made on the way.
FailedCallKeepsDocument ==
  Builder /\ rc' \in {"EINVAL", "ENOMEM"} =>
    /\ schema' = schema /\ parts' = parts
    /\ doc' \in {doc} \cup IF doc = Null THEN {}
         ELSE {WithComponents(doc)} \cup {find_or_create_path(doc, p) : p \in PathArgs}

Entries_(d, k) == IF Has(d, k) THEN d[2][k][2] ELSE <<>>

\* The arrays grow at their end, and of the operations only the one of the
\* call's own method and path is replaced.
BuilderStepAdds ==
  Builder /\ doc # Null =>
    /\ IsPrefix(Entries_(doc, "servers"), Entries_(doc', "servers"))
    /\ Has(doc, "components") =>
         IsPrefix(Entries_(doc[2]["components"], "schemas"),
                  Entries_(doc'[2]["components"], "schemas"))
    /\ Len(Entries_(doc, "paths")) <= Len(Entries_(doc', "paths"))
    /\ \A i \in DOMAIN Entries_(doc, "paths") :
         LET old == Entries_(doc, "paths")[i]
             new == Entries_(doc', "paths")[i]
             changed == {m \in DOMAIN new[2][2] :
                           m \notin DOMAIN old[2][2] \/ old[2][2][m] # new[2][2][m]}
         IN  /\ old[1] = new[1] /\ DOMAIN old[2][2] \subseteq DOMAIN new[2][2]
             /\ changed # {} => /\ rc' = "ok"
                                /\ \E m \in MethodArgs, slot \in ToSet(Methods) :
                                     Names(m, slot) /\ changed = {slot}

(***************************************************************************)
(* A builder call never loses what an earlier one added, and one that      *)
(* fails, for a bad argument or at any allocation, leaves the document as  *)
(* it was but for something empty.                                         *)
(***************************************************************************)
BuildersKeepDocument == [][FailedCallKeepsDocument /\ BuilderStepAdds]_vars

\* No path stands twice in a document that was built.
PathsAreUnique ==
  doc # Null /\ text = Null =>
    \A i, j \in DOMAIN Entries_(doc, "paths") :
      Entries_(doc, "paths")[i][1] = Entries_(doc, "paths")[j][1] => i = j
=============================================================================
