------------------------------- MODULE Defaults -------------------------------
(***************************************************************************)
(* apply_defaults_recursive of src/validator/oas_defaults.c: the members   *)
(* that are missing from an object are added with the defaults its schema  *)
(* gives them, in the object and in the objects in it.                     *)
(*                                                                         *)
(* JSON values are those of JsonModel.  Of a schema only what the walk     *)
(* reads is kept: the list of its properties, and as sequences of at most  *)
(* one element its default_value and its ref_resolved.                     *)
(***************************************************************************)
EXTENDS Integers, Sequences
LOCAL INSTANCE SequencesExt
LOCAL INSTANCE JsonModel

CONSTANT DefaultsMaxDepth   \* OAS_DEFAULTS_MAX_DEPTH

\* One hop of a reference is followed.
Hop(schema) == IF schema.ref # <<>> THEN schema.ref[1] ELSE schema

\* yyjson_mut_obj_add, and a change of the member yyjson_mut_obj_get returned.
Added(obj, name, v)    == Obj(Append(obj[2], <<name, v>>))
Replaced(obj, name, v) ==
  LET at == SelectInSeq(obj[2], LAMBDA m : m[1] = name)
  IN  Obj([obj[2] EXCEPT ![at][2] = v])

\* The JSON value null, which is a value like any other.
JsonNull == <<"json null", 0>>

RECURSIVE apply_defaults_recursive(_, _, _, _)

\* Mutant of the next: null in place of a value counts as missing.
apply_property_over_null(obj, prop, depth, lost) ==
  LET schema   == Hop(prop.schema)
      existing == Get(obj, prop.name)
  IN  CASE existing \in {Missing, JsonNull} /\ schema.default # <<>> /\ prop.name \notin lost ->
             Added(obj, prop.name, schema.default[1])
        [] Is("obj", existing) ->
             Replaced(obj, prop.name, apply_defaults_recursive(existing, schema, depth + 1, lost))
        [] OTHER -> obj

\* One property of the list.  `lost' are the names there is no memory to add.
apply_property(obj, prop, depth, lost) ==
  LET schema   == Hop(prop.schema)
      existing == Get(obj, prop.name)
  IN  CASE existing = Missing /\ schema.default # <<>> /\ prop.name \notin lost ->
             Added(obj, prop.name, schema.default[1])
        [] Is("obj", existing) ->
             Replaced(obj, prop.name, apply_defaults_recursive(existing, schema, depth + 1, lost))
        [] OTHER -> obj

apply_defaults_recursive(obj, schema, depth, lost) ==
  IF ~Is("obj", obj) \/ depth > DefaultsMaxDepth THEN obj
  ELSE FoldLeft(LAMBDA o, prop : apply_property(o, prop, depth, lost), obj, schema.properties)

-----------------------------------------------------------------------------
(* What the walk is to do, said of the places in a value: sequences of     *)
(* member names.                                                           *)

RECURSIVE ValueAt(_, _), SchemaAt(_, _)
ValueAt(v, place) ==
  IF place = <<>> THEN v ELSE ValueAt(Get(v, Head(place)), Tail(place))

\* At most one schema: no list of properties has a name twice.
SchemaAt(schema, place) ==
  IF place = <<>> THEN {schema}
  ELSE UNION {SchemaAt(Hop(p.schema), Tail(place)) :
                p \in {q \in ToSet(schema.properties) : q.name = Head(place)}}

\* The schemas on the way to the place are reached by one hop at most, and the
\* root without one.
WithinOneHop(schema, place) ==
  \A k \in 0..Len(place) : \A s \in SchemaAt(schema, SubSeq(place, 1, k)) : s.ref = <<>>

\* At a place below an object the input has, the output has what the input has.
\* If that is nothing, it has the default of the schema there, if there is one
\* and the place is within the limit; below a default that was added, nothing.
FilledAt(schema, in, out, place) ==
  LET parent   == ValueAt(in, Front(place))
      defaults == {s.default[1] : s \in {t \in SchemaAt(schema, place) : t.default # <<>>}}
      due      == Len(place) <= DefaultsMaxDepth + 1 /\ defaults # {}
      before   == ValueAt(in, place)
      after    == ValueAt(out, place)
  IN  Is("obj", parent) =>
        CASE Is("obj", before) -> Is("obj", after)
          [] before # Missing  -> after = before
          [] OTHER -> WithinOneHop(schema, place) =>
                        IF due THEN after \in defaults ELSE after = Missing

NamesIn(v) == IF ~Is("obj", v) THEN <<>> ELSE [k \in DOMAIN v[2] |-> v[2][k][1]]

\* The members an object has keep their order; the added ones follow, and are new.
OrderKept(in, out, place) ==
  LET before == NamesIn(ValueAt(in, place))
      after  == NamesIn(ValueAt(out, place))
  IN  Is("obj", ValueAt(in, place)) =>
        /\ IsPrefix(before, after)
        /\ \A k \in (Len(before) + 1)..Len(after) : \A j \in 1..(k - 1) : after[j] # after[k]

\* The schema with the end of its chain in place of each property's reference.
RECURSIVE EndOfChain(_), Resolved(_)
EndOfChain(schema) ==
  IF schema.ref = <<>> THEN schema ELSE EndOfChain(schema.ref[1])
Resolved(schema) ==
  [schema EXCEPT !.properties =
     [i \in DOMAIN schema.properties |->
        [schema.properties[i] EXCEPT !.schema = Resolved(EndOfChain(@))]]]

Filled(schema, in, out, places) ==
  \A place \in places :
    /\ OrderKept(in, out, place)
    /\ place # <<>> => FilledAt(schema, in, out, place)
=============================================================================
