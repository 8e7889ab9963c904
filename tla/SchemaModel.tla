----------------------------- MODULE SchemaModel -----------------------------
(***************************************************************************)
(* The schema struct: its builders, oas_schema_parse and                   *)
(* oas_emit_build_schema.                                                  *)
(***************************************************************************)
EXTENDS JsonModel, TLC

Types == {"null", "boolean", "integer", "number", "string", "array", "object"}

\* oas_schema_create: every member zero, the int64 limits -1, i.e. unset.
EmptySchema == Struct(NoMembers)

\* oas_type_from_string: an unknown name is the empty mask.
oas_type_from_string(v) == {v[2]} \cap Types

-----------------------------------------------------------------------------
(* oas_schema_parser.c *)

\* get_number: an integer in the text becomes a double.
get_number(v) == Real_(v[2])

\* The mask is kept as the set of its types; the empty mask is an unset one.
TypeMask(types) == IF types = {} THEN NoMembers ELSE "type" :> <<"mask", types>>

parse_type(o) ==
  LET v == Get(o, "type")
      named == CASE Is("str", v) -> {v}
                 [] Is("arr", v) -> {x \in ToSet(v[2]) : Is("str", x)}
                 [] OTHER        -> {}
  IN  UNION {oas_type_from_string(x) : x \in named}

Ints(o, K) == Tagged(o, K, "int")

parse_string_constraints(o) ==
  Ints(o, {"minLength", "maxLength"}) @@ Strs(o, {"pattern"})

parse_numeric_constraints(o) ==
  LET K == {k \in {"minimum", "maximum", "exclusiveMinimum",
                   "exclusiveMaximum", "multipleOf"} :
              Get(o, k)[1] \in {"int", "real"}}
  IN  [k \in K |-> get_number(Get(o, k))]

RECURSIVE oas_schema_parse(_, _)

parse_array_constraints(o, oom) ==
  LET parse(v) == oas_schema_parse(v, oom)
  IN  Sub(o, "items", oom, parse) @@ Each(o, "prefixItems", oom, parse)
      @@ Ints(o, {"minItems", "maxItems", "minContains", "maxContains"})
      @@ Flags(o, {"uniqueItems"}) @@ Sub(o, "contains", oom, parse)

\* Each property that is an object is put in front of the list, if there is
\* memory for its schema and for its entry; the list closes up without it.
parse_properties(o, oom) ==
  LET v    == Get(o, "properties")
      objs == IF Is("obj", v) THEN SelectSeq(v[2], LAMBDA m : Is("obj", m[2]))
                              ELSE <<>>
      had  == SelectSeq(objs, LAMBDA m : ~NoMemory("property", m[2], oom))
      ps   == [i \in DOMAIN had |-> <<had[i][1], oas_schema_parse(had[i][2], oom)>>]
      kept == SelectSeq(ps, LAMBDA p : p[2] # Null)
  IN  IF kept = <<>> THEN NoMembers
      ELSE "properties" :> Table(Reverse(kept))

\* The slot of a name that is not a string is left as the arena gave it.
parse_required(o, oom) ==
  Each(o, "required", oom, LAMBDA v : IF Is("str", v) THEN v ELSE Garbage)

\* true sets the flag; false sets the flag and a sentinel schema as well, if
\* there is memory for it.
parse_additional(o, oom) ==
  LET v == Get(o, "additionalProperties")
  IN  IF Is("bool", v)
      THEN "additionalBool" :> Bool(TRUE)
           @@ IF v[2] \/ NoMemory("additionalProperties", v, oom) THEN NoMembers
              ELSE "additionalProperties" :> EmptySchema
      ELSE Sub(o, "additionalProperties", oom,
               LAMBDA x : oas_schema_parse(x, oom))

parse_dependent_required(o, oom) ==
  Entries(o, "dependentRequired", oom,
          LAMBDA v : List(IF Is("arr", v) /\ ~NoMemory("names", v, oom)
                          THEN [i \in DOMAIN v[2] |-> StrOrNull(v[2][i])]
                          ELSE <<>>))

parse_object_constraints(o, oom) ==
  LET parse(v) == oas_schema_parse(v, oom)
  IN  parse_properties(o, oom) @@ parse_required(o, oom)
      @@ parse_additional(o, oom)
      @@ Ints(o, {"minProperties", "maxProperties"})
      @@ Sub(o, "propertyNames", oom, parse)
      @@ Entries(o, "patternProperties", oom, parse)
      @@ parse_dependent_required(o, oom)
      @@ Entries(o, "dependentSchemas", oom, parse)

parse_composition(o, oom) ==
  LET parse(v) == oas_schema_parse(v, oom)
  IN  Each(o, "allOf", oom, parse) @@ Each(o, "anyOf", oom, parse)
      @@ Each(o, "oneOf", oom, parse) @@ Sub(o, "not", oom, parse)

parse_conditional(o, oom) ==
  LET parse(v) == oas_schema_parse(v, oom)
  IN  Sub(o, "if", oom, parse) @@ Sub(o, "then", oom, parse)
      @@ Sub(o, "else", oom, parse)

\* nullable only counts when it is true, and adds "null" to the mask.
parse_nullable(o) ==
  IF Get(o, "nullable") = Bool(TRUE) THEN "nullable" :> Bool(TRUE)
                                     ELSE NoMembers

parse_raw(o) ==
  LET K == {k \in {"const", "default"} : Get(o, k) # Missing}
           \cup {k \in {"enum"} : Is("arr", Get(o, k))}
  IN  [k \in K |-> Get(o, k)]

parse_discriminator(o, oom) ==
  LET d == Get(o, "discriminator")
      p == Strs(d, {"propertyName"})
      m == Entries(d, "mapping", oom, StrOrNull)
  IN  p @@ m

\* Any value sets the flag; only an object sets the schema.
parse_unevaluated(o, oom) ==
  LET K == {"unevaluatedProperties", "unevaluatedItems"}
      set == {k \in K : Get(o, k) # Missing}
      parsed(k) == IF Is("obj", Get(o, k)) THEN oas_schema_parse(Get(o, k), oom)
                                           ELSE Null
  IN  [k \in set |-> parsed(k)]

oas_schema_parse(o, oom) ==
  IF ~Is("obj", o) \/ NoMemory("schema", o, oom) THEN Null
  ELSE Struct(
         Strs(o, {"$ref", "title", "description", "format"})
         @@ TypeMask(parse_type(o) \cup
              IF Get(o, "nullable") = Bool(TRUE) THEN {"null"} ELSE {})
         @@ parse_string_constraints(o) @@ parse_numeric_constraints(o)
         @@ parse_array_constraints(o, oom) @@ parse_object_constraints(o, oom)
         @@ parse_composition(o, oom) @@ parse_conditional(o, oom)
         @@ parse_raw(o) @@ parse_nullable(o)
         @@ Flags(o, {"readOnly", "writeOnly", "deprecated"})
         @@ parse_discriminator(o, oom) @@ parse_unevaluated(o, oom))

-----------------------------------------------------------------------------
(* oas_emitter.c, the schema half *)

TypeOrder == <<"null", "boolean", "integer", "number", "string", "array",
               "object">>

\* One type is a string, several are an array in the order of their bits.
emit_type(mask) ==
  LET names == SelectSeq(TypeOrder, LAMBDA t : t \in mask[2])
  IN  IF Len(names) = 1 THEN Str(names[1])
      ELSE Arr([i \in DOMAIN names |-> Str(names[i])])

\* Mutant of the next: a limit of zero counts as unset.
EmitPositiveLimits(s, keys) ==
  Emit(s, SelectSeq(keys, LAMBDA k : Has(s, k) /\ s[2][k][2] > 0), Same)

\* The -1 of an unset limit is told from a set one by its sign alone.
EmitLimits(s, keys) ==
  Emit(s, SelectSeq(keys, LAMBDA k : Has(s, k) /\ s[2][k][2] >= 0), Same)

RECURSIVE oas_emit_build_schema(_)

emit_string_constraints(s) ==
  EmitLimits(s, <<"minLength", "maxLength">>) \o Emit(s, <<"pattern">>, Same)

emit_numeric_constraints(s) ==
  Emit(s, <<"minimum", "maximum", "exclusiveMinimum", "exclusiveMaximum",
            "multipleOf">>, Same)

emit_array_constraints(s) ==
  LET emit(v) == oas_emit_build_schema(v)
  IN  Emit(s, <<"items">>, emit)
      \o Emit(s, <<"prefixItems">>, LAMBDA v : EmitEach(v, emit))
      \o EmitLimits(s, <<"minItems", "maxItems">>)
      \o Emit(s, <<"uniqueItems">>, Same) \o Emit(s, <<"contains">>, emit)
      \o EmitLimits(s, <<"minContains", "maxContains">>)

\* With the flag the value is `additional_properties != nullptr': the parser
\* keeps a schema for false, so this is the negation of what it read.
emit_additional(s) ==
  IF Has(s, "additionalBool")
  THEN << <<"additionalProperties", Bool(Has(s, "additionalProperties"))>> >>
  ELSE Emit(s, <<"additionalProperties">>, LAMBDA v : oas_emit_build_schema(v))

emit_object_constraints(s) ==
  LET emit(v)  == oas_emit_build_schema(v)
      table(v) == EmitEntries(v, emit)
  IN  Emit(s, <<"properties">>, table)
      \o Emit(s, <<"required">>, LAMBDA v : EmitEach(v, Same))
      \o emit_additional(s)
      \o EmitLimits(s, <<"minProperties", "maxProperties">>)
      \o Emit(s, <<"propertyNames">>, emit)
      \o Emit(s, <<"patternProperties">>, table)
      \o Emit(s, <<"dependentRequired">>,
              LAMBDA v : EmitEntries(v, LAMBDA n : EmitEach(n, Same)))
      \o Emit(s, <<"dependentSchemas">>, table)

emit_composition(s) ==
  LET emit(v) == oas_emit_build_schema(v)
  IN  Emit(s, <<"allOf", "anyOf", "oneOf">>, LAMBDA v : EmitEach(v, emit))
      \o Emit(s, <<"not", "if", "then", "else">>, emit)

\* Without a property name the mapping is not written.
emit_discriminator(s) ==
  IF ~Has(s, "propertyName") THEN <<>>
  ELSE << <<"discriminator",
            Obj(Emit(s, <<"propertyName">>, Same)
                \o Emit(s, <<"mapping">>, LAMBDA v : EmitEntries(v, Same)))>> >>

oas_emit_build_schema(s) ==
  IF s = Null THEN Null
  ELSE Obj(Emit(s, <<"$ref">>, Same) \o Emit(s, <<"type">>, emit_type)
           \o Emit(s, <<"title", "description", "format">>, Same)
           \o emit_string_constraints(s) \o emit_numeric_constraints(s)
           \o emit_array_constraints(s) \o emit_object_constraints(s)
           \o emit_composition(s)
           \o Emit(s, <<"enum", "const", "default">>, Same)
           \o Emit(s, <<"nullable", "readOnly", "writeOnly", "deprecated">>,
                   Same)
           \o emit_discriminator(s))

-----------------------------------------------------------------------------
(* oas_schema_builder.c and oas_schema.c *)

Unset == <<"unset", 0>>     \* NAN in oas_number_opts_t, nullptr, or -1

SetOnes(f) == [k \in {k \in DOMAIN f : f[k] # Unset} |-> f[k]]

\* oas_schema_build_string, _number, _bool, _object; _int32 and _int64 with
\* their format.
build_type(type) == Struct(TypeMask({type}))
build_int(format) ==
  Struct(TypeMask({"integer"}) @@ "format" :> Str(format))

oas_schema_build_string_ex(opts) ==
  Struct(TypeMask({"string"}) @@ SetOnes(opts))

\* exclusive_min and exclusive_max choose the keyword of each bound.
build_numeric_ex(type, opts) ==
  LET low  == IF opts.exclusive_min THEN "exclusiveMinimum" ELSE "minimum"
      high == IF opts.exclusive_max THEN "exclusiveMaximum" ELSE "maximum"
  IN  Struct(TypeMask({type})
             @@ SetOnes(low :> opts.minimum @@ high :> opts.maximum
                        @@ "multipleOf" :> opts.multiple_of
                        @@ "format" :> opts.format
                        @@ "description" :> opts.description))

\* A null items pointer leaves the member unset.
oas_schema_build_array(items) ==
  Struct(TypeMask({"array"})
         @@ IF items = Null THEN NoMembers ELSE "items" :> items)

\* The new property becomes the head of the list.
oas_schema_add_property(s, name, prop) ==
  LET old == IF Has(s, "properties") THEN s[2]["properties"][2] ELSE <<>>
  IN  Struct("properties" :> Table(<< <<name, prop>> >> \o old) @@ s[2])

\* The names replace those of an earlier call; no name at all changes nothing.
oas_schema_set_required(s, names) ==
  IF names = <<>> THEN s ELSE Struct("required" :> List(names) @@ s[2])

\* A null pointer clears the member.
SetPointer(s, k, v) ==
  Struct(SetOnes(k :> (IF v = Null THEN Unset ELSE v) @@ s[2]))

oas_schema_set_description(s, text) == SetPointer(s, "description", text)
oas_schema_set_additional_properties(s, schema) ==
  SetPointer(s, "additionalProperties", schema)
=============================================================================
