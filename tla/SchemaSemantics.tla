-------------------------- MODULE SchemaSemantics ---------------------------
(***************************************************************************)
(* What a schema means: the keywords as docs/en/03-json-schema.md lists    *)
(* them (JSON Schema 2020-12), with no program and no VM.  Only runs of    *)
(* TLC use this module.                                                    *)
(***************************************************************************)
EXTENDS SchemaProgram, FiniteSets

RECURSIVE Holds(_, _, _, _)

\* The keywords that look at the value itself.
ValueHolds(s, direction, v) ==
  /\ Has(s, "type_mask") =>
       \/ TypeMask(v) \cap s.type_mask # {}
       \/ v = Null /\ Opt(s, "nullable", FALSE)
  /\ v.kind = "string" =>
       /\ CodePoints[v.str] >= Opt(s, "min_length", 0)
       /\ CodePoints[v.str] <= Opt(s, "max_length", CodePoints[v.str])
       /\ Has(s, "pattern") => <<s.pattern, v.str>> \in RegexMatch
       /\ Has(s, "format") => <<s.format, v.str>> \in FormatOk
  /\ v.kind = "number" =>
       /\ Has(s, "minimum") => v.num >= s.minimum
       /\ Has(s, "maximum") => v.num <= s.maximum
       /\ Has(s, "exclusive_minimum") => v.num > s.exclusive_minimum
       /\ Has(s, "exclusive_maximum") => v.num < s.exclusive_maximum
       /\ Has(s, "multiple_of") =>
            LET m == Magnitude(v.num)
            IN  \E k \in (-m)..m : v.num = k * s.multiple_of
  /\ v.kind = "array" =>
       /\ Len(v.items) >= Opt(s, "min_items", 0)
       /\ Len(v.items) <= Opt(s, "max_items", Len(v.items))
       /\ Opt(s, "unique_items", FALSE) =>
            Cardinality({v.items[i] : i \in DOMAIN v.items}) = Len(v.items)
  /\ v.kind = "object" =>
       /\ Len(v.members) >= Opt(s, "min_properties", 0)
       /\ Len(v.members) <= Opt(s, "max_properties", Len(v.members))
       /\ \A i \in DOMAIN Opt(s, "required", <<>>) : HasKey(v, s.required[i])
  /\ Has(s, "enum_values") => v \in s.enum_values
  /\ Has(s, "const_value") => v = s.const_value
  /\ ~(Opt(s, "read_only", FALSE) /\ direction = "request")
  /\ ~(Opt(s, "write_only", FALSE) /\ direction = "response")

\* The keywords about the items of an array; H(node, value) is the meaning of
\* a subschema.
ItemsHold(s, v, H(_, _)) ==
  LET prefix   == Opt(s, "prefix_items", <<>>)
      matching == {i \in DOMAIN v.items : H(s.contains, v.items[i])}
  IN  /\ \A i \in DOMAIN v.items \cap DOMAIN prefix : H(prefix[i], v.items[i])
      /\ Has(s, "items") =>
           \A i \in DOMAIN v.items \ DOMAIN prefix : H(s.items, v.items[i])
      /\ Has(s, "contains") =>
           /\ Cardinality(matching) >= Opt(s, "min_contains", 1)
           /\ Cardinality(matching) <= Opt(s, "max_contains", Len(v.items))

\* The keywords about the members of an object.
MembersHold(s, v, H(_, _)) ==
  LET props    == Opt(s, "properties", <<>>)
      patterns == Opt(s, "pattern_properties", <<>>)
      deps     == Opt(s, "dependent_required", <<>>)
      subs     == Opt(s, "dependent_schemas", <<>>)
      Named(key)   == \E i \in DOMAIN props : props[i].name = key
      Matched(key) == \E i \in DOMAIN patterns : <<patterns[i].pattern, key>> \in RegexMatch
  IN  /\ \A m \in DOMAIN v.members :
           LET key == v.members[m].key
               val == v.members[m].val
           IN  /\ \A i \in DOMAIN props : props[i].name = key => H(props[i].schema, val)
               /\ \A i \in DOMAIN patterns :
                    <<patterns[i].pattern, key>> \in RegexMatch => H(patterns[i].schema, val)
               /\ Has(s, "additional_properties") /\ ~Named(key) /\ ~Matched(key) =>
                    H(s.additional_properties, val)
               /\ Has(s, "property_names") => H(s.property_names, Str(key))
      /\ \A i \in DOMAIN deps :
           HasKey(v, deps[i].property) =>
             \A j \in DOMAIN deps[i].required : HasKey(v, deps[i].required[j])
      /\ \A i \in DOMAIN subs : HasKey(v, subs[i].property) => H(subs[i].schema, v)

\* The discriminator's value names, through the mapping, the schema that the
\* value is validated against.
DiscriminatorHolds(s, v, H(_, _)) ==
  /\ v.kind = "object"
  /\ HasKey(v, s.discriminator_property)
  /\ \E i \in DOMAIN s.discriminator_mapping :
       /\ Str(s.discriminator_mapping[i].key) = ObjGet(v, s.discriminator_property)
       /\ H(s.discriminator_mapping[i].ref, v)

\* The keywords that combine subschemas on the same value.
CombinationHolds(s, v, H(_, _)) ==
  LET Sat(field) == {i \in DOMAIN s[field] : H(s[field][i], v)}
  IN  /\ Has(s, "all_of") => Sat("all_of") = DOMAIN s.all_of
      /\ IF Has(s, "discriminator_mapping")
         THEN DiscriminatorHolds(s, v, H)
         ELSE /\ Has(s, "any_of") => Sat("any_of") # {}
              /\ Has(s, "one_of") => Cardinality(Sat("one_of")) = 1
      /\ Has(s, "not_schema") => ~H(s.not_schema, v)
      /\ Has(s, "if_schema") =>
           IF H(s.if_schema, v)
           THEN Has(s, "then_schema") => H(s.then_schema, v)
           ELSE Has(s, "else_schema") => H(s.else_schema, v)

\* The value v satisfies the schema `node' of the graph.
Holds(graph, direction, node, v) ==
  LET s == graph[node]
      H(n, w) == Holds(graph, direction, n, w)
  IN  IF Has(s, "ref_resolved") THEN H(s.ref_resolved, v)
      ELSE /\ ValueHolds(s, direction, v)
           /\ v.kind = "array" => ItemsHold(s, v, H)
           /\ v.kind = "object" => MembersHold(s, v, H)
           /\ CombinationHolds(s, v, H)
=============================================================================
