------------------------- MODULE MCSchemaValidation -------------------------
(***************************************************************************)
(* Instances of SchemaValidation: every schema graph of three levels built *)
(* from one composing keyword over another over leaves, and values that    *)
(* reach two levels into them.                                             *)
(***************************************************************************)
EXTENDS SchemaValidation

\* Strings: "a" has one code point, "ab" two; the pattern P matches names that
\* contain a "b"; F is the one format, and accepts "ab".
MCStrings     == {"a", "b", "ab"}
MCCodePoints  == [s \in MCStrings |-> IF s = "ab" THEN 2 ELSE 1]
MCRegexMatch  == {<<"P", "b">>, <<"P", "ab">>}
MCFormatOk    == {<<"F", "ab">>}

\* Two leaf schemas that tell the values apart, for the places 3 and 4.
LeafPairs == {
  << [type_mask |-> {"string"}], [min_length |-> 2, minimum |-> Half(2)] >>,
  << [type_mask |-> {"string", "object"}, max_properties |-> 1, max_items |-> 1],
     [pattern |-> "P", required |-> <<"a">>, min_items |-> 2] >> }

\* The schemas that apply node m, and node k beside it.
Blocks(m, k) == {
  [properties |-> << [name |-> "a", schema |-> m], [name |-> "b", schema |-> k] >>],
  [items |-> m],
  [prefix_items |-> <<m, k>>],
  [property_names |-> m],
  [pattern_properties |-> << [pattern |-> "P", schema |-> m] >>],
  [contains |-> m, max_contains |-> 1] }

Deps(m, k) == {
  [dependent_schemas |-> << [property |-> "a", schema |-> m], [property |-> "b", schema |-> k] >>],
  [if_schema |-> k, then_schema |-> m],
  [if_schema |-> m, then_schema |-> k, else_schema |-> m],
  [if_schema |-> m, else_schema |-> k] }

Compositions(m, k) == {
  [all_of |-> <<m, k>>],
  [any_of |-> <<m, k>>],
  [one_of |-> <<k, m>>],
  [discriminator_property |-> "a", one_of |-> <<m, k>>,
   discriminator_mapping |-> << [key |-> "a", ref |-> m], [key |-> "ab", ref |-> k] >>] }

Others(m) == {
  [not_schema |-> m],
  [type_mask |-> {"string"}, nullable |-> TRUE],
  [ref |-> "#", ref_resolved |-> m] }

\* The last keywords of a schema: they are checked only if the VM gets there.
Lasts == { [const_value |-> Str("ab")], [read_only |-> TRUE], [n \in {} |-> 0] }

GraphOf(root, mid, leaves) == <<root, mid, leaves[1], leaves[2]>>
AllSchemas(m, k) == Blocks(m, k) \cup Deps(m, k) \cup Compositions(m, k) \cup Others(m)

\* No composition is compiled inside a part of the program that skip_to_end
\* goes over.
SafeGraphs ==
  LET safe == Blocks(2, 3) \cup Deps(2, 3)
      over == Blocks(3, 4) \cup Deps(3, 4) \cup Others(3)
  IN  { GraphOf(root @@ last, mid, leaves) :
          root \in safe, mid \in over, last \in Lasts, leaves \in LeafPairs }
      \cup
      { GraphOf(root @@ last, mid, leaves) :
          root \in Compositions(2, 3) \cup Others(2), mid \in AllSchemas(3, 4),
          last \in Lasts, leaves \in LeafPairs }

NestedGraphs ==
  { GraphOf(root @@ last, mid, leaves) :
      root \in Blocks(2, 3), mid \in Compositions(3, 4),
      last \in Lasts, leaves \in LeafPairs }

\* What the theorem ValidationRunsToTheLastEnd supposes of the first of these
\* sets, and what the schemas of the second lack.
ASSUME SafeGraphsAreSafe ==
  /\ \A g \in SafeGraphs : SkipSafe(g)
  /\ \A g \in NestedGraphs : ~SkipSafe(g)

\* Both a prefix and a schema for the items beyond it.
TupleGraphs ==
  { GraphOf([prefix_items |-> <<4>>, items |-> 3], [n \in {} |-> 0], leaves) :
      leaves \in LeafPairs }

\* A schema for the members that properties does not name.
AdditionalGraphs ==
  { GraphOf([properties |-> << [name |-> "a", schema |-> 3] >>, additional_properties |-> 4],
            [n \in {} |-> 0], leaves) : leaves \in LeafPairs }

\* The mapping lists its entries in another order than oneOf its schemas.
MappingGraphs ==
  { GraphOf([discriminator_property |-> "a", one_of |-> <<2, 3>>,
             discriminator_mapping |-> << [key |-> "a", ref |-> 3], [key |-> "ab", ref |-> 2] >>],
            [required |-> <<"b">>], leaves) : leaves \in LeafPairs }

\* A keyword that can fail, then anyOf.
ProbeGraphs ==
  { GraphOf([type_mask |-> {"object"}, any_of |-> <<3, 4>>], [n \in {} |-> 0], leaves) :
      leaves \in LeafPairs }

O(k, v) == Obj(<<Member(k, v)>>)
O2(k, v, l, w) == Obj(<<Member(k, v), Member(l, w)>>)

MCScalars == {Str("a"), Str("ab"), Num(Half(2)), Num(3)}
MCValues == MCScalars \cup {
  Arr(<<>>), Arr(<<Str("ab")>>), Arr(<<Num(Half(2))>>), Arr(<<Str("ab"), Num(3)>>),
  O("a", Str("ab")), O("b", Num(3)), O2("a", Str("a"), "b", Str("ab")),
  O("a", O("a", Str("ab"))), O2("b", Arr(<<Num(3)>>), "a", O("b", Str("a"))),
  Arr(<<O("a", Str("a")), Arr(<<Str("a"), Str("a")>>)>>)}

\* These and their items, members and names, two levels down.
Parts(v) ==
  IF v.kind = "array" THEN ToSet(v.items)
  ELSE IF v.kind = "object"
  THEN UNION {{v.members[i].val, Str(v.members[i].key)} : i \in DOMAIN v.members}
  ELSE {}
WithParts(vs) == vs \cup UNION {Parts(v) : v \in vs}
MCJsonValues == WithParts(WithParts(MCValues))

MCConfigs == {[regex |-> TRUE, formats |-> TRUE]}
MCDirected == {"request", "none"}
=============================================================================
