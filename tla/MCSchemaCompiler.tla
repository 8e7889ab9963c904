-------------------------- MODULE MCSchemaCompiler --------------------------
(***************************************************************************)
(* Instances of SchemaCompiler.                                            *)
(***************************************************************************)
EXTENDS SchemaCompiler

MCCodePoints == [s \in {"a"} |-> 1]
Leaf == [type_mask |-> {"string"}, pattern |-> "P"]
NoKeyword == [n \in {} |-> 0]

\* Every keyword with a subschema or a pattern, over node m and node k.
Schemas(m, k) == {
  [pattern |-> "P", pattern_properties |->
     << [pattern |-> "P", schema |-> m], [pattern |-> "Q", schema |-> k] >>],
  [properties |-> << [name |-> "a", schema |-> m], [name |-> "b", schema |-> k] >>,
   required |-> <<"a", "b">>, additional_properties |-> k, property_names |-> m],
  [dependent_required |-> << [property |-> "a", required |-> <<"b", "c">>] >>,
   dependent_schemas |-> << [property |-> "a", schema |-> m] >>],
  [prefix_items |-> <<m, k>>, items |-> m, contains |-> k, unique_items |-> TRUE],
  [all_of |-> <<m, k>>, any_of |-> <<k, m>>, one_of |-> <<m>>, not_schema |-> k],
  [discriminator_property |-> "a", one_of |-> <<m, k>>, any_of |-> <<m>>,
   discriminator_mapping |-> << [key |-> "x", ref |-> m], [key |-> "y", ref |-> k] >>],
  [discriminator_property |-> "a", any_of |-> <<m, k>>,
   discriminator_mapping |-> << [key |-> "x", ref |-> m] >>],
  [if_schema |-> m, then_schema |-> k, else_schema |-> m],
  [ref |-> "#", ref_resolved |-> m],
  [format |-> "F", pattern |-> "bad", read_only |-> TRUE, write_only |-> TRUE] }

Leaves == {Leaf, [ref |-> "#/nowhere"], [minimum |-> 0, pattern |-> "bad"]}

\* Graphs without cycles: a node points only to nodes after it.
AcyclicGraphs ==
  { <<root, mid, leaf, NoKeyword>> : root \in Schemas(2, 3), mid \in Schemas(3, 4),
                                     leaf \in Leaves }

\* Two component schemas that are each a $ref to the other.
CyclicGraphs ==
  { << [properties |-> << [name |-> "a", schema |-> 2] >>],
       [ref |-> "#/components/schemas/B", ref_resolved |-> 3],
       [ref |-> "#/components/schemas/A", ref_resolved |-> 2] >> }

\* A component schema one of whose properties is a $ref to the schema itself.
RecursiveGraphs ==
  { << [properties |-> << [name |-> "a", schema |-> 2] >>],
       [ref |-> "#/components/schemas/Node", ref_resolved |-> 1] >> }

MCConfigs == {[regex |-> r, formats |-> r] : r \in BOOLEAN}
=============================================================================
