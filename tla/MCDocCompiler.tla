---------------------------- MODULE MCDocCompiler -----------------------------
(***************************************************************************)
(* Adapter and DocCompiler on documents of up to two operations, with      *)
(* good and bad schemas, a $ref that is not resolved, and no schema, in    *)
(* every place.                                                            *)
(***************************************************************************)
EXTENDS Adapter

MCBadSchemas == {"bad1", "bad2"}
MCUnresolved == {"unresolved"}
AnySchema    == {"good", "bad1", "unresolved", NoSchema}

Entries(schemas)   == {[type |-> "json", schema |-> s] : s \in schemas}
Parameters(schemas) ==
  {[name |-> "n", in |-> "query", required |-> TRUE, schema |-> s] : s \in schemas}
UpTo(n, S) == UNION {[1..k -> S] : k \in 0..n}

PathItem(path, params) == [path |-> path, params |-> params]
A == <<Static("a")>>

Operation(item, method, body, contents, params) ==
  [item |-> item, method |-> method, bodyRequired |-> TRUE, body |-> body,
   responses |-> [r \in DOMAIN contents |-> [status |-> r, content |-> contents[r]]],
   params |-> params]

Document(operations) == [paths |-> <<PathItem(A, <<>>)>>, operations |-> operations]

\* One operation with everything, two responses included; and two operations
\* with a list of media types or of parameters each.
Few == {"good", "bad2", NoSchema}
MCParsedDocs ==
  { Document(<<Operation(1, "GET", b, <<c1, c2>>, p)>>) :
      b \in UpTo(2, Entries(AnySchema)), c1 \in UpTo(1, Entries(Few)),
      c2 \in UpTo(1, Entries(Few)), p \in UpTo(1, Parameters(AnySchema)) } \cup
  { Document(<<Operation(1, "GET", b, <<>>, <<>>), Operation(1, "PUT", <<>>, <<>>, p)>>) :
      b \in UpTo(1, Entries(AnySchema)), p \in UpTo(2, Parameters(AnySchema)) } \cup
  { [paths |-> <<>>, operations |-> <<>>],
    [paths |-> <<PathItem(A, <<>>)>>, operations |-> <<>>] }

\* A path template with an empty segment, and parameters of a path item.
Declared == CHOOSE q \in Parameters({"good"}) : TRUE
SpecialDocs == {
  [paths |-> <<PathItem(<<Static("a"), Static(""), Static("b")>>, <<>>)>>,
   operations |-> <<Operation(1, "GET", <<>>, <<>>, <<>>)>>],
  [paths |-> <<PathItem(A, <<Declared>>)>>,
   operations |-> <<Operation(1, "GET", <<>>, <<>>, <<>>)>>] }
AllDocs == MCParsedDocs \cup SpecialDocs

MCConfigs == {[regex |-> FALSE, borrow |-> FALSE], [regex |-> TRUE, borrow |-> FALSE],
              [regex |-> TRUE, borrow |-> TRUE]}
=============================================================================
