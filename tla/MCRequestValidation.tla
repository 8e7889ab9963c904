------------------------- MODULE MCRequestValidation --------------------------
(***************************************************************************)
(* RequestValidation on two documents: one without paths, and one whose    *)
(* templates overlap (/, /a/{x} and /a/b, in either order), with an        *)
(* operation for every kind of body, response and parameter.               *)
(***************************************************************************)
EXTENDS RequestDefaults, TLC

LOCAL Json_ == INSTANCE JsonModel

MCFold == [s \in {"get", "GET", "post", "POST", "PUT", "patch", "h", "H", "app/json", "APP/JSON", "text"} |->
             CASE s = "GET" -> "get" [] s = "POST" -> "post" [] s = "H" -> "h" [] s = "APP/JSON" -> "app/json" [] OTHER -> s]

\* Bodies for the defaults: each name is a member, and so is each level.
Int1 == Json_!Int_(1)
Object(members) == Json_!Obj(members)
Empty == Object(<<>>)
Bodies ==
  "empty"  :> Empty @@
  "null"   :> Object(<< <<"c", JsonNull>>, <<"z", Int1>> >>) @@
  "nested" :> Object(<< <<"b", Empty>>, <<"d", Empty>> >>) @@
  "deep"   :> Object(<< <<"b", Object(<< <<"a", Int1>>, <<"b", Empty>> >>)>>, <<"c", Empty>> >>) @@
  "flat"   :> Object(<< <<"b", Int1>>, <<"e", Empty>> >>) @@
  "array"  :> Json_!Arr(<<Empty>>)

Node(properties, ref, default) == [properties |-> properties, ref |-> ref, default |-> default]
Property(name, schema) == [name |-> name, schema |-> schema]
Plain    == Node(<<>>, <<>>, <<>>)
Leaf     == Node(<<>>, <<>>, <<Json_!Str("default")>>)
Inner    == Node(<<Property("a", Leaf), Property("b", Node(<<Property("a", Leaf)>>, <<>>, <<>>))>>, <<>>, <<>>)
\* c has a default, b is a reference, d has a default that is an object, and e is
\* a reference to a reference.
Pet == Node(<< Property("c", Leaf), Property("b", Node(<<>>, <<Inner>>, <<>>)),
               Property("d", Node(<<Property("a", Leaf)>>, <<>>, <<Empty>>)),
               Property("e", Node(<<>>, <<Node(<<>>, <<Inner>>, <<>>)>>, <<>>)) >>, <<>>, <<>>)
MCSourceSchemas == [s \in {"one", "str", "ro", "pet"} |-> IF s = "pet" THEN Pet ELSE Plain]
MCLostNames == SUBSET {"a", "c", "d"}
MCPlaces == UNION {[1..n -> {"a", "b", "c", "d", "e", "z"}] : n \in 0..3}

\* "1" and "2" are JSON texts, "t" is one in quotes, and "q" (with a quote) is not.
MCJsonReading == [s \in {"1", "2"} |-> <<"number", s>>] @@ Bodies
MCQuoted == [s \in {"1", "2", "t", "b"} |-> <<"string", s>>]

Readings == {MCJsonReading[s] : s \in {"1", "2"}} \cup
            {MCQuoted[s] : s \in DOMAIN MCQuoted}
\* Schema "one" is { const: 1 }, "str" is { type: string }; "ro" is { readOnly: true }.
MCAccepted ==
  {<<"one", d, <<"number", "1">>>> : d \in {"none", "request", "response"}} \cup
  {<<"str", d, v>> : d \in {"none", "request", "response"}, v \in {w \in Readings : w[1] = "string"}} \cup
  {<<"ro", d, v>> : d \in {"none", "response"}, v \in Readings} \cup
  {<<"pet", "request", Bodies[b]>> : b \in {"null", "deep"}}

Json     == [base |-> "app/json", params |-> ""]
JsonUtf8 == [base |-> "APP/JSON", params |-> "utf"]
Text     == [base |-> "text", params |-> ""]

Parameter(name, in, required, schema) ==
  [name |-> name, in |-> in, required |-> required, schema |-> schema]
Content(type, schema) == [type |-> type, schema |-> schema]
Reply(status, content) == [status |-> status, content |-> content]

Fixed == <<Static("a"), Static("b")>>
Open  == <<Static("a"), Param("x")>>
Root  == <<Static("")>>

Replies == << Reply(<<"default">>, <<>>),
              Reply(<<"range", 2>>, <<Content(Json, "one")>>),
              Reply(<<"code", 200>>, <<Content(Text, "one"), Content(Json, "ro")>>) >>
PostOpen ==
  [path |-> Open, method |-> "post", bodyRequired |-> TRUE,
   body |-> <<Content(JsonUtf8, "ro"), Content(Json, "one")>>,
   responses |-> Replies,
   params |-> << Parameter("H", "header", TRUE, "one"), Parameter("x", "path", TRUE, "str"),
                 Parameter("c", "cookie", FALSE, "one"), Parameter("k", "query", TRUE, "str") >>]
GetOpen ==
  [path |-> Open, method |-> "get", bodyRequired |-> FALSE, body |-> <<>>,
   responses |-> SubSeq(Replies, 2, 3),
   params |-> << Parameter("x", "path", TRUE, "one"), Parameter("c", "cookie", TRUE, "str") >>]
GetFixed ==
  [path |-> Fixed, method |-> "get", bodyRequired |-> FALSE,
   body |-> <<Content(Json, "one")>>, responses |-> <<>>,
   params |-> << Parameter("k", "query", FALSE, "one") >>]
PatchOpen ==
  [path |-> Open, method |-> "patch", bodyRequired |-> FALSE,
   body |-> <<Content(Json, "pet")>>, responses |-> <<>>, params |-> <<>>]
GetRoot ==
  [path |-> Root, method |-> "get", bodyRequired |-> FALSE, body |-> <<>>,
   responses |-> <<>>, params |-> <<>>]
Operations == <<PostOpen, GetOpen, GetFixed, GetRoot, PatchOpen>>

MCDocs == { [templates |-> <<>>, operations |-> <<>>],
            [templates |-> <<Open, Fixed, Root>>, operations |-> Operations],
            [templates |-> <<Fixed, Root, Open>>, operations |-> Operations] }

Paths == { <<>>, <<"">>, <<"a", "b">>, <<"a", "1">>, <<"a", "q", "">>, <<"", "b">>,
           <<"a", "1", "", "">>, <<"a", "t", "1", "2">> }
Named1(name, texts) == {<<>>} \cup {<<[name |-> name, text |-> t]>> : t \in texts}

Requests(paths, methods) ==
  [kind : {"request"}, path : paths, method : methods, type : {NoType, Json, JsonUtf8, Text},
   body : {NoBody, "1", "2", "q"}, headers : Named1("h", {"1", "2"}),
   query : Named1("k", {"1", "t"}), raw : {FALSE}, cookies : Named1("c", {"1", "q"}), status : {0}]
Responses ==
  [kind : {"response"}, path : {<<"a", "1">>, <<"b">>}, method : {"get", "post", "PUT"},
   type : {NoType, Json, JsonUtf8, Text}, body : {NoBody, "1", "2", "q"}, headers : {<<>>},
   query : {<<>>}, raw : {FALSE}, cookies : {<<>>}, status : {200, 201, 404}]
Patches ==
  [kind : {"request"}, path : {<<"a", "1">>}, method : {"patch"}, type : {Json, Text},
   body : DOMAIN Bodies \cup {NoBody}, headers : {<<>>}, query : {<<>>}, raw : {FALSE},
   cookies : {<<>>}, status : {0}]
Finds ==
  [kind : {"find"}, path : Paths, method : {"GET", "PUT", "patch"}, type : {NoType},
   body : {NoBody}, headers : {<<>>}, query : {<<>>}, raw : {FALSE}, cookies : {<<>>},
   status : {0}]
Ample == [scarce |-> FALSE, reuse |-> FALSE]
Again == [scarce |-> FALSE, reuse |-> TRUE]
Scarce == [scarce |-> TRUE, reuse |-> FALSE]
MCEnvironments == {Ample, Again, Scarce}

Few == {r \in Requests({<<"a", "t">>, <<"a", "q">>}, {"GET", "POST"}) :
          r.type = Json /\ r.body \in {NoBody, "1"}} \cup
       {r \in Responses : r.type = Json /\ r.status = 200}

\* With memory and a record of its own: every path with few texts, and every
\* text with the operation that reads it.  A few calls follow one another with
\* the same record; and when memory is scarce the query is a raw string.
MCCalls == [e \in MCEnvironments |->
  CASE e = Ample ->
         Responses \cup Patches \cup Finds \cup
         {r \in Requests(Paths, {"GET", "PUT"}) : r.headers = <<>> /\ r.body \in {NoBody, "1"}} \cup
         Requests({<<"a", "t">>, <<"a", "1">>}, {"POST"})
    [] e = Again ->
         {r \in Few : r.method = "POST" /\ r.path = <<"a", "t">> /\ r.cookies = <<>>
                      /\ r.headers \in {<<>>, <<[name |-> "h", text |-> "2"]>>}} \cup
         {r \in Few : r.kind = "response" /\ r.method = "get"}
    [] e = Scarce -> Patches \cup Finds \cup {[r EXCEPT !.raw = TRUE] : r \in Few}]
=============================================================================
