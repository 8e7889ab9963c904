--------------------------- MODULE MCDocumentLife ---------------------------
(***************************************************************************)
(* Texts: one keyword, or two of those that meet in one function, with     *)
(* each kind of value the parser tells apart, in a schema of each place a  *)
(* schema may stand; and one member of the document at a time.             *)
(***************************************************************************)
EXTENDS DocumentLife

S == Str("s")
Leaf == Obj(<< <<"type", Str("string")>> >>)
M1(k, v) == Obj(<< <<k, v>> >>)
Deep == Obj(<< <<"type", Arr(<<Str("object"), Str("null")>>)>>,
               <<"properties", Obj(<< <<"b", Leaf>>, <<"a", M1("minLength", Int_(0))>> >>)>>,
               <<"required", Arr(<<S>>)>> >>)

Pairs(K, V) == K \X V

Kinds == {S, Int_(1), Bool(TRUE), Obj(<<>>), Arr(<<>>)}

KeywordValues ==
  Pairs({"$ref", "title", "description", "format", "pattern"}, {S, Int_(1)})
  \cup Pairs({"minLength", "maxLength", "minItems", "maxItems", "minContains",
              "maxContains", "minProperties", "maxProperties"},
             {Int_(0), Int_(2), Int_(-2), Real_(1)})
  \cup Pairs({"minimum", "maximum", "exclusiveMinimum", "exclusiveMaximum",
              "multipleOf"}, {Int_(-1), Real_(2), S})
  \cup Pairs({"uniqueItems", "nullable", "readOnly", "writeOnly", "deprecated"},
             {Bool(TRUE), Bool(FALSE), S})
  \cup Pairs({"items", "contains", "propertyNames", "not", "if", "then", "else",
              "unevaluatedProperties", "unevaluatedItems"},
             {Obj(<<>>), Deep, Bool(FALSE)})
  \cup Pairs({"prefixItems", "allOf", "anyOf", "oneOf"},
             {Arr(<<>>), Arr(<<Leaf, Deep>>), Arr(<<S, Leaf>>), Arr(<<S>>), S})
  \cup Pairs({"properties", "patternProperties", "dependentSchemas"},
             {Obj(<<>>), Obj(<< <<"a", Leaf>>, <<"b", Deep>> >>),
              Obj(<< <<"a", S>>, <<"b", Leaf>> >>), M1("a", Int_(1)), Arr(<<>>)})
  \cup Pairs({"dependentRequired"},
             {M1("a", Arr(<<S, Int_(1)>>)), M1("a", S), M1("a", Arr(<<>>)), Obj(<<>>)})
  \cup Pairs({"required"}, {Arr(<<S, Str("t")>>), Arr(<<S, Int_(1)>>), Arr(<<>>), S})
  \cup Pairs({"additionalProperties"}, {Bool(TRUE), Bool(FALSE), Leaf, Obj(<<>>), S})
  \cup Pairs({"type"}, {Str("string"), Str("file"), Arr(<<Str("number"), Str("null")>>),
                        Arr(<<Str("array"), Int_(1)>>), Arr(<<>>), Int_(1)})
  \cup Pairs({"const", "default", "enum"}, Kinds)
  \cup Pairs({"discriminator"},
             {M1("propertyName", S), M1("mapping", M1("a", S)),
              Obj(<< <<"propertyName", S>>, <<"mapping", Obj(<< <<"a", S>>, <<"b", Int_(1)>> >>)>> >>),
              Obj(<< <<"propertyName", S>>, <<"mapping", M1("a", Int_(1))>> >>), S})

Schemas ==
  {M1(kv[1], kv[2]) : kv \in KeywordValues}
  \cup {Obj(<<p, q>>) : p \in {kv \in KeywordValues : kv[1] = "type"},
                        q \in {kv \in KeywordValues : kv[1] \in {"nullable", "items", "type"}}}
  \cup {Obj(<< <<"required", Arr(<<S>>)>>, q>>) :
          q \in {kv \in KeywordValues : kv[1] \in {"properties", "additionalProperties"}}}
  \cup {S}

Head_ == << <<"openapi", Str("3.1.0")>>,
            <<"info", Obj(<< <<"title", S>>, <<"version", Str("1")>> >>)>> >>

Doc(more) == Obj(Head_ \o more)
InComponents(s) == Doc(<< <<"components", M1("schemas", M1("A", s))>> >>)
Op(more) == Doc(<< <<"paths", M1("/p", M1("get", Obj(more)))>> >>)

Param == Obj(<< <<"name", S>>, <<"in", Str("query")>>, <<"required", Bool(TRUE)>>,
                <<"deprecated", Bool(FALSE)>>, <<"schema", Deep>> >>)
Content == Obj(<< <<"application/json", M1("schema", Deep)>>, <<"text/plain", S>> >>)
Response == Obj(<< <<"description", S>>, <<"content", Content>> >>)
Scheme == Obj(<< <<"type", Str("oauth2")>>, <<"openIdConnectUrl", S>>, <<"in", S>>,
                 <<"flows", Obj(<< <<"implicit", Obj(<< <<"tokenUrl", S>>,
                                <<"scopes", M1("read", Int_(1))>> >>)>>,
                                <<"password", S>> >>)>> >>)
Security == {Arr(<<>>), Arr(<<Obj(<<>>), M1("key", Arr(<<S, Int_(1)>>))>>),
             Arr(<<Obj(<< <<"a", Arr(<<>>)>>, <<"b", Arr(<<S>>)>> >>)>>), Arr(<<S>>), S}

InfoValues ==
  {Obj(<<>>), Obj(<< <<"title", Int_(1)>>, <<"contact", M1("email", S)>>,
                     <<"license", Obj(<< <<"name", S>>, <<"identifier", S>> >>)>> >>),
   Obj(<< <<"summary", S>>, <<"termsOfService", S>>, <<"contact", S>>,
          <<"license", Obj(<<>>)>> >>)}

RootValues ==
  Pairs({"servers"},
        {Arr(<<>>), Arr(<<S, M1("url", S)>>),
         Arr(<<Obj(<< <<"url", S>>, <<"description", S>>,
                      <<"variables", Obj(<< <<"v", Obj(<< <<"default", S>>,
                         <<"enum", Arr(<<S, Int_(1)>>)>> >>)>>, <<"w", S>> >>)>> >>)>>)})
  \cup Pairs({"paths"}, {Obj(<<>>), M1("/p", S), M1("/p", M1("get", S)),
                         M1("/p", Obj(<< <<"post", Obj(<<>>)>>,
                                         <<"parameters", Arr(<<Param, S>>)>> >>))})
  \cup Pairs({"components"},
             {S, Obj(<<>>), M1("securitySchemes", Obj(<< <<"a", Scheme>>, <<"b", S>> >>)),
              M1("responses", Obj(<< <<"R", Response>>, <<"Q", S>> >>)),
              M1("parameters", Obj(<< <<"P", Param>>, <<"Q", S>> >>)),
              M1("headers", M1("H", Param)),
              M1("requestBodies", Obj(<< <<"B", Response>>, <<"C", S>> >>))})
  \cup Pairs({"security"}, Security)
  \cup Pairs({"tags"}, {Arr(<<>>), Arr(<<S, M1("name", S)>>)})

OpValues ==
  Pairs({"operationId", "summary", "description"}, {S, Int_(1)})
  \cup Pairs({"deprecated"}, {Bool(TRUE), Bool(FALSE)})
  \cup Pairs({"tags"}, {Arr(<<S, Int_(1)>>), Arr(<<>>), S})
  \cup Pairs({"parameters"}, {Arr(<<Param, S>>), Arr(<<S>>)})
  \cup Pairs({"requestBody"}, {S, Obj(<<>>), Obj(<< <<"required", Bool(TRUE)>>, <<"content", Content>> >>)})
  \cup Pairs({"responses"}, {Obj(<<>>), Obj(<< <<"200", Response>>, <<"default", S>> >>)})
  \cup Pairs({"security"}, Security)

MCTexts ==
  {InComponents(s) : s \in Schemas}
  \cup {InComponents(M1(k, Arr(<<s>>))) : k \in {"allOf"}, s \in Schemas}
  \cup {Doc(<<kv>>) : kv \in RootValues}
  \cup {Op(<<kv>>) : kv \in OpValues}
  \cup {Obj(<<Head_[1], <<"info", v>> >>) : v \in InfoValues}
  \cup {S, Obj(<<Head_[2]>>), Obj(<<Head_[1]>>),
        Obj(<< <<"openapi", Str("2.0")>>, Head_[2]>>)}

MCAccepted == {"3.1.0", "3.2.0"}

Sites == {"doc", "info", "contact", "license", "servers", "server", "variables", "variable",
          "enum", "paths", "item", "property", "operation", "tags", "tag", "parameters",
          "parameter", "requestBody", "responses", "response", "body", "content",
          "media", "security", "req", "scopes", "components", "schemas", "scheme",
          "flows", "schema", "items", "prefixItems", "allOf",
          "required", "additionalProperties", "patternProperties",
          "dependentRequired", "names", "dependentSchemas", "mapping"}

\* One allocation for one value: some of several in an array, a table or a list.
OneValue ==
  {<<"property", Leaf>>, <<"property", Deep>>, <<"schema", Leaf>>, <<"schema", Deep>>,
   <<"schema", M1("minLength", Int_(0))>>, <<"required", Arr(<<S>>)>>,
   <<"parameter", Param>>, <<"response", Response>>, <<"scheme", Scheme>>,
   <<"media", M1("schema", Deep)>>, <<"server", M1("url", S)>>,
   <<"req", M1("key", Arr(<<S, Int_(1)>>))>>, <<"tag", M1("name", S)>>}

MCFailureSets ==
  {{}} \cup {{<<s, Anywhere>>} : s \in Sites} \cup {{f} : f \in OneValue}
  \cup {{<<"property", Leaf>>, <<"schema", M1("minLength", Int_(0))>>}}

MCServerArgs == {[url |-> S, description |-> Unset], [url |-> Str("u"), description |-> S]}
NoOp == [summary |-> Unset, description |-> Unset, operation_id |-> Unset, tag |-> Unset,
         params |-> <<>>, request_body |-> Unset, request_content_type |-> Unset,
         request_body_required |-> FALSE, responses |-> <<>>]
Text_ == build_type("string")
MCOpArgs ==
  {[NoOp EXCEPT !.operation_id = S, !.tag = Str("t"),
                !.params = <<[name |-> S, in |-> Str("path"), description |-> Unset,
                              schema |-> Text_, required |-> TRUE]>>],
   [NoOp EXCEPT !.request_body = Text_, !.request_body_required = TRUE,
                !.responses = <<[status |-> 201, description |-> S, schema |-> Text_,
                                 content_type |-> Str("text/plain")],
                                [status |-> 42, description |-> S, schema |-> Unset,
                                 content_type |-> Unset]>>]}
MCMethodArgs == {"get", "POST", "trace"}
MCPathArgs == {"/a", "/b"}
MCNameArgs == {"A", "B"}
MCTextArgs == {S, Null}
MCStringOpts == {[minLength |-> Int_(1), maxLength |-> Unset, pattern |-> S,
                  format |-> Unset, description |-> Unset]}
MCNumberOpts ==
  {[minimum |-> Real_(1), maximum |-> Real_(2), exclusive_min |-> TRUE,
    exclusive_max |-> FALSE, multiple_of |-> Unset, format |-> S,
    description |-> S],
   [minimum |-> Unset, maximum |-> Real_(2), exclusive_min |-> TRUE,
    exclusive_max |-> TRUE, multiple_of |-> Real_(1),
    format |-> Unset, description |-> Unset]}
=============================================================================
