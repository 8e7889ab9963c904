------------------------------ MODULE DocModel ------------------------------
(***************************************************************************)
(* The document struct: oas_doc_parse_ex up to the resolution of its       *)
(* references (module RefResolver), oas_emit_build_doc, and the document   *)
(* builder.                                                                *)
(***************************************************************************)
EXTENDS SchemaModel

Methods == <<"get", "post", "put", "delete", "patch", "head", "options">>

-----------------------------------------------------------------------------
(* oas_doc_parser.c *)

parse_contact(o) == Struct(Strs(o, {"name", "url", "email"}))

\* The identifier of a license is a member of the struct nobody reads.
parse_license(o) == Struct(Strs(o, {"name", "url"}))

parse_info(o, oom) ==
  IF ~Is("obj", o) \/ NoMemory("info", o, oom) THEN Null
  ELSE Struct(Strs(o, {"title", "summary", "description", "version",
                       "termsOfService"})
              @@ Sub(o, "contact", oom, parse_contact)
              @@ Sub(o, "license", oom, parse_license))

parse_server_variable(v, oom) ==
  Struct(Strs(v, {"default", "description"}) @@ Each(v, "enum", oom, StrOrNull))

\* The slot of a variable there is no memory for is left unwritten.
parse_server(o, oom) ==
  IF ~Is("obj", o) \/ NoMemory("server", o, oom) THEN Null
  ELSE Struct(Strs(o, {"url", "description"})
              @@ Entries(o, "variables", oom,
                         LAMBDA v : IF NoMemory("variable", v, oom) THEN Garbage
                                    ELSE parse_server_variable(v, oom)))

\* Mutant of the next: a requirement there is no memory for closes up.
parse_security_closed_up(o, oom) ==
  LET lost(v) == NoMemory("req", v, oom)
      req(v) == IF ~Is("obj", v) \/ v = Obj(<<>>) THEN Null
                ELSE Struct("name" :> Str(v[2][1][1])
                            @@ "scopes" :> List(IF Is("arr", v[2][1][2])
                                                THEN v[2][1][2][2] ELSE <<>>))
      kept(q) == SelectSeq(q, LAMBDA v : ~lost(v))
      array == Get(o, "security")
  IN  IF ~Is("arr", array) \/ ~\E v \in ToSet(array[2]) : lost(v)
      THEN Each(o, "security", oom, req)
      ELSE "security" :> List([i \in DOMAIN kept(array[2]) |-> req(kept(array[2])[i])])

\* Only the first scheme of a requirement is kept; anonymous access is null.
parse_security_array(o, oom) ==
  LET scopes(v) == IF Is("arr", v) /\ ~NoMemory("scopes", v, oom)
                   THEN List([i \in DOMAIN v[2] |-> StrOrNull(v[2][i])])
                   ELSE List(<<>>)
      req(v) == IF ~Is("obj", v) \/ v = Obj(<<>>) \/ NoMemory("req", v, oom) THEN Null
                ELSE Struct("name" :> Str(v[2][1][1])
                            @@ "scopes" :> scopes(v[2][1][2]))
  IN  Each(o, "security", oom, req)

parse_oauth_flow(o, oom) ==
  Struct(Strs(o, {"authorizationUrl", "tokenUrl", "refreshUrl"})
         @@ Entries(o, "scopes", oom, StrOrNull))

parse_oauth_flows(o, oom) ==
  LET flow(v) == parse_oauth_flow(v, oom)
  IN  Struct(Sub(o, "implicit", oom, flow) @@ Sub(o, "password", oom, flow)
             @@ Sub(o, "clientCredentials", oom, flow)
             @@ Sub(o, "authorizationCode", oom, flow))

parse_security_scheme(o, oom) ==
  IF ~Is("obj", o) \/ NoMemory("scheme", o, oom) THEN Null
  ELSE Struct(Strs(o, {"type", "description", "name", "in", "scheme",
                       "bearerFormat", "openIdConnectUrl"})
              @@ Sub(o, "flows", oom, LAMBDA v : parse_oauth_flows(v, oom)))

parse_parameter(o, oom) ==
  IF ~Is("obj", o) \/ NoMemory("parameter", o, oom) THEN Null
  ELSE Struct(Strs(o, {"name", "in", "description"})
              @@ Flags(o, {"required", "deprecated"})
              @@ Sub(o, "schema", oom, LAMBDA v : oas_schema_parse(v, oom)))

\* A media type that is not an object is one without a schema.
parse_media_type(v, oom) ==
  IF NoMemory("media", v, oom) THEN Null
  ELSE Struct(Sub(v, "schema", oom, LAMBDA s : oas_schema_parse(s, oom)))

parse_content(o, oom) ==
  Entries(o, "content", oom, LAMBDA v : parse_media_type(v, oom))

parse_response(v, oom) ==
  IF NoMemory("response", v, oom) THEN Null
  ELSE Struct(Strs(v, {"description"}) @@ parse_content(v, oom))

parse_responses(o, oom) ==
  Entries(o, "responses", oom, LAMBDA v : parse_response(v, oom))

parse_request_body(v, oom) ==
  IF NoMemory("body", v, oom) THEN Null
  ELSE Struct(Strs(v, {"description"}) @@ Flags(v, {"required"})
              @@ parse_content(v, oom))

parse_parameters(o, oom) ==
  Each(o, "parameters", oom, LAMBDA v : parse_parameter(v, oom))

parse_operation(o, oom) ==
  IF ~Is("obj", o) \/ NoMemory("operation", o, oom) THEN Null
  ELSE Struct(Strs(o, {"operationId", "summary", "description"})
              @@ Flags(o, {"deprecated"}) @@ Each(o, "tags", oom, StrOrNull)
              @@ parse_parameters(o, oom)
              @@ Sub(o, "requestBody", oom,
                     LAMBDA v : parse_request_body(v, oom))
              @@ parse_responses(o, oom) @@ parse_security_array(o, oom))

\* A path item that is not an object is an empty one.
parse_path_item(o, oom) ==
  LET slots == {m \in ToSet(Methods) : Is("obj", Get(o, m))}
      ops   == [m \in slots |-> parse_operation(Get(o, m), oom)]
  IN  Struct([m \in {m \in slots : ops[m] # Null} |-> ops[m]]
             @@ parse_parameters(o, oom))

parse_components(o, oom) ==
  LET entries(k, P(_)) == Entries(o, k, oom, P)
      param(v) == parse_parameter(v, oom)
  IN  Struct(entries("schemas", LAMBDA v : oas_schema_parse(v, oom))
             @@ entries("securitySchemes",
                        LAMBDA v : parse_security_scheme(v, oom))
             @@ parse_responses(o, oom)
             @@ entries("parameters", param)
             @@ entries("requestBodies", LAMBDA v : parse_request_body(v, oom))
             @@ entries("headers", param))

parse_paths(o, oom) ==
  Entries(o, "paths", oom, LAMBDA v : IF NoMemory("item", v, oom) THEN Null
                                      ELSE parse_path_item(v, oom))

parse_tags(o, oom) ==
  Each(o, "tags", oom, LAMBDA v : IF NoMemory("tag", v, oom) THEN Null
                                  ELSE Struct(Strs(v, {"name", "description"})))

\* check_openapi_version: 3.x.y.  Accepted is the set of such texts.
check_openapi_version(v, Accepted) == Is("str", v) /\ v[2] \in Accepted

\* The root must be an object with a supported version and an info object.
Readable(o, Accepted) ==
  /\ Is("obj", o)
  /\ check_openapi_version(Get(o, "openapi"), Accepted)
  /\ Is("obj", Get(o, "info"))

oas_doc_parse(o, Accepted, oom) ==
  IF ~Readable(o, Accepted) \/ NoMemory("doc", o, oom) THEN Null
  ELSE LET info == parse_info(Get(o, "info"), oom)
       IN  Struct("openapi" :> Get(o, "openapi")
                  @@ (IF info = Null THEN NoMembers ELSE "info" :> info)
                  @@ Each(o, "servers", oom, LAMBDA v : parse_server(v, oom))
                  @@ parse_paths(o, oom)
                  @@ Sub(o, "components", oom,
                         LAMBDA v : parse_components(v, oom))
                  @@ parse_security_array(o, oom) @@ parse_tags(o, oom))

-----------------------------------------------------------------------------
(* oas_emitter.c, the document half *)

emit_parameter(p) ==
  Obj(Emit(p, <<"name", "in", "description", "required", "deprecated">>, Same)
      \o Emit(p, <<"schema">>, oas_emit_build_schema))

\* A media type or a response that is null is written as an empty object.
emit_media_type_content(v) ==
  LET media(m) == IF m = Null THEN Obj(<<>>)
                  ELSE Obj(Emit(m, <<"schema">>, oas_emit_build_schema))
  IN  Obj([i \in DOMAIN v[2] |-> <<v[2][i][1], media(v[2][i][2])>>])

emit_request_body(b) ==
  Obj(Emit(b, <<"description", "required">>, Same)
      \o Emit(b, <<"content">>, emit_media_type_content))

emit_responses(v) ==
  LET response(r) == IF r = Null THEN Obj(<<>>)
                     ELSE Obj(Emit(r, <<"description">>, Same)
                              \o Emit(r, <<"content">>, emit_media_type_content))
  IN  Obj([i \in DOMAIN v[2] |-> <<v[2][i][1], response(v[2][i][2])>>])

\* Null is written as {}, anonymous access.
emit_security(v) ==
  LET req(r) == IF r = Null THEN Obj(<<>>)
                ELSE Obj(<< <<r[2]["name"][2], EmitEach(r[2]["scopes"], Same)>> >>)
  IN  Arr([i \in DOMAIN v[2] |-> req(v[2][i])])

emit_operation(op) ==
  Obj(Emit(op, <<"operationId", "summary", "description">>, Same)
      \o Emit(op, <<"tags">>, LAMBDA v : EmitEach(v, Same))
      \o Emit(op, <<"parameters">>, LAMBDA v : EmitEach(v, emit_parameter))
      \o Emit(op, <<"requestBody">>, emit_request_body)
      \o Emit(op, <<"responses">>, emit_responses)
      \o Emit(op, <<"security">>, emit_security)
      \o Emit(op, <<"deprecated">>, Same))

emit_path_item(item) ==
  Obj(Emit(item, Methods, emit_operation)
      \o Emit(item, <<"parameters">>, LAMBDA v : EmitEach(v, emit_parameter)))

emit_info(info) ==
  Obj(Emit(info, <<"title", "summary", "description", "version",
                   "termsOfService">>, Same)
      \o Emit(info, <<"contact">>,
              LAMBDA c : Obj(Emit(c, <<"name", "url", "email">>, Same)))
      \o Emit(info, <<"license">>,
              LAMBDA l : Obj(Emit(l, <<"name", "url", "identifier">>, Same))))

emit_server(s) ==
  LET variable(v) == Obj(Emit(v, <<"default", "description">>, Same)
                         \o Emit(v, <<"enum">>, LAMBDA q : EmitEach(q, Same)))
  IN  Obj(Emit(s, <<"url", "description">>, Same)
          \o Emit(s, <<"variables">>, LAMBDA v : EmitEntries(v, variable)))

\* Neither the flows of a scheme nor its openIdConnectUrl are written.
emit_security_scheme(s) ==
  Obj(Emit(s, <<"type", "name", "in", "scheme", "bearerFormat",
                "description">>, Same))

emit_components(c) ==
  LET table(k, E(_)) == Emit(c, <<k>>, LAMBDA v : EmitEntries(v, E))
  IN  Obj(table("schemas", oas_emit_build_schema)
          \o table("securitySchemes", emit_security_scheme)
          \o Emit(c, <<"responses">>, emit_responses)
          \o table("parameters", emit_parameter)
          \o table("requestBodies", emit_request_body)
          \o table("headers", emit_parameter))

oas_emit_build_doc(d) ==
  LET tag(t) == Obj(Emit(t, <<"name", "description">>, Same))
  IN  Obj(Emit(d, <<"openapi">>, Same) \o Emit(d, <<"info">>, emit_info)
          \o Emit(d, <<"servers">>, LAMBDA v : EmitEach(v, emit_server))
          \o Emit(d, <<"paths">>, LAMBDA v : EmitEntries(v, emit_path_item))
          \o Emit(d, <<"components">>, emit_components)
          \o Emit(d, <<"tags">>, LAMBDA v : EmitEach(v, tag))
          \o Emit(d, <<"security">>, emit_security))

-----------------------------------------------------------------------------
(* oas_doc_builder.c: what a successful call makes of its arguments *)

oas_doc_build(title, version) ==
  Struct("openapi" :> Str("3.2.0")
         @@ "info" :> Struct("title" :> title @@ "version" :> version))

\* The members of s, with v appended to the array k.
AppendTo(s, k, v, kind) ==
  LET old == IF Has(s, k) THEN s[2][k][2] ELSE <<>>
  IN  Struct(k :> <<kind, Append(old, v)>> @@ s[2])

oas_doc_add_server(d, url, description) ==
  AppendTo(d, "servers",
           Struct(SetOnes("url" :> url @@ "description" :> description)),
           "list")

\* The components come into being before the array is allocated.
WithComponents(d) ==
  IF Has(d, "components") THEN d
  ELSE Struct("components" :> Struct(NoMembers) @@ d[2])

oas_doc_add_component_schema(d, name, schema) ==
  LET c == WithComponents(d)
  IN  Struct("components" :> AppendTo(c[2]["components"], "schemas",
                                      <<name, schema>>, "table") @@ c[2])

DefaultContentType == "application/json"

\* One media type, with the caller's content type or the default one.
build_content(type, schema) ==
  "content" :> Table(<< << IF type = Unset THEN DefaultContentType ELSE type[2],
                           Struct("schema" :> schema) >> >>)

build_parameter(p) ==
  Struct(SetOnes([k \in {"name", "in", "description", "schema"} |-> p[k]])
         @@ IF p.required THEN "required" :> Bool(TRUE) ELSE NoMembers)

\* A status outside 100..999 is written as "0".
build_response(r) ==
  << IF r.status \in 100..999 THEN ToString(r.status) ELSE "0",
     Struct(SetOnes("description" :> r.description)
            @@ IF r.schema = Unset THEN NoMembers
               ELSE build_content(r.content_type, r.schema)) >>

build_request_body(op) ==
  Struct((IF op.request_body_required THEN "required" :> Bool(TRUE)
                                      ELSE NoMembers)
         @@ build_content(op.request_content_type, op.request_body))

build_operation(op) ==
  Struct(SetOnes("summary" :> op.summary @@ "description" :> op.description
                 @@ "operationId" :> op.operation_id)
         @@ (IF op.tag = Unset THEN NoMembers ELSE "tags" :> List(<<op.tag>>))
         @@ (IF op.params = <<>> THEN NoMembers
             ELSE "parameters" :> List([i \in DOMAIN op.params |->
                                          build_parameter(op.params[i])]))
         @@ (IF op.request_body = Unset THEN NoMembers
             ELSE "requestBody" :> build_request_body(op))
         @@ (IF op.responses = <<>> THEN NoMembers
             ELSE "responses" :> Table([i \in DOMAIN op.responses |->
                                          build_response(op.responses[i])])))

PathIndex(d, path) ==
  IF ~Has(d, "paths") THEN {}
  ELSE {i \in DOMAIN d[2]["paths"][2] : d[2]["paths"][2][i][1] = path}

find_or_create_path(d, path) ==
  IF PathIndex(d, path) # {} THEN d
  ELSE AppendTo(d, "paths", <<path, Struct(NoMembers)>>, "table")

\* The operation replaces the one that stood in its slot.
SetOperation(d, path, method, oper) ==
  LET ps == d[2]["paths"][2]
      i  == CHOOSE i \in PathIndex(d, path) : TRUE
      it == Struct(method :> oper @@ ps[i][2][2])
  IN  Struct("paths" :> Table([ps EXCEPT ![i] = <<path, it>>]) @@ d[2])
=============================================================================
