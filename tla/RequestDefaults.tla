---------------------------- MODULE RequestDefaults ----------------------------
(***************************************************************************)
(* oas_validate_request_with_defaults of src/validator/oas_defaults.c: the *)
(* request is validated as it is, then its body is filled with defaults,   *)
(* whatever the verdict.                                                   *)
(*                                                                         *)
(* It does the lookups of the validation again, on the same document, and  *)
(* therefore finds what the validation found: best and op.                 *)
(***************************************************************************)
EXTENDS RequestValidation, Defaults

CONSTANTS
  SourceSchemas,  \* [schema |-> source_schema]
  LostNames,      \* sets of names there may be no memory to add
  Places          \* the places of the bodies the properties look at

VARIABLE filled   \* <<>>, or <<[rc, body]>> when the body has been filled; the
                  \* body is <<>>, a null out_body, or <<value>>

Answer(code, body) == filled' = <<[rc |-> code, body |-> body]>>

DefaultsInit == Init /\ filled = <<>>

\* out_body is null until there is something to return.
Validate == Work /\ UNCHANGED filled
ValidateAgain    == CallAgain /\ filled' = <<>>

Types        == ContentTypes(Operation.body, call.type)
SourceSchema == SourceSchemas[Operation.body[First(Types)].schema]

HasValidated == step = "done" /\ rc = "0" /\ call.kind = "request" /\ filled = <<>>

\* No body, no operation, or nothing said about its content: nothing to fill.
NothingToFill ==
  /\ HasValidated
  /\ \/ call.body = NoBody
     \/ op = 0
     \/ op # 0 /\ Types = {}
     \/ env.scarce /\ op # 0 /\ ParamSegments(Template(best)) # {}
  /\ Answer("0", <<>>)
  /\ UNCHANGED requestVars

\* oas_apply_defaults.  A text that is not JSON has ended the validation before.
FillBody ==
  /\ HasValidated
  /\ call.body # NoBody /\ op # 0 /\ Types # {}
  /\ \E lost \in (IF env.scarce THEN LostNames ELSE {{}}) :
       Answer("0", <<apply_defaults_recursive(JsonReading[call.body], SourceSchema, 0, lost)>>)
  /\ UNCHANGED requestVars

FillFails ==
  /\ HasValidated
  /\ call.body # NoBody /\ op # 0 /\ Types # {}
  /\ env.scarce
  /\ Answer("ENOMEM", <<>>)
  /\ UNCHANGED requestVars

DefaultsNext == Validate \/ ValidateAgain \/ NothingToFill \/ FillBody \/ FillFails

DefaultsSpec == DefaultsInit /\ [][DefaultsNext]_<<requestVars, filled>>
FairDefaultsSpec == DefaultsSpec /\ WF_<<requestVars, filled>>(Validate)

-----------------------------------------------------------------------------
(* Properties.                                                             *)

Filling == filled # <<>> /\ filled[1].body # <<>> /\ ~env.scarce

\* The body that is returned is the request's with every missing member that
\* has a default, at every depth up to the limit, and nothing else is changed:
\* not a member that is null, nor the order, nor what a default brings in
\* (apply_defaults_recursive, oas_validator.h: "inserts the default.  Recurses
\* into nested objects").  Which members are missing is said where the code
\* finds the schema: with one hop from a property to the schema it refers to.
\* Behind a longer chain of references, and below a body whose own schema is a
\* reference, only what was there is said to stay.
DefaultsFillTheBody ==
  Filling => Filled(SourceSchema, JsonReading[call.body], filled[1].body[1], Places)

\* The same behind chains of any length (oas_defaults.c:26: "Follow $ref chains to
\* resolved target").  The code does not have it: it takes one hop.
DefaultsFollowChains ==
  Filling =>
    Filled(Resolved(SourceSchema), JsonReading[call.body], filled[1].body[1], Places)

\* The defaults count for the verdict (oas_validator.h: "applies default values
\* for missing fields, validates, and returns the modified body").
DefaultsCountForVerdict ==
  filled # <<>> /\ filled[1].body # <<>> /\ Operation.params = <<>> =>
    (valid <=> Accepts(Operation.body[First(Types)].schema, "request", filled[1].body[1]))
=============================================================================
