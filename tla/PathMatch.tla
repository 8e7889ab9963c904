------------------------------ MODULE PathMatch -------------------------------
(***************************************************************************)
(* The path matcher of src/core/oas_path_match.c: how a request path and   *)
(* the path templates of a document are cut into segments, and when a      *)
(* template matches.  Choosing among the templates that match is a loop of *)
(* RequestValidation.                                                      *)
(*                                                                         *)
(* A path is the sequence of the texts after each of its slashes: "/a/b"   *)
(* is <<"a", "b">>, "/a/" is <<"a", "">> and "/" is <<"">>; a path that    *)
(* does not start with a slash is <<>>.  The segments of a template are    *)
(* records [param |-> BOOLEAN, text |-> name or literal text].             *)
(***************************************************************************)
EXTENDS Naturals, Sequences

CONSTANT MaxSegments   \* MAX_SEGMENTS

ASSUME MaxSegmentsAssumption == MaxSegments \in Nat \ {0}

\* An array of the documents that are compiled.
IsList(s) == s \in Seq({s[j] : j \in DOMAIN s})

Static(text) == [param |-> FALSE, text |-> text]
Param(name)  == [param |-> TRUE, text |-> name]

WithoutLast(s) == SubSeq(s, 1, Len(s) - 1)
Trimmed(s, blank) == IF s # <<>> /\ s[Len(s)] = blank THEN WithoutLast(s) ELSE s

\* parse_template: a trailing slash is dropped, and a template of slashes only
\* is the root; with any other empty segment oas_path_matcher_create fails.
TemplateSegments(template) ==
  IF \A i \in DOMAIN template : template[i] = Static("") THEN <<>>
  ELSE Trimmed(template, Static(""))
TemplateOk(template) ==
  \A i \in DOMAIN TemplateSegments(template) : TemplateSegments(template)[i] # Static("")

\* split_request_path: one trailing slash is stripped, and an empty segment at
\* the very end of what is left is never looked at.  A path with another empty
\* segment, or with too many segments, matches nothing.
RequestSegments(path) ==
  LET stripped == IF Len(path) > 1 THEN Trimmed(path, "") ELSE path
  IN  Trimmed(stripped, "")
RequestPathOk(path) ==
  LET segments == RequestSegments(path)
  IN  Len(segments) <= MaxSegments /\ \A i \in DOMAIN segments : segments[i] # ""

\* Mutant of the next: a parameter segment matches one literal text only.
TryMatchPrefix(segments, request) ==
  /\ Len(segments) <= Len(request)
  /\ \A i \in DOMAIN segments : segments[i].param \/ segments[i].text = request[i]

\* try_match.
TryMatch(segments, request) ==
  /\ Len(segments) = Len(request)
  /\ \A i \in DOMAIN segments : segments[i].param \/ segments[i].text = request[i]

ParamSegments(segments)  == {i \in DOMAIN segments : segments[i].param}
StaticSegments(segments) == DOMAIN segments \ ParamSegments(segments)
=============================================================================
