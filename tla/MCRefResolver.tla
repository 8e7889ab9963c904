---------------------------- MODULE MCRefResolver -----------------------------
(***************************************************************************)
(* RefResolver on documents whose values refer to each other, to           *)
(* themselves, to nothing, to two files and to two remote documents.       *)
(***************************************************************************)
EXTENDS RefResolver

Fragment(at)            == [kind |-> "fragment", uri |-> "", relative |-> FALSE,
                            at |-> at, component |-> None]
Component(name)         == [Fragment(name) EXCEPT !.component = name]
File(uri, relative, at) == [kind |-> "file", uri |-> uri, relative |-> relative,
                            at |-> at, component |-> None]
Web(kind, uri, at)      == [File(uri, FALSE, at) EXCEPT !.kind = kind]

\* The whole of a fetched document is its value "".
MCUri ==
  "#a" :> Fragment("a") @@ "#b" :> Fragment("b") @@ "#c" :> Fragment("c") @@
  "#text" :> Fragment("text") @@ "#gone" :> Fragment("gone") @@
  "#Pet" :> Component("Pet") @@
  "f" :> File("f", TRUE, "") @@ "f#d" :> File("f", TRUE, "d") @@
  "f#gone" :> File("f", TRUE, "gone") @@ "f#long" :> File("f", TRUE, TooLong) @@
  "/g" :> File("/g", FALSE, "") @@ "/g#d" :> File("/g", FALSE, "d") @@
  "http:h" :> Web("http", "http:h", "") @@ "https:s#d" :> Web("https", "https:s", "d")
MCRefs == DOMAIN MCUri

MCContent ==
  [u \in {"f", "/g", "http:h", "https:s"} |->
     "" :> [object |-> TRUE, ref |-> None] @@ "d" :> [object |-> TRUE, ref |-> "#a"]]
MCOutcomes ==
  "f" :> {"ok", "missing", "unreadable", "unparsable"} @@
  "/g" :> {"ok", "unsafe"} @@
  "http:h" :> {"ok", "ELOOP", "unparsable"} @@ "https:s" :> {"ok", "refused"}

\* Everything allowed; one thing not; no cache; no options.
Open == [given |-> TRUE, cached |-> TRUE, remote |-> TRUE, file |-> TRUE,
         callback |-> TRUE, maxDocuments |-> 2]
MCSettings ==
  { Open, [Open EXCEPT !.callback = FALSE], [Open EXCEPT !.maxDocuments = 1],
    [Open EXCEPT !.remote = FALSE], [Open EXCEPT !.file = FALSE],
    [Open EXCEPT !.cached = FALSE],
    [Open EXCEPT !.given = FALSE, !.cached = FALSE] }

Object(r) == [object |-> TRUE, ref |-> r]
ValuesWith(a, b, c) ==
  "a" :> Object(a) @@ "b" :> Object(b) @@ "c" :> Object(c) @@
  "text" :> [object |-> FALSE, ref |-> None] @@ "Pet" :> Object(None)

\* Three schemas: a component "Pet", and a schema of an operation with one below.
NoComponents == [schemas |-> <<>>, responses |-> <<>>, parameters |-> <<>>,
                 bodies |-> <<>>, headers |-> <<>>]
Doc(values, pet, top, below) ==
  [components |-> [NoComponents EXCEPT !.schemas = <<"pet">>],
   names      |-> "Pet" :> "pet",
   paths      |-> <<[params |-> <<>>,
                     operations |-> <<[params |-> <<>>, body |-> <<"top">>,
                                       responses |-> <<>>]>>]>>,
   schemas    |-> "pet" :> [ref |-> pet, subschemas |-> <<>>] @@
                  "top" :> [ref |-> top, subschemas |-> <<"below">>] @@
                  "below" :> [ref |-> below, subschemas |-> <<>>],
   values     |-> values]

\* Chains of every length up to the limit and over it, circles of one, two and
\* three references, and chains that leave the document.
MCDocuments ==
  { Doc(ValuesWith("#b", b, c), "#Pet", "#a", "f") :
      b \in {None, "#a", "#b", "#c"}, c \in {None, "#a", "#gone", "/g"} } \cup
  { Doc(ValuesWith(None, None, None), None, top, below) :
      top \in {None, "#Pet", "f", "f#d"}, below \in {"#text", "f#d", "http:h"} }
MCCalls ==
  { <<All>> } \cup { <<p, q>> : p \in {"#a", "f"}, q \in MCRefs }
=============================================================================
