----------------------------- MODULE MCHttpFetch -----------------------------
(***************************************************************************)
(* A first buffer of four bytes and limits below, at and above the sizes   *)
(* at which it doubles, and at the end of a size_t: the largest whose sum  *)
(* with that buffer fits, and the largest of all; servers that answer,     *)
(* redirect in a circle, send no header, or never stop.                    *)
(***************************************************************************)
EXTENDS HttpFetch

CONSTANTS ok, empty, long

Url(scheme) == [scheme |-> scheme, crlf |-> FALSE, host |-> ok, port |-> ok, path |-> ok]
Plain == Url("http")
MCUrls ==
  {Plain, Url("https"), Url("relative"), [Plain EXCEPT !.crlf = TRUE],
   [Plain EXCEPT !.host = empty], [Plain EXCEPT !.port = long],
   [Plain EXCEPT !.path = long]}

Answer(n, h, s) ==
  [length |-> n, header |-> h, status |-> s, location |-> NoUrl]
Redirect(u) == [Answer(3, 3, 302) EXCEPT !.location = u]

MCResponses ==
  {Answer(n, 2, 200) : n \in {2, 3, 6, 9}} \cup {Answer(20, 2, 200)}
  \cup {Answer(5, 0, 200), Answer(4, 3, 0), Answer(4, 3, 404), Answer(3, 3, 301)}
  \cup {Redirect(u) : u \in {Plain, Url("https"), Url("relative")}}

Limit(m) == [tls |-> TRUE, max_size |-> m, max_redirects |-> 1]
\* The last two sums with the first buffer: one that does not wrap, one that does.
MCOptions ==
  {Limit(m) : m \in {1, 4, 5, Word - 1 - InitBuf, Word - 1}}
  \cup {[tls |-> FALSE, max_size |-> 0, max_redirects |-> 0]}
=============================================================================
