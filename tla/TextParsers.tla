----------------------------- MODULE TextParsers -----------------------------
(***************************************************************************)
(* The functions that take a text apart: URIs, JSON Pointers, query        *)
(* strings, Cookie and Accept headers.  A text is a sequence of            *)
(* one-character strings, an optional text <<>> when it is nullptr and     *)
(* <<text>> else.                                                          *)
(***************************************************************************)
EXTENDS Integers, Sequences, SequencesExt

None == <<>>

\* The text a string of TLA+ stands for.
Chars(s) == [i \in 1..Len(s) |-> SubSeq(s, i, i)]

Lower    == Chars("abcdefghijklmnopqrstuvwxyz")
Upper    == Chars("ABCDEFGHIJKLMNOPQRSTUVWXYZ")
Decimals == Chars("0123456789")
Sixteen  == Decimals \o Chars("abcdef")

Digits  == ToSet(Decimals)
Letters == ToSet(Lower) \cup ToSet(Upper)
Hex     == ToSet(Sixteen) \cup ToSet(Chars("ABCDEF"))

\* The bytes 32 to 126, in their order.
Ascii ==
  <<" ", "!", "\"", "#", "$", "%", "&", "'">>
  \o <<"(", ")", "*", "+", ",", "-", ".", "/">>
  \o Decimals \o Chars(":;<=>?@") \o Upper \o <<"[", "\\", "]", "^", "_", "backtick">>
  \o Lower \o <<"{", "|", "}", "~">>

NUL == "NUL"
Byte(n) ==
  IF n \in 32..126 THEN Ascii[n - 31] ELSE IF n = 0 THEN NUL ELSE ToString(n)
Printable == ToSet(Ascii)
Blank == {" ", ToString(9)}

Place(c, s) == SelectInSeq(s, LAMBDA x : x = c)
LowerCase(c) == IF c \in ToSet(Upper) THEN Lower[Place(c, Upper)] ELSE c
HexValue == [c \in Hex |-> Place(LowerCase(c), Sixteen) - 1]

\* The number a text of digits stands for.
Number(t) == FoldLeft(LAMBDA n, d : 10 * n + HexValue[d], 0, t)

\* The text in front of the first character of C, and the rest.
Until(t, C) ==
  LET i == SelectInSeq(t, LAMBDA c : c \in C)
  IN  IF i = 0 THEN t ELSE SubSeq(t, 1, i - 1)
Drop(t, n) == SubSeq(t, n + 1, Len(t))
From(t, C) == Drop(t, Len(Until(t, C)))

\* What is left when leading characters of C are skipped.
Skip(t, C) ==
  LET i == SelectInSeq(t, LAMBDA c : c \notin C)
  IN  IF i = 0 THEN <<>> ELSE Drop(t, i - 1)

\* The pieces between the separators.
Split(t, c) ==
  FoldLeft(LAMBDA pieces, x :
             IF x = c THEN Append(pieces, <<>>)
             ELSE [pieces EXCEPT ![Len(pieces)] = Append(@, x)],
           <<<<>>>>, t)
Join(pieces, c) ==
  Drop(FlattenSeq([i \in DOMAIN pieces |-> <<c>> \o pieces[i]]), 1)
-----------------------------------------------------------------------------
(* oas_uri.c: oas_uri_parse, oas_uri_resolve and oas_uri_path_is_safe. *)

\* Zero for a text that is no port.
parse_port(t) ==
  IF Len(t) \notin 1..5 \/ ~(ToSet(t) \subseteq Digits) THEN 0
  ELSE IF Number(t) > 65535 THEN 0 ELSE Number(t)

IsScheme(t) ==
  /\ t # <<>> /\ t[1] \in Letters
  /\ ToSet(t) \subseteq Letters \cup Digits \cup {"+", "-", "."}

\* A colon in front of every slash ends a scheme, if what it ends is one.
SchemeOf(t) ==
  LET s == Until(t, {":", "/"})
  IN  IF IsPrefix(<<":">>, From(t, {":", "/"})) /\ IsScheme(s) THEN <<s>>
      ELSE None

\* The port follows the last colon of the authority.
PortColon(a) == SelectLastInSeq(a, LAMBDA c : c = ":")
HostAndPort(a, colon) ==
  IF colon = 0 THEN [host |-> <<a>>, port |-> 0]
  ELSE [host |-> <<SubSeq(a, 1, colon - 1)>>, port |-> parse_port(Drop(a, colon))]

\* The authority and what follows it.
EndOfAuthority == {"/", "?", "#"}
Authority(t) ==
  IF IsPrefix(<<"/", "/">>, t)
  THEN <<HostAndPort(Until(Drop(t, 2), EndOfAuthority),
                     PortColon(Until(Drop(t, 2), EndOfAuthority))),
         From(Drop(t, 2), EndOfAuthority)>>
  ELSE <<[host |-> None, port |-> 0], t>>

\* The path, the query and the fragment.
Path(t) == IF t = <<>> THEN None ELSE <<t>>
Query(t) == IF IsPrefix(<<"?">>, t) THEN <<Drop(Until(t, {"#"}), 1)>> ELSE None
Fragment(t) == IF t = <<>> THEN None ELSE <<Drop(t, 1)>>
ParseTail(t) ==
  [path     |-> Path(Until(t, {"?", "#"})),
   query    |-> Query(From(t, {"?", "#"})),
   fragment |-> Fragment(From(t, {"#"}))]

ParseRest(scheme, parts) ==
  [scheme |-> scheme] @@ parts[1] @@ ParseTail(parts[2])

ParseFrom(t, scheme) ==
  ParseRest(scheme, Authority(IF scheme = None THEN t ELSE Drop(t, Len(scheme[1]) + 1)))

oas_uri_parse(t) ==
  ParseFrom(t, IF IsPrefix(<<"#">>, t) THEN None ELSE SchemeOf(t))

-----------------------------------------------------------------------------
\* The directory of a path, with its slash.
merge_base(path) ==
  IF path = None THEN <<"/">>
  ELSE SubSeq(path[1], 1, SelectLastInSeq(path[1], LAMBDA c : c = "/"))

Decimal(n) == Chars(ToString(n))

\* An optional part with the characters in front of it and behind it.
Part(before, opt, after) ==
  IF opt = None THEN <<>> ELSE before \o opt[1] \o after

Port(n) == IF n > 0 THEN <<":">> \o Decimal(n) ELSE <<>>

\* "%s://%s:%u" of what is there.
Origin(base) ==
  Part(<<>>, base.scheme, <<":", "/", "/">>) \o Part(<<>>, base.host, <<>>)
  \o Port(base.port)

Size(opt, more) == IF opt = None THEN 0 ELSE Len(opt[1]) + more

\* Mutant of the next: no room for the colon of the port.
OriginSizeTight(base) ==
  Size(base.scheme, 3) + Size(base.host, 0) + IF base.port > 0 THEN 4 ELSE 0

\* What oas_uri_resolve counts for it.
OriginSize(base) ==
  Size(base.scheme, 3) + Size(base.host, 0) + IF base.port > 0 THEN 6 ELSE 0

\* The text and the size that is allocated for it and its terminating zero.
Resolved(base, ref, r, dir) ==
  CASE r.scheme # None -> [text |-> ref, size |-> Len(ref) + 1]
    [] IsPrefix(<<"#">>, ref) ->
         [text |-> Origin(base) \o Part(<<>>, base.path, <<>>)
                   \o Part(<<"#">>, r.fragment, <<>>),
          size |-> OriginSize(base) + Size(base.path, 0) + Size(r.fragment, 1) + 1]
    [] OTHER ->
         [text |-> Origin(base) \o dir \o Part(<<>>, r.path, <<>>)
                   \o Part(<<"?">>, r.query, <<>>) \o Part(<<"#">>, r.fragment, <<>>),
          size |-> OriginSize(base) + Len(dir) + Size(r.path, 0)
                   + Size(r.fragment, 1) + Size(r.query, 1) + 1]

oas_uri_resolve(base, ref) ==
  Resolved(base, ref, oas_uri_parse(ref), merge_base(base.path))

\* No ".." between slashes or at an end.
oas_uri_path_is_safe(t) ==
  ~\E i \in 1..Len(t) - 1 :
     /\ t[i] = "." /\ t[i + 1] = "."
     /\ i = 1 \/ t[i - 1] = "/"
     /\ i + 1 = Len(t) \/ t[i + 2] = "/"
-----------------------------------------------------------------------------
\* JSON Pointer.
oas_jsonptr_from_ref(t) == IF IsPrefix(<<"#">>, t) THEN Drop(t, 1) ELSE t

\* Mutant of the next: two passes, the tilde first.
RECURSIVE UnescapeTwice(_)
UnescapeTwice(t) ==
  IF t = <<>> THEN <<>>
  ELSE IF IsPrefix(<<"~", "0">>, t) THEN UnescapeTwice(<<"~">> \o Drop(t, 2))
  ELSE IF IsPrefix(<<"~", "1">>, t) THEN <<"/">> \o UnescapeTwice(Drop(t, 2))
  ELSE <<t[1]>> \o UnescapeTwice(Drop(t, 1))

RECURSIVE unescape_segment(_)
unescape_segment(t) ==
  IF t = <<>> THEN <<>>
  ELSE IF IsPrefix(<<"~", "1">>, t) THEN <<"/">> \o unescape_segment(Drop(t, 2))
  ELSE IF IsPrefix(<<"~", "0">>, t) THEN <<"~">> \o unescape_segment(Drop(t, 2))
  ELSE <<t[1]>> \o unescape_segment(Drop(t, 1))

\* The segments, or None where the pointer is refused.
oas_jsonptr_parse(t) ==
  LET segments == Split(Drop(t, 1), "/")
  IN  IF t = <<>> THEN <<<<>>>>
      ELSE IF t[1] # "/" THEN None
      ELSE <<[i \in DOMAIN segments |-> unescape_segment(segments[i])]>>

-----------------------------------------------------------------------------
\* Query strings and cookies.  A decoded text ends at its first zero byte for
\* whoever reads it.
IsEscape(t) ==
  Len(t) >= 3 /\ t[1] = "%" /\ t[2] \in Hex /\ t[3] \in Hex
Escaped(t) == Byte(16 * HexValue[t[2]] + HexValue[t[3]])

RECURSIVE Decode(_)
Decode(t) ==
  IF t = <<>> THEN <<>>
  ELSE IF IsEscape(t) THEN <<Escaped(t)>> \o Decode(Drop(t, 3))
  ELSE <<t[1]>> \o Decode(Drop(t, 1))

Plus(t) == [i \in DOMAIN t |-> IF t[i] = "+" THEN " " ELSE t[i]]

\* A plus is a space, an escaped one is a plus.
url_decode(t) == Until(Decode(Plus(t)), {NUL})

\* A zero byte is dropped.
percent_decode(t) == SelectSeq(Decode(t), LAMBDA c : c # NUL)

\* The two sides of the first "="; without one the value is empty.
Sides(t) ==
  LET key == Until(t, {"="})
  IN  [key |-> key, value |-> Drop(t, Len(key) + 1)]

\* The pieces, but for an empty one after the last separator.
Pieces(pieces) ==
  IF Last(pieces) = <<>> THEN Front(pieces) ELSE pieces

oas_query_parse(t) ==
  LET pieces == Pieces(Split(t, "&"))
  IN  [i \in DOMAIN pieces |->
         [key   |-> url_decode(Sides(pieces[i]).key),
          value |-> url_decode(Sides(pieces[i]).value)]]

\* The places where "; " begins.
Separators(t) ==
  {i \in 1..Len(t) - 1 : t[i] = ";" /\ t[i + 1] = " "}

RECURSIVE SplitCookies(_)
SplitCookies(t) ==
  IF Separators(t) = {} THEN <<t>>
  ELSE LET at == CHOOSE i \in Separators(t) : \A j \in Separators(t) : i <= j
       IN  <<SubSeq(t, 1, at - 1)>> \o SplitCookies(Drop(t, at + 1))

\* The name is taken as it is.
oas_cookie_parse(t) ==
  LET pieces == Pieces(SplitCookies(t))
  IN  [i \in DOMAIN pieces |->
         [key   |-> Sides(pieces[i]).key,
          value |-> percent_decode(Sides(pieces[i]).value)]]

-----------------------------------------------------------------------------
\* Content negotiation.  A quality is counted in tenths: strtod reads a digit
\* and one digit of a fraction, what is no number is zero.
strtod(t) ==
  LET u == Skip(t, Blank)
  IN  IF u = <<>> \/ u[1] \notin Digits THEN 0
      ELSE 10 * HexValue[u[1]]
           + IF Len(u) >= 3 /\ u[2] = "." /\ u[3] \in Digits THEN HexValue[u[3]]
             ELSE 0

IsQuality(param) == IsPrefix(<<"q", "=">>, Skip(param, Blank))

\* One, unless a parameter says otherwise; the first one counts.
parse_quality(params) ==
  LET at == SelectInSeq(params, IsQuality)
  IN  IF at = 0 THEN 10 ELSE strtod(Drop(Skip(params[at], Blank), 2))

RECURSIVE TrimRight(_)
TrimRight(t) ==
  IF t # <<>> /\ Last(t) = " " THEN TrimRight(Front(t)) ELSE t

\* None without a slash.
parse_accept_entry(t) ==
  LET u     == Skip(t, Blank)
      rest  == Drop(From(u, {"/"}), 1)
      parts == Split(rest, ";")
  IN  IF "/" \notin ToSet(u) THEN None
      ELSE <<[type    |-> TrimRight(Until(u, {"/"})),
              subtype |-> TrimRight(parts[1]),
              quality |-> parse_quality(Tail(parts))]>>

SameLetters(a, b) ==
  Len(a) = Len(b) /\ \A i \in DOMAIN a : LowerCase(a[i]) = LowerCase(b[i])

media_type_matches(entry, available) ==
  \/ entry.type = <<"*">>
  \/ /\ "/" \in ToSet(available)
     /\ SameLetters(entry.type, Until(available, {"/"}))
     /\ \/ entry.subtype = <<"*">>
        \/ SameLetters(entry.subtype, Drop(From(available, {"/"}), 1))

\* Mutant of the next: a later match of the same quality takes over.
BetterOrEqual(entry, best) == entry.quality >= best.quality

Better(entry, best) == entry.quality > best.quality

\* The pair of loops: over the entries, and for each over what is available.
oas_negotiate_content_type(accept, available) ==
  LET entries == Split(accept, ",")
      try(best, text) ==
        LET entry == parse_accept_entry(text)
        IN  IF entry = None THEN best
            ELSE FoldLeft(LAMBDA b, a :
                            IF media_type_matches(entry[1], a) /\ Better(entry[1], b)
                            THEN [quality |-> entry[1].quality, match |-> <<a>>]
                            ELSE b,
                          best, available)
  IN  FoldLeft(try, [quality |-> -1, match |-> None], entries).match
==============================================================================
