------------------------------ MODULE TextCalls ------------------------------
(***************************************************************************)
(* Calls of the functions that read texts, one action for each.  "call" is *)
(* the last call that ended: the function, what it was given and what it   *)
(* returned.  The texts of the parsers are written from the value they     *)
(* stand for, which the answer is then compared with.                      *)
(***************************************************************************)
EXTENDS Formats

CONSTANTS
  Uris,        \* parts of URIs, as oas_uri_parse returns them
  Bases,       \* texts of base URIs
  References,  \* texts of references
  Samples,     \* pairs of a format and a text
  Pointers,    \* sequences of segments
  QueryLists,  \* sequences of records key, value
  CookieLists, \* the same, with keys no cookie has to escape
  Spellings,   \* sets of characters that are written as they are
  Accepts,     \* sequences of records type, subtype, q, spelling
  Available    \* sequences of media types

VARIABLE call

Idle == [fn |-> "none"]

Ended(fn, in, out) == call' = [fn |-> fn, in |-> in, out |-> out]

-----------------------------------------------------------------------------
\* How the values are written.
Compose(u) ==
  Part(<<>>, u.scheme, <<":">>) \o Part(<<"/", "/">>, u.host, <<>>)
  \o Port(u.port) \o Part(<<>>, u.path, <<>>) \o Part(<<"?">>, u.query, <<>>)
  \o Part(<<"#">>, u.fragment, <<>>)

Spelled(t, one(_)) == FlattenSeq([i \in DOMAIN t |-> one(t[i])])

EscapeSegment(t) ==
  Spelled(t, LAMBDA c : CASE c = "~" -> <<"~", "0">> [] c = "/" -> <<"~", "1">>
                          [] OTHER -> <<c>>)
Pointer(segments) ==
  Spelled(segments, LAMBDA s : <<"/">> \o EscapeSegment(s))

Percent(c) ==
  LET n == CHOOSE k \in 32..126 : Byte(k) = c
  IN  <<"%", Sixteen[n \div 16 + 1], Sixteen[(n % 16) + 1]>>
Encode(t, plain) == Spelled(t, LAMBDA c : IF c \in plain THEN <<c>> ELSE Percent(c))

QueryText(list, plain) ==
  Join([i \in DOMAIN list |->
          Encode(list[i].key, plain) \o <<"=">> \o Encode(list[i].value, plain)],
       "&")
CookieText(list, plain) ==
  Drop(Spelled(list, LAMBDA p : <<";", " ">> \o p.key \o <<"=">>
                                \o Encode(p.value, plain)), 2)

\* An entry is written alone, with blanks, with a parameter before or after
\* its quality, or loud, in capitals.
Quality(q) == IF q = 10 THEN <<"1">> ELSE <<"0", ".", ToString(q)>>
EntryText(e) ==
  LET Q == IF e.q = None THEN <<>> ELSE <<"q", "=">> \o Quality(e.q[1])
      body == e.type \o <<"/">> \o e.subtype
      Loud(t) == [i \in DOMAIN t |-> IF t[i] \in ToSet(Lower)
                                    THEN Upper[Place(t[i], Lower)] ELSE t[i]]
  IN  CASE e.spelling = "plain"  -> body \o (IF Q = <<>> THEN Q ELSE <<";">> \o Q)
        [] e.spelling = "loud"   -> Loud(body) \o <<";">> \o Q
        [] e.spelling = "blanks" ->
               <<" ">> \o e.type \o <<" ", "/">> \o e.subtype \o <<" ", ";", " ">> \o Q
        [] e.spelling = "before" -> body \o <<";", "v", "=", "0", ";">> \o Q
        [] e.spelling = "after"  -> body \o <<";">> \o Q \o <<";", "q", "=", "0">>
AcceptText(entries) == Join([i \in DOMAIN entries |-> EntryText(entries[i])], ",")

-----------------------------------------------------------------------------
\* One action for each function.
ParseUri == \E u \in Uris : Ended("oas_uri_parse", u, oas_uri_parse(Compose(u)))

ResolveUri == \E base \in Bases, ref \in References :
  Ended("oas_uri_resolve", [base |-> oas_uri_parse(base), ref |-> ref],
        oas_uri_resolve(oas_uri_parse(base), ref))

CheckPath == \E t \in References :
  Ended("oas_uri_path_is_safe", t, oas_uri_path_is_safe(t))

CheckFormat == \E s \in Samples : Ended("oas_format_get", s, Accepted(s.format, s.text))

ParsePointer == \E segments \in Pointers :
  Ended("oas_jsonptr_parse", segments,
        oas_jsonptr_parse(oas_jsonptr_from_ref(<<"#">> \o Pointer(segments))))

ParseQuery == \E list \in QueryLists, plain \in Spellings :
  Ended("oas_query_parse", list, oas_query_parse(QueryText(list, plain)))

ParseCookies == \E list \in CookieLists, plain \in Spellings :
  Ended("oas_cookie_parse", list, oas_cookie_parse(CookieText(list, plain)))

Negotiate == \E entries \in Accepts, available \in Available :
  Ended("oas_negotiate_content_type",
        [entries |-> entries, available |-> available],
        oas_negotiate_content_type(AcceptText(entries), available))

Init == call = Idle

Call ==
  \/ ParseUri \/ ResolveUri \/ CheckPath \/ CheckFormat
  \/ ParsePointer \/ ParseQuery \/ ParseCookies \/ Negotiate

Next ==
  \/ call.fn = "none" /\ Call
  \/ call.fn # "none" /\ call' = Idle

Spec == Init /\ [][Next]_call

Calls(fn) == call.fn = fn

-----------------------------------------------------------------------------
(***************************************************************************)
(* What a parser returns is what the text was written from: the parts of a *)
(* URI with its port, the segments of a JSON Pointer with "~1" and "~0"    *)
(* resolved once and in this order, the keys and values of a query string  *)
(* and of a Cookie header, percent-encoded in any way, decoded once.       *)
(***************************************************************************)
ParsingLosesNothing ==
  /\ call.fn \in {"oas_uri_parse", "oas_query_parse", "oas_cookie_parse"} =>
       call.out = call.in
  /\ Calls("oas_jsonptr_parse") => call.out = <<call.in>>

-----------------------------------------------------------------------------
\* RFC 3986, section 5.2.3: the reference replaces what follows the last slash.
\* Section 5.2.2 then removes the dot segments, which the code does not.
Merged(base, path) ==
  IF base.path = None THEN <<"/">> \o path
  ELSE Join(Append(Front(Split(base.path[1], "/")), path), "/")

HasDots(path) ==
  path # None /\ {<<".">>, <<".", ".">>} \cap ToSet(Split(path[1], "/")) # {}

\* A reference that is a path without a leading slash, against a hierarchy, where
\* there are no dot segments to remove.
IsRelative(base, r) ==
  /\ base.scheme # None /\ base.host # None
  /\ r.scheme = None /\ r.path # None /\ r.path[1][1] # "/"
  /\ ~HasDots(base.path) /\ ~HasDots(r.path)

(***************************************************************************)
(* The text oas_uri_resolve writes with sprintf and its zero fit the size  *)
(* it counted, whatever parts are there and however long the port is.      *)
(* The target of a relative path is the one of RFC 3986, section 5.2.2, if *)
(* neither the path nor the base's has a segment "." or "..".              *)
(*                                                                         *)
(* Nothing is said of the targets the code gets wrong (oas_uri.h:39): dot  *)
(* segments stay, and what is not a relative path is joined as one.        *)
(***************************************************************************)
ResolutionFits ==
  Calls("oas_uri_resolve") =>
    LET base == call.in.base
        r    == oas_uri_parse(call.in.ref)
    IN  /\ Len(call.out.text) + 1 <= call.out.size
        /\ IsRelative(base, r) =>
             call.out.text = Compose([base EXCEPT
                                        !.path = <<Merged(base, r.path[1])>>,
                                        !.query = r.query,
                                        !.fragment = r.fragment])

-----------------------------------------------------------------------------
\* The days before the first of March of year 0 and after it, by counting.
DayNumber(y, m, d) ==
  LET a == (14 - m) \div 12
      u == y + 4800 - a
  IN  d + (153 * (m + 12 * a - 3) + 2) \div 5 + 365 * u + u \div 4
      - u \div 100 + u \div 400

Two(n) == <<Decimals[n \div 10 + 1], Decimals[(n % 10) + 1]>>
Twos(n) == {Two(k) : k \in 0..n}

IsDate(t) ==
  LET parts == Split(t, "-")
      y == Number(parts[1])  m == Number(parts[2])  d == Number(parts[3])
  IN  /\ [i \in DOMAIN parts |-> Len(parts[i])] = <<4, 2, 2>>
      /\ \A i \in 1..3 : All(parts[i], Digits)
      /\ m \in 1..12 /\ d >= 1
      /\ DayNumber(y, m, d) < DayNumber(y + m \div 12, (m % 12) + 1, 1)

Zones ==
  {<<"Z">>, <<"z">>} \cup
  {<<s>> \o h \o <<":">> \o m : s \in {"+", "-"}, h \in Twos(23), m \in Twos(59)}

IsTime(t) ==
  /\ \E h \in Twos(23) : IsPrefix(Append(h, ":"), t)
  /\ \E m \in Twos(59) : IsPrefix(Append(m, ":"), Drop(t, 3))
  /\ \E s \in Twos(60) : IsPrefix(s, Drop(t, 6))
  /\ \/ Drop(t, 8) \in Zones
     \/ \E n \in 10..Len(t) :
          /\ t[9] = "." /\ All(SubSeq(t, 10, n), Digits) /\ Drop(t, n) \in Zones

Octets == {Chars(ToString(n)) : n \in 0..255}
IsV4(t) == Len(Split(t, ".")) = 4 /\ \A i \in 1..4 : Split(t, ".")[i] \in Octets

\* How many groups of 16 bits; 9 for what is no list of groups.
Groups(t, endsInV4) ==
  LET pieces == Split(t, ":")
      v4     == endsInV4 /\ IsV4(Last(pieces))
      groups == IF v4 THEN Front(pieces) ELSE pieces
  IN  IF t = <<>> THEN 0
      ELSE IF \A i \in DOMAIN groups : Len(groups[i]) \in 1..4 /\ All(groups[i], Hex)
      THEN Len(groups) + IF v4 THEN 2 ELSE 0 ELSE 9

IsV6(t) ==
  \/ Groups(t, TRUE) = 8
  \/ \E i \in 1..Len(t) - 1 :
       /\ t[i] = ":" /\ t[i + 1] = ":"
       /\ Groups(SubSeq(t, 1, i - 1), FALSE) + Groups(Drop(t, i + 1), TRUE) <= 7

\* What oas_format_ipv6 accepts beyond IsV6: a single colon at an end, three in
\* a row, and any number of groups in front of an IPv4 address.
StrayColon(t) ==
  \/ \E i \in 1..Len(t) - 2 : \A k \in i..i + 2 : t[k] = ":"
  \/ t[1] = ":" /\ t[2] # ":"
  \/ t[Len(t)] = ":" /\ t[Len(t) - 1] # ":"
EndsInV4(t) == ":" \in ToSet(t) /\ IsV4(Last(Split(t, ":")))

IsHostname(t) ==
  /\ Len(t) <= 253
  /\ \A label \in ToSet(Split(t, ".")) :
       /\ Len(label) \in 1..63 /\ All(label, Letters \cup Digits \cup {"-"})
       /\ label[1] # "-" /\ Last(label) # "-"

\* With the dot of the root behind it.
IsRooted(t) ==
  Len(t) \in 2..253 /\ Last(t) = "." /\ IsHostname(Front(t))

IsAddress(t) ==
  \E i \in 2..65 \cap DOMAIN t :
    t[i] = "@" /\ All(SubSeq(t, 1, i - 1), Letters) /\ IsHostname(Drop(t, i))

IsBase64(t) ==
  \E pad \in 0..2 :
    /\ Len(t) >= pad /\ (Len(t) - pad) % 4 = (4 - pad) % 4
    /\ All(SubSeq(t, 1, Len(t) - pad), Letters \cup Digits \cup {"+", "/"})
    /\ All(Drop(t, Len(t) - pad), {"="})

\* The magnitude in groups of nine digits, the highest first.
Limbs(t) ==
  LET m == Magnitude(t)
      z == [i \in 1..27 |-> IF i > 27 - Len(m) THEN m[i - 27 + Len(m)] ELSE "0"]
  IN  <<Number(SubSeq(z, 1, 9)), Number(SubSeq(z, 10, 18)), Number(SubSeq(z, 19, 27))>>
Below(a, b) ==
  \/ a[1] < b[1]
  \/ a[1] = b[1] /\ a[2] < b[2]
  \/ a[1] = b[1] /\ a[2] = b[2] /\ a[3] <= b[3]
IsCanonical(t) ==
  /\ Len(t) <= 21 /\ t # <<>> /\ t[1] \notin Space \cup {"+"}
  /\ Magnitude(t) # <<>> /\ All(Magnitude(t), Digits)
Fits(t, limb) ==
  Below(Limbs(t), [limb EXCEPT ![3] = @ + IF t[1] = "-" THEN 1 ELSE 0])

\* Formats whose validator is exact.
RightBothWays(f, t, yes) ==
  /\ f = "date"      => (yes <=> IsDate(t))
  /\ f = "time"      => (yes <=> IsTime(t))
  /\ f = "date-time" => (yes <=> /\ Len(t) > 11 /\ t[11] \in {"T", "t"}
                                 /\ IsDate(SubSeq(t, 1, 10))
                                 /\ IsTime(Drop(t, 11)))
  /\ f = "ipv4"      => (yes <=> IsV4(t))
  /\ f = "uuid"      => (yes <=> /\ [i \in DOMAIN Split(t, "-") |->
                                       Len(Split(t, "-")[i])] = <<8, 4, 4, 4, 12>>
                                 /\ All(t, Hex \cup {"-"}))
  /\ f = "byte"      => (yes <=> IsBase64(t))
  /\ f = "uri"       => (yes <=> oas_uri_parse(t).scheme # None)
  /\ f = "int32" /\ IsCanonical(t) => (yes <=> Fits(t, <<0, 2, 147483647>>))
  /\ f = "int64" /\ IsCanonical(t) => (yes <=> Fits(t, <<9, 223372036, 854775807>>))

\* Formats whose validator accepts more: what is right is accepted.
RightIsAccepted(f, t, yes) ==
  /\ f = "ipv6" /\ IsV6(t) => yes
  /\ f = "hostname" /\ (IsHostname(t) \/ IsRooted(t)) => yes
  /\ f = "email" /\ IsAddress(t) => yes
  /\ f = "uri-reference" /\ oas_uri_parse(t).scheme # None => yes

\* And how far beyond it the answer may go.
LittleElseIsAccepted(f, t, yes) ==
  /\ f = "ipv6" /\ yes => IsV6(t) \/ StrayColon(t) \/ EndsInV4(t)
  /\ f = "hostname" /\ yes /\ "-" \notin ToSet(t) => IsHostname(t) \/ IsRooted(t)

(***************************************************************************)
(* The validators of oas_format.c.  Exact are those of dates and times     *)
(* that exist, of four octets below 256, of UUIDs and base64, "uri", which *)
(* agrees with oas_uri_parse on what has a scheme, and the integers that   *)
(* fit, of texts without blanks or a plus in front.                        *)
(*                                                                         *)
(* The others accept what is right and more.  "ipv6" goes beyond the RFC   *)
(* at colons and in the number of groups before an IPv4 address            *)
(* ("1:1.2.3.4"), "hostname" only at hyphens; of "email" ("simplified",    *)
(* oas_format.c:173) and "uri-reference" nothing more is said.             *)
(*                                                                         *)
(* oas_uri_path_is_safe: no segment is "..".                               *)
(***************************************************************************)
AnswersAreRight ==
  /\ Calls("oas_uri_path_is_safe") =>
       (call.out <=> <<".", ".">> \notin ToSet(Split(call.in, "/")))
  /\ Calls("oas_format_get") =>
       LET f == call.in.format
           t == call.in.text
       IN  /\ RightBothWays(f, t, call.out) /\ RightIsAccepted(f, t, call.out)
           /\ LittleElseIsAccepted(f, t, call.out)

-----------------------------------------------------------------------------
\* What an entry stands for, from the value it was written from.
Weight(e) ==
  IF e.spelling = "after" /\ e.q = None THEN 0 ELSE IF e.q = None THEN 10 ELSE e.q[1]
Allows(e, media) ==
  e.type = <<"*">> \/ \E sub \in {e.subtype, media.subtype} :
    /\ media.type = e.type /\ media.subtype = sub
    /\ e.subtype \in {<<"*">>, media.subtype}

Media(t) == [type |-> Until(t, {"/"}), subtype |-> Drop(From(t, {"/"}), 1)]

\* RFC 9110, section 12.5.1: type/subtype goes before type/*, that before */*.
Precedence(e) ==
  (IF e.type = <<"*">> THEN 0 ELSE 1) + IF e.subtype = <<"*">> THEN 0 ELSE 1

\* The entries that allow a media type do not contradict one another: none has
\* q=0, and one that is more specific has no lower quality.
Undisputed(E, A) ==
  /\ \A e \in ToSet(E) : Weight(e) > 0
  /\ \A m \in ToSet(A) : \A e, f \in {e \in ToSet(E) : Allows(e, Media(m))} :
       Precedence(e) > Precedence(f) => Weight(e) >= Weight(f)

(***************************************************************************)
(* oas_negotiate_content_type returns nothing exactly if no entry allows   *)
(* what is available; else what the client wants most: a media type whose  *)
(* quality, that of the most specific entry that allows it, is highest; of *)
(* these the one the first entry allows, and the first of those.           *)
(*                                                                         *)
(* Nothing is said of headers with an entry of q=0, or with one that takes *)
(* quality away from part of a range: the code counts the first as an      *)
(* entry like any other (NothingUnacceptable) and ignores how specific an  *)
(* entry is. Parameters of an entry other than q are not compared, by the  *)
(* code nor here.                                                          *)
(***************************************************************************)
NegotiatedIsBest ==
  Calls("oas_negotiate_content_type") /\ Undisputed(call.in.entries, call.in.available) =>
    LET E == call.in.entries
        A == call.in.available
        Hits == {h \in (DOMAIN E) \X (DOMAIN A) : Allows(E[h[1]], Media(A[h[2]]))}
        Beats(g, h) ==
          \/ Weight(E[g[1]]) > Weight(E[h[1]])
          \/ Weight(E[g[1]]) = Weight(E[h[1]]) /\ g[1] < h[1]
          \/ g[1] = h[1] /\ g[2] < h[2]
    IN  IF Hits = {} THEN call.out = None
        ELSE \E h \in Hits : /\ call.out = <<A[h[2]]>>
                             /\ \A g \in Hits : ~Beats(g, h)

(***************************************************************************)
(* "Best match from available, or nullptr if no acceptable type"           *)
(* (oas_negotiate.h:16); a quality of 0 means "not acceptable" (RFC 9110,  *)
(* section 12.4.2).  What is returned is allowed by an entry of another    *)
(* quality.  The code does not have it.                                    *)
(***************************************************************************)
NothingUnacceptable ==
  Calls("oas_negotiate_content_type") /\ call.out # None =>
    \E e \in ToSet(call.in.entries) : Allows(e, Media(call.out[1])) /\ Weight(e) > 0
=============================================================================
