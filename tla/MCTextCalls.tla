----------------------------- MODULE MCTextCalls -----------------------------
(***************************************************************************)
(* The inputs of TextCalls: every short text over a few characters that    *)
(* mean something to the parser, and texts one edit away from valid ones.  *)
(***************************************************************************)
EXTENDS TextCalls

MCTexts(S) == {Chars(s) : s \in S}
Optional(S) == {None} \cup {<<t>> : t \in S}

\* Every text over C of at most n characters.
Words(C, n) == UNION {[1..k -> C] : k \in 0..n}

\* An authority is followed by a rooted path; without one a path does not
\* begin like an authority, and a colon in a host needs a port behind it.
MCUris ==
  {u \in [scheme   : Optional(MCTexts({"http", "x+1.b-"})),
          host     : Optional(MCTexts({"", "h.a", "[::1]"})),
          port     : {0, 7, 80, 65535},
          path     : Optional(MCTexts({"/", "/a", "/a:b//c", "a"})),
          query    : Optional(MCTexts({"", "q?/:", "=&"})),
          fragment : Optional(MCTexts({"", "f?/:"}))] :
     /\ u.host = None => u.port = 0
     /\ u.host # None /\ u.path # None => u.path[1][1] = "/"
     /\ u.host # None /\ ":" \in ToSet(u.host[1]) => u.port > 0}

MCBases ==
  MCTexts({"http://h/a/b", "http://h:65535/a", "http://h:7", "http://h",
           "http://h/a/b/", "a/b", "b", "/a/b?q", "x:y", "#f", "//h:1/",
           "http://h:65536/a", "//:80", "https://h.a/x?q#f"})

MCReferences ==
  MCTexts({"c", "c/d", "?q", "#f", "", "/c", "//k/c", "y:z", "c?q#f", "c#f",
           "#", "c?", "d/?a=b"})
  \cup Words({".", "/", "a"}, 6)

\* One character replaced, put in or taken out.
Edits(t, C) ==
  {t} \cup {[t EXCEPT ![i] = c] : i \in DOMAIN t, c \in C}
      \cup {RemoveAt(t, i) : i \in DOMAIN t}
      \cup {InsertAt(t, i, c) : i \in 1..Len(t) + 1, c \in C}

Sample(format, S, C) ==
  {[format |-> format, text |-> t] : t \in UNION {Edits(Chars(s), C) : s \in S}}

Pad(n) == Chars(ToString(n \div 10) \o ToString(n % 10))
Long(n) == [i \in 1..n |-> "a"]

\* Every day, real or not, of common, leap and century years.
MCDates ==
  {Chars(y) \o <<"-">> \o Pad(m) \o <<"-">> \o Pad(d) :
     y \in {"0000", "1900", "2000", "2023", "2024"}, m \in 0..13, d \in 0..32}

MCSamples ==
  {[format |-> "date", text |-> t] : t \in MCDates}
  \cup Sample("date", {"2024-02-29", "1999-12-31"}, {"0", "9", "-", "a"})
  \cup Sample("time", {"23:59:60Z", "00:00:00.5+01:30", "12:30:45-23:59", "09:00:00.25z"},
              {"0", "2", "3", "5", "6", "9", ":", ".", "+", "Z"})
  \cup Sample("date-time", {"2024-02-29T23:59:60Z", "2023-02-28t00:00:00.5+01:30"},
              {"0", "9", ":", "T", "Z", "."})
  \cup Sample("email", {"a@b", "ab@c.d", "a-b@c-d."}, {"@", " ", ".", "-", "a"})
  \cup {[format |-> "email", text |-> Long(n) \o <<"@", "a">>] : n \in 63..65}
  \cup Sample("uri", {"http://a", "x:", "a/b:c", "1a:b", "a+b-c.d:e"}, {":", "/", "+", "1", "#"})
  \cup Sample("uri-reference", {"a/b", "x:y"}, {":", "#", Byte(9), Byte(10), " "})
  \cup Sample("uuid", {"01234567-89ab-cdef-ABCD-EF0123456789"}, {"-", "a", "g"})
  \cup Sample("ipv4", {"1.2.3.4", "255.255.255.255", "192.0.10.255", "0.0.0.0"},
              {"0", "1", "5", "6", "9", ".", "a"})
  \cup Sample("ipv6", {"::", "::1", "1::", "1:2:3:4:5:6:7:8", "1:2::7:8", "abcd::EF01:2",
                       "1:1.2.3.4", "::ffff:1.2.3.4", "1:2:3:4:5:6:1.2.3.4", "1:2:3:4:5:6:7::",
                       "::2:3:4:5:6:7:8", "1::3:4:5:6:7:8"},
              {":", "1", "f", "g", "."})
  \cup {[format |-> "ipv6", text |-> t] : t \in Words({":", "1"}, 7)}
  \cup Sample("hostname", {"a.b", "a-1.b-2.", "x"}, {".", "-", "_", "a"})
  \cup {[format |-> "hostname", text |-> Long(n) \o <<".">> \o Long(m)] :
          n \in 62..64, m \in {0, 1, 63, 64}}
  \cup Sample("byte", {"", "aGk=", "QQ==", "ab+/", "abcdefg="}, {"=", "a", "+", "_"})
  \cup {[format |-> "byte", text |-> t] : t \in Words({"a", "="}, 8)}
  \cup Sample("int32", {"0", "-1", "2147483647", "-2147483648", "+7", "0012"},
              {"0", "1", "7", "8", "9", "-", "+", " "})
  \cup Sample("int64", {"0", "9223372036854775807", "-9223372036854775808"},
              {"0", "1", "7", "8", "9", "-", " "})

MCPointers ==
  UNION {[1..n -> Words({"~", "/", "0", "1"}, 2)] : n \in 0..2}
  \cup [1..1 -> Words({"~", "/", "0", "1"}, 5)]

Texts2 == Words({"2", "6", "%", "+", "&", "=", " ", ";"}, 2)
Texts3 == Words({"2", "6", "%", "+", "&", "=", ";"}, 3)
Pair(keys, values) == [key : keys, value : values]
MCQueryLists ==
  {<<>>} \cup [1..1 -> Pair(Texts2, Words({"2", "%", "+"}, 1)) \cup Pair({<<>>, <<"a">>}, Texts3)]
  \cup [1..2 -> Pair(Words({"a", "&", "="}, 1), Words({"a", "%", "+"}, 1))]

Names == {<<"a">>, <<"%", "2", "6">>, <<";">>, <<"&">>, <<"+">>}
MCCookieLists ==
  {<<>>} \cup [1..1 -> Pair(Names, Texts3)]
  \cup [1..2 -> Pair(Names, Words({" ", ";", "=", "%"}, 1))]

MCSpellings == {{}, Printable \ {"%", "&", "+", "=", ";", " "}}

Entry(type, subtype, Q, S) ==
  [type : {Chars(type)}, subtype : {Chars(subtype)},
   q : Optional(Q), spelling : S]
MCEntries ==
  Entry("a", "b", {0, 5, 10}, {"plain", "blanks", "before", "after", "loud"})
  \cup Entry("a", "c", {3, 5}, {"plain", "after"})
  \cup Entry("a", "*", {0, 5}, {"plain", "loud"})
  \cup Entry("*", "*", {3, 5}, {"plain", "blanks"})
MCAccepts ==
  UNION {[1..n -> MCEntries] : n \in 0..2}
  \cup [1..3 -> Entry("a", "b", {5}, {"plain"}) \cup Entry("a", "*", {5}, {"blanks"})
               \cup Entry("*", "*", {3}, {"after"}) \cup Entry("a", "c", {8}, {"plain"})]
MCAvailable ==
  LET media == MCTexts({"a/b", "a/c", "d/b"})
  IN  {<<m>> : m \in media} \cup {<<m, n>> : m \in media, n \in media} \cup {<<>>}
=============================================================================
