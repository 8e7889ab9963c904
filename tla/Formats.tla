------------------------------- MODULE Formats -------------------------------
(***************************************************************************)
(* The format validators of oas_format.c, one operator for each.           *)
(***************************************************************************)
EXTENDS TextParsers

All(t, C) == ToSet(t) \subseteq C

IsNumber(t, low, high) == All(t, Digits) /\ Number(t) \in low..high

-----------------------------------------------------------------------------
\* Dates and times.
is_leap_year(y) == (y % 4 = 0 /\ y % 100 # 0) \/ y % 400 = 0

\* Mutant of the next: the rule of the Julian calendar.
days_in_month_julian(y, m) ==
  IF m = 2 /\ y % 4 = 0 THEN 29
  ELSE <<31, 28, 31, 30, 31, 30, 31, 31, 30, 31, 30, 31>>[m]

days_in_month(y, m) ==
  IF m = 2 /\ is_leap_year(y) THEN 29
  ELSE <<31, 28, 31, 30, 31, 30, 31, 31, 30, 31, 30, 31>>[m]

oas_format_date(t) ==
  /\ Len(t) = 10 /\ t[5] = "-" /\ t[8] = "-"
  /\ All(SubSeq(t, 1, 4), Digits)
  /\ IsNumber(SubSeq(t, 6, 7), 1, 12)
  /\ IsNumber(SubSeq(t, 9, 10), 1,
              days_in_month(Number(SubSeq(t, 1, 4)), Number(SubSeq(t, 6, 7))))

\* How far hours, minutes, seconds and a fraction reach; zero when refused.
parse_time_part(t) ==
  LET rest     == Drop(t, 8)
      fraction == Len(rest) - 1 - Len(Skip(Drop(rest, 1), Digits))
  IN  IF ~(/\ Len(t) >= 8 /\ t[3] = ":" /\ t[6] = ":"
           /\ IsNumber(SubSeq(t, 1, 2), 0, 23)
           /\ IsNumber(SubSeq(t, 4, 5), 0, 59)
           /\ IsNumber(SubSeq(t, 7, 8), 0, 60))
      THEN 0
      ELSE IF ~IsPrefix(<<".">>, rest) THEN 8
      ELSE IF fraction = 0 THEN 0 ELSE 9 + fraction

parse_timezone(t) ==
  \/ Len(t) = 1 /\ t[1] \in {"Z", "z"}
  \/ /\ Len(t) = 6 /\ t[1] \in {"+", "-"} /\ t[4] = ":"
     /\ IsNumber(SubSeq(t, 2, 3), 0, 23)
     /\ IsNumber(SubSeq(t, 5, 6), 0, 59)

oas_format_time(t) ==
  parse_time_part(t) > 0 /\ parse_timezone(Drop(t, parse_time_part(t)))

oas_format_date_time(t) ==
  /\ Len(t) >= 20 /\ oas_format_date(SubSeq(t, 1, 10))
  /\ t[11] \in {"T", "t"} /\ oas_format_time(Drop(t, 11))

-----------------------------------------------------------------------------
\* Names and identifiers.
oas_format_hostname(t) ==
  LET labels == Split(t, ".")
      last   == Len(labels)
  IN  /\ Len(t) \in 1..253
      /\ All(t, Letters \cup Digits \cup {"-", "."})
      /\ \A i \in 1..last : Len(labels[i]) <= 63
      /\ \A i \in 1..last - 1 : labels[i] # <<>>
      /\ labels[last] = <<>> => Len(t) > 1

oas_format_email(t) ==
  LET name   == Until(t, {"@"})
      domain == Drop(t, Len(name) + 1)
  IN  /\ "@" \in ToSet(t)
      /\ Len(name) \in 1..64 /\ Len(domain) \in 1..255
      /\ All(name, Printable \ {" "})
      /\ oas_format_hostname(domain)

oas_format_uri(t) ==
  /\ t # <<>> /\ t[1] \in Letters
  /\ IsPrefix(<<":">>, Skip(t, Letters \cup Digits \cup {"+", "-", "."}))

\* A control character, but for the tab, is refused.
oas_format_uri_reference(t) ==
  oas_format_uri(t) \/ All(t, {Byte(n) : n \in {9} \cup 32..255})

oas_format_uuid(t) ==
  /\ Len(t) = 36
  /\ \A i \in 1..36 :
       IF i \in {9, 14, 19, 24} THEN t[i] = "-" ELSE t[i] \in Hex

\* Groups of four, the last one padded.
oas_format_byte(t) ==
  LET data == Until(t, {"="})
  IN  /\ Len(t) % 4 = 0
      /\ All(data, Letters \cup Digits \cup {"+", "/"})
      /\ Len(t) - Len(data) <= 2
      /\ All(Drop(t, Len(data)), {"="})

-----------------------------------------------------------------------------
\* Addresses.
oas_format_ipv4(t) ==
  LET octets == Split(t, ".")
  IN  /\ Len(t) \in 7..15 /\ Len(octets) = 4
      /\ \A i \in 1..4 :
           /\ Len(octets[i]) \in 1..3 /\ IsNumber(octets[i], 0, 255)
           /\ Len(octets[i]) > 1 => octets[i][1] # "0"

\* The scan of the text from place i on: groups seen, digits of the group at
\* hand, and whether "::" was met.
RECURSIVE ScanV6(_, _, _, _, _)
ScanV6(t, i, groups, digits, double) ==
  LET done == IF digits > 0 THEN groups + 1 ELSE groups
      v4   == SelectLastInSeq(SubSeq(t, 1, i), LAMBDA c : c = ":")
  IN  IF i > Len(t) THEN IF double THEN done <= 7 ELSE done = 8
      ELSE CASE t[i] \in Hex ->
                  digits < 4 /\ ScanV6(t, i + 1, groups, digits + 1, double)
             [] t[i] = ":" ->
                  IF i < Len(t) /\ t[i + 1] = ":"
                  THEN ~double /\ ScanV6(t, i + 2, done, 0, TRUE)
                  ELSE /\ digits > 0 \/ i = 1 \/ t[i - 1] = ":"
                       /\ ScanV6(t, i + 1, done, 0, double)
             [] t[i] = "." -> v4 > 0 /\ oas_format_ipv4(Drop(t, v4))
             [] OTHER -> FALSE

oas_format_ipv6(t) == Len(t) \in 2..45 /\ ScanV6(t, 1, 0, 0, FALSE)

-----------------------------------------------------------------------------
\* Integers, as strtoll reads them: blanks, a sign, digits.
Space == {Byte(n) : n \in {32} \cup 9..13}

Magnitude(t) ==
  LET body == Skip(t, Space)
  IN  IF body # <<>> /\ body[1] \in {"+", "-"} THEN Drop(body, 1) ELSE body
IsNegative(t) == IsPrefix(<<"-">>, Skip(t, Space))

\* Digits as a number of no width: longer is larger, then the first difference.
NoLarger(a, b) ==
  \/ Len(a) < Len(b)
  \/ /\ Len(a) = Len(b)
     /\ \A i \in DOMAIN a :
          HexValue[a[i]] > HexValue[b[i]] => \E k \in 1..i - 1 : HexValue[a[k]] < HexValue[b[k]]

IsInteger(t, most, least) ==
  /\ Len(t) \in 1..31
  /\ Magnitude(t) # <<>> /\ All(Magnitude(t), Digits)
  /\ NoLarger(Skip(Magnitude(t), {"0"}),
              Chars(IF IsNegative(t) THEN least ELSE most))

oas_format_int32(t) == IsInteger(t, "2147483647", "2147483648")
oas_format_int64(t) ==
  IsInteger(t, "9223372036854775807", "9223372036854775808")

-----------------------------------------------------------------------------
Formats ==
  {"date", "date-time", "time", "email", "uri", "uri-reference", "uuid",
   "ipv4", "ipv6", "hostname", "byte", "int32", "int64"}

\* The validator oas_format_get returns, called on the text.
Accepted(format, t) ==
  CASE format = "date"          -> oas_format_date(t)
    [] format = "date-time"     -> oas_format_date_time(t)
    [] format = "time"          -> oas_format_time(t)
    [] format = "email"         -> oas_format_email(t)
    [] format = "uri"           -> oas_format_uri(t)
    [] format = "uri-reference" -> oas_format_uri_reference(t)
    [] format = "uuid"          -> oas_format_uuid(t)
    [] format = "ipv4"          -> oas_format_ipv4(t)
    [] format = "ipv6"          -> oas_format_ipv6(t)
    [] format = "hostname"      -> oas_format_hostname(t)
    [] format = "byte"          -> oas_format_byte(t)
    [] format = "int32"         -> oas_format_int32(t)
    [] format = "int64"         -> oas_format_int64(t)
=============================================================================
