------------------------------ MODULE JsonModel ------------------------------
(***************************************************************************)
(* JSON values as yyjson hands them out, and the C structs of the document *)
(* model as the parsers fill them.                                         *)
(*                                                                         *)
(* Every value is a pair <<tag, payload>>, so that any two values can be   *)
(* compared.  A JSON object is the sequence of its members, in the order   *)
(* of the text and with its duplicates; a struct is a function from the    *)
(* names of the members that are set (a member that is zero, nullptr or -1 *)
(* is not in its domain) to their values.  Members are named by the JSON   *)
(* keyword they come from.                                                 *)
(***************************************************************************)
EXTENDS Integers, Sequences, SequencesExt

Str(s)    == <<"str", s>>
Int_(n)   == <<"int", n>>
Real_(n)  == <<"real", n>>
Bool(b)   == <<"bool", b>>
Arr(q)    == <<"arr", q>>
Obj(m)    == <<"obj", m>>       \* members: a sequence of <<key, value>>

Struct(f) == <<"struct", f>>
List(q)   == <<"list", q>>      \* an array of pointers with its count
Table(m)  == <<"table", m>>     \* an array of entries <<name, pointer>>
Null      == <<"null", 0>>      \* nullptr
Garbage   == <<"garbage", 0>>   \* a pointer nobody wrote: arena memory is
                                \* what malloc returned

Is(tag, v) == v[1] = tag
Missing    == <<"missing", 0>>  \* yyjson_obj_get found no such key

\* yyjson_obj_get: the first member with the key; nothing for a non-object.
Get(o, k) ==
  IF ~Is("obj", o) THEN Missing
  ELSE LET at == {i \in DOMAIN o[2] : o[2][i][1] = k}
       IN  IF at = {} THEN Missing
           ELSE o[2][CHOOSE i \in at : \A j \in at : i <= j][2]

NoMembers == [k \in {} |-> Null]

-----------------------------------------------------------------------------
(***************************************************************************)
(* What the parsers do with one keyword: look it up, look at its kind, and *)
(* set the member or leave it as it was.  `oom' says which allocations     *)
(* fail: pairs of a site and the JSON value it is made for, or of a site   *)
(* and Anywhere.  Such a member stays unset, without an error.             *)
(***************************************************************************)
Anywhere == <<"anywhere", 0>>
NoMemory(site, v, oom) == <<site, Anywhere>> \in oom \/ <<site, v>> \in oom

Tagged(o, K, tag) ==
  [k \in {k \in K : Is(tag, Get(o, k))} |-> Get(o, k)]

Strs(o, K)  == Tagged(o, K, "str")
Flags(o, K) == [k \in {k \in K : Get(o, k) = Bool(TRUE)} |-> Bool(TRUE)]

\* A pointer to what P makes of an object.
Sub(o, k, oom, P(_)) ==
  LET p == P(Get(o, k))
  IN  IF Is("obj", Get(o, k)) /\ ~NoMemory(k, Get(o, k), oom) /\ p # Null
      THEN [x \in {k} |-> p] ELSE NoMembers

\* A counted array with P of each element; none for an empty array.
Each(o, k, oom, P(_)) ==
  IF Is("arr", Get(o, k)) /\ Get(o, k)[2] # <<>> /\ ~NoMemory(k, Get(o, k), oom)
  THEN [x \in {k} |->
          List([i \in DOMAIN Get(o, k)[2] |-> P(Get(o, k)[2][i])])]
  ELSE NoMembers

\* A counted array of entries, one for each member of an object.
Entries(o, k, oom, P(_)) ==
  IF Is("obj", Get(o, k)) /\ Get(o, k)[2] # <<>> /\ ~NoMemory(k, Get(o, k), oom)
  THEN [x \in {k} |->
          Table([i \in DOMAIN Get(o, k)[2] |->
                   <<Get(o, k)[2][i][1], P(Get(o, k)[2][i][2])>>])]
  ELSE NoMembers

StrOrNull(v) == IF Is("str", v) THEN v ELSE Null

-----------------------------------------------------------------------------
(***************************************************************************)
(* What the emitters do with one member: nothing when it is not set, and   *)
(* nothing for a null value either, since yyjson_mut_arr_append and        *)
(* yyjson_mut_obj_add_* refuse a null value or a null key.                 *)
(***************************************************************************)
Has(s, k) == k \in DOMAIN s[2]

\* The members of s named in the sequence keys, E giving the JSON of each.
Emit(s, keys, E(_)) ==
  LET set == SelectSeq(keys, LAMBDA k : Has(s, k))
  IN  [i \in DOMAIN set |-> <<set[i], E(s[2][set[i]])>>]

Same(v) == v
NonNull(q) == SelectSeq(q, LAMBDA v : v # Null)

EmitEach(v, E(_)) ==
  LET q == NonNull(v[2]) IN Arr([i \in DOMAIN q |-> E(q[i])])

EmitEntries(v, E(_)) ==
  LET m == SelectSeq(v[2], LAMBDA e : e[2] # Null)
  IN  Obj([i \in DOMAIN m |-> <<m[i][1], E(m[i][2])>>])
=============================================================================
