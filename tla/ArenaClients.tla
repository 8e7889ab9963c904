----------------------------- MODULE ArenaClients -----------------------------
(***************************************************************************)
(* The error list of oas_error.c and the intern pool of oas_intern.c on    *)
(* one arena (module Arena).  A call makes several allocations, each of    *)
(* which may fail; a step is one of them with what the code does next.     *)
(***************************************************************************)
EXTENDS Arena, FiniteSets, SequencesExt

CONSTANTS
  NoPtr,           \* nullptr
  Strings,         \* what is interned
  Errors,          \* the errors callers add: a message and a path
  SizeOf,          \* strlen(str) + 1 of each text
  BucketOf,        \* fnv1a(str) % capacity of each
  HeaderSize,      \* sizeof(oas_error_list_t), sizeof(oas_intern_t)
  ErrorSize,       \* sizeof(oas_error_t)
  EntrySize,       \* sizeof(oas_intern_entry_t)
  PointerSize,     \* sizeof(oas_intern_entry_t *)
  WordAlign,       \* the alignment of these structs
  InitCap,         \* OAS_ERROR_LIST_INIT_CAP, 16 in the code
  MaxAdds,         \* bound: errors added to one list
  MaxStrings       \* bound: successful oas_intern_get of one pool

Buckets == {BucketOf[s] : s \in Strings}

BucketLists == [Buckets -> Seq([str : Strings, at : RegionSet])]

\* nullptr points to nothing, and what the calls ask for is among Sizes and
\* Aligns, with the array of every capacity a list of MaxAdds errors reaches.
ASSUME ClientsAssumption ==
  /\ NoPtr \notin RegionSet /\ NoPtr \notin BucketLists
  /\ \A s \in Strings : SizeOf[s] \in Sizes
  /\ \A e \in Errors : /\ e.message \in Strings
                       /\ e.path # NoPtr => e.path \in Strings
  /\ {HeaderSize, EntrySize, ErrorSize * InitCap} \subseteq Sizes
  /\ PointerSize * Cardinality(Buckets) \in Sizes
  /\ {1, WordAlign} \subseteq Aligns
  /\ InitCap \in Nat \ {0} /\ MaxAdds \in Nat
  /\ \A c \in 1..(MaxAdds - 1) : ErrorSize * (2 * c) \in Sizes

VARIABLES
  list,    \* the error list: array, capacity and the entries up to count
  pool,    \* the entries of each bucket of the intern pool, newest first
  call,    \* where the call in progress stands, <<"idle">> between calls
  added,   \* the errors given to oas_error_list_add (history)
  interned \* what oas_intern_get has answered: <<string, pointer>> (history)

clientVars == <<list, pool, call, added, interned>>
vars == <<heap, blocks, current, live, list, pool, call, added, interned>>

Idle == call = <<"idle">>
NoList == [array |-> NoPtr, capacity |-> 0, errors |-> <<>>]
NoPool == [b \in Buckets |-> <<>>]

Fresh == /\ list' = NoList /\ pool' = NoPtr /\ call' = <<"idle">>
         /\ added' = <<>> /\ interned' = {}

Init ==
  /\ ArenaInit
  /\ list = NoList /\ pool = NoPtr /\ call = <<"idle">>
  /\ added = <<>> /\ interned = {}

\* The next allocation of a call: where it goes on with the pointer, and where
\* without.
AllocThen(size, align, Got(_), Failed) ==
  \/ \E r \in Results(size, align) : Alloc(size, align, r) /\ Got(r)
  \/ AllocFails(size, align) /\ Failed

-----------------------------------------------------------------------------
\* Whoever owns the arena; its clients are dead after a reset.
Owner ==
  /\ Idle /\ Fresh
  /\ Reset \/ Destroy \/ \E base \in Heap : Create(base)

Return == call' = <<"idle">>

ListHeader ==
  /\ Idle /\ list.array = NoPtr /\ UNCHANGED <<list, pool, added, interned>>
  /\ AllocThen(HeaderSize, WordAlign,
               LAMBDA r : call' = <<"list array">>, UNCHANGED call)

ListArray ==
  /\ call = <<"list array">> /\ Return /\ UNCHANGED <<pool, added, interned>>
  /\ AllocThen(ErrorSize * InitCap, WordAlign,
               LAMBDA r : list' = [array |-> r, capacity |-> InitCap, errors |-> <<>>],
               UNCHANGED list)

\* oas_error_list_add: at the limit the array is grown first.
AddError(e) ==
  /\ Idle /\ list.array # NoPtr /\ Len(added) < MaxAdds
  /\ added' = Append(added, e)
  /\ call' = IF Len(list.errors) >= list.capacity THEN <<"grow">> ELSE <<"message">>
  /\ UNCHANGED <<list, pool, interned>> /\ UNCHANGED arenaVars

\* Mutant of the next: the entries are not copied.
GrowEmpty ==
  /\ call = <<"grow">> /\ UNCHANGED <<pool, added, interned>>
  /\ AllocThen(ErrorSize * (2 * list.capacity), WordAlign,
               LAMBDA r : /\ call' = <<"message">>
                          /\ list' = [array |-> r, capacity |-> 2 * list.capacity,
                                      errors |-> <<>>],
               Return /\ UNCHANGED list)

\* error_list_grow: twice the array, with the entries copied; when there is no
\* memory for it the error is dropped.
Grow ==
  /\ call = <<"grow">> /\ UNCHANGED <<pool, added, interned>>
  /\ AllocThen(ErrorSize * (2 * list.capacity), WordAlign,
               LAMBDA r : /\ call' = <<"message">>
                          /\ list' = [list EXCEPT !.array = r, !.capacity = 2 * @],
               Return /\ UNCHANGED list)

\* The new entry, its message null without memory for the copy.  n is the
\* number of the error, which stands for its kind.
Entry_(n, message) == [number |-> n, message |-> message, path |-> NoPtr]

Message ==
  LET e == Last(added)
      with(m) == list' = [list EXCEPT !.errors = Append(@, Entry_(Len(added), m))]
  IN  /\ call = <<"message">> /\ UNCHANGED <<pool, added, interned>>
      /\ call' = IF e.path = NoPtr THEN <<"idle">> ELSE <<"path">>
      /\ AllocThen(SizeOf[e.message], 1, with, with(NoPtr))

Path ==
  LET with(p) == list' = [list EXCEPT !.errors[Len(list.errors)].path = p]
  IN  /\ call = <<"path">> /\ Return /\ UNCHANGED <<pool, added, interned>>
      /\ AllocThen(SizeOf[Last(added).path], 1, with, with(NoPtr))

-----------------------------------------------------------------------------
PoolHeader ==
  /\ Idle /\ pool = NoPtr /\ UNCHANGED <<list, pool, added, interned>>
  /\ AllocThen(HeaderSize, WordAlign,
               LAMBDA r : call' = <<"buckets">>, UNCHANGED call)

PoolBuckets ==
  /\ call = <<"buckets">> /\ Return /\ UNCHANGED <<list, added, interned>>
  /\ AllocThen(PointerSize * Cardinality(Buckets), WordAlign,
               LAMBDA r : pool' = NoPool, UNCHANGED pool)

\* Mutant of the next: the lengths are compared and the bytes are not.
MatchesLength(entry, str) == SizeOf[entry.str] = SizeOf[str]

\* e->len == len and memcmp.
Matches(entry, str) == entry.str = str
Found(str) == SelectInSeq(pool[BucketOf[str]], LAMBDA e : Matches(e, str))

\* oas_intern_get: the first entry of the bucket that is the string, if any is.
Intern(str) ==
  /\ Idle /\ pool # NoPtr
  /\ IF Found(str) # 0
     THEN /\ interned' = interned \cup {<<str, pool[BucketOf[str]][Found(str)].at>>}
          /\ UNCHANGED call
     ELSE call' = <<"copy", str>> /\ UNCHANGED interned
  /\ Cardinality(interned) < MaxStrings \/ Found(str) # 0
  /\ UNCHANGED <<list, pool, added>> /\ UNCHANGED arenaVars

Copy ==
  /\ call[1] = "copy" /\ UNCHANGED <<list, pool, added, interned>>
  /\ AllocThen(SizeOf[call[2]], 1,
               LAMBDA r : call' = <<"entry", call[2], r>>, Return)

\* Only a complete entry is put into the bucket.
InternEntry ==
  /\ call[1] = "entry" /\ Return /\ UNCHANGED <<list, added>>
  /\ AllocThen(EntrySize, WordAlign,
               LAMBDA r :
                 /\ pool' = [pool EXCEPT ![BucketOf[call[2]]] =
                               <<[str |-> call[2], at |-> call[3]]>> \o @]
                 /\ interned' = interned \cup {<<call[2], call[3]>>},
               UNCHANGED <<pool, interned>>)

Next ==
  \/ Owner
  \/ ListHeader \/ ListArray \/ Grow \/ Message \/ Path
  \/ PoolHeader \/ PoolBuckets \/ Copy \/ InternEntry
  \/ \E e \in Errors : AddError(e)
  \/ \E s \in Strings : Intern(s)

Spec == Init /\ [][Next]_vars

-----------------------------------------------------------------------------
\* Whatever allocations fail, the list holds errors in the order in which they
\* were added, each at most once, and the first InitCap of them always: an
\* error is dropped only when the array could not grow, so a list that was
\* given an error is never empty.  Every pointer it holds is to live memory of
\* the size of what was written there.
Numbers == [i \in DOMAIN list.errors |-> list.errors[i].number]
Completed == IF call[1] \in {"grow", "message"} THEN Len(added) - 1 ELSE Len(added)

IsTextAt(at, str) ==
  at = NoPtr \/ (at \in ToSet(live) /\ at.size = SizeOf[str])

ErrorsKeptInOrder ==
  list.array # NoPtr =>
    /\ \A i, j \in DOMAIN Numbers : i < j => Numbers[i] < Numbers[j]
    /\ \A n \in 1..Completed : n <= InitCap => n \in ToSet(Numbers)
    /\ Len(list.errors) <= list.capacity
    /\ list.array \in ToSet(live) /\ list.array.size = ErrorSize * list.capacity
    /\ \A i \in DOMAIN list.errors :
         LET e == list.errors[i]
         IN  /\ IsTextAt(e.message, added[e.number].message)
             /\ e.path # NoPtr => IsTextAt(e.path, added[e.number].path)

\* Two calls of oas_intern_get that succeed give the same pointer exactly when
\* they were given the same string, whatever failed in between, and the
\* pointers stay live: pointers may be compared instead of strings.
InternedOnce ==
  \A x, y \in interned : /\ (x[1] = y[1]) <=> (x[2] = y[2])
                         /\ x[2] \in ToSet(live)
=============================================================================
