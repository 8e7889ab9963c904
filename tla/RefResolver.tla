----------------------------- MODULE RefResolver ------------------------------
(***************************************************************************)
(* The $ref resolver of src/parser/oas_ref.c with its document cache       *)
(* (oas_ref_cache.c) and its file loader (oas_ref_file.c).  One context    *)
(* serves the calls a client makes of it in order: oas_ref_resolve of one  *)
(* reference, or oas_ref_resolve_all of the whole document, which is what  *)
(* oas_doc_parse_ex asks for before it destroys the cache.                 *)
(*                                                                         *)
(* The recursion of oas_ref_resolve along a chain of references is the     *)
(* variable frames.  The recursion of resolve_schema_refs is the agenda,   *)
(* the schemas it has still to enter.                                      *)
(***************************************************************************)
EXTENDS Integers, FiniteSets, SequencesExt

CONSTANTS
  Refs,      \* the $ref strings
  Uri,       \* [Refs -> records kind, uri, relative, at, component]
  Documents, \* parsed documents: records components, paths, schemas, names, values
  Content,   \* [external uri -> its values, by JSON pointer]
  Outcomes,  \* [external uri -> what opening or fetching it may do: "ok", or what
             \* went wrong: the code of a fetch or a callback is passed through]
  Settings,  \* records given, cached, remote, file, callback, maxDocuments
  Calls,     \* the sequences of calls a client makes of a context
  All,       \* the call of oas_ref_resolve_all
  None,      \* no reference, no component, no value
  TooLong,   \* a fragment that does not fit in frag_ref[1024]
  MaxRefDepth,       \* OAS_MAX_REF_DEPTH
  VisitedInitialCap  \* 16 in oas_ref_ctx_create

\* The -ELOOP of the resolver itself, told here from one that is passed through
\* ("ELOOP"), as from a fetch with too many redirects.
Loop == "circular or too deep"

ASSUME RefResolverAssumption ==
  /\ All \notin Refs /\ None \notin Refs
  /\ None \notin [id : Nat, at : {Uri[r].at : r \in Refs}]
  /\ MaxRefDepth \in Nat \ {0} /\ VisitedInitialCap \in Nat \ {0}
  /\ \A s \in Settings : s.maxDocuments \in Nat \ {0}
  /\ \A r \in Refs : Uri[r].kind # "fragment" => Loop \notin Outcomes[Uri[r].uri]

VARIABLES
  doc, settings,     \* what the context was made with
  scarce,            \* whether an allocation may fail
  calls, results,    \* the calls still to be made; what the others returned
  phase,             \* "idle", "walk", "resolve", "unwind" or "over"
  walking, agenda,   \* oas_ref_resolve_all runs; the schemas still to enter
  resolved,          \* [schema |-> ref_resolved]
  ref,               \* the argument of the innermost oas_ref_resolve
  frames,            \* how many calls of oas_ref_resolve wait for it
  visited, capacity, \* ctx->visited
  cache,             \* the entries of the document cache: [key, id]
  uris, frees,       \* [fetched document |-> its uri, and how often it was freed]
  rc, value,         \* the result on its way up: the code and *out
  errors             \* the error list

refVars == <<doc, settings, scarce, calls, results, phase, walking, agenda, resolved, ref, frames,
             visited, capacity, cache, uris, frees, rc, value, errors>>

input     == <<doc, settings, scarce>>
client    == <<calls, results>>
walk      == <<walking, agenda, resolved>>
chain     == <<frames, visited, capacity>>
fetched   == <<cache, uris, frees>>
outcome   == <<rc, value>>

-----------------------------------------------------------------------------
(* A value is [id, at]: a place in the document (id 0) or a fetched one.   *)
ValuesOf(id) == IF id = 0 THEN doc.values ELSE Content[uris[id]]
IsObject(v)  == ValuesOf(v.id)[v.at].object

\* The "$ref" of a value of the document, None if it has none.
NestedRef(at) == IF doc.values[at].object THEN doc.values[at].ref ELSE None

\* find_component_schema, behind the prefix "#/components/schemas/".
IsComponent(r) == Uri[r].component \in DOMAIN doc.names

\* The schemas in the order in which oas_ref_resolve_all goes through them.
OperationSchemas(op) == op.params \o op.body \o op.responses
PathSchemas(item) ==
  item.params \o FlattenSeq([k \in DOMAIN item.operations |->
                               OperationSchemas(item.operations[k])])
RootsOf(d) ==
  LET c == d.components IN
  c.schemas \o c.responses \o c.parameters \o c.bodies \o c.headers \o
  FlattenSeq([k \in DOMAIN d.paths |-> PathSchemas(d.paths[k])])
Roots == RootsOf(doc)

\* The references and the subschemas of a document are among those it lists.
ASSUME DocumentsAssumption ==
  /\ \A d \in Documents :
       /\ IsFiniteSet(DOMAIN d.schemas)
       /\ RootsOf(d) \in Seq(DOMAIN d.schemas)
       /\ \A s \in DOMAIN d.schemas :
            /\ d.schemas[s].ref \in Refs \cup {None}
            /\ d.schemas[s].subschemas \in Seq(DOMAIN d.schemas)
       /\ \A p \in DOMAIN d.values : d.values[p].ref \in Refs \cup {None}
  /\ Calls \subseteq Seq(Refs \cup {All})

\* The key of resolve_external_ref is the reference up to the fragment; that of
\* oas_ref_load_file is the path build_full_path makes of it.
RefKey(u)  == [uri |-> u.uri, based |-> FALSE]
FullKey(u) == [uri |-> u.uri, based |-> u.relative]

\* Mutant of the next: the probing stops at the first occupied slot.
OccupiedEntries(key) == ToSet(cache)
EntriesFor(key) == {e \in ToSet(cache) : e.key = key}
\* Mutant of the next: one document too many.
CacheOverfull == Len(cache) > settings.maxDocuments
CacheFull == Len(cache) >= settings.maxDocuments

Init ==
  /\ doc \in Documents /\ settings \in Settings /\ scarce \in BOOLEAN
  /\ calls \in Calls /\ results = <<>>
  /\ phase = "idle"
  /\ walking = FALSE /\ agenda = <<>> /\ resolved = [s \in DOMAIN doc.schemas |-> None]
  /\ ref = None /\ frames = 0
  /\ visited = <<>> /\ capacity = VisitedInitialCap
  /\ cache = <<>> /\ uris = <<>> /\ frees = <<>>
  /\ rc = "ok" /\ value = None
  /\ errors = {}

-----------------------------------------------------------------------------
(* The client's calls, and the walk over the schemas.                      *)

CallResolve ==
  /\ phase = "idle" /\ calls # <<>> /\ Head(calls) # All
  /\ phase' = "resolve"
  /\ ref' = Head(calls)
  /\ UNCHANGED <<input, client, walk, chain, fetched, outcome, errors>>

CallResolveAll ==
  /\ phase = "idle" /\ calls # <<>> /\ Head(calls) = All
  /\ phase' = "walk" /\ walking' = TRUE
  /\ agenda' = Roots
  /\ UNCHANGED <<input, client, resolved, ref, chain, fetched, outcome, errors>>

Return(code, v) ==
  /\ phase' = "idle" /\ walking' = FALSE /\ agenda' = <<>>
  /\ calls' = Tail(calls)
  /\ results' = Append(results, [call |-> Head(calls), rc |-> code, value |-> v])

Schema == doc.schemas[Head(agenda)]

\* Mutant of the next: the loop does not advance.
SameSchema == agenda
NextSchema == Tail(agenda)

\* A reference to a component is linked to it; nothing below is looked at.
LinkComponent ==
  /\ phase = "walk" /\ agenda # <<>>
  /\ Schema.ref # None /\ IsComponent(Schema.ref)
  /\ resolved' = [resolved EXCEPT ![Head(agenda)] =
                    [component |-> doc.names[Uri[Schema.ref].component]]]
  /\ agenda' = NextSchema
  /\ UNCHANGED <<input, client, phase, walking, ref, chain, fetched, outcome, errors>>

EnterReference ==
  /\ phase = "walk" /\ agenda # <<>>
  /\ Schema.ref # None /\ ~IsComponent(Schema.ref)
  /\ phase' = "resolve"
  /\ ref' = Schema.ref
  /\ UNCHANGED <<input, client, walk, chain, fetched, outcome, errors>>

EnterSchema ==
  /\ phase = "walk" /\ agenda # <<>>
  /\ Schema.ref = None
  /\ agenda' = Schema.subschemas \o NextSchema
  /\ UNCHANGED <<input, client, phase, walking, resolved, ref, chain, fetched, outcome, errors>>

WalkEnds ==
  /\ phase = "walk" /\ agenda = <<>>
  /\ Return("ok", None)
  /\ UNCHANGED <<input, resolved, ref, chain, fetched, outcome, errors>>

-----------------------------------------------------------------------------
(* oas_ref_resolve, up to its return.                                      *)

Finish(code, v, report) ==
  /\ phase' = "unwind"
  /\ rc' = code /\ value' = v
  /\ errors' = IF report THEN errors \cup {ref} ELSE errors
  /\ UNCHANGED <<input, client, walk, ref, chain>>

Fail(code, report) == Finish(code, None, report) /\ UNCHANGED fetched

Circular == ref \in ToSet(visited)
\* Mutant of the next: the chain may be one reference longer.
DeeperThanMax == Len(visited) > MaxRefDepth
TooDeep  == Len(visited) >= MaxRefDepth

ReportCycle ==
  /\ phase = "resolve" /\ (Circular \/ TooDeep)
  /\ Fail(Loop, TRUE)

Proceed == phase = "resolve" /\ ~Circular /\ ~TooDeep

\* oas_uri_parse fails when the arena is exhausted, and only then.
UriFails == Proceed /\ scarce /\ Fail("ENOMEM", TRUE)

Local == Proceed /\ Uri[ref].kind = "fragment"
At    == Uri[ref].at

LocalMissing ==
  /\ Local /\ At \notin DOMAIN doc.values
  /\ Fail("ENOENT", TRUE)

LocalFound ==
  /\ Local /\ At \in DOMAIN doc.values
  /\ NestedRef(At) = None
  /\ Finish("ok", [id |-> 0, at |-> At], FALSE) /\ UNCHANGED fetched

\* visited_push, which doubles the array when it is full.
Follow ==
  /\ Local /\ At \in DOMAIN doc.values
  /\ NestedRef(At) # None
  /\ visited' = Append(visited, ref)
  /\ capacity' = IF Len(visited) >= capacity THEN 2 * capacity ELSE capacity
  /\ frames' = frames + 1
  /\ ref' = NestedRef(At)
  /\ UNCHANGED <<input, client, phase, walk, fetched, outcome, errors>>

PushFails ==
  /\ scarce /\ Len(visited) >= capacity
  /\ Local /\ At \in DOMAIN doc.values
  /\ NestedRef(At) # None
  /\ Fail("ENOMEM", FALSE)

External == Proceed /\ Uri[ref].kind # "fragment"
Remote   == Uri[ref].kind \in {"http", "https"}

\* Options without a cache: oas_ref_cache_create found no memory.
NotSupported ==
  /\ External /\ ~(settings.given /\ settings.cached)
  /\ Fail("ENOTSUP", TRUE)

\* The place in a fetched document the fragment names; its own "$ref" is not followed.
Locate(id, values) ==
  IF At = TooLong THEN Finish("ENAMETOOLONG", None, FALSE)
  ELSE IF At \in DOMAIN values THEN Finish("ok", [id |-> id, at |-> At], FALSE)
  ELSE Finish("ENOENT", None, TRUE)

Allowed == IF Remote THEN settings.remote ELSE settings.file

\* Mutant of the next: the loader does not look before it reads.
HitsByReference == EntriesFor(RefKey(Uri[ref]))

\* Where the document is looked up: before anything is asked or opened, and for
\* a file again under its full path.
Hits ==
  IF EntriesFor(RefKey(Uri[ref])) # {} THEN EntriesFor(RefKey(Uri[ref]))
  ELSE IF Allowed /\ ~Remote THEN EntriesFor(FullKey(Uri[ref]))
  ELSE {}

Available == External /\ settings.given /\ settings.cached

CacheHit ==
  /\ Available
  /\ \E e \in Hits : Locate(e.id, Content[uris[e.id]])
  /\ UNCHANGED fetched

Forbidden ==
  /\ Available /\ Hits = {}
  /\ ~Allowed
  /\ Fail("EACCES", TRUE)

NeedsCallback ==
  /\ Available /\ Hits = {} /\ Allowed
  /\ Uri[ref].kind = "https" /\ ~settings.callback
  /\ Fail("ENOTSUP", TRUE)

Loads ==
  /\ Available /\ Hits = {} /\ Allowed
  /\ Uri[ref].kind = "https" => settings.callback

\* A refusal of the client's own callback and an input/output error are
\* returned and not reported; everything else is both.
Reported(why) ==
  CASE why \in {"refused", "ELOOP"} -> ~settings.callback
    [] why = "unreadable" -> FALSE
    [] OTHER -> TRUE

LoadFails ==
  /\ Loads
  /\ \E why \in Outcomes[Uri[ref].uri] \ {"ok"} : Fail(why, Reported(why))

\* oas_ref_cache_put: a document that is already there is the caller's loss, one
\* that cannot be kept stays the caller's, who frees it.
StoreKey == IF Remote THEN RefKey(Uri[ref]) ELSE FullKey(Uri[ref])
NewId    == Len(uris) + 1

LoadSucceeds ==
  /\ Loads /\ "ok" \in Outcomes[Uri[ref].uri]
  /\ uris' = Append(uris, Uri[ref].uri)
  /\ IF EntriesFor(StoreKey) # {}
     THEN cache' = cache /\ frees' = Append(frees, 1)
     ELSE ~CacheFull /\ cache' = Append(cache, [key |-> StoreKey, id |-> NewId])
                     /\ frees' = Append(frees, 0)
  /\ Locate(NewId, Content[Uri[ref].uri])

\* Mutant of the next: it is leaked.
FreesOfLeaked == 0
\* What becomes of a document the cache has not taken over.
FreesOfRefused == 1

StoreFails ==
  /\ Loads /\ "ok" \in Outcomes[Uri[ref].uri]
  /\ EntriesFor(StoreKey) = {}
  /\ CacheFull \/ scarce
  /\ uris' = Append(uris, Uri[ref].uri)
  /\ frees' = Append(frees, FreesOfRefused)
  /\ cache' = cache
  /\ Finish(IF CacheFull THEN "ENOSPC" ELSE "ENOMEM", None, FALSE)

-----------------------------------------------------------------------------
(* The returns: one visited_pop per frame, whatever the result.            *)

\* Mutant of the next: an error leaves the entry behind.
PoppedOnSuccess == IF rc = "ok" THEN Front(visited) ELSE visited
Popped == Front(visited)

Unwind ==
  /\ phase = "unwind" /\ frames > 0
  /\ frames' = frames - 1
  /\ visited' = Popped
  /\ UNCHANGED <<input, client, phase, walk, ref, capacity, fetched, outcome, errors>>

ReturnToClient ==
  /\ phase = "unwind" /\ frames = 0 /\ ~walking
  /\ Return(rc, value)
  /\ UNCHANGED <<input, resolved, ref, chain, fetched, outcome, errors>>

\* The first error ends the walk.
WalkFails ==
  /\ phase = "unwind" /\ frames = 0 /\ walking
  /\ rc # "ok"
  /\ Return(rc, None)
  /\ UNCHANGED <<input, resolved, ref, chain, fetched, outcome, errors>>

\* The value is parsed into a schema, whose own references are left alone, and
\* the walk goes on below the schema that had the reference.
LinkValue ==
  /\ phase = "unwind" /\ frames = 0 /\ walking
  /\ rc = "ok"
  /\ resolved' = IF IsObject(value) THEN [resolved EXCEPT ![Head(agenda)] = value]
                 ELSE resolved
  /\ agenda' = Schema.subschemas \o NextSchema
  /\ phase' = "walk"
  /\ UNCHANGED <<input, client, walking, ref, chain, fetched, outcome, errors>>

\* oas_schema_parse finds no memory: the schema stays unlinked, without an error.
ParseFails ==
  /\ scarce
  /\ phase = "unwind" /\ frames = 0 /\ walking
  /\ rc = "ok"
  /\ agenda' = Schema.subschemas \o NextSchema
  /\ phase' = "walk"
  /\ UNCHANGED <<input, client, walking, resolved, ref, chain, fetched, outcome, errors>>

\* oas_ref_cache_destroy: the end of oas_doc_parse_ex.
DestroyCache ==
  /\ phase = "idle" /\ calls = <<>>
  /\ phase' = "over"
  /\ frees' = [id \in DOMAIN frees |->
                 frees[id] + Cardinality({e \in ToSet(cache) : e.id = id})]
  /\ cache' = <<>>
  /\ UNCHANGED <<input, client, walk, ref, chain, uris, outcome, errors>>

Resolve ==
  \/ ReportCycle \/ UriFails
  \/ LocalMissing \/ LocalFound \/ Follow \/ PushFails
  \/ NotSupported \/ CacheHit \/ Forbidden \/ NeedsCallback
  \/ LoadFails \/ LoadSucceeds \/ StoreFails

Next ==
  \/ CallResolve \/ CallResolveAll
  \/ LinkComponent \/ EnterReference \/ EnterSchema \/ WalkEnds
  \/ Resolve
  \/ Unwind \/ ReturnToClient \/ WalkFails \/ LinkValue \/ ParseFails
  \/ DestroyCache

Spec     == Init /\ [][Next]_refVars
FairSpec == Spec /\ WF_refVars(Next)

-----------------------------------------------------------------------------
(* Properties.                                                             *)

Values == {None} \cup [id : Nat, at : UNION {DOMAIN d.values : d \in Documents} \cup
                                      UNION {DOMAIN Content[u] : u \in DOMAIN Content}]

TypeOK ==
  /\ doc \in Documents /\ settings \in Settings /\ scarce \in BOOLEAN
  /\ phase \in {"idle", "walk", "resolve", "unwind", "over"}
  /\ walking \in BOOLEAN /\ agenda \in Seq(DOMAIN doc.schemas)
  /\ DOMAIN resolved = DOMAIN doc.schemas
  /\ ref \in Refs \cup {None}
  /\ frames \in Nat
  /\ visited \in Seq(Refs) /\ capacity \in Nat
  /\ uris \in Seq(DOMAIN Content) /\ frees \in Seq(Nat) /\ Len(frees) = Len(uris)
  /\ cache \in Seq([key : [uri : DOMAIN Content, based : BOOLEAN], id : 1..Len(uris)])
  /\ value \in Values
  /\ errors \subseteq Refs

\* The visited set is the stack of the references being followed: without
\* repetition, never deeper than the limit or than its array, and empty again
\* whenever a call returns, so that one failed call does not make a later one
\* see a cycle (visited_push and visited_pop around the recursive call).
VisitedIsTheStack ==
  /\ Len(visited) = frames
  /\ frames <= MaxRefDepth /\ frames <= capacity
  /\ IsInjective(visited)
  /\ phase \in {"idle", "walk", "over"} => frames = 0

\* The chain a reference starts: each next one is the "$ref" of the value.
NextRef(r) ==
  IF r # None /\ Uri[r].kind = "fragment" /\ Uri[r].at \in DOMAIN doc.values
  THEN NestedRef(Uri[r].at) ELSE None
Chain(r) ==
  LET c[k \in 0..MaxRefDepth] == IF k = 0 THEN r ELSE NextRef(c[k - 1]) IN c
Endless(r) == Chain(r)[MaxRefDepth] # None
LastRef(r) ==
  Chain(r)[CHOOSE k \in 0..MaxRefDepth :
             /\ Chain(r)[k] # None
             /\ k < MaxRefDepth => Chain(r)[k + 1] = None]
PointsAt(r, v) ==
  LET u == Uri[LastRef(r)] IN
  /\ IF u.kind = "fragment" THEN v.id = 0 ELSE v.id # 0 /\ uris[v.id] = u.uri
  /\ v.at = u.at

\* oas_ref_resolve follows a chain of references in the document to its end:
\* its own -ELOOP is returned for the circular and the too long ones and for no
\* other, and a value is the one the last reference names, in the document it
\* names (the promise of oas_ref.h).
ChainsResolved ==
  \A k \in DOMAIN results :
    LET r == results[k] IN
    r.call # All =>
      /\ r.rc = Loop => Endless(r.call)
      /\ r.rc = "ok" => ~Endless(r.call) /\ PointsAt(r.call, r.value)
      /\ r.rc = "ENOENT" => LastRef(r.call) \in errors

\* The schemas the walk has to enter: those below a link to a component are the
\* component's business.
Below(s) ==
  IF doc.schemas[s].ref # None /\ IsComponent(doc.schemas[s].ref) THEN {}
  ELSE ToSet(doc.schemas[s].subschemas)
Reached ==
  LET r[n \in 0..Cardinality(DOMAIN doc.schemas)] ==
        IF n = 0 THEN ToSet(Roots) ELSE r[n - 1] \cup UNION {Below(s) : s \in r[n - 1]}
  IN  r[Cardinality(DOMAIN doc.schemas)]

\* The value a reference names in the end.
Named(r) ==
  LET u == Uri[LastRef(r)] IN
  (IF u.kind = "fragment" THEN doc.values ELSE Content[u.uri])[u.at]

LinkedRight(s) ==
  LET r == doc.schemas[s].ref IN
  IF r = None THEN resolved[s] = None
  ELSE IF IsComponent(r)
       THEN resolved[s] = [component |-> doc.names[Uri[r].component]]
       ELSE IF resolved[s] = None
            THEN scarce \/ ~Named(r).object
            ELSE PointsAt(r, resolved[s])

\* When oas_ref_resolve_all returns 0, each schema it reaches is linked to the
\* component or to the value its reference names.
LinksAreRight ==
  \A k \in DOMAIN results :
    results[k].call = All /\ results[k].rc = "ok" => \A s \in Reached : LinkedRight(s)

\* Each fetched document has one owner: it is freed once when the cache refuses
\* it, or kept and freed once with the cache, whichever fetch failed.
DocumentsFreedOnce ==
  \A id \in DOMAIN frees :
    /\ frees[id] <= 1
    /\ frees[id] = 0 <=> \E e \in ToSet(cache) : e.id = id
    /\ phase = "over" => frees[id] = 1

\* The cache never exceeds max_documents and has one entry per key, and a second
\* reference to a document does not load it again.
CacheWithinLimit ==
  /\ Len(cache) <= settings.maxDocuments
  /\ \A j, k \in DOMAIN cache : cache[j].key = cache[k].key => j = k

\* Whether a value or a link is in a fetched document.
Fetched(v) == v # None /\ "id" \in DOMAIN v /\ v.id # 0

\* No value handed out, and no link made, is in a document that has been freed
\* while the context still works: oas_ref_cache_put may free what its caller
\* has just loaded and goes on to return.
ResultsAreLive ==
  phase # "over" =>
    /\ Fetched(value) => frees[value.id] = 0
    /\ \A s \in DOMAIN resolved : Fetched(resolved[s]) => frees[resolved[s].id] = 0

\* What makes the last four and VisitedIsTheStack inductive: the references in
\* hand are references, the cache has an entry for exactly the documents that
\* are not freed, and a document is in it under one key.
Keys == {RefKey(Uri[r]) : r \in Refs} \cup {FullKey(Uri[r]) : r \in Refs}

HandInv ==
  /\ doc \in Documents /\ settings \in Settings
  /\ calls \in Seq(Refs \cup {All})
  /\ agenda \in Seq(DOMAIN doc.schemas)
  /\ phase \in {"idle", "walk", "resolve", "unwind", "over"}
  /\ walking <=> phase \in {"walk", "resolve", "unwind"} /\ Head(calls) = All
  /\ phase = "walk" => walking
  /\ phase \in {"walk", "resolve", "unwind"} => calls # <<>>
  /\ phase \in {"resolve", "unwind"} => ref \in Refs /\ (walking => agenda # <<>>)

StackInv ==
  /\ visited \in Seq(Refs) /\ frames \in Nat /\ capacity \in Nat \ {0}
  /\ VisitedIsTheStack

OwnerInv ==
  /\ frees \in Seq({0, 1}) /\ uris \in Seq({Uri[r].uri : r \in Refs})
  /\ Len(frees) = Len(uris)
  /\ cache \in Seq([key : Keys, id : 1..Len(uris)])
  /\ Len(cache) <= settings.maxDocuments
  /\ \A j, k \in 1..Len(cache) :
       cache[j].key = cache[k].key \/ cache[j].id = cache[k].id => j = k
  /\ \A id \in 1..Len(frees) :
       IF phase = "over" THEN frees[id] = 1
       ELSE frees[id] = 0 <=> \E j \in 1..Len(cache) : cache[j].id = id
  /\ phase = "over" => cache = <<>>

Live(v) == Fetched(v) => v.id \in 1..Len(frees) /\ frees[v.id] = 0
LiveInv ==
  phase # "over" => Live(value) /\ \A s \in DOMAIN resolved : Live(resolved[s])

RefInv == HandInv /\ StackInv /\ OwnerInv /\ LiveInv

\* All the calls return, whatever the references refer to (FairSpec).
AllCallsReturn == <>(phase = "over")

\* The fetched documents the links point into outlive the call of
\* oas_doc_parse_ex that made the links.
LinkedDocumentsOutliveParsing ==
  \A s \in DOMAIN resolved : Fetched(resolved[s]) => frees[resolved[s].id] = 0

\* Unresolvable references are added to the error list.
UnresolvedIsReported ==
  \A k \in DOMAIN results : results[k].rc # "ok" => errors # {}
=============================================================================
