--------------------------- MODULE RefResolverProofs ---------------------------
(***************************************************************************)
(* For every document, every reference and every client: the visited set   *)
(* is the stack of the references being followed, each fetched document    *)
(* has one owner and is freed once, the cache keeps its limit, what is     *)
(* handed out points into documents that are still there, a chain of       *)
(* references is answered with what its last one names, and the walk over  *)
(* a document links all the schemas it reaches.                            *)
(***************************************************************************)
EXTENDS RefResolver, SequenceTheorems, FiniteSetTheorems, Induction, TLAPS

\* oas_ref_resolve of one reference reports on its way up what it found, or
\* follows the reference it found and is where it was; it changes nothing of
\* the walk.
LEMMA ResolveEndsOrFollows ==
  Resolve => /\ phase = "resolve"
             /\ \/ phase' = "unwind" /\ UNCHANGED <<input, client, walk, ref, chain>>
                \/ Follow
<1>1. CASE ReportCycle \/ UriFails \/ LocalMissing \/ LocalFound \/ PushFails
  BY <1>1 DEF ReportCycle, UriFails, LocalMissing, LocalFound, PushFails, Local, Proceed,
              Fail, Finish
<1>2. CASE NotSupported \/ CacheHit \/ Forbidden \/ NeedsCallback \/ LoadFails
  BY <1>2 DEF NotSupported, CacheHit, Forbidden, NeedsCallback, LoadFails, Loads, Available,
              External, Proceed, Fail, Finish, Locate
<1>3. CASE LoadSucceeds \/ StoreFails
  BY <1>3 DEF LoadSucceeds, StoreFails, Loads, Available, External, Proceed, Finish, Locate
<1>4. CASE Follow
  BY <1>4 DEF Follow, Local, Proceed
<1>. QED BY <1>1, <1>2, <1>3, <1>4 DEF Resolve

LEMMA NestedRefIsReference ==
  ASSUME doc \in Documents, NEW p \in DOMAIN doc.values, NestedRef(p) # None
  PROVE  NestedRef(p) \in Refs
BY DocumentsAssumption DEF NestedRef

\* The schemas below the one being entered, followed by those still waiting.
LEMMA AgendaGoesBelow ==
  ASSUME HandInv, agenda # <<>>
  PROVE  /\ Head(agenda) \in DOMAIN doc.schemas
         /\ Schema.ref \in Refs \cup {None}
         /\ NextSchema \in Seq(DOMAIN doc.schemas)
         /\ Schema.subschemas \o NextSchema \in Seq(DOMAIN doc.schemas)
<1>1. doc \in Documents /\ agenda \in Seq(DOMAIN doc.schemas)
  BY DEF HandInv
<1>2. Head(agenda) \in DOMAIN doc.schemas /\ Tail(agenda) \in Seq(DOMAIN doc.schemas)
  BY <1>1, HeadTailProperties
<1>3. Schema.ref \in Refs \cup {None} /\ Schema.subschemas \in Seq(DOMAIN doc.schemas)
  BY <1>1, <1>2, DocumentsAssumption DEF Schema
<1>. QED BY <1>2, <1>3, ConcatProperties DEF NextSchema

-----------------------------------------------------------------------------
\* What the resolver has in hand.
LEMMA HandReturns ==
  ASSUME HandInv, NEW code, NEW v, Return(code, v), UNCHANGED input,
         calls # <<>>
  PROVE  HandInv'
<1>1. calls' \in Seq(Refs \cup {All})
  BY HeadTailProperties DEF HandInv, Return
<1>2. agenda' \in Seq(DOMAIN doc'.schemas) /\ agenda' = <<>>
  BY EmptySeq DEF Return
<1>. QED BY <1>1, <1>2 DEF HandInv, Return, input

LEMMA HandInductive == ASSUME RefInv, [Next]_refVars PROVE HandInv'
<1>1. HandInv
  BY DEF RefInv
<1>2. CASE CallResolve
  <2>1. Head(calls) \in Refs
    BY <1>1, <1>2, HeadTailProperties DEF HandInv, CallResolve
  <2>. QED BY <1>1, <1>2, <2>1 DEF HandInv, CallResolve, input, client, walk
<1>3. CASE CallResolveAll
  <2>1. Roots \in Seq(DOMAIN doc.schemas)
    BY <1>1, DocumentsAssumption DEF HandInv, Roots
  <2>. QED BY <1>1, <1>3, <2>1 DEF HandInv, CallResolveAll, input, client
<1>4. CASE LinkComponent
  BY <1>1, <1>4, AgendaGoesBelow DEF HandInv, LinkComponent, input, client
<1>5. CASE EnterReference
  BY <1>1, <1>5, AgendaGoesBelow DEF HandInv, EnterReference, input, client, walk
<1>6. CASE EnterSchema
  BY <1>1, <1>6, AgendaGoesBelow DEF HandInv, EnterSchema, input, client
<1>7. CASE Resolve
  <2>1. phase = "resolve"
    BY <1>7, ResolveEndsOrFollows
  <2>2. CASE Follow
    <3>1. ref' \in Refs
      BY <1>1, <2>2, NestedRefIsReference DEF Follow, HandInv
    <3>. QED BY <1>1, <2>1, <2>2, <3>1 DEF HandInv, Follow, input, client, walk
  <2>3. CASE phase' = "unwind" /\ UNCHANGED <<input, client, walk, ref, chain>>
    BY <1>1, <2>1, <2>3 DEF HandInv, input, client, walk
  <2>. QED BY <1>7, <2>2, <2>3, ResolveEndsOrFollows
<1>8. CASE Unwind
  BY <1>1, <1>8 DEF HandInv, Unwind, input, client, walk
<1>9. CASE WalkEnds \/ ReturnToClient \/ WalkFails
  <2>1. calls # <<>> /\ UNCHANGED input
    BY <1>1, <1>9 DEF HandInv, WalkEnds, ReturnToClient, WalkFails
  <2>. QED BY <1>1, <1>9, <2>1, HandReturns DEF WalkEnds, ReturnToClient, WalkFails
<1>10. CASE LinkValue \/ ParseFails
  <2>1. agenda # <<>>
    BY <1>1, <1>10 DEF HandInv, LinkValue, ParseFails
  <2>2. /\ agenda' \in Seq(DOMAIN doc.schemas)
        /\ phase = "unwind" /\ phase' = "walk" /\ UNCHANGED <<input, client, walking>>
        /\ walking
    BY <1>1, <1>10, <2>1, AgendaGoesBelow DEF LinkValue, ParseFails
  <2>. QED BY <1>1, <2>2 DEF HandInv, input, client
<1>11. CASE DestroyCache
  BY <1>1, <1>11 DEF HandInv, DestroyCache, input, client, walk
<1>12. CASE UNCHANGED refVars
  BY <1>1, <1>12 DEF HandInv, refVars
<1>. QED
  BY <1>2, <1>3, <1>4, <1>5, <1>6, <1>7, <1>8, <1>9, <1>10, <1>11, <1>12 DEF Next

-----------------------------------------------------------------------------
\* The visited set.  visited_push is called below the limit, with a reference
\* that is not in it; its array has doubled when it was full.
LEMMA StackPushed == ASSUME RefInv, Follow PROVE StackInv'
<1>1. /\ visited \in Seq(Refs) /\ frames \in Nat /\ capacity \in Nat \ {0}
      /\ Len(visited) = frames /\ frames <= capacity
      /\ \A a, b \in DOMAIN visited : visited[a] = visited[b] => a = b
      /\ MaxRefDepth \in Nat
      /\ ref \in Refs
  BY RefResolverAssumption
     DEF RefInv, StackInv, VisitedIsTheStack, IsInjective, HandInv, Follow, Local, Proceed
<1>2. frames < MaxRefDepth /\ ref \notin ToSet(visited)
  BY <1>1 DEF Follow, Local, Proceed, Circular, TooDeep
<1>3. /\ Len(visited) \in Nat /\ DOMAIN visited = 1..Len(visited)
      /\ visited' = Append(visited, ref)
      /\ visited' \in Seq(Refs) /\ Len(visited') = Len(visited) + 1
      /\ DOMAIN visited' = 1..(Len(visited) + 1)
      /\ \A i \in 1..Len(visited) : visited'[i] = visited[i]
      /\ visited'[Len(visited) + 1] = ref
  <2>1. visited' = Append(visited, ref)
    BY DEF Follow
  <2>2. /\ visited' \in Seq(Refs) /\ Len(visited') = Len(visited) + 1
        /\ \A i \in 1..Len(visited) : visited'[i] = visited[i]
        /\ visited'[Len(visited) + 1] = ref
    BY <1>1, <2>1, AppendProperties
  <2>. QED BY <1>1, <2>1, <2>2, LenProperties
<1>4. \A i \in 1..Len(visited) : visited[i] # ref
  BY <1>2, <1>3 DEF ToSet
<1>5. IsInjective(visited')
  <2>1. SUFFICES ASSUME NEW a \in 1..(Len(visited) + 1), NEW b \in 1..(Len(visited) + 1),
                        visited'[a] = visited'[b]
                 PROVE  a = b
    BY <1>3 DEF IsInjective
  <2>2. CASE a \in 1..Len(visited) /\ b \in 1..Len(visited)
    BY <1>1, <1>3, <2>1, <2>2
  <2>3. CASE a = Len(visited) + 1 \/ b = Len(visited) + 1
    BY <1>3, <1>4, <2>1, <2>3
  <2>. QED BY <1>3, <2>2, <2>3
<1>6. /\ frames' = frames + 1 /\ phase' = "resolve"
      /\ capacity' = IF Len(visited) >= capacity THEN 2 * capacity ELSE capacity
  BY DEF Follow, Local, Proceed
<1>7. capacity' \in Nat \ {0} /\ frames' <= capacity' /\ frames' <= MaxRefDepth
  BY <1>1, <1>2, <1>6
<1>. QED BY <1>1, <1>3, <1>5, <1>6, <1>7 DEF StackInv, VisitedIsTheStack

LEMMA StackPopped == ASSUME RefInv, Unwind PROVE StackInv'
<1>1. /\ visited \in Seq(Refs) /\ frames \in Nat /\ capacity \in Nat \ {0}
      /\ Len(visited) = frames /\ frames <= capacity /\ frames <= MaxRefDepth
      /\ \A a, b \in DOMAIN visited : visited[a] = visited[b] => a = b
      /\ MaxRefDepth \in Nat
  BY RefResolverAssumption DEF RefInv, StackInv, VisitedIsTheStack, IsInjective
<1>2. frames > 0 /\ frames' = frames - 1 /\ phase' = "unwind" /\ capacity' = capacity
      /\ visited' = SubSeq(visited, 1, Len(visited) - 1)
  BY DEF Unwind, Popped, Front
<1>3. /\ visited' \in Seq(Refs) /\ Len(visited') = Len(visited) - 1
      /\ \A i \in 1..(Len(visited) - 1) : visited'[i] = visited[i]
  <2>1. /\ 1 \in 1..(Len(visited) + 1) /\ Len(visited) - 1 \in 0..Len(visited)
        /\ Len(visited) - 1 \in Nat
    BY <1>1, <1>2
  <2>2. \A i \in 1..(Len(visited) - 1) : visited[i] \in Refs
    BY <1>1, <2>1, ElementOfSeq
  <2>3. visited' = [i \in 1..(Len(visited) - 1) |-> visited[i]]
    BY <1>1, <1>2, <2>1
  <2>. QED BY <2>1, <2>2, <2>3
<1>4. DOMAIN visited' = 1..(Len(visited) - 1) /\ DOMAIN visited = 1..Len(visited)
  BY <1>1, <1>3, LenProperties
<1>5. IsInjective(visited')
  BY <1>1, <1>3, <1>4 DEF IsInjective
<1>. QED BY <1>1, <1>2, <1>3, <1>5 DEF StackInv, VisitedIsTheStack

\* The other actions leave it alone and go from call to call only when it is empty.
LEMMA StackUnchanged ==
  ASSUME StackInv, UNCHANGED chain,
         phase' \in {"idle", "walk", "over"} =>
           frames = 0 \/ phase \in {"idle", "walk", "over"}
  PROVE  StackInv'
BY DEF StackInv, VisitedIsTheStack, chain

LEMMA StackInductive == ASSUME RefInv, [Next]_refVars PROVE StackInv'
<1>1. StackInv
  BY DEF RefInv
<1>2. CASE CallResolve \/ CallResolveAll \/ LinkComponent \/ EnterReference \/ EnterSchema
  BY <1>1, <1>2, StackUnchanged
     DEF CallResolve, CallResolveAll, LinkComponent, EnterReference, EnterSchema
<1>3. CASE WalkEnds \/ ReturnToClient \/ WalkFails
  BY <1>1, <1>3, StackUnchanged DEF WalkEnds, ReturnToClient, WalkFails, Return
<1>4. CASE Resolve
  <2>1. CASE Follow
    BY <2>1, StackPushed
  <2>2. CASE phase' = "unwind" /\ UNCHANGED <<input, client, walk, ref, chain>>
    BY <1>1, <2>2, StackUnchanged
  <2>. QED BY <1>4, <2>1, <2>2, ResolveEndsOrFollows
<1>5. CASE Unwind
  BY <1>5, StackPopped
<1>6. CASE LinkValue \/ ParseFails \/ DestroyCache
  BY <1>1, <1>6, StackUnchanged DEF LinkValue, ParseFails, DestroyCache
<1>7. CASE UNCHANGED refVars
  BY <1>1, <1>7, StackUnchanged DEF refVars, chain
<1>. QED BY <1>2, <1>3, <1>4, <1>5, <1>6, <1>7 DEF Next

-----------------------------------------------------------------------------
\* The fetched documents.
Stored(id) == \E j \in 1..Len(cache) : cache[j].id = id

LEMMA FetchedChanges ==
  Resolve => UNCHANGED fetched \/ LoadSucceeds \/ StoreFails
BY DEF Resolve, ReportCycle, UriFails, LocalMissing, LocalFound, PushFails, Follow,
       NotSupported, CacheHit, Forbidden, NeedsCallback, LoadFails, Fail

\* What OwnerInv says while the context works.
LEMMA OwnerFacts ==
  ASSUME RefInv, phase # "over"
  PROVE  /\ Len(frees) \in Nat /\ frees \in Seq({0, 1})
         /\ uris \in Seq({Uri[r].uri : r \in Refs}) /\ Len(uris) = Len(frees)
         /\ Len(cache) \in Nat /\ DOMAIN cache = 1..Len(cache)
         /\ cache \in Seq([key : Keys, id : 1..Len(uris)])
         /\ \A j \in 1..Len(cache) : cache[j].id \in 1..Len(frees)
         /\ Len(cache) <= settings.maxDocuments /\ settings.maxDocuments \in Nat \ {0}
         /\ \A j, k \in 1..Len(cache) :
              cache[j].key = cache[k].key \/ cache[j].id = cache[k].id => j = k
         /\ \A id \in 1..Len(frees) : frees[id] = 0 <=> Stored(id)
<1>1. OwnerInv /\ settings \in Settings
  BY DEF RefInv, HandInv
<1>2. \A j \in 1..Len(cache) : cache[j] \in [key : Keys, id : 1..Len(uris)]
  BY <1>1, ElementOfSeq DEF OwnerInv
<1>3. /\ Len(frees) \in Nat /\ Len(cache) \in Nat /\ DOMAIN cache = 1..Len(cache)
      /\ settings.maxDocuments \in Nat \ {0}
  BY <1>1, LenProperties, RefResolverAssumption DEF OwnerInv
<1>4. \A j \in 1..Len(cache) : cache[j].id \in 1..Len(uris)
  BY <1>2
<1>. QED BY <1>1, <1>3, <1>4 DEF OwnerInv, Stored

\* A document is loaded only after the cache has been asked for it by the key it
\* will be kept under, so that oas_ref_cache_put never finds it there.
LEMMA LoadedIsNew == ASSUME Loads PROVE EntriesFor(StoreKey) = {}
<1>1. Hits = {} /\ Allowed
  BY DEF Loads
<1>2. EntriesFor(RefKey(Uri[ref])) = {}
  BY <1>1 DEF Hits
<1>3. CASE Remote
  BY <1>2, <1>3 DEF StoreKey
<1>4. CASE ~Remote
  BY <1>1, <1>2, <1>4 DEF StoreKey, Hits
<1>. QED BY <1>3, <1>4

LEMMA StoreKeyIsKey == ASSUME ref \in Refs PROVE StoreKey \in Keys
BY DEF StoreKey, Keys

\* A fetched document that the cache keeps or refuses.
LEMMA Fetches ==
  ASSUME RefInv, LoadSucceeds \/ StoreFails
  PROVE  /\ phase = "resolve" /\ phase' = "unwind" /\ ref \in Refs /\ UNCHANGED <<input, walk>>
         /\ uris' = Append(uris, Uri[ref].uri)
         /\ \/ /\ cache' = cache /\ frees' = Append(frees, 1) /\ value' = None
            \/ /\ Len(cache) < settings.maxDocuments
               /\ EntriesFor(StoreKey) = {}
               /\ cache' = Append(cache, [key |-> StoreKey, id |-> Len(frees) + 1])
               /\ frees' = Append(frees, 0)
               /\ value' = None \/ value' = [id |-> Len(frees) + 1, at |-> At]
<1>1. phase = "resolve" /\ ref \in Refs /\ Loads
  BY DEF LoadSucceeds, StoreFails, Loads, Available, External, Proceed, RefInv, HandInv
<1>2. EntriesFor(StoreKey) = {}
  BY <1>1, LoadedIsNew
<1>3. Len(uris) = Len(frees) /\ Len(cache) \in Nat /\ settings.maxDocuments \in Nat
  BY <1>1, OwnerFacts
<1>4. CASE LoadSucceeds
  <2>1. ~CacheFull /\ cache' = Append(cache, [key |-> StoreKey, id |-> NewId])
        /\ frees' = Append(frees, 0)
    BY <1>2, <1>4 DEF LoadSucceeds
  <2>2. phase' = "unwind" /\ UNCHANGED <<input, walk>>
        /\ (value' = None \/ value' = [id |-> NewId, at |-> At])
        /\ uris' = Append(uris, Uri[ref].uri)
    BY <1>4 DEF LoadSucceeds, Locate, Finish
  <2>. QED BY <1>1, <1>2, <1>3, <2>1, <2>2 DEF CacheFull, NewId
<1>5. CASE StoreFails
  BY <1>1, <1>5 DEF StoreFails, FreesOfRefused, Finish
<1>. QED BY <1>4, <1>5

LEMMA OwnerKeeps ==
  ASSUME RefInv, phase = "resolve", phase' = "unwind", ref \in Refs, UNCHANGED settings,
         uris' = Append(uris, Uri[ref].uri),
         Len(cache) < settings.maxDocuments,
         EntriesFor(StoreKey) = {},
         cache' = Append(cache, [key |-> StoreKey, id |-> Len(frees) + 1]),
         frees' = Append(frees, 0)
  PROVE  OwnerInv'
<1>. DEFINE n == Len(frees)
            m == Len(cache)
            new == [key |-> StoreKey, id |-> n + 1]
<1>1. /\ n \in Nat /\ frees \in Seq({0, 1})
      /\ uris \in Seq({Uri[r].uri : r \in Refs}) /\ Len(uris) = n
      /\ m \in Nat /\ DOMAIN cache = 1..m
      /\ cache \in Seq([key : Keys, id : 1..n])
      /\ \A j \in 1..m : cache[j].id \in 1..n
      /\ m < settings.maxDocuments /\ settings.maxDocuments \in Nat
      /\ \A j, k \in 1..m : cache[j].key = cache[k].key \/ cache[j].id = cache[k].id => j = k
      /\ \A id \in 1..n : frees[id] = 0 <=> Stored(id)
  BY OwnerFacts
<1>2. /\ frees' \in Seq({0, 1}) /\ Len(frees') = n + 1
      /\ (\A i \in 1..n : frees'[i] = frees[i]) /\ frees'[n + 1] = 0
  BY <1>1, AppendProperties
<1>3. uris' \in Seq({Uri[r].uri : r \in Refs}) /\ Len(uris') = n + 1
  BY <1>1, AppendProperties
<1>4. new \in [key : Keys, id : 1..(n + 1)]
  BY <1>1, StoreKeyIsKey
<1>5. cache \in Seq([key : Keys, id : 1..(n + 1)])
  <2>1. [key : Keys, id : 1..n] \subseteq [key : Keys, id : 1..(n + 1)]
    BY <1>1
  <2>. QED BY <1>1, <2>1, SeqMonotonic
<1>6. /\ cache' \in Seq([key : Keys, id : 1..(n + 1)]) /\ Len(cache') = m + 1
      /\ (\A j \in 1..m : cache'[j] = cache[j]) /\ cache'[m + 1] = new
  BY <1>4, <1>5, AppendProperties
<1>7. \A j \in 1..m : cache[j].key # StoreKey
  BY <1>1 DEF EntriesFor, ToSet
<1>8. new.key = StoreKey /\ new.id = n + 1
  OBVIOUS
<1>. HIDE DEF n, m, new
<1>9. ASSUME NEW j \in 1..(m + 1), NEW k \in 1..(m + 1),
             cache'[j].key = cache'[k].key \/ cache'[j].id = cache'[k].id
      PROVE  j = k
  <2>1. CASE j \in 1..m /\ k \in 1..m
    BY <1>1, <1>6, <1>9, <2>1
  <2>2. CASE j = m + 1 /\ k \in 1..m
    BY <1>1, <1>6, <1>7, <1>8, <1>9, <2>2
  <2>3. CASE j \in 1..m /\ k = m + 1
    BY <1>1, <1>6, <1>7, <1>8, <1>9, <2>3
  <2>. QED BY <1>1, <1>9, <2>1, <2>2, <2>3
<1>10. ASSUME NEW id \in 1..(n + 1)
       PROVE  frees'[id] = 0 <=> \E j \in 1..(m + 1) : cache'[j].id = id
  <2>1. CASE id = n + 1
    <3>1. m + 1 \in 1..(m + 1) /\ cache'[m + 1].id = id
      BY <1>1, <1>6, <1>8, <2>1
    <3>. QED BY <1>2, <2>1, <3>1
  <2>2. CASE id \in 1..n
    <3>1. frees'[id] = 0 <=> Stored(id)
      BY <1>1, <1>2, <2>2
    <3>2. ASSUME Stored(id) PROVE \E j \in 1..(m + 1) : cache'[j].id = id
      <4>1. PICK j \in 1..m : cache[j].id = id
        BY <3>2 DEF Stored, m
      <4>. QED BY <1>1, <1>6, <4>1
    <3>3. ASSUME NEW j \in 1..(m + 1), cache'[j].id = id PROVE Stored(id)
      <4>1. j # m + 1
        BY <1>1, <1>6, <1>8, <2>2, <3>3
      <4>. QED BY <1>1, <1>6, <3>3, <4>1 DEF Stored, m
    <3>. QED BY <3>1, <3>2, <3>3
  <2>3. id = n + 1 \/ id \in 1..n
    BY <1>1
  <2>. QED BY <2>1, <2>2, <2>3
<1>11. phase' # "over" /\ Len(cache') <= settings'.maxDocuments
  BY <1>1, <1>6
<1>. QED BY <1>2, <1>3, <1>6, <1>9, <1>10, <1>11 DEF OwnerInv

LEMMA OwnerRefuses ==
  ASSUME RefInv, phase = "resolve", phase' = "unwind", ref \in Refs, UNCHANGED settings,
         uris' = Append(uris, Uri[ref].uri),
         cache' = cache, frees' = Append(frees, 1)
  PROVE  OwnerInv'
<1>. DEFINE n == Len(frees)
<1>1. /\ n \in Nat /\ frees \in Seq({0, 1})
      /\ uris \in Seq({Uri[r].uri : r \in Refs}) /\ Len(uris) = n
      /\ cache \in Seq([key : Keys, id : 1..n])
      /\ \A j \in 1..Len(cache) : cache[j].id \in 1..n
      /\ Len(cache) <= settings.maxDocuments
      /\ \A j, k \in 1..Len(cache) :
           cache[j].key = cache[k].key \/ cache[j].id = cache[k].id => j = k
      /\ \A id \in 1..n : frees[id] = 0 <=> Stored(id)
  BY OwnerFacts
<1>2. /\ frees' \in Seq({0, 1}) /\ Len(frees') = n + 1
      /\ (\A i \in 1..n : frees'[i] = frees[i]) /\ frees'[n + 1] = 1
  BY <1>1, AppendProperties
<1>3. uris' \in Seq({Uri[r].uri : r \in Refs}) /\ Len(uris') = n + 1
  BY <1>1, AppendProperties
<1>4. cache' \in Seq([key : Keys, id : 1..(n + 1)])
  <2>1. [key : Keys, id : 1..n] \subseteq [key : Keys, id : 1..(n + 1)]
    BY <1>1
  <2>. QED BY <1>1, <2>1, SeqMonotonic
<1>. HIDE DEF n
<1>5. ~Stored(n + 1)
  BY <1>1 DEF Stored
<1>6. \A id \in 1..(n + 1) : frees'[id] = 0 <=> Stored(id)
  <2>1. SUFFICES ASSUME NEW id \in 1..(n + 1) PROVE frees'[id] = 0 <=> Stored(id)
    OBVIOUS
  <2>2. CASE id = n + 1
    BY <1>2, <1>5, <2>2
  <2>3. CASE id \in 1..n
    BY <1>1, <1>2, <2>3
  <2>4. id = n + 1 \/ id \in 1..n
    BY <1>1
  <2>. QED BY <2>2, <2>3, <2>4
<1>. QED BY <1>1, <1>2, <1>3, <1>4, <1>6 DEF OwnerInv, Stored

\* The document has one entry in the cache, and so is freed once with it.
LEMMA EntriesOfDocument ==
  ASSUME RefInv, phase # "over", NEW id \in 1..Len(frees)
  PROVE  frees[id] + Cardinality({e \in ToSet(cache) : e.id = id}) = 1
<1>. DEFINE E == {e \in ToSet(cache) : e.id = id}
<1>1. /\ DOMAIN cache = 1..Len(cache)
      /\ frees[id] \in {0, 1}
      /\ \A j, k \in 1..Len(cache) : cache[j].id = cache[k].id => j = k
      /\ frees[id] = 0 <=> Stored(id)
  BY OwnerFacts, ElementOfSeq
<1>2. CASE Stored(id)
  <2>1. PICK j \in 1..Len(cache) : cache[j].id = id
    BY <1>2 DEF Stored
  <2>2. E = {cache[j]}
    BY <1>1, <2>1 DEF ToSet
  <2>3. Cardinality(E) = 1 /\ frees[id] = 0
    BY <1>1, <1>2, <2>2, FS_Singleton
  <2>. HIDE DEF E
  <2>4. frees[id] + Cardinality(E) = 1
    BY <2>3
  <2>. QED BY <2>4 DEF E
<1>3. CASE ~Stored(id)
  <2>1. E = {}
    BY <1>1, <1>3 DEF ToSet, Stored
  <2>2. Cardinality(E) = 0 /\ frees[id] = 1
    BY <1>1, <1>3, <2>1, FS_EmptySet
  <2>. HIDE DEF E
  <2>3. frees[id] + Cardinality(E) = 1
    BY <2>2
  <2>. QED BY <2>3 DEF E
<1>. QED BY <1>2, <1>3

LEMMA OwnerDestroys == ASSUME RefInv, DestroyCache PROVE OwnerInv'
<1>. DEFINE n == Len(frees)
<1>1. /\ phase # "over" /\ phase' = "over" /\ cache' = <<>> /\ uris' = uris
      /\ settings' = settings
      /\ frees' = [id \in DOMAIN frees |->
                     frees[id] + Cardinality({e \in ToSet(cache) : e.id = id})]
  BY DEF DestroyCache, input
<1>2. /\ n \in Nat /\ frees \in Seq({0, 1}) /\ Len(uris) = n /\ DOMAIN frees = 1..n
      /\ uris \in Seq({Uri[r].uri : r \in Refs}) /\ settings.maxDocuments \in Nat \ {0}
  BY <1>1, OwnerFacts, LenProperties
<1>3. \A id \in 1..n : frees'[id] = 1
  BY <1>1, <1>2, EntriesOfDocument
<1>. HIDE DEF n
<1>4. frees' \in [1..n -> {0, 1}]
  BY <1>1, <1>2, <1>3
<1>5. frees' \in Seq({0, 1}) /\ Len(frees') = n
  <2>1. frees' \in Seq({0, 1})
    BY <1>2, <1>4, SeqDef
  <2>2. Len(frees') \in Nat /\ 1..Len(frees') = 1..n
    BY <1>4, <2>1, LenProperties
  <2>. QED BY <1>2, <2>1, <2>2
<1>6. cache' \in Seq([key : Keys, id : 1..n]) /\ Len(cache') = 0
  BY <1>1, EmptySeq
<1>. QED BY <1>1, <1>2, <1>3, <1>5, <1>6 DEF OwnerInv

LEMMA OwnerUnchanged ==
  ASSUME OwnerInv, UNCHANGED <<fetched, settings>>, phase # "over", phase' # "over"
  PROVE  OwnerInv'
BY DEF OwnerInv, fetched

LEMMA OwnerInductive == ASSUME RefInv, [Next]_refVars PROVE OwnerInv'
<1>1. OwnerInv
  BY DEF RefInv
<1>2. CASE CallResolve \/ CallResolveAll \/ LinkComponent \/ EnterReference \/ EnterSchema
  BY <1>1, <1>2, OwnerUnchanged
     DEF CallResolve, CallResolveAll, LinkComponent, EnterReference, EnterSchema, input
<1>3. CASE WalkEnds \/ ReturnToClient \/ WalkFails
  BY <1>1, <1>3, OwnerUnchanged DEF WalkEnds, ReturnToClient, WalkFails, Return, input
<1>4. CASE Resolve
  <2>1. CASE UNCHANGED fetched
    <3>1. phase = "resolve" /\ phase' \in {"resolve", "unwind"} /\ UNCHANGED settings
      BY <1>4, ResolveEndsOrFollows DEF Follow, input
    <3>. QED BY <1>1, <2>1, <3>1, OwnerUnchanged
  <2>2. CASE LoadSucceeds \/ StoreFails
    BY <2>2, Fetches, OwnerKeeps, OwnerRefuses DEF input
  <2>. QED BY <1>4, <2>1, <2>2, FetchedChanges
<1>5. CASE Unwind \/ LinkValue \/ ParseFails
  BY <1>1, <1>5, OwnerUnchanged DEF Unwind, LinkValue, ParseFails, input
<1>6. CASE DestroyCache
  BY <1>6, OwnerDestroys
<1>7. CASE UNCHANGED refVars
  BY <1>1, <1>7 DEF refVars, OwnerInv
<1>. QED BY <1>2, <1>3, <1>4, <1>5, <1>6, <1>7 DEF Next

-----------------------------------------------------------------------------
\* What is handed out and what is linked.  Until the cache is destroyed, no
\* document that was there is freed.
Kept == \A i \in 1..Len(frees) : i \in 1..Len(frees') /\ frees'[i] = frees[i]

LEMMA LiveKept ==
  ASSUME Kept, NEW v, Live(v)
  PROVE  Fetched(v) => v.id \in 1..Len(frees') /\ frees'[v.id] = 0
BY DEF Kept, Live, Fetched

LEMMA LinksKept ==
  ASSUME LiveInv, phase # "over", Kept,
         UNCHANGED resolved \/ \E s : resolved' = [resolved EXCEPT ![s] = value]
  PROVE  \A s \in DOMAIN resolved' : Live(resolved[s])'
<1>1. Live(value) /\ \A s \in DOMAIN resolved : Live(resolved[s])
  BY DEF LiveInv
<1>2. \A s \in DOMAIN resolved' : Live(resolved'[s])
  BY <1>1
<1>3. SUFFICES ASSUME NEW s \in DOMAIN resolved' PROVE Live(resolved[s])'
  OBVIOUS
<1>4. Live(resolved'[s])
  BY <1>2
<1>. QED BY <1>4, LiveKept DEF Live, Fetched

LEMMA FetchesKeep ==
  ASSUME RefInv, LoadSucceeds \/ StoreFails
  PROVE  Kept /\ Live(value)'
<1>. DEFINE n == Len(frees)
<1>1. n \in Nat /\ frees \in Seq({0, 1})
  BY Fetches, OwnerFacts
<1>2. ASSUME NEW b \in {0, 1}, frees' = Append(frees, b)
      PROVE  Len(frees') = n + 1 /\ (\A i \in 1..n : frees'[i] = frees[i]) /\ frees'[n + 1] = b
  BY <1>1, <1>2, AppendProperties
<1>3. CASE frees' = Append(frees, 1) /\ value' = None
  <2>1. Live(value)'
    BY <1>3 DEF Live, Fetched
  <2>. QED BY <1>1, <1>2, <1>3, <2>1 DEF Kept
<1>4. CASE frees' = Append(frees, 0) /\ (value' = None \/ value' = [id |-> n + 1, at |-> At])
  <2>1. Len(frees') = n + 1 /\ (\A i \in 1..n : frees'[i] = frees[i]) /\ frees'[n + 1] = 0
    BY <1>2, <1>4
  <2>2. Kept
    BY <1>1, <2>1 DEF Kept
  <2>3. CASE value' = None
    BY <2>2, <2>3 DEF Live, Fetched
  <2>4. CASE value' = [id |-> n + 1, at |-> At]
    <3>1. value'.id = n + 1
      BY <2>4
    <3>2. n + 1 \in 1..Len(frees')
      BY <1>1, <2>1
    <3>. QED BY <2>1, <2>2, <3>1, <3>2 DEF Live, Fetched
  <2>. QED BY <1>4, <2>2, <2>3, <2>4
<1>. QED BY <1>3, <1>4, Fetches

\* A value of the document, or of a document the cache has.
LEMMA FoundIsLive ==
  ASSUME RefInv, Resolve, ~Follow, UNCHANGED fetched
  PROVE  Live(value)'
<1>1. phase = "resolve" /\ frees' = frees
  BY ResolveEndsOrFollows DEF fetched
<1>2. CASE value' = None
  BY <1>2 DEF Live, Fetched
<1>3. CASE LocalFound
  <2>1. value'.id = 0
    BY <1>3 DEF LocalFound, Finish
  <2>. QED BY <2>1 DEF Live, Fetched
<1>4. CASE CacheHit
  <2>1. PICK e \in Hits : Locate(e.id, Content[uris[e.id]])
    BY <1>4 DEF CacheHit
  <2>2. e \in ToSet(cache)
    BY DEF Hits, EntriesFor
  <2>3. e.id \in 1..Len(frees) /\ frees[e.id] = 0
    BY <1>1, <2>2, OwnerFacts DEF ToSet, Stored
  <2>4. value' = None \/ value' = [id |-> e.id, at |-> At]
    BY <2>1 DEF Locate, Finish
  <2>5. CASE value' = [id |-> e.id, at |-> At]
    <3>1. value'.id = e.id
      BY <2>5
    <3>. QED BY <1>1, <2>3, <3>1 DEF Live, Fetched
  <2>. QED BY <1>2, <2>4, <2>5
<1>5. CASE LoadSucceeds \/ StoreFails
  BY <1>5, FetchesKeep
<1>. QED
  BY <1>2, <1>3, <1>4, <1>5
     DEF Resolve, ReportCycle, UriFails, LocalMissing, PushFails, NotSupported, Forbidden,
         NeedsCallback, LoadFails, Fail, Finish

LEMMA LiveUnchanged ==
  ASSUME LiveInv, phase # "over", UNCHANGED <<frees, value>>,
         UNCHANGED resolved \/ \E s : resolved' = [resolved EXCEPT ![s] = value]
  PROVE  LiveInv'
<1>1. Kept
  BY DEF Kept
<1>2. Live(value)'
  BY DEF LiveInv, Live, Fetched
<1>. QED BY <1>1, <1>2, LinksKept DEF LiveInv

LEMMA LiveInductive == ASSUME RefInv, [Next]_refVars PROVE LiveInv'
<1>1. LiveInv
  BY DEF RefInv
<1>2. CASE CallResolve \/ CallResolveAll \/ EnterReference \/ EnterSchema
  BY <1>1, <1>2, LiveUnchanged
     DEF CallResolve, CallResolveAll, EnterReference, EnterSchema, walk, fetched, outcome
<1>3. CASE WalkEnds \/ ReturnToClient \/ WalkFails
  BY <1>1, <1>3, LiveUnchanged
     DEF WalkEnds, ReturnToClient, WalkFails, Return, fetched, outcome
<1>4. CASE LinkComponent
  <2>. DEFINE link == [component |-> doc.names[Uri[Schema.ref].component]]
  <2>1. /\ resolved' = [resolved EXCEPT ![Head(agenda)] = link]
        /\ frees' = frees /\ value' = value /\ phase # "over"
    BY <1>4 DEF LinkComponent, fetched, outcome
  <2>2. "id" \notin DOMAIN link
    OBVIOUS
  <2>. HIDE DEF link
  <2>3. \A s \in DOMAIN resolved : Live(resolved[s])
    BY <1>1, <2>1 DEF LiveInv
  <2>4. \A s \in DOMAIN resolved' : s \in DOMAIN resolved /\ resolved'[s] \in {link, resolved[s]}
    BY <2>1
  <2>5. \A s \in DOMAIN resolved' : Live(resolved[s])'
    BY <2>1, <2>2, <2>3, <2>4 DEF Live, Fetched
  <2>. QED BY <1>1, <2>1, <2>5 DEF LiveInv, Live, Fetched
<1>5. CASE Resolve
  <2>1. phase = "resolve"
    BY <1>5, ResolveEndsOrFollows
  <2>2. CASE Follow
    BY <1>1, <2>1, <2>2, LiveUnchanged DEF Follow, walk, fetched, outcome
  <2>3. CASE ~Follow
    <3>1. UNCHANGED resolved
      BY <1>5, <2>3, ResolveEndsOrFollows DEF walk
    <3>2. Kept /\ Live(value)'
      BY <1>5, <2>3, FetchedChanges, FetchesKeep, FoundIsLive DEF Kept, fetched
    <3>. QED BY <1>1, <2>1, <3>1, <3>2, LinksKept DEF LiveInv
  <2>. QED BY <2>2, <2>3
<1>6. CASE Unwind
  BY <1>1, <1>6, LiveUnchanged DEF Unwind, walk, fetched, outcome
<1>7. CASE LinkValue
  BY <1>1, <1>7, LiveUnchanged DEF LinkValue, fetched, outcome
<1>8. CASE ParseFails
  BY <1>1, <1>8, LiveUnchanged DEF ParseFails, fetched, outcome
<1>9. CASE DestroyCache
  BY <1>9 DEF DestroyCache, LiveInv
<1>10. CASE UNCHANGED refVars
  BY <1>1, <1>10 DEF refVars, LiveInv, Live, Fetched
<1>. QED
  BY <1>2, <1>3, <1>4, <1>5, <1>6, <1>7, <1>8, <1>9, <1>10 DEF Next

-----------------------------------------------------------------------------
LEMMA RefInitially == Init => RefInv
<1>. SUFFICES ASSUME Init PROVE RefInv
  OBVIOUS
<1>1. HandInv
  <2>1. agenda \in Seq(DOMAIN doc.schemas)
    BY EmptySeq DEF Init
  <2>. QED BY <2>1, DocumentsAssumption DEF Init, HandInv
<1>2. StackInv
  <2>1. visited \in Seq(Refs) /\ Len(visited) = 0
    BY EmptySeq DEF Init
  <2>2. DOMAIN visited = {}
    BY <2>1, LenProperties
  <2>. QED BY <2>1, <2>2, RefResolverAssumption
           DEF Init, StackInv, VisitedIsTheStack, IsInjective
<1>3. OwnerInv
  <2>1. /\ frees \in Seq({0, 1}) /\ uris \in Seq({Uri[r].uri : r \in Refs})
        /\ cache \in Seq([key : Keys, id : 1..0])
        /\ Len(frees) = 0 /\ Len(uris) = 0 /\ Len(cache) = 0
    BY EmptySeq DEF Init
  <2>. QED BY <2>1, RefResolverAssumption DEF Init, OwnerInv
<1>4. LiveInv
  BY DEF Init, LiveInv, Live, Fetched
<1>. QED BY <1>1, <1>2, <1>3, <1>4 DEF RefInv

LEMMA RefInductive == RefInv /\ [Next]_refVars => RefInv'
BY HandInductive, StackInductive, OwnerInductive, LiveInductive DEF RefInv

\* RefInv is inductive: what the properties of the visited set, of the documents
\* and of the cache rest on (oas_ref.c, oas_ref_cache.c).
THEOREM ResolverInvariant == Spec => []RefInv
BY RefInitially, RefInductive, PTL DEF Spec

\* However the calls of oas_ref_resolve end, the visited set is the stack of the
\* references being followed, without repetition and within its array and the
\* limit, and it is empty between two calls (visited_push, visited_pop).
THEOREM VisitedSetIsTheStack == Spec => []VisitedIsTheStack
BY ResolverInvariant, PTL DEF RefInv, StackInv

\* Each fetched document is freed exactly once, by the loader when the cache
\* refuses it and with the cache when it is kept (oas_ref_cache_put,
\* oas_ref_cache_destroy).
THEOREM EachDocumentFreedOnce == Spec => []DocumentsFreedOnce
<1>1. RefInv => DocumentsFreedOnce
  <2>. SUFFICES ASSUME RefInv PROVE DocumentsFreedOnce
    OBVIOUS
  <2>1. /\ OwnerInv
        /\ DOMAIN frees = 1..Len(frees) /\ DOMAIN cache = 1..Len(cache)
        /\ \A id \in 1..Len(frees) : frees[id] \in {0, 1}
    BY LenProperties, ElementOfSeq DEF RefInv, OwnerInv
  <2>2. CASE phase = "over"
    <3>1. ToSet(cache) = {}
      BY <2>1, <2>2, EmptySeq DEF ToSet, OwnerInv
    <3>. QED BY <2>1, <2>2, <3>1 DEF DocumentsFreedOnce, OwnerInv
  <2>3. CASE phase # "over"
    <3>1. ASSUME NEW id
          PROVE  (\E e \in ToSet(cache) : e.id = id) <=> \E j \in 1..Len(cache) : cache[j].id = id
      BY <2>1 DEF ToSet
    <3>2. \A id \in 1..Len(frees) : frees[id] = 0 <=> \E j \in 1..Len(cache) : cache[j].id = id
      BY <2>1, <2>3 DEF OwnerInv
    <3>3. \A id \in 1..Len(frees) : frees[id] <= 1
      BY <2>1
    <3>. QED BY <2>1, <2>3, <3>1, <3>2, <3>3 DEF DocumentsFreedOnce
  <2>. QED BY <2>2, <2>3
<1>. QED BY <1>1, ResolverInvariant, PTL

\* The cache has at most max_documents entries and one for each key, so that a
\* document is not loaded twice under the same key (oas_ref_cache_get and put).
THEOREM CacheStaysWithinLimit == Spec => []CacheWithinLimit
<1>1. RefInv => CacheWithinLimit
  <2>1. OwnerInv => DOMAIN cache = 1..Len(cache)
    BY LenProperties DEF OwnerInv
  <2>. QED BY <2>1 DEF RefInv, OwnerInv, CacheWithinLimit
<1>. QED BY <1>1, ResolverInvariant, PTL

\* What oas_ref_resolve returns and what oas_ref_resolve_all has linked is in no
\* document that has been freed, until the cache is destroyed.
THEOREM ResultsStayLive == Spec => []ResultsAreLive
<1>1. RefInv => ResultsAreLive
  <2>. SUFFICES ASSUME RefInv, phase # "over" PROVE ResultsAreLive
    BY DEF ResultsAreLive
  <2>1. Live(value) /\ \A s \in DOMAIN resolved : Live(resolved[s])
    BY DEF RefInv, LiveInv
  <2>. QED BY <2>1 DEF ResultsAreLive, Live, Fetched
<1>. QED BY <1>1, ResolverInvariant, PTL

-----------------------------------------------------------------------------
(* Where the chains lead, and what the links point at.                     *)

\* The reference whose resolution has been asked for.
Asked == IF walking THEN Schema.ref ELSE Head(calls)

\* The value a chain leads to, in a document that has been fetched.
Found(r, v) == v # None /\ PointsAt(r, v) /\ (v.id # 0 => v.id \in 1..Len(uris))

Answer(r, code, v) ==
  /\ code = Loop => Endless(r)
  /\ code = "ok" => ~Endless(r) /\ Found(r, v)
  /\ code = "ENOENT" => LastRef(r) \in errors

\* The visited set is the chain up to the reference in hand; on the way up the
\* result answers the reference that was asked for; and a document in the cache is
\* the one its key names.
ChainInv ==
  /\ phase \in {"resolve", "unwind"} => Asked \in Refs /\ (walking => ~IsComponent(Asked))
  /\ phase = "resolve" =>
       /\ \A i \in 1..frames : visited[i] = Chain(Asked)[i - 1]
       /\ ref = Chain(Asked)[frames]
  /\ phase = "unwind" => Answer(Asked, rc, value)
  /\ phase # "over" => \A j \in 1..Len(cache) : cache[j].key.uri = uris[cache[j].id]

\* What has been answered and linked stays right.
ResultInv ==
  /\ results \in Seq(ToSet(results))
  /\ \A k \in DOMAIN results :
       results[k].call # All => Answer(results[k].call, results[k].rc, results[k].value)

Linked(s) ==
  LET r == doc.schemas[s].ref IN
  resolved[s] # None =>
    /\ r # None
    /\ IF IsComponent(r) THEN resolved[s] = [component |-> doc.names[Uri[r].component]]
       ELSE Found(r, resolved[s])

\* The schemas the walk is done with are linked right, and what is below them is
\* done or waits; so is what the walk has started from.
Covers(done) ==
  /\ \A s \in done : LinkedRight(s) /\ Below(s) \subseteq done \cup ToSet(agenda)
  /\ ToSet(Roots) \subseteq done \cup ToSet(agenda)

LinkInv ==
  /\ DOMAIN resolved = DOMAIN doc.schemas
  /\ \A s \in DOMAIN doc.schemas : Linked(s)
  /\ walking => \E done \in SUBSET DOMAIN doc.schemas : Covers(done)
  /\ LinksAreRight

LEMMA NextIsReference ==
  ASSUME doc \in Documents, NEW r \in Refs \cup {None}
  PROVE  NextRef(r) \in Refs \cup {None} /\ NextRef(None) = None
BY NestedRefIsReference DEF NextRef

\* A chain is what its definition says.
LEMMA ChainIs ==
  ASSUME doc \in Documents, NEW r \in Refs
  PROVE  /\ Chain(r)[0] = r
         /\ \A k \in 1..MaxRefDepth : Chain(r)[k] = NextRef(Chain(r)[k - 1])
         /\ \A k \in 0..MaxRefDepth : Chain(r)[k] \in Refs \cup {None}
<1>. DEFINE X == Refs \cup {None}
            step == [k \in 1..MaxRefDepth |-> [x \in X |-> NextRef(x)]]
            Solves(f) == f = [k \in 0..MaxRefDepth |-> IF k = 0 THEN r ELSE NextRef(f[k - 1])]
            c == Chain(r)
<1>1. MaxRefDepth \in Nat /\ r \in X
  BY RefResolverAssumption
<1>2. step \in [1..MaxRefDepth -> [X -> X]]
  BY NextIsReference
<1>3. PICK g \in [0..MaxRefDepth -> X] : Recursion(g, MaxRefDepth, r, step)
  <2>. HIDE DEF step, X
  <2>. QED BY <1>1, <1>2, RecursionExists
<1>4. ASSUME NEW k \in 1..MaxRefDepth PROVE g[k] = NextRef(g[k - 1])
  <2>1. k - 1 \in 0..MaxRefDepth
    BY <1>1
  <2>2. g[k] = step[k][g[k - 1]] /\ g[k - 1] \in X
    <3>. HIDE DEF step, X
    <3>. QED BY <1>3, <2>1 DEF Recursion
  <2>. QED BY <2>2
<1>5. Solves(g)
  <2>1. g[0] = r
    BY <1>3 DEF Recursion
  <2>. HIDE DEF step, X
  <2>2. \A k \in 0..MaxRefDepth : k # 0 => k \in 1..MaxRefDepth
    BY <1>1
  <2>. QED BY <1>3, <1>4, <2>1, <2>2
<1>6. c = CHOOSE f : Solves(f)
  BY DEF Chain
<1>7. Solves(c)
  <2>. HIDE DEF Solves, c
  <2>. QED BY <1>5, <1>6
<1>8. \A k \in 0..MaxRefDepth : c[k] = IF k = 0 THEN r ELSE NextRef(c[k - 1])
  <2>. HIDE DEF c
  <2>. QED BY <1>7, Zenon
<1>9. c[0] = r /\ \A k \in 1..MaxRefDepth : c[k] = NextRef(c[k - 1])
  <2>. HIDE DEF c
  <2>1. 0 \in 0..MaxRefDepth /\ \A k \in 1..MaxRefDepth : k \in 0..MaxRefDepth /\ k # 0
    BY <1>1
  <2>. QED BY <1>8, <2>1, Zenon
<1>10. \A k \in 0..MaxRefDepth : c[k] \in X
  <2>. HIDE DEF c, X
  <2>. DEFINE T == {k \in 0..MaxRefDepth : c[k] \in X}
  <2>1. 0 \in T
    BY <1>1, <1>9
  <2>2. ASSUME NEW k \in 0..(MaxRefDepth - 1), k \in T PROVE k + 1 \in T
    <3>1. k + 1 \in 1..MaxRefDepth /\ k + 1 \in 0..MaxRefDepth /\ (k + 1) - 1 = k
      BY <1>1
    <3>2. c[k + 1] = NextRef(c[k])
      BY <1>9, <3>1
    <3>. QED BY <2>2, <3>1, <3>2, NextIsReference DEF X
  <2>3. 0..MaxRefDepth \subseteq T
    <3>. HIDE DEF T
    <3>. QED BY <1>1, <2>1, <2>2, BoundedInduction
  <2>. QED BY <2>3
<1>. QED BY <1>9, <1>10, Zenon

\* A chain that has ended has ended.
LEMMA ChainStaysOver ==
  ASSUME doc \in Documents, NEW r \in Refs, NEW k \in 0..MaxRefDepth, Chain(r)[k] = None
  PROVE  \A n \in k..MaxRefDepth : Chain(r)[n] = None
<1>. DEFINE T == {n \in 0..MaxRefDepth : n >= k => Chain(r)[n] = None}
<1>1. MaxRefDepth \in Nat
  BY RefResolverAssumption
<1>2. 0 \in T
  BY <1>1
<1>3. ASSUME NEW n \in 0..(MaxRefDepth - 1), n \in T PROVE n + 1 \in T
  <2>1. n + 1 \in 1..MaxRefDepth /\ n + 1 \in 0..MaxRefDepth /\ (n + 1) - 1 = n
    BY <1>1
  <2>2. Chain(r)[n + 1] = NextRef(Chain(r)[n])
    BY <2>1, ChainIs
  <2>3. CASE n >= k
    BY <1>3, <2>1, <2>2, <2>3 DEF NextRef
  <2>4. CASE ~(n >= k)
    BY <2>1, <2>4
  <2>. QED BY <2>3, <2>4
<1>4. 0..MaxRefDepth \subseteq T
  <2>. HIDE DEF T
  <2>. QED BY <1>1, <1>2, <1>3, BoundedInduction
<1>. QED BY <1>1, <1>4

\* The reference that names no further one is the last of its chain, and the
\* chain is not endless when it stands below the limit.
LEMMA LastOfChain ==
  ASSUME doc \in Documents, NEW r \in Refs, NEW k \in 0..(MaxRefDepth - 1),
         Chain(r)[k] # None, NextRef(Chain(r)[k]) = None
  PROVE  LastRef(r) = Chain(r)[k] /\ ~Endless(r)
<1>. DEFINE IsLast(j) == Chain(r)[j] # None /\ (j < MaxRefDepth => Chain(r)[j + 1] = None)
<1>1. MaxRefDepth \in Nat /\ k \in 0..MaxRefDepth /\ k + 1 \in 1..MaxRefDepth
      /\ k + 1 \in 0..MaxRefDepth /\ (k + 1) - 1 = k
  BY RefResolverAssumption
<1>2. Chain(r)[k + 1] = None
  BY <1>1, ChainIs
<1>3. \A n \in (k + 1)..MaxRefDepth : Chain(r)[n] = None
  BY <1>1, <1>2, ChainStaysOver
<1>4. IsLast(k)
  BY <1>2
<1>5. ASSUME NEW j \in 0..MaxRefDepth, IsLast(j) PROVE j = k
  <2>1. ~(j > k)
    BY <1>1, <1>3, <1>5
  <2>2. ASSUME j < k PROVE FALSE
    <3>1. j + 1 \in 0..MaxRefDepth /\ k \in (j + 1)..MaxRefDepth /\ j < MaxRefDepth
      BY <1>1, <2>2
    <3>2. Chain(r)[j + 1] = None
      BY <1>5, <3>1
    <3>. QED BY <3>1, <3>2, ChainStaysOver
  <2>. QED BY <1>1, <2>1, <2>2
<1>6. (CHOOSE j \in 0..MaxRefDepth : IsLast(j)) = k
  <2>. HIDE DEF IsLast
  <2>. QED BY <1>1, <1>4, <1>5
<1>7. LastRef(r) = Chain(r)[k]
  BY <1>6 DEF LastRef
<1>. QED BY <1>1, <1>3, <1>7 DEF Endless

\* A chain that comes back to a reference has no end.
LEMMA CycleIsEndless ==
  ASSUME doc \in Documents, NEW r \in Refs, NEW n \in 0..MaxRefDepth, NEW i \in 0..(n - 1),
         Chain(r)[n] = Chain(r)[i], Chain(r)[n] # None
  PROVE  Endless(r)
<1>. DEFINE V == {Chain(r)[j] : j \in 0..(n - 1)}
            T == {m \in 0..MaxRefDepth : Chain(r)[m] \in V}
<1>1. MaxRefDepth \in Nat /\ n \in Nat /\ n >= 1 /\ i \in Nat
  BY RefResolverAssumption
<1>2. None \notin V
  <2>1. SUFFICES ASSUME NEW j \in 0..(n - 1), Chain(r)[j] = None PROVE FALSE
    OBVIOUS
  <2>2. j \in 0..MaxRefDepth /\ n \in j..MaxRefDepth
    BY <1>1
  <2>. QED BY <2>1, <2>2, ChainStaysOver
<1>3. 0 \in T
  BY <1>1
<1>4. ASSUME NEW m \in 0..(MaxRefDepth - 1), m \in T PROVE m + 1 \in T
  <2>1. PICK j \in 0..(n - 1) : Chain(r)[m] = Chain(r)[j]
    BY <1>4
  <2>2. /\ m + 1 \in 1..MaxRefDepth /\ m + 1 \in 0..MaxRefDepth /\ (m + 1) - 1 = m
        /\ j + 1 \in 1..MaxRefDepth /\ (j + 1) - 1 = j
    BY <1>1
  <2>3. Chain(r)[m + 1] = Chain(r)[j + 1]
    BY <2>1, <2>2, ChainIs
  <2>4. CASE j + 1 \in 0..(n - 1)
    BY <2>2, <2>3, <2>4
  <2>5. CASE j + 1 = n
    BY <2>2, <2>3, <2>5
  <2>. QED BY <1>1, <2>4, <2>5
<1>5. 0..MaxRefDepth \subseteq T
  <2>. HIDE DEF T
  <2>. QED BY <1>1, <1>3, <1>4, BoundedInduction
<1>6. MaxRefDepth \in T
  BY <1>1, <1>5
<1>. QED BY <1>2, <1>6 DEF Endless

\* What a document says does not change.
LEMMA ChainUnchanged ==
  ASSUME doc' = doc, NEW r
  PROVE  Chain(r)' = Chain(r)
BY DEF Chain, NextRef, NestedRef

LEMMA NamesUnchanged ==
  ASSUME doc' = doc, NEW r
  PROVE  /\ LastRef(r)' = LastRef(r) /\ Endless(r)' = Endless(r)
         /\ Named(r)' = Named(r)
BY DEF LastRef, Endless, Named, Chain, NextRef, NestedRef

LEMMA AskedUnchanged ==
  ASSUME UNCHANGED <<doc, calls, walking, agenda>>
  PROVE  Asked' = Asked /\ IsComponent(Asked)' = IsComponent(Asked)
BY DEF Asked, Schema, IsComponent

\* The reference in hand, as long as it is not refused, is on the chain below the
\* limit; when it names no further one it is the last.
LEMMA ProceedFacts ==
  ASSUME RefInv, ChainInv, Proceed
  PROVE  /\ Asked \in Refs /\ ref \in Refs /\ doc \in Documents
         /\ Chain(Asked)[frames] = ref /\ frames \in 0..(MaxRefDepth - 1)
         /\ NextRef(ref) = None => LastRef(Asked) = ref /\ ~Endless(Asked)
<1>1. /\ Asked \in Refs /\ ref \in Refs /\ doc \in Documents /\ Chain(Asked)[frames] = ref
      /\ frames \in Nat /\ Len(visited) = frames
  BY DEF RefInv, HandInv, StackInv, VisitedIsTheStack, ChainInv, Proceed
<1>2. frames \in 0..(MaxRefDepth - 1)
  BY <1>1, RefResolverAssumption DEF Proceed, TooDeep
<1>3. ref # None
  BY <1>1, RefResolverAssumption
<1>. QED BY <1>1, <1>2, <1>3, LastOfChain

LEMMA CycleAnswers == ASSUME RefInv, ChainInv, ReportCycle PROVE Endless(Asked)
<1>1. /\ phase = "resolve" /\ Asked \in Refs /\ ref \in Refs /\ doc \in Documents
      /\ Chain(Asked)[frames] = ref
      /\ \A i \in 1..frames : visited[i] = Chain(Asked)[i - 1]
      /\ frames \in Nat /\ Len(visited) = frames /\ frames <= MaxRefDepth
      /\ visited \in Seq(Refs)
  BY DEF RefInv, HandInv, StackInv, VisitedIsTheStack, ChainInv, ReportCycle
<1>2. ref # None /\ MaxRefDepth \in Nat
  BY <1>1, RefResolverAssumption
<1>3. CASE TooDeep
  <2>1. frames = MaxRefDepth
    BY <1>1, <1>2, <1>3 DEF TooDeep
  <2>. QED BY <1>1, <1>2, <2>1 DEF Endless
<1>4. CASE Circular
  <2>1. PICK i \in 1..frames : visited[i] = ref
    BY <1>1, <1>4, LenProperties DEF Circular, ToSet
  <2>2. i - 1 \in 0..(frames - 1) /\ frames \in 0..MaxRefDepth
    BY <1>1, <1>2
  <2>3. Chain(Asked)[frames] = Chain(Asked)[i - 1] /\ Chain(Asked)[frames] # None
    BY <1>1, <1>2, <2>1
  <2>. QED BY <1>1, <2>2, <2>3, CycleIsEndless
<1>. QED BY <1>3, <1>4 DEF ReportCycle

\* What Locate makes of a document that the last reference of a chain names.
LEMMA LocateAnswers ==
  ASSUME RefInv, ChainInv, External, NEW id \in 1..Len(uris'), NEW values,
         Locate(id, values), uris'[id] = Uri[ref].uri
  PROVE  Answer(Asked, rc, value)'
<1>1. Proceed /\ Uri[ref].kind # "fragment"
  BY DEF External
<1>2. /\ Asked' = Asked /\ doc' = doc /\ LastRef(Asked) = ref /\ ~Endless(Asked)
      /\ UNCHANGED ref
  <2>1. UNCHANGED <<doc, calls, walking, agenda, ref>>
    BY DEF Locate, Finish, input, client, walk
  <2>2. NextRef(ref) = None
    BY <1>1 DEF NextRef
  <2>. QED BY <1>1, <2>1, <2>2, ProceedFacts, AskedUnchanged
<1>3. LastRef(Asked)' = ref /\ ~Endless(Asked)'
  BY <1>2, NamesUnchanged
<1>4. \/ rc' = "ENAMETOOLONG"
      \/ rc' = "ok" /\ value' = [id |-> id, at |-> At]
      \/ rc' = "ENOENT" /\ ref \in errors'
  BY DEF Locate, Finish
<1>5. CASE rc' = "ok" /\ value' = [id |-> id, at |-> At]
  <2>1. value'.id = id /\ value'.at = Uri[ref].at
    BY <1>5 DEF At
  <2>2. PointsAt(Asked, value)'
    BY <1>1, <1>2, <1>3, <2>1 DEF PointsAt
  <2>3. value' # None
    <3>1. uris \in Seq({Uri[r].uri : r \in Refs}) /\ ref \in Refs /\ id \in Nat
      BY <1>1, ProceedFacts DEF RefInv, OwnerInv
    <3>. QED BY <1>5, <3>1, RefResolverAssumption DEF At
  <2>. QED BY <1>3, <1>5, <2>1, <2>2, <2>3 DEF Answer, Found, Loop
<1>. QED BY <1>3, <1>4, <1>5 DEF Answer, Loop

\* However oas_ref_resolve ends its innermost call, the result answers the
\* reference the client or the walk asked for.
LEMMA ResolveAnswers ==
  ASSUME RefInv, ChainInv, Resolve, ~Follow
  PROVE  Answer(Asked, rc, value)'
<1>1. phase = "resolve" /\ phase' = "unwind" /\ UNCHANGED <<input, client, walk, ref, chain>>
  BY ResolveEndsOrFollows
<1>2. Asked' = Asked /\ doc' = doc
  BY <1>1, AskedUnchanged DEF input, client, walk
<1>3. LastRef(Asked)' = LastRef(Asked) /\ Endless(Asked)' = Endless(Asked)
  BY <1>2, NamesUnchanged
<1>4. CASE ReportCycle
  <2>1. rc' = Loop
    BY <1>4 DEF ReportCycle, Fail, Finish
  <2>. QED BY <1>2, <1>3, <1>4, <2>1, CycleAnswers DEF Answer, Loop
<1>5. CASE UriFails \/ NotSupported \/ Forbidden \/ NeedsCallback \/ PushFails \/ StoreFails
  <2>1. rc' \notin {Loop, "ok", "ENOENT"}
    BY <1>5 DEF UriFails, NotSupported, Forbidden, NeedsCallback, PushFails, StoreFails, Fail, Finish, Loop
  <2>. QED BY <2>1 DEF Answer
<1>6. CASE LoadFails
  <2>1. Proceed /\ Uri[ref].kind # "fragment"
    BY <1>6 DEF LoadFails, Loads, Available, External
  <2>2. ref \in Refs /\ LastRef(Asked) = ref
    BY <2>1, ProceedFacts DEF NextRef
  <2>3. PICK why \in Outcomes[Uri[ref].uri] \ {"ok"} : Fail(why, Reported(why))
    BY <1>6 DEF LoadFails
  <2>4. why # Loop /\ rc' = why
    BY <2>1, <2>2, <2>3, RefResolverAssumption DEF Fail, Finish
  <2>5. why = "ENOENT" => ref \in errors'
    BY <2>3 DEF Fail, Finish, Reported
  <2>. QED BY <1>2, <1>3, <2>2, <2>3, <2>4, <2>5 DEF Answer
<1>7. CASE LocalMissing
  <2>1. Proceed /\ NextRef(ref) = None /\ rc' = "ENOENT" /\ ref \in errors'
    BY <1>7 DEF LocalMissing, Local, At, NextRef, Fail, Finish
  <2>. QED BY <1>2, <1>3, <2>1, ProceedFacts DEF Answer, Loop
<1>8. CASE LocalFound
  <2>1. /\ Proceed /\ NextRef(ref) = None /\ rc' = "ok" /\ value' = [id |-> 0, at |-> At]
        /\ Uri[ref].kind = "fragment"
    BY <1>8 DEF LocalFound, Local, At, NextRef, Finish
  <2>2. /\ ref \in Refs /\ LastRef(Asked)' = ref /\ ~Endless(Asked)'
    BY <1>3, <2>1, ProceedFacts
  <2>3. value'.id = 0 /\ value'.at = Uri[ref].at
    BY <2>1 DEF At
  <2>4. PointsAt(Asked, value)'
    BY <1>2, <2>1, <2>2, <2>3 DEF PointsAt
  <2>5. value' # None
    BY <2>1, <2>2, RefResolverAssumption DEF At
  <2>. QED BY <1>2, <2>1, <2>2, <2>3, <2>4, <2>5 DEF Answer, Found, Loop
<1>9. CASE CacheHit
  <2>1. PICK e \in Hits : Locate(e.id, Content[uris[e.id]])
    BY <1>9 DEF CacheHit
  <2>2. External /\ UNCHANGED uris
    BY <1>9 DEF CacheHit, Available, fetched
  <2>3. e \in ToSet(cache) /\ e.key.uri = Uri[ref].uri
    BY DEF Hits, EntriesFor, RefKey, FullKey
  <2>4. PICK j \in 1..Len(cache) : e = cache[j]
    BY <1>1, <2>3, OwnerFacts DEF ToSet
  <2>5. e.id \in 1..Len(uris) /\ uris[e.id] = Uri[ref].uri
    BY <1>1, <2>3, <2>4, OwnerFacts DEF ChainInv
  <2>. QED BY <2>1, <2>2, <2>5, LocateAnswers
<1>10. CASE LoadSucceeds
  <2>1. /\ External /\ uris' = Append(uris, Uri[ref].uri)
        /\ Locate(NewId, Content[Uri[ref].uri])
    BY <1>10 DEF LoadSucceeds, Loads, Available
  <2>2. ref \in Refs /\ uris \in Seq({Uri[r].uri : r \in Refs})
    BY <2>1, ProceedFacts DEF External, RefInv, OwnerInv
  <2>3. Len(uris) \in Nat /\ Len(uris') = Len(uris) + 1 /\ uris'[Len(uris) + 1] = Uri[ref].uri
    BY <2>1, <2>2, AppendProperties, LenProperties
  <2>4. NewId \in 1..Len(uris') /\ uris'[NewId] = Uri[ref].uri
    BY <2>3 DEF NewId
  <2>. QED BY <2>1, <2>4, LocateAnswers
<1>. QED BY <1>4, <1>5, <1>6, <1>7, <1>8, <1>9, <1>10 DEF Resolve

\* Documents and errors are only added.
OnlyAdds ==
  /\ doc' = doc /\ errors \subseteq errors' /\ scarce' = scarce
  /\ \A i \in 1..Len(uris) : i \in 1..Len(uris') /\ uris'[i] = uris[i]

LEMMA StepsOnlyAdd == ASSUME RefInv, [Next]_refVars PROVE OnlyAdds
<1>1. CASE Resolve
  <2>1. errors \subseteq errors' /\ UNCHANGED <<doc, scarce>>
    <3>1. CASE Follow
      BY <3>1 DEF Follow, input
    <3>2. CASE ~Follow
      BY <1>1, <3>2
         DEF Resolve, ReportCycle, UriFails, LocalMissing, LocalFound, PushFails, NotSupported,
             CacheHit, Forbidden, NeedsCallback, LoadFails, LoadSucceeds, StoreFails, Locate,
             Fail, Finish, input
    <3>. QED BY <3>1, <3>2
  <2>2. CASE UNCHANGED fetched
    BY <2>1, <2>2 DEF OnlyAdds, fetched
  <2>3. CASE LoadSucceeds \/ StoreFails
    <3>1. uris' = Append(uris, Uri[ref].uri) /\ ref \in Refs
      BY <2>3, Fetches
    <3>2. uris \in Seq({Uri[r].uri : r \in Refs})
      BY DEF RefInv, OwnerInv
    <3>3. /\ Len(uris) \in Nat /\ Len(uris') = Len(uris) + 1
          /\ \A i \in 1..Len(uris) : uris'[i] = uris[i]
      BY <3>1, <3>2, AppendProperties, LenProperties
    <3>. QED BY <2>1, <3>3 DEF OnlyAdds
  <2>. QED BY <1>1, <2>2, <2>3, FetchedChanges
<1>2. CASE ~Resolve
  BY <1>2 DEF Next, CallResolve, CallResolveAll, LinkComponent, EnterReference, EnterSchema,
              WalkEnds, Unwind, ReturnToClient, WalkFails, LinkValue, ParseFails, DestroyCache,
              Return, OnlyAdds, input, fetched, refVars
<1>. QED BY <1>1, <1>2

LEMMA AnswerStays ==
  ASSUME OnlyAdds, NEW r, NEW code, NEW v
  PROVE  /\ Found(r, v) => Found(r, v)'
         /\ Answer(r, code, v) => Answer(r, code, v)'
<1>1. LastRef(r)' = LastRef(r) /\ Endless(r)' = Endless(r)
  BY NamesUnchanged DEF OnlyAdds
<1>2. ASSUME Found(r, v) PROVE Found(r, v)'
  <2>1. v # None /\ PointsAt(r, v) /\ (v.id # 0 => v.id \in 1..Len(uris))
    BY <1>2 DEF Found
  <2>2. v.id # 0 => v.id \in 1..Len(uris') /\ uris'[v.id] = uris[v.id]
    BY <2>1 DEF OnlyAdds
  <2>3. PointsAt(r, v)'
    BY <1>1, <2>1, <2>2 DEF PointsAt
  <2>. QED BY <2>1, <2>2, <2>3 DEF Found
<1>3. ASSUME Answer(r, code, v) PROVE Answer(r, code, v)'
  BY <1>1, <1>2, <1>3 DEF Answer, OnlyAdds
<1>. QED BY <1>2, <1>3

\* Following a reference, the visited set grows by the one in hand.
LEMMA FollowedOnChain ==
  ASSUME RefInv, ChainInv, Follow
  PROVE  /\ \A i \in 1..frames' : visited'[i] = Chain(Asked)[i - 1]
         /\ ref' = Chain(Asked)[frames']
<1>1. /\ Proceed /\ visited' = Append(visited, ref) /\ frames' = frames + 1
      /\ ref' = NextRef(ref)
  <2>1. ref # None
    BY ProceedFacts, RefResolverAssumption DEF Follow, Local
  <2>. QED BY <2>1 DEF Follow, Local, NextRef, At
<1>2. /\ visited \in Seq(Refs) /\ frames \in Nat /\ Len(visited) = frames
      /\ \A i \in 1..frames : visited[i] = Chain(Asked)[i - 1]
  BY <1>1 DEF RefInv, StackInv, VisitedIsTheStack, ChainInv, Proceed
<1>3. /\ Asked \in Refs /\ ref \in Refs /\ doc \in Documents
      /\ Chain(Asked)[frames] = ref /\ frames \in 0..(MaxRefDepth - 1)
  BY <1>1, ProceedFacts
<1>4. (\A i \in 1..frames : visited'[i] = visited[i]) /\ visited'[frames + 1] = ref
  BY <1>1, <1>2, <1>3, AppendProperties
<1>5. frames + 1 \in 1..MaxRefDepth /\ (frames + 1) - 1 = frames
  BY <1>3, RefResolverAssumption
<1>6. Chain(Asked)[frames + 1] = NextRef(ref)
  BY <1>3, <1>5, ChainIs
<1>7. ASSUME NEW i \in 1..(frames + 1) PROVE visited'[i] = Chain(Asked)[i - 1]
  <2>1. CASE i = frames + 1
    BY <1>3, <1>4, <1>5, <2>1
  <2>2. CASE i \in 1..frames
    BY <1>2, <1>4, <2>2
  <2>. QED BY <1>2, <2>1, <2>2
<1>. QED BY <1>1, <1>6, <1>7

LEMMA ChainInductive == ASSUME RefInv, ChainInv, [Next]_refVars PROVE ChainInv'
<1>1. OnlyAdds
  BY StepsOnlyAdd
<1>1a. phase' # "over" => \A j \in 1..Len(cache') : cache'[j].key.uri = uris'[cache'[j].id]
  <2>. SUFFICES ASSUME phase' # "over"
                PROVE  \A j \in 1..Len(cache') : cache'[j].key.uri = uris'[cache'[j].id]
    OBVIOUS
  <2>1. CASE UNCHANGED fetched /\ phase # "over"
    BY <2>1 DEF ChainInv, fetched
  <2>2. CASE LoadSucceeds \/ StoreFails
    <3>1. /\ phase = "resolve" /\ uris' = Append(uris, Uri[ref].uri) /\ ref \in Refs
          /\ \/ cache' = cache
             \/ cache' = Append(cache, [key |-> StoreKey, id |-> Len(frees) + 1])
      BY <2>2, Fetches
    <3>2. /\ uris \in Seq({Uri[r].uri : r \in Refs}) /\ Len(uris) = Len(frees) /\ Len(frees) \in Nat
          /\ Len(cache) \in Nat /\ cache \in Seq([key : Keys, id : 1..Len(uris)])
          /\ \A j \in 1..Len(cache) : cache[j].id \in 1..Len(frees)
      BY <3>1, OwnerFacts
    <3>3. /\ uris'[Len(uris) + 1] = Uri[ref].uri
          /\ \A i \in 1..Len(uris) : uris'[i] = uris[i]
      BY <3>1, <3>2, AppendProperties
    <3>4. \A j \in 1..Len(cache) : cache[j].key.uri = uris'[cache[j].id]
      BY <3>1, <3>2, <3>3 DEF ChainInv
    <3>5. CASE cache' = cache
      BY <3>4, <3>5
    <3>6. CASE cache' = Append(cache, [key |-> StoreKey, id |-> Len(frees) + 1])
      <4>. DEFINE new == [key |-> StoreKey, id |-> Len(frees) + 1]
      <4>1. new.id = Len(uris) + 1 /\ new.key.uri = Uri[ref].uri
        BY <3>2 DEF StoreKey, RefKey, FullKey
      <4>2. /\ Len(cache') = Len(cache) + 1
            /\ (\A j \in 1..Len(cache) : cache'[j] = cache[j]) /\ cache'[Len(cache) + 1] = new
        <5>1. \A x : Len(Append(cache, x)) = Len(cache) + 1
                     /\ (\A j \in 1..Len(cache) : Append(cache, x)[j] = cache[j])
                     /\ Append(cache, x)[Len(cache) + 1] = x
          BY <3>2
        <5>. QED BY <3>6, <5>1
      <4>. HIDE DEF new
      <4>. QED BY <3>2, <3>3, <3>4, <4>1, <4>2
    <3>. QED BY <3>1, <3>5, <3>6
  <2>3. phase # "over"
    BY DEF Next, CallResolve, CallResolveAll, LinkComponent, EnterReference, EnterSchema,
           WalkEnds, Unwind, ReturnToClient, WalkFails, LinkValue, ParseFails, DestroyCache,
           Resolve, ReportCycle, UriFails, Local, LocalMissing, LocalFound, PushFails, Follow,
           External, Available, NotSupported, CacheHit, Forbidden, NeedsCallback, Loads,
           LoadFails, LoadSucceeds, StoreFails, Proceed, refVars
  <2>4. UNCHANGED fetched \/ LoadSucceeds \/ StoreFails
    <3>1. CASE Resolve
      BY <3>1, FetchedChanges
    <3>2. CASE ~Resolve
      BY <3>2 DEF Next, CallResolve, CallResolveAll, LinkComponent, EnterReference, EnterSchema,
                  WalkEnds, Unwind, ReturnToClient, WalkFails, LinkValue, ParseFails,
                  DestroyCache, Return, refVars, fetched
    <3>. QED BY <3>1, <3>2
  <2>. QED BY <2>1, <2>2, <2>3, <2>4
<1>2. CASE CallResolve
  <2>1. /\ ref' = Head(calls) /\ Head(calls) \in Refs /\ doc \in Documents /\ doc' = doc
        /\ ~walking /\ UNCHANGED <<calls, walking, agenda, frames>> /\ phase' = "resolve"
        /\ frames = 0
    BY <1>2, HeadTailProperties
       DEF CallResolve, RefInv, HandInv, StackInv, VisitedIsTheStack, input, client, walk, chain
  <2>2. Asked' = ref' /\ Asked = ref'
    BY <2>1 DEF Asked
  <2>3. Chain(ref')[0] = ref'
    BY <2>1, ChainIs
  <2>4. Chain(Asked)' = Chain(Asked)
    BY <2>1, <2>2, ChainUnchanged
  <2>. QED BY <1>1a, <2>1, <2>2, <2>3, <2>4 DEF ChainInv
<1>3. CASE EnterReference
  <2>0. HandInv /\ StackInv /\ phase = "walk" /\ agenda # <<>> /\ Schema.ref # None
    BY <1>3 DEF EnterReference, RefInv
  <2>a. walking /\ frames = 0
    BY <2>0 DEF HandInv, StackInv, VisitedIsTheStack
  <2>b. Schema.ref \in Refs /\ doc \in Documents
    BY <2>0, AgendaGoesBelow DEF HandInv
  <2>c. /\ ref' = Schema.ref /\ ~IsComponent(Schema.ref) /\ doc' = doc /\ phase' = "resolve"
        /\ UNCHANGED <<calls, walking, agenda, frames>>
    BY <1>3 DEF EnterReference, input, client, walk, chain
  <2>1. /\ ref' = Schema.ref /\ Schema.ref \in Refs /\ ~IsComponent(Schema.ref)
        /\ doc \in Documents /\ doc' = doc
        /\ walking /\ UNCHANGED <<calls, walking, agenda, frames>> /\ phase' = "resolve"
        /\ frames = 0
    BY <2>a, <2>b, <2>c
  <2>2. Asked' = ref' /\ Asked = ref' /\ IsComponent(Asked)' = IsComponent(Asked)
    BY <2>1, AskedUnchanged DEF Asked
  <2>3. Chain(ref')[0] = ref'
    BY <2>1, ChainIs
  <2>4. Chain(Asked)' = Chain(Asked)
    BY <2>1, <2>2, ChainUnchanged
  <2>. QED BY <1>1a, <2>1, <2>2, <2>3, <2>4 DEF ChainInv
<1>4. CASE Follow
  <2>1. /\ phase = "resolve" /\ phase' = "resolve" /\ doc' = doc
        /\ UNCHANGED <<calls, walking, agenda>>
    BY <1>4 DEF Follow, Local, Proceed, input, client, walk
  <2>2. Asked' = Asked /\ IsComponent(Asked)' = IsComponent(Asked)
    BY <2>1, AskedUnchanged
  <2>3. Chain(Asked)' = Chain(Asked)
    BY <2>1, <2>2, ChainUnchanged
  <2>. QED BY <1>4, <1>1a, <2>1, <2>2, <2>3, FollowedOnChain DEF ChainInv
<1>5. CASE Resolve /\ ~Follow
  <2>1. /\ phase = "resolve" /\ phase' = "unwind" /\ UNCHANGED <<doc, calls, walking, agenda>>
    BY <1>5, ResolveEndsOrFollows DEF input, client, walk
  <2>. QED BY <1>5, <1>1a, <2>1, ResolveAnswers, AskedUnchanged DEF ChainInv
<1>6. CASE Unwind
  <2>1. /\ phase = "unwind" /\ phase' = "unwind"
        /\ UNCHANGED <<doc, calls, walking, agenda, rc, value>>
    BY <1>6 DEF Unwind, input, client, walk, outcome
  <2>2. Asked' = Asked /\ IsComponent(Asked)' = IsComponent(Asked)
    BY <2>1, AskedUnchanged
  <2>3. Answer(Asked, rc, value)'
    <3>1. Answer(Asked, rc, value)
      BY <2>1 DEF ChainInv
    <3>. DEFINE a == Asked
    <3>2. ASSUME NEW r, NEW code, NEW v, Answer(r, code, v) PROVE Answer(r, code, v)'
      BY <1>1, <3>2, AnswerStays
    <3>. QED BY <2>1, <2>2, <3>1, <3>2
  <2>. QED BY <1>1a, <2>1, <2>2, <2>3 DEF ChainInv
<1>7. CASE phase' \notin {"resolve", "unwind"}
  BY <1>1a, <1>7 DEF ChainInv
<1>8. CASE UNCHANGED refVars
  <2>1. UNCHANGED <<doc, calls, walking, agenda, ref, frames, visited, phase, rc, value, uris, errors>>
    BY <1>8 DEF refVars
  <2>2. Asked' = Asked /\ IsComponent(Asked)' = IsComponent(Asked)
    BY <2>1, AskedUnchanged
  <2>3. Chain(Asked)' = Chain(Asked)
    BY <2>1, <2>2, ChainUnchanged
  <2>4. Answer(Asked, rc, value)' = Answer(Asked, rc, value)
    BY <2>1, <2>2, NamesUnchanged DEF Answer, Found, PointsAt
  <2>. QED BY <1>1a, <2>1, <2>2, <2>3, <2>4 DEF ChainInv
<1>9. Resolve \/ Unwind \/ CallResolve \/ EnterReference \/ UNCHANGED refVars
      \/ phase' \notin {"resolve", "unwind"}
  BY DEF Next, CallResolveAll, LinkComponent, EnterSchema, WalkEnds, ReturnToClient,
         WalkFails, LinkValue, ParseFails, DestroyCache, Return
<1>. QED BY <1>2, <1>3, <1>4, <1>5, <1>6, <1>7, <1>8, <1>9

-----------------------------------------------------------------------------
\* What is returned stays right.
LEMMA SeqOfItsValues ==
  ASSUME NEW T, NEW s \in Seq(T)
  PROVE  s \in Seq(ToSet(s)) /\ DOMAIN s = 1..Len(s) /\ Len(s) \in Nat
<1>1. DOMAIN s = 1..Len(s) /\ Len(s) \in Nat /\ s \in [1..Len(s) -> T]
  BY LenProperties
<1>2. s \in [1..Len(s) -> ToSet(s)]
  BY <1>1 DEF ToSet
<1>. QED BY <1>1, <1>2, SeqDef

LEMMA ResultsReturned ==
  ASSUME ResultInv, OnlyAdds, NEW call, NEW code, NEW v, Return(code, v),
         call = Head(calls), call # All => Answer(call, code, v)'
  PROVE  ResultInv'
<1>. DEFINE new == [call |-> call, rc |-> code, value |-> v]
            T == ToSet(results) \cup {new}
<1>1. results \in Seq(T) /\ new \in T
  BY SeqMonotonic DEF ResultInv
<1>2. results' = Append(results, new)
  BY DEF Return
<1>3. new.call = call /\ new.rc = code /\ new.value = v
  OBVIOUS
<1>. HIDE DEF new, T
<1>4. /\ results' \in Seq(T) /\ Len(results') = Len(results) + 1 /\ Len(results) \in Nat
      /\ \A k \in 1..Len(results) : results'[k] = results[k]
      /\ results'[Len(results) + 1] = new
  BY <1>1, <1>2, AppendProperties, LenProperties
<1>5. results' \in Seq(ToSet(results')) /\ DOMAIN results' = 1..(Len(results) + 1)
      /\ DOMAIN results = 1..Len(results)
  BY <1>1, <1>4, SeqOfItsValues
<1>6. ASSUME NEW k \in 1..(Len(results) + 1), results'[k].call # All
      PROVE  Answer(results[k].call, results[k].rc, results[k].value)'
  <2>1. CASE k = Len(results) + 1
    BY <1>3, <1>4, <1>6, <2>1
  <2>2. CASE k \in 1..Len(results)
    <3>1. results'[k] = results[k]
      BY <1>4, <2>2
    <3>2. Answer(results[k].call, results[k].rc, results[k].value)
      BY <1>5, <1>6, <2>2, <3>1 DEF ResultInv
    <3>3. PICK r, c, w : r = results[k].call /\ c = results[k].rc /\ w = results[k].value
      OBVIOUS
    <3>4. Answer(r, c, w)'
      BY <3>2, <3>3, AnswerStays
    <3>. QED BY <3>1, <3>3, <3>4
  <2>. QED BY <1>4, <2>1, <2>2
<1>. QED BY <1>5, <1>6 DEF ResultInv

LEMMA ResultsUnchanged == ASSUME ResultInv, OnlyAdds, results' = results PROVE ResultInv'
<1>1. results' \in Seq(ToSet(results'))
  BY DEF ResultInv
<1>2. ASSUME NEW k \in DOMAIN results, results[k].call # All
      PROVE  Answer(results[k].call, results[k].rc, results[k].value)'
  <2>1. PICK r, c, w : r = results[k].call /\ c = results[k].rc /\ w = results[k].value
    OBVIOUS
  <2>2. Answer(r, c, w)'
    BY <1>2, <2>1, AnswerStays DEF ResultInv
  <2>. QED BY <2>1, <2>2
<1>. QED BY <1>1, <1>2 DEF ResultInv

LEMMA ResultInductive ==
  ASSUME RefInv, ChainInv, ResultInv, [Next]_refVars
  PROVE  ResultInv'
<1>1. OnlyAdds
  BY StepsOnlyAdd
<1>2. CASE WalkEnds \/ WalkFails
  <2>1. HandInv /\ (phase = "walk" \/ walking)
    BY <1>2 DEF WalkEnds, WalkFails, RefInv
  <2>2. Head(calls) = All
    BY <2>1 DEF HandInv
  <2>. QED BY <1>1, <1>2, <2>2, ResultsReturned DEF WalkEnds, WalkFails
<1>3. CASE ReturnToClient
  <2>1. /\ phase = "unwind" /\ ~walking /\ Return(rc, value)
        /\ UNCHANGED <<input, resolved, ref, chain, fetched, outcome, errors>>
    BY <1>3 DEF ReturnToClient
  <2>2. PICK r, c, w : r = Head(calls) /\ c = rc /\ w = value
    OBVIOUS
  <2>3. Answer(r, c, w)
    BY <2>1, <2>2 DEF ChainInv, Asked
  <2>4. Answer(r, c, w)' /\ Return(c, w)
    BY <1>1, <2>1, <2>2, <2>3, AnswerStays
  <2>. QED BY <1>1, <2>2, <2>4, ResultsReturned
<1>4. CASE ~(WalkEnds \/ WalkFails \/ ReturnToClient)
  <2>1. results' = results
    <3>1. CASE Resolve
      BY <3>1, ResolveEndsOrFollows DEF Follow, client
    <3>2. CASE ~Resolve
      BY <1>4, <3>2
         DEF Next, CallResolve, CallResolveAll, LinkComponent, EnterReference, EnterSchema,
             Unwind, LinkValue, ParseFails, DestroyCache, client, refVars
    <3>. QED BY <3>1, <3>2
  <2>. QED BY <1>1, <2>1, ResultsUnchanged
<1>. QED BY <1>2, <1>3, <1>4

-----------------------------------------------------------------------------
\* What the walk reaches.
LEMMA BelowIsSchemas ==
  ASSUME doc \in Documents, NEW s \in DOMAIN doc.schemas
  PROVE  Below(s) \subseteq DOMAIN doc.schemas
<1>1. doc.schemas[s].subschemas \in Seq(DOMAIN doc.schemas)
  BY DocumentsAssumption
<1>. QED BY <1>1, LenProperties DEF Below, ToSet

LEMMA RootsAreSchemas ==
  ASSUME doc \in Documents
  PROVE  ToSet(Roots) \subseteq DOMAIN doc.schemas
<1>1. Roots \in Seq(DOMAIN doc.schemas)
  BY DocumentsAssumption DEF Roots
<1>. QED BY <1>1, LenProperties DEF ToSet

\* A set of schemas that has the roots and what is below each of its schemas has
\* all the walk reaches.
LEMMA ReachedIsLeast ==
  ASSUME doc \in Documents, NEW S \in SUBSET DOMAIN doc.schemas,
         ToSet(Roots) \subseteq S, \A s \in S : Below(s) \subseteq S
  PROVE  Reached \subseteq S
<1>. DEFINE N == Cardinality(DOMAIN doc.schemas)
            X == SUBSET DOMAIN doc.schemas
            Grown(x) == x \cup UNION {Below(s) : s \in x}
            step == [k \in 1..N |-> [x \in X |-> Grown(x)]]
            Solves(f) == f = [n \in 0..N |-> IF n = 0 THEN ToSet(Roots)
                                             ELSE f[n - 1] \cup UNION {Below(s) : s \in f[n - 1]}]
            c == CHOOSE f : Solves(f)
<1>1. N \in Nat
  BY DocumentsAssumption, FS_CardinalityType
<1>2. ToSet(Roots) \in X
  BY RootsAreSchemas
<1>3. \A x \in X : Grown(x) \in X
  BY BelowIsSchemas
<1>4. Reached = c[N]
  BY DEF Reached
<1>5. step \in [1..N -> [X -> X]]
  BY <1>3
<1>6. PICK g \in [0..N -> X] : Recursion(g, N, ToSet(Roots), step)
  <2>. HIDE DEF step, X, N
  <2>. QED BY <1>1, <1>2, <1>5, RecursionExists
<1>7. ASSUME NEW k \in 1..N PROVE g[k] = Grown(g[k - 1])
  <2>. HIDE DEF X, N, Grown
  <2>1. k - 1 \in 0..N
    BY <1>1
  <2>2. g[k] = step[k][g[k - 1]] /\ g[k - 1] \in X
    <3>. HIDE DEF step
    <3>. QED BY <1>6, <2>1 DEF Recursion
  <2>. QED BY <2>2
<1>8. Solves(g)
  <2>1. g[0] = ToSet(Roots)
    BY <1>6 DEF Recursion
  <2>. HIDE DEF step, X, N
  <2>2. \A k \in 0..N : k # 0 => k \in 1..N
    BY <1>1
  <2>. QED BY <1>6, <1>7, <2>1, <2>2
<1>9. Solves(c)
  <2>. HIDE DEF Solves
  <2>. QED BY <1>8
<1>10. c[0] = ToSet(Roots) /\ \A k \in 1..N : c[k] = Grown(c[k - 1])
  <2>1. \A k \in 0..N : c[k] = IF k = 0 THEN ToSet(Roots) ELSE Grown(c[k - 1])
    <3>. HIDE DEF c, N
    <3>. QED BY <1>9, Zenon
  <2>. HIDE DEF c, N, Grown
  <2>2. 0 \in 0..N /\ \A k \in 1..N : k \in 0..N /\ k # 0
    BY <1>1
  <2>. QED BY <2>1, <2>2, Zenon
<1>11. \A x : x \subseteq S => Grown(x) \subseteq S
  OBVIOUS
<1>. HIDE DEF c, N, Grown, X, step, Solves
<1>. DEFINE T == {n \in 0..N : c[n] \subseteq S}
<1>12. 0 \in T
  BY <1>1, <1>10
<1>13. ASSUME NEW n \in 0..(N - 1), n \in T PROVE n + 1 \in T
  <2>1. n + 1 \in 1..N /\ n + 1 \in 0..N /\ (n + 1) - 1 = n
    BY <1>1
  <2>. QED BY <1>10, <1>11, <1>13, <2>1
<1>14. 0..N \subseteq T
  <2>. HIDE DEF T
  <2>. QED BY <1>1, <1>12, <1>13, BoundedInduction
<1>15. N \in 0..N
  BY <1>1
<1>. QED BY <1>4, <1>14, <1>15

LEMMA ReachedIsSchemas == ASSUME doc \in Documents PROVE Reached \subseteq DOMAIN doc.schemas
BY ReachedIsLeast, RootsAreSchemas, BelowIsSchemas

LEMMA WalkUnchanged ==
  ASSUME doc' = doc
  PROVE  /\ Reached' = Reached /\ Roots' = Roots
         /\ \A s : Below(s)' = Below(s)
BY DEF Reached, Roots, Below, IsComponent

\* The link that LinkValue makes, or leaves out, is right.
LEMMA ValueIsNamed ==
  ASSUME NEW r, NEW v, Found(r, v)
  PROVE  IsObject(v) <=> Named(r).object
BY DEF Found, PointsAt, IsObject, ValuesOf, Named

\* What the steps do to the links.
LinksValue(s) ==
  /\ Asked = doc.schemas[s].ref /\ Asked \in Refs /\ ~IsComponent(Asked)
  /\ IsObject(value)
  /\ resolved' = [resolved EXCEPT ![s] = value]
  /\ Found(Asked, value)

LinksComponent(s) ==
  /\ doc.schemas[s].ref # None /\ IsComponent(doc.schemas[s].ref)
  /\ resolved' = [resolved EXCEPT ![s] = [component |-> doc.names[Uri[doc.schemas[s].ref].component]]]

LEMMA ToSetOfConcat ==
  ASSUME NEW T, NEW s \in Seq(T), NEW t \in Seq(T)
  PROVE  ToSet(s \o t) = ToSet(s) \cup ToSet(t)
<1>1. \A f : ToSet(f) = Range(f)
  BY DEF ToSet, Range
<1>2. Range(s \o t) = Range(s) \cup Range(t)
  BY RangeConcatenation
<1>. QED BY <1>1, <1>2

LEMMA WalkHead ==
  ASSUME RefInv, phase = "walk" \/ (phase = "unwind" /\ walking), agenda # <<>>
  PROVE  /\ doc \in Documents /\ walking /\ Head(agenda) \in DOMAIN doc.schemas
         /\ Schema = doc.schemas[Head(agenda)] /\ Asked = Schema.ref
         /\ ToSet(agenda) = {Head(agenda)} \cup ToSet(NextSchema)
         /\ ToSet(Schema.subschemas \o NextSchema) = ToSet(Schema.subschemas) \cup ToSet(NextSchema)
<1>1. HandInv
  BY DEF RefInv
<1>2. doc \in Documents /\ walking /\ agenda \in Seq(DOMAIN doc.schemas)
  BY <1>1 DEF HandInv
<1>3. Head(agenda) \in DOMAIN doc.schemas
  BY <1>1, AgendaGoesBelow
<1>4. /\ Tail(agenda) \in Seq(DOMAIN doc.schemas) /\ Len(Tail(agenda)) = Len(agenda) - 1
      /\ Len(agenda) \in Nat \ {0} /\ Head(agenda) = agenda[1]
      /\ \A i \in 1..(Len(agenda) - 1) : Tail(agenda)[i] = agenda[i + 1]
  BY <1>2, EmptySeq, HeadTailProperties
<1>5. DOMAIN agenda = 1..Len(agenda) /\ DOMAIN Tail(agenda) = 1..(Len(agenda) - 1)
  BY <1>2, <1>4, LenProperties
<1>6. ToSet(agenda) = {Head(agenda)} \cup ToSet(Tail(agenda))
  <2>1. ASSUME NEW i \in 1..Len(agenda) PROVE agenda[i] \in {Head(agenda)} \cup ToSet(Tail(agenda))
    <3>1. CASE i = 1
      BY <1>4, <3>1
    <3>2. CASE i # 1
      <4>1. i - 1 \in 1..(Len(agenda) - 1) /\ (i - 1) + 1 = i
        BY <1>4, <3>2
      <4>2. Tail(agenda)[i - 1] = agenda[i]
        BY <1>4, <4>1
      <4>. QED BY <1>5, <4>1, <4>2 DEF ToSet
    <3>. QED BY <3>1, <3>2
  <2>2. ASSUME NEW i \in 1..(Len(agenda) - 1) PROVE Tail(agenda)[i] \in ToSet(agenda)
    <3>1. i + 1 \in 1..Len(agenda) /\ Tail(agenda)[i] = agenda[i + 1]
      BY <1>4
    <3>. QED BY <1>5, <3>1 DEF ToSet
  <2>3. Head(agenda) \in ToSet(agenda)
    BY <1>4, <1>5 DEF ToSet
  <2>. QED BY <1>5, <2>1, <2>2, <2>3 DEF ToSet
<1>7. Schema.subschemas \in Seq(DOMAIN doc.schemas)
  BY <1>2, <1>3, DocumentsAssumption DEF Schema
<1>8. ToSet(Schema.subschemas \o Tail(agenda)) = ToSet(Schema.subschemas) \cup ToSet(Tail(agenda))
  <2>1. PICK low, rest, D : low = Schema.subschemas /\ rest = Tail(agenda) /\ D = DOMAIN doc.schemas
    OBVIOUS
  <2>2. low \in Seq(D) /\ rest \in Seq(D)
    BY <1>4, <1>7, <2>1
  <2>3. ToSet(low \o rest) = ToSet(low) \cup ToSet(rest)
    BY <2>2, ToSetOfConcat
  <2>. QED BY <2>1, <2>3
<1>. QED BY <1>2, <1>3, <1>6, <1>8 DEF Schema, Asked, NextSchema

LEMMA LinkSteps ==
  ASSUME RefInv, ChainInv, [Next]_refVars
  PROVE  \/ resolved' = resolved
         \/ LinkComponent /\ LinksComponent(Head(agenda))
         \/ LinkValue /\ LinksValue(Head(agenda))
<1>1. CASE LinkComponent
  BY <1>1 DEF LinkComponent, LinksComponent, Schema
<1>2. CASE LinkValue
  <2>1. /\ HandInv /\ phase = "unwind" /\ walking /\ rc = "ok"
        /\ resolved' = IF IsObject(value) THEN [resolved EXCEPT ![Head(agenda)] = value]
                       ELSE resolved
    BY <1>2 DEF LinkValue, RefInv
  <2>2. agenda # <<>>
    BY <2>1 DEF HandInv
  <2>3. /\ Asked = doc.schemas[Head(agenda)].ref
        /\ Asked \in Refs /\ ~IsComponent(Asked) /\ Found(Asked, value)
    BY <2>1, <2>2, WalkHead DEF ChainInv, Answer
  <2>. QED BY <1>2, <2>1, <2>3 DEF LinksValue
<1>3. CASE ~LinkComponent /\ ~LinkValue
  <2>1. CASE Resolve
    BY <2>1, ResolveEndsOrFollows DEF Follow, walk
  <2>2. CASE ~Resolve
    BY <1>3, <2>2
       DEF Next, CallResolve, CallResolveAll, EnterReference, EnterSchema, WalkEnds, Unwind,
           ReturnToClient, WalkFails, ParseFails, DestroyCache, walk, refVars
  <2>. QED BY <2>1, <2>2
<1>. QED BY <1>1, <1>2, <1>3

\* A link stays right, and one that is made is right.
LEMMA FoundStays ==
  ASSUME OnlyAdds, NEW r, NEW v, Found(r, v)
  PROVE  Found(r, v)' /\ PointsAt(r, v)'
BY AnswerStays DEF Found

LEMMA LinkedStays ==
  ASSUME RefInv, ChainInv, LinkInv, [Next]_refVars, NEW s \in DOMAIN doc.schemas
  PROVE  Linked(s)' /\ (LinkedRight(s) => LinkedRight(s)')
<1>1. OnlyAdds /\ doc' = doc /\ scarce' = scarce
  BY StepsOnlyAdd DEF OnlyAdds
<1>2. DOMAIN resolved = DOMAIN doc.schemas /\ Linked(s) /\ doc \in Documents
  BY DEF LinkInv, RefInv, HandInv
<1>. DEFINE r == doc.schemas[s].ref
<1>3. r \in Refs \cup {None} /\ None \notin Refs
  BY <1>2, DocumentsAssumption, RefResolverAssumption
<1>4. r' = r /\ IsComponent(r)' = IsComponent(r) /\ Named(r)' = Named(r)
  BY <1>1, NamesUnchanged DEF IsComponent
<1>. HIDE DEF r
<1>5. CASE resolved'[s] = resolved[s]
  <2>1. CASE resolved[s] # None /\ r # None /\ ~IsComponent(r)
    <3>1. PICK q, v : q = r /\ v = resolved[s]
      OBVIOUS
    <3>2. Found(q, v)
      BY <1>2, <2>1, <3>1 DEF Linked, r
    <3>3. Found(q, v)' /\ PointsAt(q, v)'
      BY <1>1, <3>2, FoundStays
    <3>4. Found(r, resolved[s])' /\ PointsAt(r, resolved[s])'
      BY <1>4, <1>5, <3>1, <3>3
    <3>. QED BY <1>4, <1>5, <2>1, <3>4 DEF Linked, LinkedRight, r
  <2>2. CASE resolved[s] = None \/ r = None \/ IsComponent(r)
    BY <1>1, <1>2, <1>4, <1>5, <2>2 DEF Linked, LinkedRight, r
  <2>. QED BY <2>1, <2>2
<1>6. CASE LinkComponent /\ LinksComponent(Head(agenda)) /\ s = Head(agenda)
  <2>1. resolved'[s] = [component |-> doc.names[Uri[r].component]] /\ r # None /\ IsComponent(r)
    BY <1>2, <1>6 DEF LinksComponent, r
  <2>. QED BY <1>1, <1>4, <2>1 DEF Linked, LinkedRight, r
<1>7. CASE LinkValue /\ LinksValue(Head(agenda)) /\ s = Head(agenda)
  <2>1. resolved'[s] = value /\ r \in Refs /\ ~IsComponent(r) /\ Found(r, value)
    BY <1>2, <1>7 DEF LinksValue, r
  <2>2. PICK q, v : q = r /\ v = value
    OBVIOUS
  <2>3. Found(q, v)' /\ PointsAt(q, v)'
    BY <1>1, <2>1, <2>2, FoundStays
  <2>4. Found(r, resolved[s])' /\ PointsAt(r, resolved[s])'
    BY <1>4, <2>1, <2>2, <2>3
  <2>5. resolved'[s] # None /\ r # None
    BY <1>3, <2>1, <2>4 DEF Found
  <2>. QED BY <1>4, <2>1, <2>4, <2>5 DEF Linked, LinkedRight, r
<1>8. CASE (LinksComponent(Head(agenda)) \/ LinksValue(Head(agenda))) /\ s # Head(agenda)
  <2>1. resolved'[s] = resolved[s]
    BY <1>2, <1>8 DEF LinksComponent, LinksValue
  <2>. QED BY <1>5, <2>1
<1>. QED BY <1>5, <1>6, <1>7, <1>8, LinkSteps

\* The walk leaves a schema when it is linked right, to what is below it.
Enters ==
  \/ LinkComponent
  \/ EnterSchema
  \/ LinkValue
  \/ ParseFails

LEMMA LeavesLinked ==
  ASSUME RefInv, ChainInv, LinkInv, Enters, NEW s, s = Head(agenda)
  PROVE  /\ walking /\ agenda # <<>> /\ phase' = "walk" /\ UNCHANGED <<doc, results>>
         /\ s \in DOMAIN doc.schemas
         /\ LinkedRight(s)'
         /\ ToSet(agenda) \subseteq {s} \cup ToSet(agenda')
         /\ Below(s) \subseteq ToSet(agenda')
<1>. DEFINE r == doc.schemas[s].ref
<1>1. [Next]_refVars
  BY DEF Enters, Next
<1>2. OnlyAdds /\ doc' = doc /\ scarce' = scarce
  BY <1>1, StepsOnlyAdd DEF OnlyAdds
<1>3. agenda # <<>> /\ (phase = "walk" \/ (phase = "unwind" /\ walking)) /\ HandInv
  BY DEF Enters, LinkComponent, EnterSchema, LinkValue, ParseFails, RefInv, HandInv
<1>4. /\ walking /\ s \in DOMAIN doc.schemas /\ Schema = doc.schemas[s] /\ Asked = r
      /\ ToSet(agenda) = {s} \cup ToSet(NextSchema)
      /\ ToSet(Schema.subschemas \o NextSchema) = ToSet(Schema.subschemas) \cup ToSet(NextSchema)
      /\ doc \in Documents
  BY <1>3, WalkHead
<1>5. Linked(s) /\ DOMAIN resolved = DOMAIN doc.schemas
  BY <1>4 DEF LinkInv
<1>6. r \in Refs \cup {None} /\ None \notin Refs
  BY <1>4, DocumentsAssumption, RefResolverAssumption
<1>7. s = Head(agenda) /\ r = doc.schemas[s].ref /\ r' = r
  BY <1>2
<1>. HIDE DEF r
<1>8. phase' = "walk" /\ UNCHANGED <<doc, results>>
  BY <1>3 DEF Enters, LinkComponent, EnterSchema, LinkValue, ParseFails, input, client
<1>9. /\ \/ agenda' = NextSchema /\ Below(s) = {}
         \/ agenda' = Schema.subschemas \o NextSchema /\ Below(s) \subseteq ToSet(Schema.subschemas)
      /\ LinkedRight(s)'
  <2>1. Below(s) \subseteq ToSet(Schema.subschemas)
    BY <1>4 DEF Below
  <2>2. CASE LinkComponent
    <3>1. r # None /\ IsComponent(r) /\ agenda' = NextSchema /\ Below(s) = {}
      BY <2>2, <1>4, <1>7 DEF LinkComponent, Below
    <3>2. resolved'[s] = [component |-> doc.names[Uri[r].component]]
      BY <2>2, <1>4, <1>5, <1>7 DEF LinkComponent
    <3>. QED BY <1>2, <1>7, <3>1, <3>2 DEF LinkedRight, IsComponent, r
  <2>3. CASE EnterSchema
    <3>1. r = None /\ agenda' = Schema.subschemas \o NextSchema /\ resolved' = resolved
      BY <2>3, <1>4, <1>7 DEF EnterSchema
    <3>2. resolved[s] = None
      BY <1>5, <1>7, <3>1 DEF Linked
    <3>3. LinkedRight(s)'
      BY <1>2, <1>7, <3>1, <3>2 DEF LinkedRight, r
    <3>. QED BY <2>1, <3>1, <3>3
  <2>4. CASE LinkValue \/ ParseFails
    <3>1. /\ phase = "unwind" /\ rc = "ok" /\ agenda' = Schema.subschemas \o NextSchema
          /\ resolved' = resolved \/ resolved' = [resolved EXCEPT ![s] = value]
          /\ LinkValue /\ IsObject(value) => resolved' = [resolved EXCEPT ![s] = value]
          /\ ParseFails => scarce
      BY <2>4, <1>7 DEF LinkValue, ParseFails
    <3>2. r \in Refs /\ ~IsComponent(r) /\ Found(r, value)
      BY <1>4, <3>1 DEF ChainInv, Answer
    <3>3. LinkedRight(s)
          \/ (resolved[s] = None /\ LinkValue /\ IsObject(value) /\ ~scarce)
      <4>1. IsObject(value) <=> Named(r).object
        <5>1. PICK q, v : q = r /\ v = value
          OBVIOUS
        <5>. QED BY <3>2, <5>1, ValueIsNamed
      <4>2. resolved[s] # None => PointsAt(r, resolved[s])
        BY <1>5, <1>7, <3>2 DEF Linked, Found
      <4>. QED BY <1>6, <1>7, <2>4, <3>1, <3>2, <4>1, <4>2 DEF LinkedRight
    <3>4. CASE LinkedRight(s)
      <4>1. LinkedRight(s)'
        BY <1>1, <1>4, <3>4, LinkedStays
      <4>. QED BY <2>1, <3>1, <4>1
    <3>5. CASE LinkValue /\ IsObject(value)
      <4>1. resolved'[s] = value
        BY <1>4, <1>5, <3>1, <3>5
      <4>2. PICK q, v : q = r /\ v = value
        OBVIOUS
      <4>3. Found(q, v)' /\ PointsAt(q, v)'
        BY <1>2, <3>2, <4>2, FoundStays
      <4>4. Found(r, value) /\ value # None /\ r # None
        BY <3>2, <1>6 DEF Found
      <4>. QED BY <1>2, <1>7, <2>1, <3>1, <3>2, <4>1, <4>2, <4>3, <4>4 DEF LinkedRight, IsComponent, r
    <3>. QED BY <3>3, <3>4, <3>5
  <2>. QED BY <2>2, <2>3, <2>4 DEF Enters
<1>10. ToSet(agenda) \subseteq {s} \cup ToSet(agenda') /\ Below(s) \subseteq ToSet(agenda')
  BY <1>4, <1>9
<1>. QED BY <1>3, <1>4, <1>8, <1>9, <1>10

\* What the walk is done with grows by the schema it leaves.
CoverInv == walking => \E done \in SUBSET DOMAIN doc.schemas : Covers(done)

LEMMA CoverKept ==
  ASSUME RefInv, ChainInv, LinkInv, [Next]_refVars, walking, UNCHANGED agenda
  PROVE  CoverInv'
<1>1. doc' = doc
  BY StepsOnlyAdd DEF OnlyAdds
<1>2. PICK done \in SUBSET DOMAIN doc.schemas : Covers(done)
  BY DEF LinkInv
<1>3. \A s \in done : LinkedRight(s)'
  BY <1>2, LinkedStays DEF Covers
<1>4. Covers(done)'
  BY <1>1, <1>2, <1>3, WalkUnchanged DEF Covers
<1>. QED BY <1>1, <1>2, <1>4 DEF CoverInv

LEMMA CoverGrows ==
  ASSUME RefInv, ChainInv, LinkInv, Enters
  PROVE  CoverInv'
<1>1. PICK s : s = Head(agenda)
  OBVIOUS
<1>2. /\ walking /\ doc' = doc /\ s \in DOMAIN doc.schemas
      /\ LinkedRight(s)'
      /\ ToSet(agenda) \subseteq {s} \cup ToSet(agenda')
      /\ Below(s) \subseteq ToSet(agenda')
  BY <1>1, LeavesLinked
<1>3. [Next]_refVars
  BY DEF Enters, Next
<1>4. PICK done \in SUBSET DOMAIN doc.schemas : Covers(done)
  BY <1>2 DEF LinkInv
<1>5. \A t \in done : LinkedRight(t)'
  BY <1>3, <1>4, LinkedStays DEF Covers
<1>6. Covers(done \cup {s})'
  <2>1. \A t \in done \cup {s} : Below(t) \subseteq (done \cup {s}) \cup ToSet(agenda')
    BY <1>2, <1>4 DEF Covers
  <2>2. ToSet(Roots) \subseteq (done \cup {s}) \cup ToSet(agenda')
    BY <1>2, <1>4 DEF Covers
  <2>. QED BY <1>2, <1>5, <2>1, <2>2, WalkUnchanged DEF Covers
<1>. QED BY <1>2, <1>4, <1>6 DEF CoverInv

LEMMA LinksStay ==
  ASSUME RefInv, ChainInv, LinkInv, [Next]_refVars,
         NEW s \in Reached, LinkedRight(s)
  PROVE  LinkedRight(s)'
<1>1. doc \in Documents
  BY DEF RefInv, HandInv
<1>. QED BY <1>1, ReachedIsSchemas, LinkedStays

\* The end of the walk: what it is done with is all it reaches.
LEMMA WalkEndCovers ==
  ASSUME RefInv, LinkInv, WalkEnds
  PROVE  \A s \in Reached : LinkedRight(s)
<1>1. doc \in Documents /\ agenda = <<>> /\ walking
  BY DEF WalkEnds, RefInv, HandInv
<1>2. PICK done \in SUBSET DOMAIN doc.schemas : Covers(done)
  BY <1>1 DEF LinkInv
<1>3. ToSet(agenda) = {}
  BY <1>1 DEF ToSet
<1>4. ToSet(Roots) \subseteq done /\ \A s \in done : Below(s) \subseteq done
  BY <1>2, <1>3 DEF Covers
<1>5. Reached \subseteq done
  BY <1>1, <1>4, ReachedIsLeast
<1>. QED BY <1>2, <1>5 DEF Covers

LEMMA ReturnedLinks ==
  ASSUME RefInv, ChainInv, ResultInv, LinkInv, [Next]_refVars
  PROVE  LinksAreRight'
<1>1. Reached' = Reached
  BY StepsOnlyAdd, WalkUnchanged DEF OnlyAdds
<1>2. ASSUME results' = results PROVE LinksAreRight'
  <2>1. SUFFICES ASSUME NEW k \in DOMAIN results,
                        results[k].call = All /\ results[k].rc = "ok", NEW s \in Reached
                 PROVE  LinkedRight(s)'
    BY <1>1, <1>2 DEF LinksAreRight
  <2>. QED BY <2>1, LinksStay DEF LinkInv, LinksAreRight
<1>3. ASSUME NEW code, NEW v, Return(code, v),
             Head(calls) = All /\ code = "ok" => \A s \in Reached : LinkedRight(s)
      PROVE  LinksAreRight'
  <2>. DEFINE new == [call |-> Head(calls), rc |-> code, value |-> v]
              T == ToSet(results) \cup {new}
  <2>1. results \in Seq(T) /\ new \in T
    BY SeqMonotonic DEF ResultInv
  <2>2. results' = Append(results, new)
    BY <1>3 DEF Return
  <2>3. new.call = Head(calls) /\ new.rc = code
    OBVIOUS
  <2>. HIDE DEF new, T
  <2>4. /\ results' \in Seq(T) /\ Len(results') = Len(results) + 1 /\ Len(results) \in Nat
        /\ \A k \in 1..Len(results) : results'[k] = results[k]
        /\ results'[Len(results) + 1] = new
    BY <2>1, <2>2, AppendProperties, LenProperties
  <2>5. DOMAIN results' = 1..(Len(results) + 1) /\ DOMAIN results = 1..Len(results)
    BY <2>1, <2>4, LenProperties
  <2>6. SUFFICES ASSUME NEW k \in 1..(Len(results) + 1),
                        results'[k].call = All /\ results'[k].rc = "ok", NEW s \in Reached
                 PROVE  LinkedRight(s)'
    BY <1>1, <2>5 DEF LinksAreRight
  <2>7. CASE k = Len(results) + 1
    BY <1>3, <2>3, <2>4, <2>6, <2>7, LinksStay
  <2>8. CASE k \in 1..Len(results)
    BY <2>4, <2>5, <2>6, <2>8, LinksStay DEF LinkInv, LinksAreRight
  <2>. QED BY <2>4, <2>7, <2>8
<1>4. CASE WalkEnds
  BY <1>3, <1>4, WalkEndCovers DEF WalkEnds
<1>5. CASE WalkFails
  <2>1. PICK code : code = rc
    OBVIOUS
  <2>. QED BY <1>3, <1>5, <2>1 DEF WalkFails
<1>6. CASE ReturnToClient
  <2>1. Head(calls) # All /\ Return(rc, value)
    BY <1>6 DEF ReturnToClient, RefInv, HandInv
  <2>2. PICK code, v : code = rc /\ v = value
    OBVIOUS
  <2>. QED BY <1>3, <2>1, <2>2
<1>7. CASE ~(WalkEnds \/ WalkFails \/ ReturnToClient)
  <2>1. CASE Resolve
    BY <1>2, <2>1, ResolveEndsOrFollows DEF Follow, client
  <2>2. CASE ~Resolve
    BY <1>2, <1>7, <2>2
       DEF Next, CallResolve, CallResolveAll, LinkComponent, EnterReference, EnterSchema,
           Unwind, LinkValue, ParseFails, DestroyCache, client, refVars
  <2>. QED BY <2>1, <2>2
<1>. QED BY <1>4, <1>5, <1>6, <1>7

LEMMA LinkInductive ==
  ASSUME RefInv, ChainInv, ResultInv, LinkInv, [Next]_refVars
  PROVE  LinkInv'
<1>1. doc' = doc
  BY StepsOnlyAdd DEF OnlyAdds
<1>2. DOMAIN resolved' = DOMAIN doc'.schemas
  BY <1>1, LinkSteps DEF LinkInv, LinksComponent, LinksValue
<1>3. \A s \in DOMAIN doc.schemas : Linked(s)'
  BY LinkedStays
<1>4. CoverInv'
  <2>1. CASE Enters
    BY <2>1, CoverGrows
  <2>2. CASE CallResolveAll
    <3>1. agenda' = Roots /\ Roots' = Roots
      BY <1>1, <2>2, WalkUnchanged DEF CallResolveAll
    <3>2. Covers({})'
      BY <3>1 DEF Covers
    <3>. QED BY <3>2 DEF CoverInv
  <2>3. CASE ~walking'
    BY <2>3 DEF CoverInv
  <2>4. CASE walking /\ UNCHANGED agenda
    BY <2>4, CoverKept
  <2>5. Enters \/ CallResolveAll \/ ~walking' \/ (UNCHANGED <<walking, agenda>>)
    <3>1. CASE Resolve
      BY <3>1, ResolveEndsOrFollows DEF Follow, walk
    <3>2. CASE ~Resolve
      BY <3>2
         DEF Next, Enters, CallResolve, EnterReference, Unwind, WalkEnds, WalkFails,
             ReturnToClient, Return, DestroyCache, walk, refVars
    <3>. QED BY <3>1, <3>2
  <2>. QED BY <2>1, <2>2, <2>3, <2>4, <2>5
<1>. QED BY <1>1, <1>2, <1>3, <1>4, ReturnedLinks DEF LinkInv, CoverInv

-----------------------------------------------------------------------------
LEMMA AnswersInitially == Init => ChainInv /\ ResultInv /\ LinkInv
<1>. SUFFICES ASSUME Init PROVE ChainInv /\ ResultInv /\ LinkInv
  OBVIOUS
<1>1. Len(cache) = 0 /\ results = <<>> /\ phase = "idle" /\ walking = FALSE
      /\ resolved = [s \in DOMAIN doc.schemas |-> None]
  BY EmptySeq DEF Init
<1>2. ChainInv
  BY <1>1 DEF ChainInv
<1>3. results \in Seq(ToSet(results)) /\ DOMAIN results = {}
  BY <1>1, EmptySeq, LenProperties
<1>4. ResultInv
  BY <1>3 DEF ResultInv
<1>5. LinkInv
  BY <1>1, <1>3 DEF LinkInv, Linked, LinksAreRight
<1>. QED BY <1>2, <1>4, <1>5

\* What the results and the links rest on: the references being followed are the
\* chain of the one asked for, and the walk has linked all it is done with.
THEOREM ResolverAnswers == Spec => [](ChainInv /\ ResultInv /\ LinkInv)
<1>1. RefInv /\ ChainInv /\ ResultInv /\ LinkInv /\ [Next]_refVars
      => (ChainInv /\ ResultInv /\ LinkInv)'
  BY ChainInductive, ResultInductive, LinkInductive
<1>. QED BY <1>1, AnswersInitially, ResolverInvariant, PTL DEF Spec

\* oas_ref_resolve answers a chain of references only with the value its last one
\* names, which it reports when there is none, and returns its own -ELOOP only for
\* a chain that is circular or too long.
THEOREM ChainsEndWhereTheyLead == Spec => []ChainsResolved
<1>1. ResultInv => ChainsResolved
  BY DEF ResultInv, ChainsResolved, Answer, Found
<1>. QED BY <1>1, ResolverAnswers, PTL

\* When oas_ref_resolve_all returns 0, each schema it reaches is linked to what
\* its reference names, however many schemas, chains and documents there are.
THEOREM LinksStayRight == Spec => []LinksAreRight
BY ResolverAnswers, PTL DEF LinkInv
=============================================================================
