------------------------------- MODULE Adapter --------------------------------
(***************************************************************************)
(* oas_adapter_create, oas_adapter_from_doc and oas_adapter_destroy of     *)
(* src/adapter/oas_adapter.c around oas_doc_compile: who owns the arena,   *)
(* the parsed text, the cached specification and the record of an adapter, *)
(* and in which order they go.                                             *)
(*                                                                         *)
(* The strings of a compiled document point into the parsed text and into  *)
(* the arena, so both have to outlive it.                                  *)
(***************************************************************************)
EXTENDS DocCompiler

VARIABLES
  route,   \* "create", "from_doc", or "direct" for a caller of oas_doc_compile
  serving, \* config->serve_spec
  life,    \* where the adapter's functions are
  has      \* [resource |-> what the adapter has of it]

adapterVars == <<route, serving, life, has>>

Resources == {"record", "arena", "text", "spec"}
Holdings  == {"none", "held", "lent", "released", "misfreed"}

owns_arena == route = "create"

Take(r)    == has' = [has EXCEPT ![r] = "held"]
Release(r) == has' = [has EXCEPT ![r] = IF @ = "held" THEN "released" ELSE "misfreed"]

\* The compiler's configuration is made by adapter_finish: a backend of the
\* document's own, null when memory is exhausted.
AdapterInit ==
  /\ Init
  /\ route \in {"direct", "create", "from_doc"}
  /\ route # "direct" => ~cc.borrow /\ (cc.regex \/ scarce)
  /\ serving \in (IF route = "direct" THEN {FALSE} ELSE BOOLEAN)
  /\ life = IF route = "direct" THEN "none" ELSE "record"
  /\ has = [r \in Resources |->
              IF route = "from_doc" /\ r \in {"arena", "text"} THEN "lent" ELSE "none"]

-----------------------------------------------------------------------------
(* Creation.                                                               *)

RecordFails ==
  /\ life = "record"
  /\ scarce
  /\ life' = "gone"
  /\ UNCHANGED <<docVars, route, serving, has>>

TakeRecord ==
  /\ life = "record"
  /\ Take("record")
  /\ life' = IF route = "create" THEN "arena" ELSE "compile"
  /\ UNCHANGED <<docVars, route, serving>>

ArenaFails ==
  /\ life = "arena"
  /\ scarce
  /\ Release("record")
  /\ life' = "gone"
  /\ UNCHANGED <<docVars, route, serving>>

TakeArena ==
  /\ life = "arena"
  /\ Take("arena")
  /\ life' = "parse"
  /\ UNCHANGED <<docVars, route, serving>>

\* The text is not JSON, or no description.
ParseFails ==
  /\ life = "parse"
  /\ life' = "destroy"
  /\ UNCHANGED <<docVars, route, serving, has>>

Parse ==
  /\ life = "parse"
  /\ Take("text")
  /\ life' = "compile"
  /\ UNCHANGED <<docVars, route, serving>>

\* oas_doc_compile, and oas_compiled_doc_free once the adapter is destroyed.
CompileInside ==
  /\ life = "compile" \/ (life = "destroy" /\ phase = "release")
  /\ Compiling
  /\ UNCHANGED adapterVars

CompileFailed ==
  /\ life = "compile"
  /\ phase = "over"
  /\ life' = "destroy"
  /\ UNCHANGED <<docVars, route, serving, has>>

\* The text to serve is cached; that there is none is not noticed.
Finished ==
  /\ life = "compile"
  /\ phase = "ready"
  /\ \/ serving /\ Take("spec")
     \/ (~serving \/ scarce) /\ has' = has
  /\ life' = "ready"
  /\ UNCHANGED <<docVars, route, serving>>

-----------------------------------------------------------------------------
(* oas_adapter_destroy, by the caller or after a failure.                  *)

Destroy ==
  /\ life = "ready"
  /\ Free
  /\ life' = "destroy"
  /\ UNCHANGED <<route, serving, has>>

CompiledGone ==
  /\ life = "destroy"
  /\ phase \in {"begin", "over"}
  /\ life' = "free spec"
  /\ UNCHANGED <<docVars, route, serving, has>>

\* A null pointer is freed without effect.
ReleaseIfTaken(r) == IF has[r] = "none" THEN has' = has ELSE Release(r)

\* Mutant of the next: the arena and the text of a caller are released too.
ReleaseSpecThenText ==
  /\ life = "free spec"
  /\ ReleaseIfTaken("spec")
  /\ life' = "free text"
  /\ UNCHANGED <<docVars, route, serving>>

ReleaseSpec ==
  /\ life = "free spec"
  /\ ReleaseIfTaken("spec")
  /\ life' = IF owns_arena THEN "free text" ELSE "free record"
  /\ UNCHANGED <<docVars, route, serving>>

ReleaseText ==
  /\ life = "free text"
  /\ ReleaseIfTaken("text")
  /\ life' = "free arena"
  /\ UNCHANGED <<docVars, route, serving>>

ReleaseArena ==
  /\ life = "free arena"
  /\ Release("arena")
  /\ life' = "free record"
  /\ UNCHANGED <<docVars, route, serving>>

ReleaseRecord ==
  /\ life = "free record"
  /\ Release("record")
  /\ life' = "gone"
  /\ UNCHANGED <<docVars, route, serving>>

\* Without an adapter: a caller of the compiler.
CompileDirectly ==
  /\ route = "direct"
  /\ Next
  /\ UNCHANGED adapterVars

Working ==
  \/ RecordFails \/ TakeRecord \/ ArenaFails \/ TakeArena \/ ParseFails \/ Parse
  \/ CompileInside \/ CompileFailed \/ Finished
  \/ CompiledGone \/ ReleaseSpec \/ ReleaseText \/ ReleaseArena \/ ReleaseRecord

AdapterNext == Working \/ Destroy \/ CompileDirectly

AdapterSpec == AdapterInit /\ [][AdapterNext]_<<docVars, adapterVars>>

-----------------------------------------------------------------------------
(* Properties.                                                             *)

\* What an adapter has taken it releases once, whichever step of its creation
\* fails; what it was lent it leaves alone; and the text and the arena outlive
\* the compiled document, whose strings point into them (adapter_finish,
\* oas_adapter_destroy: "Free yyjson_doc before arena").
AdapterReleasesAll ==
  /\ \A r \in Resources : has[r] # "misfreed"
  /\ life = "gone" => \A r \in Resources : has[r] # "held"
  /\ route = "from_doc" => \A r \in {"arena", "text"} : has[r] = "lent"
  /\ phase \notin {"begin", "over"} /\ route # "direct" =>
       \A r \in {"arena", "text"} : has[r] \in {"held", "lent"}
  /\ has["arena"] = "released" => has["text"] \in {"none", "released"}
=============================================================================
