-------------------------------- MODULE Arena --------------------------------
(***************************************************************************)
(* The arena of oas_alloc.c: a list of blocks from malloc, of which one is *)
(* current, and requests that are cut from the current block or from a new *)
(* one.  Addresses and sizes are natural numbers below Word, and sums wrap *)
(* as uintptr_t and size_t do.                                             *)
(***************************************************************************)
EXTENDS Integers, Sequences

CONSTANTS
  Word,        \* 2^64
  BlockSize,   \* oas_arena_create's block_size
  Sizes,       \* the sizes callers ask for
  Aligns,      \* the alignments they ask for, powers of two
  Heap,        \* the addresses malloc may give a block's data
  HeapEnd,     \* no block of malloc reaches beyond it
  MaxBlocks    \* bound: blocks of the arena at one time

ASSUME ArenaAssumption ==
  /\ Word \in Nat /\ BlockSize \in Nat \ {0} /\ MaxBlocks \in Nat
  /\ Sizes \subseteq Nat \ {0} /\ Aligns \subseteq Nat \ {0}
  /\ Heap \subseteq Nat /\ HeapEnd \in Nat \ {0}

\* What oas_arena_create and oas_arena_alloc need of their callers, since they
\* check none of their sums: between the end of the heap and the end of the
\* address space there is room for what is asked.  A size of anything that can
\* be held in memory keeps to it; a size computed by a product that has
\* wrapped, or taken as it comes from outside, need not.
RequestsFit ==
  /\ HeapEnd + BlockSize <= Word
  /\ \A s \in Sizes, n \in Aligns : HeapEnd + s + n <= Word

VARIABLES
  heap,     \* what malloc has given and free has not taken back
  blocks,   \* the blocks in the order of the list from head
  current,  \* the index of the current block, 0 without an arena
  live      \* the regions handed out since the last reset, in order (history)

arenaVars == <<heap, blocks, current, live>>

Block(base, capacity, used) ==
  [base |-> base, capacity |-> capacity, used |-> used]
Region(at, size, align) == [at |-> at, size |-> size, align |-> align]
RegionSet == [at : Nat, size : Nat \ {0}, align : Nat \ {0}]
Chunk(b) == [base |-> b.base, capacity |-> b.capacity]

Wrap(n) == n % Word

\* align_up: (offset + align - 1) & ~(align - 1), for align a power of two.
align_up(offset, align) ==
  LET top == Wrap(offset + align - 1) IN top - (top % align)

\* The offset in a block at which a request starts, and whether it fits.
AlignedOffset(base, used, align) == align_up(base + used, align) - base

\* Mutant of the next: the padding is left out of the test.
FitsUnpadded(b, size, align) == b.used + size <= b.capacity

Fits(b, size, align) ==
  Wrap(AlignedOffset(b.base, b.used, align) + size) <= b.capacity

NewCapacity(size, align) ==
  IF Wrap(size + align) > BlockSize THEN Wrap(size + align) ELSE BlockSize

\* malloc gives memory below HeapEnd that no other allocation covers.
Apart(a, n, b, m) == a + n <= b \/ b + m <= a
Free(base, capacity) ==
  /\ base + capacity <= HeapEnd
  /\ \A c \in heap : Apart(base, capacity, c.base, c.capacity)

-----------------------------------------------------------------------------
ArenaInit == heap = {} /\ blocks = <<>> /\ current = 0 /\ live = <<>>

\* oas_arena_create: the arena and its first block, or neither.
Create(base) ==
  /\ current = 0 /\ Free(base, BlockSize)
  /\ blocks' = <<Block(base, BlockSize, 0)>> /\ current' = 1
  /\ heap' = heap \cup {[base |-> base, capacity |-> BlockSize]}
  /\ live' = <<>>

\* The request fits in the current block.  r is what the caller gets.
AllocHere(size, align, r) ==
  LET b == blocks[current]
      o == AlignedOffset(b.base, b.used, align)
  IN  /\ current # 0 /\ Fits(b, size, align)
      /\ r = Region(b.base + o, size, align)
      /\ blocks' = [blocks EXCEPT ![current] = Block(b.base, b.capacity, o + size)]
      /\ live' = Append(live, r)
      /\ UNCHANGED <<heap, current>>

\* Mutant of the next: the new block becomes the last one of the list.
AllocNewBlockAtTheEnd(size, align, base, r) ==
  LET capacity == NewCapacity(size, align)
      o == AlignedOffset(base, 0, align)
  IN  /\ current # 0 /\ ~Fits(blocks[current], size, align)
      /\ Len(blocks) < MaxBlocks /\ Free(base, capacity)
      /\ r = Region(base + o, size, align)
      /\ blocks' = Append(SubSeq(blocks, 1, current), Block(base, capacity, o + size))
      /\ heap' = heap \cup {[base |-> base, capacity |-> capacity]}
      /\ live' = Append(live, r)
      /\ current' = current + 1

\* It does not: a new block is linked behind the current one, before the
\* blocks a reset has kept, and becomes the current one.
AllocNewBlock(size, align, base, r) ==
  LET capacity == NewCapacity(size, align)
      o == AlignedOffset(base, 0, align)
  IN  /\ current # 0 /\ ~Fits(blocks[current], size, align)
      /\ Len(blocks) < MaxBlocks /\ Free(base, capacity)
      /\ r = Region(base + o, size, align)
      /\ blocks' = Append(SubSeq(blocks, 1, current), Block(base, capacity, o + size))
                   \o SubSeq(blocks, current + 1, Len(blocks))
      /\ heap' = heap \cup {[base |-> base, capacity |-> capacity]}
      /\ live' = Append(live, r)
      /\ current' = current + 1

\* The new block cannot be made: nullptr, and nothing has changed.
AllocFails(size, align) ==
  current # 0 /\ ~Fits(blocks[current], size, align) /\ UNCHANGED arenaVars

\* A successful oas_arena_alloc that returns region r.
Alloc(size, align, r) ==
  AllocHere(size, align, r) \/ \E base \in Heap : AllocNewBlock(size, align, base, r)

\* The regions a call may return.
Results(size, align) ==
  LET at(base, used) == Region(base + AlignedOffset(base, used, align), size, align)
  IN  IF current = 0 THEN {}
      ELSE {at(blocks[current].base, blocks[current].used)}
           \cup {at(base, 0) : base \in Heap}

\* oas_arena_reset: every block is empty again, the first one current.
Reset ==
  /\ current # 0
  /\ blocks' = [i \in DOMAIN blocks |-> Block(blocks[i].base, blocks[i].capacity, 0)]
  /\ current' = 1 /\ live' = <<>> /\ UNCHANGED heap

\* oas_arena_destroy frees the blocks it reaches from the head.
Destroy ==
  /\ current # 0
  /\ heap' = heap \ {Chunk(blocks[i]) : i \in DOMAIN blocks}
  /\ blocks' = <<>> /\ current' = 0 /\ live' = <<>>

ArenaNext ==
  \/ \E base \in Heap : Create(base)
  \/ \E s \in Sizes, n \in Aligns :
       (\E r \in Results(s, n) : Alloc(s, n, r)) \/ AllocFails(s, n)
  \/ Reset \/ Destroy

ArenaSpec == ArenaInit /\ [][ArenaNext]_arenaVars

-----------------------------------------------------------------------------
\* No two regions the arena has handed out since the last reset overlap, each
\* is aligned as its caller asked, and each lies in memory malloc gave: a
\* write through one pointer never changes what another one points to.  It is
\* claimed of callers whose requests fit (RequestsFit).
RegionsApart ==
  /\ \A i, j \in DOMAIN live : i # j =>
       Apart(live[i].at, live[i].size, live[j].at, live[j].size)
  /\ \A i \in DOMAIN live : live[i].at % live[i].align = 0
  /\ \A i \in DOMAIN live : \E c \in heap :
       c.base <= live[i].at /\ live[i].at + live[i].size <= c.base + c.capacity

\* Every block malloc gave is in the list, also those a reset has kept and
\* new ones were linked in front of: destroy frees them all.
NothingLeaks == heap = {Chunk(blocks[i]) : i \in DOMAIN blocks}

-----------------------------------------------------------------------------
\* The inductive invariant: the blocks do not overlap, those behind the
\* current one are empty, each region is in the used part of a block, and,
\* what no step changes, the requests fit.
BlocksOK ==
  /\ blocks \in Seq([base : Heap, capacity : Nat, used : Nat])
  /\ current \in 0..Len(blocks) /\ (current = 0 => blocks = <<>>)
  /\ \A i \in DOMAIN blocks :
       /\ blocks[i].used <= blocks[i].capacity
       /\ blocks[i].base + blocks[i].capacity <= HeapEnd

BlocksApart ==
  \A i, j \in DOMAIN blocks : i # j =>
    Apart(blocks[i].base, blocks[i].capacity, blocks[j].base, blocks[j].capacity)

EmptyBehind == \A i \in DOMAIN blocks : i > current => blocks[i].used = 0

InBlock(r, b) == b.base <= r.at /\ r.at + r.size <= b.base + b.used

LiveInside ==
  /\ live \in Seq(RegionSet)
  /\ \A k \in DOMAIN live : \E i \in DOMAIN blocks : InBlock(live[k], blocks[i])

ArenaInv ==
  /\ RequestsFit
  /\ BlocksOK /\ BlocksApart /\ EmptyBehind /\ LiveInside
  /\ NothingLeaks /\ RegionsApart
=============================================================================
