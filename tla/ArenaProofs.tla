----------------------------- MODULE ArenaProofs -----------------------------
(***************************************************************************)
(* For every size of word, block and request, and every address malloc may *)
(* choose, as long as a request fits between the end of the heap and that  *)
(* of the address space (RequestsFit): the regions an arena hands out      *)
(* never overlap and its list reaches every block.                         *)
(*                                                                         *)
(* The argument is the invariant ArenaInv: a region lies in the used part  *)
(* of a block, blocks do not overlap, and a new region begins behind the   *)
(* used part.  The blocks behind the current one are empty, so what is     *)
(* linked in front of them takes nothing from them.                        *)
(*                                                                         *)
(* The error list and the intern pool take each of their steps through the *)
(* arena, so all this holds for them; ClientInv adds what they keep in it. *)
(***************************************************************************)
EXTENDS ArenaClients, SequenceTheorems, Induction, TLAPS

BlockSet  == [base : Heap, capacity : Nat, used : Nat]

LEMMA WrapSmall == ASSUME NEW n \in Nat, n < Word PROVE Wrap(n) = n
  BY ArenaAssumption, SMT DEF Wrap

\* align_up moves to a multiple, not back, and by less than the alignment.
LEMMA AlignUp ==
  ASSUME NEW x \in Nat, NEW n \in Nat \ {0}, x + n <= Word
  PROVE  /\ align_up(x, n) \in Nat /\ x <= align_up(x, n)
         /\ align_up(x, n) < x + n
         /\ align_up(x, n) % n = 0
<1> DEFINE top == x + n - 1
<1>0. top \in Nat /\ top < Word
  BY ArenaAssumption
<1>1. top \in Nat /\ Wrap(top) = top
  BY <1>0, WrapSmall
<1>2. top % n \in 0..(n - 1)
  BY <1>1, SMT
<1>3. align_up(x, n) = top - (top % n)
  BY <1>1 DEF align_up
<1>4. (top - (top % n)) % n = 0
  BY <1>1, SMT
<1> QED BY <1>1, <1>2, <1>3, <1>4

\* The offset of a request in a block whose addresses do not wrap.
LEMMA Offset ==
  ASSUME NEW base \in Nat, NEW used \in Nat, NEW n \in Nat \ {0},
         base + used + n <= Word
  PROVE  /\ AlignedOffset(base, used, n) \in Nat
         /\ used <= AlignedOffset(base, used, n)
         /\ AlignedOffset(base, used, n) < used + n
         /\ (base + AlignedOffset(base, used, n)) % n = 0
<1> DEFINE x == base + used
<1>1. x \in Nat /\ x + n <= Word OBVIOUS
<1>2. /\ align_up(x, n) \in Nat /\ x <= align_up(x, n)
      /\ align_up(x, n) < x + n /\ align_up(x, n) % n = 0
  BY <1>1, AlignUp
<1>3. AlignedOffset(base, used, n) = align_up(x, n) - base
  BY DEF AlignedOffset
<1>4. base + AlignedOffset(base, used, n) = align_up(x, n)
  BY <1>2, <1>3
<1> QED BY <1>2, <1>3, <1>4

\* What a request that fits leaves between the heap and the end of a word.
LEMMA Fit ==
  ASSUME RequestsFit, NEW s \in Sizes, NEW n \in Aligns
  PROVE  /\ s \in Nat \ {0} /\ n \in Nat \ {0} /\ HeapEnd \in Nat \ {0}
         /\ Word \in Nat /\ BlockSize \in Nat \ {0}
         /\ HeapEnd + s + n <= Word /\ s + n < Word
<1>1. /\ s \in Nat \ {0} /\ n \in Nat \ {0} /\ HeapEnd \in Nat \ {0}
      /\ Word \in Nat /\ BlockSize \in Nat \ {0}
  BY ArenaAssumption
<1>2. HeapEnd + s + n <= Word
  BY DEF RequestsFit
<1> QED BY <1>1, <1>2

\* No step changes whether requests fit.
LEMMA StillFit == ASSUME RequestsFit PROVE RequestsFit'
  BY DEF RequestsFit

\* The capacity of a new block holds the request at any alignment.
LEMMA Capacity ==
  ASSUME RequestsFit, NEW s \in Sizes, NEW n \in Aligns
  PROVE  NewCapacity(s, n) \in Nat /\ s + n <= NewCapacity(s, n)
<1>1. s \in Nat /\ n \in Nat /\ BlockSize \in Nat /\ s + n < Word
  BY Fit
<1>2. Wrap(s + n) = s + n
  BY <1>1, WrapSmall
<1> QED BY <1>1, <1>2 DEF NewCapacity

\* The block a request fits in has room for it behind its used part.
LEMMA RoomHere ==
  ASSUME RequestsFit,
         NEW b \in BlockSet, b.used <= b.capacity, b.base + b.capacity <= HeapEnd,
         NEW s \in Sizes, NEW n \in Aligns, Fits(b, s, n),
         NEW o, o = AlignedOffset(b.base, b.used, n)
  PROVE  o \in Nat /\ b.used <= o /\ o + s <= b.capacity /\ (b.base + o) % n = 0
<1>1. /\ s \in Nat \ {0} /\ n \in Nat \ {0} /\ HeapEnd \in Nat /\ Word \in Nat
      /\ HeapEnd + s + n <= Word
  BY Fit
<1>2. b.base \in Nat /\ b.used \in Nat /\ b.capacity \in Nat
  BY ArenaAssumption DEF BlockSet
<1>3. b.base + b.used + n <= Word /\ b.used + n + s <= Word
  BY <1>1, <1>2
<1>4. o \in Nat /\ b.used <= o /\ o < b.used + n /\ (b.base + o) % n = 0
  BY <1>1, <1>2, <1>3, Offset
<1>5. o + s \in Nat /\ o + s < Word
  BY <1>1, <1>2, <1>3, <1>4
<1>6. Wrap(o + s) = o + s
  BY <1>5, WrapSmall
<1> QED BY <1>4, <1>6 DEF Fits

\* So has a new block.
LEMMA RoomThere ==
  ASSUME RequestsFit,
         NEW base \in Heap, NEW s \in Sizes, NEW n \in Aligns,
         base + NewCapacity(s, n) <= HeapEnd,
         NEW o, o = AlignedOffset(base, 0, n)
  PROVE  o \in Nat /\ o + s <= NewCapacity(s, n) /\ (base + o) % n = 0
<1>1. /\ s \in Nat \ {0} /\ n \in Nat \ {0} /\ HeapEnd \in Nat /\ Word \in Nat
      /\ HeapEnd + s + n <= Word
  BY Fit
<1>2. base \in Nat
  BY ArenaAssumption
<1>3. NewCapacity(s, n) \in Nat /\ s + n <= NewCapacity(s, n)
  BY Capacity
<1>4. base + 0 + n <= Word
  BY <1>1, <1>2, <1>3
<1>5. o \in Nat /\ o < 0 + n /\ (base + o) % n = 0
  BY <1>1, <1>2, <1>4, Offset
<1> QED BY <1>1, <1>3, <1>5

-----------------------------------------------------------------------------
\* The regions of a state do not overlap when those before do not and the new
\* one lies behind everything of its block.
LEMMA OneMore ==
  ASSUME BlocksOK, BlocksApart, LiveInside, RegionsApart, NothingLeaks,
         NEW r \in RegionSet, live' = Append(live, r),
         heap \subseteq heap', r.at % r.align = 0,
         \E c \in heap' : c.base <= r.at /\ r.at + r.size <= c.base + c.capacity,
         \A k \in DOMAIN live : Apart(live[k].at, live[k].size, r.at, r.size)
  PROVE  RegionsApart'
<1> DEFINE n == Len(live)
<1>1. live \in Seq(RegionSet)
  BY DEF LiveInside, RegionSet
<1>2. /\ n \in Nat /\ DOMAIN live = 1..n /\ DOMAIN live' = 1..(n + 1)
      /\ \A k \in 1..n : live'[k] = live[k]
      /\ live'[n + 1] = r
  BY <1>1, AppendProperties, LenProperties
<1>3. \A i, j \in DOMAIN live' : i # j =>
        Apart(live'[i].at, live'[i].size, live'[j].at, live'[j].size)
  <2> SUFFICES ASSUME NEW i \in 1..(n + 1), NEW j \in 1..(n + 1), i # j
               PROVE  Apart(live'[i].at, live'[i].size, live'[j].at, live'[j].size)
    BY <1>2
  <2>1. CASE i \in 1..n /\ j \in 1..n
    BY <1>2, <2>1 DEF RegionsApart
  <2>2. CASE i \in 1..n /\ j = n + 1
    BY <1>2, <2>2
  <2>3. CASE i = n + 1 /\ j \in 1..n
    BY <1>2, <2>3 DEF Apart
  <2> QED BY <1>2, <2>1, <2>2, <2>3
<1>4. \A k \in DOMAIN live' : live'[k].at % live'[k].align = 0
  <2> SUFFICES ASSUME NEW k \in 1..(n + 1)
               PROVE  live'[k].at % live'[k].align = 0
    BY <1>2
  <2>1. CASE k \in 1..n BY <1>2, <2>1 DEF RegionsApart
  <2>2. CASE k = n + 1 BY <1>2, <2>2
  <2> QED BY <1>2, <2>1, <2>2
<1>5. \A k \in DOMAIN live' : \E c \in heap' :
        c.base <= live'[k].at /\ live'[k].at + live'[k].size <= c.base + c.capacity
  <2> SUFFICES ASSUME NEW k \in 1..(n + 1)
               PROVE  \E c \in heap' :
                        /\ c.base <= live'[k].at
                        /\ live'[k].at + live'[k].size <= c.base + c.capacity
    BY <1>2
  <2>1. CASE k \in 1..n BY <1>2, <2>1 DEF RegionsApart
  <2>2. CASE k = n + 1 BY <1>2, <2>2
  <2> QED BY <1>2, <2>1, <2>2
<1> QED BY <1>3, <1>4, <1>5 DEF RegionsApart

\* What a block in the list is known to be.
LEMMA BlockFacts ==
  ASSUME BlocksOK, NEW i \in DOMAIN blocks
  PROVE  /\ blocks[i] \in BlockSet /\ blocks[i].used <= blocks[i].capacity
         /\ blocks[i].base + blocks[i].capacity <= HeapEnd
         /\ blocks[i].base \in Nat /\ blocks[i].capacity \in Nat
         /\ blocks[i].used \in Nat
<1>1. blocks \in Seq(BlockSet)
  BY DEF BlocksOK, BlockSet
<1>2. blocks[i] \in BlockSet
  BY <1>1, ElementOfSeq, LenProperties
<1> QED BY <1>2, ArenaAssumption DEF BlocksOK, BlockSet

\* Parts of two blocks that do not overlap do not overlap.
LEMMA PartsApart ==
  ASSUME NEW p \in Nat, NEW q \in Nat, NEW e \in Nat, NEW f \in Nat,
         NEW x \in Nat, NEW m \in Nat, NEW o \in Nat, NEW s \in Nat, NEW u \in Nat,
         Apart(p, q, e, f), p <= x, x + m <= p + u, u <= q, o + s <= f
  PROVE  Apart(x, m, e + o, s)
  BY DEF Apart

\* A request cut from the current block.
LEMMA AllocHereStep ==
  ASSUME ArenaInv, NEW s \in Sizes, NEW n \in Aligns, NEW r, AllocHere(s, n, r)
  PROVE  ArenaInv'
<1> DEFINE b == blocks[current]
           o == AlignedOffset(b.base, b.used, n)
           c == Block(b.base, b.capacity, o + s)
<1>1. /\ BlocksOK /\ BlocksApart /\ EmptyBehind /\ LiveInside
      /\ NothingLeaks /\ RegionsApart /\ RequestsFit
  BY DEF ArenaInv
<1>2. /\ current # 0 /\ Fits(b, s, n) /\ r = Region(b.base + o, s, n)
      /\ blocks' = [blocks EXCEPT ![current] = c]
      /\ live' = Append(live, r) /\ heap' = heap /\ current' = current
  BY DEF AllocHere
<1>3. blocks \in Seq(BlockSet) /\ live \in Seq(RegionSet)
  BY <1>1 DEF BlocksOK, LiveInside, BlockSet, RegionSet
<1>4. current \in DOMAIN blocks /\ DOMAIN blocks = 1..Len(blocks) /\ Len(blocks) \in Nat
  BY <1>1, <1>2, <1>3, LenProperties DEF BlocksOK
<1>5. /\ b \in BlockSet /\ b.used <= b.capacity
      /\ b.base + b.capacity <= HeapEnd
      /\ b.base \in Nat /\ b.capacity \in Nat /\ b.used \in Nat
  BY <1>1, <1>4, BlockFacts
<1>6. o \in Nat /\ b.used <= o /\ o + s <= b.capacity /\ (b.base + o) % n = 0
  BY <1>1, <1>2, <1>5, RoomHere
<1>b. b = blocks[current]
  OBVIOUS
<1> HIDE DEF o
<1>7. s \in Nat \ {0} /\ n \in Nat \ {0}
  BY ArenaAssumption
<1>8. /\ r \in RegionSet /\ r.at = b.base + o /\ r.size = s /\ r.align = n
      /\ c \in BlockSet /\ c.base = b.base /\ c.capacity = b.capacity
      /\ c.used = o + s
  BY <1>2, <1>5, <1>6, <1>7 DEF Region, Block, RegionSet, BlockSet
<1>9. /\ blocks' \in Seq(BlockSet) /\ Len(blocks') = Len(blocks)
      /\ DOMAIN blocks' = DOMAIN blocks
      /\ blocks'[current] = c
      /\ \A i \in DOMAIN blocks : i # current => blocks'[i] = blocks[i]
  <2> HIDE DEF c
  <2> QED BY <1>2, <1>3, <1>4, <1>8, ExceptSeq
<1> HIDE DEF c, b
<1>10. \A i \in DOMAIN blocks :
         blocks'[i].base = blocks[i].base /\ blocks'[i].capacity = blocks[i].capacity
  BY <1>b, <1>8, <1>9
<1>n. /\ b.base \in Nat /\ b.capacity \in Nat /\ b.used \in Nat /\ o \in Nat
      /\ s \in Nat /\ b.used <= o /\ o + s <= b.capacity
  BY <1>5, <1>6, <1>7
<1>11. BlocksOK'
  <2>1. blocks' \in Seq([base : Heap, capacity : Nat, used : Nat])
    BY <1>9 DEF BlockSet
  <2>2. current' \in 0..Len(blocks') /\ (current' = 0 => blocks' = <<>>)
    BY <1>1, <1>2, <1>9 DEF BlocksOK
  <2>3. \A i \in DOMAIN blocks' :
          /\ blocks'[i].used <= blocks'[i].capacity
          /\ blocks'[i].base + blocks'[i].capacity <= HeapEnd
    <3> SUFFICES ASSUME NEW i \in DOMAIN blocks
                 PROVE  /\ blocks'[i].used <= blocks'[i].capacity
                        /\ blocks'[i].base + blocks'[i].capacity <= HeapEnd
      BY <1>9
    <3>1. CASE i = current
      BY <1>b, <1>5, <1>6, <1>8, <1>9, <3>1
    <3>2. CASE i # current
      BY <1>1, <1>9, <3>2 DEF BlocksOK
    <3> QED BY <3>1, <3>2
  <2> QED BY <2>1, <2>2, <2>3 DEF BlocksOK
<1>12. BlocksApart'
  BY <1>1, <1>9, <1>10 DEF BlocksApart
<1>13. EmptyBehind'
  BY <1>1, <1>2, <1>9 DEF EmptyBehind
<1>14. NothingLeaks'
  BY <1>1, <1>2, <1>9, <1>10 DEF NothingLeaks, Chunk
<1>15. Len(live) \in Nat /\ DOMAIN live = 1..Len(live)
       /\ live' \in Seq(RegionSet) /\ DOMAIN live' = 1..(Len(live) + 1)
       /\ live'[Len(live) + 1] = r
       /\ \A k \in 1..Len(live) : live'[k] = live[k] /\ live[k] \in RegionSet
  BY <1>2, <1>3, <1>8, AppendProperties, LenProperties, ElementOfSeq
<1>16. LiveInside'
  <2>1. ASSUME NEW k \in 1..(Len(live) + 1)
        PROVE  \E i \in DOMAIN blocks' : InBlock(live'[k], blocks'[i])
    <3>1. CASE k = Len(live) + 1
      <4>1. b.base <= b.base + o /\ (b.base + o) + s <= b.base + (o + s)
        <5>1. \A x, y, z \in Nat : x <= x + y /\ (x + y) + z <= x + (y + z)
          OBVIOUS
        <5>. QED BY <1>n, <5>1
      <4>2. InBlock(r, c)
        BY <1>8, <4>1 DEF InBlock
      <4> QED BY <1>4, <1>9, <1>15, <3>1, <4>2
    <3>2. CASE k \in 1..Len(live)
      <4>1. PICK i \in DOMAIN blocks : InBlock(live[k], blocks[i])
        BY <1>1, <1>15, <3>2 DEF LiveInside
      <4>2. live[k].at \in Nat /\ live[k].size \in Nat
        BY <1>15, <3>2 DEF RegionSet
      <4>3. CASE i = current
        <5>1. b.base <= live[k].at /\ live[k].at + live[k].size <= b.base + b.used
          BY <1>b, <4>1, <4>3 DEF InBlock
        <5>2. live[k].at + live[k].size <= b.base + (o + s)
          <6>1. \A x, y, u, v, w \in Nat : x <= y + u /\ u <= v => x <= y + (v + w)
            OBVIOUS
          <6>2. live[k].at + live[k].size \in Nat
            BY <4>2
          <6> HIDE <4>1, <4>3
          <6> QED BY <1>n, <5>1, <6>1, <6>2
        <5>3. InBlock(live[k], c)
          BY <1>8, <5>1, <5>2 DEF InBlock
        <5> QED BY <1>9, <1>15, <3>2, <4>3, <5>3
      <4>4. CASE i # current
        BY <1>9, <1>15, <3>2, <4>1, <4>4
      <4> QED BY <4>3, <4>4
    <3> QED BY <1>15, <3>1, <3>2
  <2> QED BY <1>15, <2>1 DEF LiveInside, RegionSet
<1>17. \A k \in DOMAIN live : Apart(live[k].at, live[k].size, r.at, r.size)
  <2> SUFFICES ASSUME NEW k \in 1..Len(live)
               PROVE  Apart(live[k].at, live[k].size, r.at, r.size)
    BY <1>15
  <2>1. PICK i \in DOMAIN blocks : InBlock(live[k], blocks[i])
    BY <1>1, <1>15 DEF LiveInside
  <2>2. live[k].at \in Nat /\ live[k].size \in Nat
    BY <1>15 DEF RegionSet
  <2>3. CASE i = current
    <3>1. live[k].at + live[k].size <= b.base + b.used
      BY <1>b, <2>1, <2>3 DEF InBlock
    <3>2. live[k].at + live[k].size <= b.base + o
      BY <1>5, <1>6, <2>2, <3>1
    <3> QED BY <1>8, <3>2 DEF Apart
  <2>4. CASE i # current
    <3>1. blocks[i].used <= blocks[i].capacity /\ blocks[i].base \in Nat
          /\ blocks[i].used \in Nat /\ blocks[i].capacity \in Nat
      BY <1>1, BlockFacts
    <3>2. Apart(blocks[i].base, blocks[i].capacity, b.base, b.capacity)
      BY <1>1, <1>b, <1>4, <2>4 DEF BlocksApart
    <3>3. /\ blocks[i].base <= live[k].at
          /\ live[k].at + live[k].size <= blocks[i].base + blocks[i].used
      BY <2>1 DEF InBlock
    <3>4. Apart(live[k].at, live[k].size, b.base + o, s)
      BY <1>n, <2>2, <3>1, <3>2, <3>3, PartsApart
    <3> QED BY <1>8, <3>4
  <2> QED BY <2>3, <2>4
<1>18. \E d \in heap' : d.base <= r.at /\ r.at + r.size <= d.base + d.capacity
  <2>1. Chunk(b) \in heap /\ Chunk(b).base = b.base /\ Chunk(b).capacity = b.capacity
    BY <1>1, <1>b, <1>4 DEF NothingLeaks, Chunk
  <2>2. b.base <= b.base + o /\ (b.base + o) + s <= b.base + b.capacity
    BY <1>5, <1>6, <1>7
  <2> QED BY <1>2, <1>8, <2>1, <2>2
<1>19. RegionsApart'
  BY <1>1, <1>2, <1>6, <1>8, <1>17, <1>18, OneMore
<1> QED BY <1>1, <1>11, <1>12, <1>13, <1>14, <1>16, <1>19, StillFit DEF ArenaInv

-----------------------------------------------------------------------------
\* An element put into a sequence behind position i.
With(q, i, x) == Append(SubSeq(q, 1, i), x) \o SubSeq(q, i + 1, Len(q))

IsWith(new, S, q, i, x) ==
  /\ new \in Seq(S) /\ Len(new) = Len(q) + 1 /\ new[i + 1] = x
  /\ \A k \in 1..i : new[k] = q[k]
  /\ \A k \in (i + 2)..(Len(q) + 1) : new[k] = q[k - 1]

LEMMA Inserted ==
  ASSUME NEW S, NEW q \in Seq(S), NEW i \in 1..Len(q), NEW x \in S
  PROVE  IsWith(With(q, i, x), S, q, i, x)
<1> DEFINE new == With(q, i, x)
           m == Len(q)
           h == SubSeq(q, 1, i)
           t == SubSeq(q, i + 1, m)
           a == Append(h, x)
<1>0. m \in Nat
  BY LenProperties
<1>1. m \in Nat /\ i \in Nat /\ 1 <= i /\ i <= m /\ i + 1 \in 1..(m + 1)
  BY <1>0
<1>2. h \in Seq(S) /\ Len(h) = i /\ \A k \in 1..i : h[k] = q[k]
  <2>1. \A k \in 1..i : k \in 1..Len(q)
    BY <1>1
  <2> QED BY <1>1, <2>1, SubSeqProperties
<1>3. /\ t \in Seq(S) /\ Len(t) = m - i
      /\ \A k \in 1..(m - i) : t[k] = q[i + k]
  BY <1>1, SubSeqProperties
<1> HIDE DEF h, t, new, m
<1>4. /\ a \in Seq(S) /\ Len(a) = i + 1 /\ a[i + 1] = x
      /\ \A k \in 1..i : a[k] = h[k]
  BY <1>1, <1>2, AppendProperties
<1>5. new = a \o t
  BY DEF h, t, new, m, With
<1> HIDE DEF a
<1>6. /\ a \o t \in Seq(S) /\ Len(a \o t) = Len(a) + Len(t)
      /\ \A k \in 1..(Len(a) + Len(t)) :
           (a \o t)[k] = IF k <= Len(a) THEN a[k] ELSE t[k - Len(a)]
  BY <1>3, <1>4, ConcatProperties
<1>7. Len(a) + Len(t) = m + 1
  BY <1>1, <1>3, <1>4
<1>8. \A k \in 1..(m + 1) : new[k] = IF k <= i + 1 THEN a[k] ELSE t[k - (i + 1)]
  BY <1>4, <1>5, <1>6, <1>7
<1>9. new[i + 1] = x
  BY <1>1, <1>4, <1>8
<1>10. ASSUME NEW k \in 1..i PROVE new[k] = q[k]
  <2>1. k \in 1..(m + 1) /\ k <= i + 1
    BY <1>1
  <2> QED BY <1>2, <1>4, <1>8, <2>1
<1>11. ASSUME NEW k \in (i + 2)..(m + 1) PROVE new[k] = q[k - 1]
  <2>1. /\ k \in 1..(m + 1) /\ ~(k <= i + 1) /\ k - (i + 1) \in 1..(m - i)
        /\ i + (k - (i + 1)) = k - 1
    BY <1>1
  <2>2. new[k] = t[k - (i + 1)]
    BY <1>8, <2>1
  <2>3. t[k - (i + 1)] = q[i + (k - (i + 1))]
    BY <1>3, <2>1
  <2> QED BY <2>1, <2>2, <2>3
<1> QED BY <1>5, <1>6, <1>7, <1>9, <1>10, <1>11 DEF new, m, IsWith

\* A request for which a block is linked behind the current one.
LEMMA AllocNewBlockStep ==
  ASSUME ArenaInv, NEW s \in Sizes, NEW n \in Aligns, NEW base \in Heap, NEW r,
         AllocNewBlock(s, n, base, r)
  PROVE  ArenaInv'
<1> DEFINE cap == NewCapacity(s, n)
           o == AlignedOffset(base, 0, n)
           c == Block(base, cap, o + s)
           L == Len(blocks)
           \* where the block at i of the new list stood in the old one
           old(i) == IF i <= current THEN i ELSE i - 1
<1>1. /\ BlocksOK /\ BlocksApart /\ EmptyBehind /\ LiveInside
      /\ NothingLeaks /\ RegionsApart /\ RequestsFit
  BY DEF ArenaInv
<1>2. /\ current # 0 /\ Free(base, cap) /\ r = Region(base + o, s, n)
      /\ blocks' = Append(SubSeq(blocks, 1, current), c)
                    \o SubSeq(blocks, current + 1, L)
      /\ heap' = heap \cup {[base |-> base, capacity |-> cap]}
      /\ live' = Append(live, r) /\ current' = current + 1
  BY DEF AllocNewBlock
<1>3. blocks \in Seq(BlockSet) /\ live \in Seq(RegionSet)
  BY <1>1 DEF BlocksOK, LiveInside, BlockSet, RegionSet
<1>4. /\ current \in 1..L /\ L \in Nat /\ DOMAIN blocks = 1..L
  BY <1>1, <1>2, <1>3, LenProperties DEF BlocksOK
<1>5. o \in Nat /\ o + s <= cap /\ (base + o) % n = 0
  <2>1. base + NewCapacity(s, n) <= HeapEnd
    BY <1>2 DEF Free
  <2> QED BY <1>1, <2>1, RoomThere
<1>6. cap \in Nat
  BY <1>1, Capacity
<1>e. base + cap <= HeapEnd
  BY <1>2 DEF Free
<1>7. s \in Nat \ {0} /\ n \in Nat \ {0} /\ base \in Nat
  BY ArenaAssumption
<1> HIDE DEF o, cap
<1>8. /\ r \in RegionSet /\ r.at = base + o /\ r.size = s /\ r.align = n
      /\ c \in BlockSet /\ c.base = base /\ c.capacity = cap /\ c.used = o + s
  BY <1>2, <1>5, <1>6, <1>7 DEF Region, Block, RegionSet, BlockSet
<1> HIDE DEF c
<1>9. /\ blocks' \in Seq(BlockSet) /\ Len(blocks') = L + 1
      /\ blocks'[current + 1] = c
      /\ \A k \in 1..current : blocks'[k] = blocks[k]
      /\ \A k \in (current + 2)..(L + 1) : blocks'[k] = blocks[k - 1]
  <2>1. blocks \in Seq(BlockSet) /\ c \in BlockSet
    BY <1>3, <1>8
  <2> DEFINE new == blocks'
  <2>2. new = With(blocks, current, c) /\ current \in 1..Len(blocks)
    BY <1>2, <1>4 DEF With
  <2> HIDE DEF new
  <2>3. IsWith(new, BlockSet, blocks, current, c)
    <3>1. IsWith(With(blocks, current, c), BlockSet, blocks, current, c)
      BY <2>1, <2>2, Inserted, Zenon
    <3> QED BY <2>2, <3>1, Zenon
  <2> QED BY <2>3 DEF IsWith, new
<1>10. DOMAIN blocks' = 1..(L + 1)
  BY <1>9, LenProperties
<1>11. \A i \in 1..(L + 1) : i # current + 1 =>
         old(i) \in DOMAIN blocks /\ blocks'[i] = blocks[old(i)]
  BY <1>4, <1>9
<1>12. \A i, j \in 1..(L + 1) :
         i # j /\ i # current + 1 /\ j # current + 1 => old(i) # old(j)
  BY <1>4
<1>13. \A i \in 1..L : \E j \in 1..(L + 1) :
         j # current + 1 /\ blocks'[j] = blocks[i]
  <2> SUFFICES ASSUME NEW i \in 1..L
               PROVE  \E j \in 1..(L + 1) : j # current + 1 /\ blocks'[j] = blocks[i]
    OBVIOUS
  <2>1. CASE i <= current
    BY <1>4, <1>9, <2>1
  <2>2. CASE i > current
    <3>1. /\ i + 1 \in (current + 2)..(L + 1) /\ (i + 1) - 1 = i
          /\ i + 1 # current + 1 /\ i + 1 \in 1..(L + 1)
      BY <1>4, <2>2
    <3>2. blocks'[i + 1] = blocks[(i + 1) - 1]
      BY <1>9, <3>1
    <3> QED BY <3>1, <3>2
  <2> QED BY <1>4, <2>1, <2>2
<1>14. \A i \in DOMAIN blocks : Apart(base, cap, blocks[i].base, blocks[i].capacity)
  <2> SUFFICES ASSUME NEW i \in DOMAIN blocks
               PROVE  Apart(base, cap, blocks[i].base, blocks[i].capacity)
    OBVIOUS
  <2>1. Chunk(blocks[i]) \in heap
    BY <1>1 DEF NothingLeaks
  <2>2. /\ Chunk(blocks[i]).base = blocks[i].base
        /\ Chunk(blocks[i]).capacity = blocks[i].capacity
    BY DEF Chunk
  <2> QED BY <1>2, <2>1, <2>2 DEF Free
<1> HIDE DEF old
<1>15. BlocksOK'
  <2>1. blocks' \in Seq([base : Heap, capacity : Nat, used : Nat])
    BY <1>9 DEF BlockSet
  <2>2. current' \in 0..Len(blocks') /\ (current' = 0 => blocks' = <<>>)
    <3>1. current' = current + 1 /\ Len(blocks') = L + 1
      BY <1>2, <1>9
    <3>2. current + 1 \in 0..(L + 1) /\ current + 1 # 0
      BY <1>4
    <3> QED BY <3>1, <3>2
  <2>3. ASSUME NEW i \in 1..(L + 1)
        PROVE  /\ blocks'[i].used <= blocks'[i].capacity
               /\ blocks'[i].base + blocks'[i].capacity <= HeapEnd
    <3>1. CASE i = current + 1
      BY <1>5, <1>6, <1>8, <1>9, <1>e, <3>1
    <3>2. CASE i # current + 1
      BY <1>1, <1>11, <3>2 DEF BlocksOK
    <3> QED BY <3>1, <3>2
  <2> QED BY <1>10, <2>1, <2>2, <2>3 DEF BlocksOK
<1>16. BlocksApart'
  <2> SUFFICES ASSUME NEW i \in 1..(L + 1), NEW j \in 1..(L + 1), i # j
               PROVE  Apart(blocks'[i].base, blocks'[i].capacity,
                            blocks'[j].base, blocks'[j].capacity)
    BY <1>10 DEF BlocksApart
  <2>1. CASE i = current + 1
    BY <1>8, <1>9, <1>11, <1>14, <2>1
  <2>2. CASE j = current + 1
    BY <1>8, <1>9, <1>11, <1>14, <2>2 DEF Apart
  <2>3. CASE i # current + 1 /\ j # current + 1
    BY <1>1, <1>11, <1>12, <2>3 DEF BlocksApart
  <2> QED BY <2>1, <2>2, <2>3
<1>17. EmptyBehind'
  <2> SUFFICES ASSUME NEW i \in 1..(L + 1), i > current + 1
               PROVE  blocks'[i].used = 0
    BY <1>2, <1>10 DEF EmptyBehind
  <2>1. i \in (current + 2)..(L + 1) /\ i - 1 \in DOMAIN blocks /\ i - 1 > current
    BY <1>4
  <2> QED BY <1>1, <1>9, <2>1 DEF EmptyBehind
<1>18. NothingLeaks'
  <2>1. Chunk(c) = [base |-> base, capacity |-> cap]
    BY <1>8 DEF Chunk
  <2>2. heap' \subseteq {Chunk(blocks'[i]) : i \in DOMAIN blocks'}
    <3> SUFFICES ASSUME NEW h \in heap' PROVE \E i \in 1..(L + 1) : h = Chunk(blocks'[i])
      BY <1>10
    <3>1. CASE h \in heap
      BY <1>1, <1>4, <1>13, <3>1 DEF NothingLeaks
    <3>2. CASE h = Chunk(c)
      BY <1>4, <1>9, <3>2
    <3> QED BY <1>2, <2>1, <3>1, <3>2
  <2>3. {Chunk(blocks'[i]) : i \in DOMAIN blocks'} \subseteq heap'
    <3> SUFFICES ASSUME NEW i \in 1..(L + 1) PROVE Chunk(blocks'[i]) \in heap'
      BY <1>10
    <3>1. CASE i = current + 1
      BY <1>2, <1>9, <2>1, <3>1
    <3>2. CASE i # current + 1
      BY <1>1, <1>2, <1>11, <3>2 DEF NothingLeaks
    <3> QED BY <3>1, <3>2
  <2>4. heap' = {Chunk(blocks'[i]) : i \in DOMAIN blocks'}
    BY <2>2, <2>3
  <2>5. {Chunk(blocks'[i]) : i \in DOMAIN blocks'}
        = {Chunk(blocks[i]) : i \in DOMAIN blocks}'
    BY DEF Chunk
  <2> QED BY <2>4, <2>5 DEF NothingLeaks
<1>19. /\ Len(live) \in Nat /\ DOMAIN live = 1..Len(live)
       /\ live' \in Seq(RegionSet) /\ DOMAIN live' = 1..(Len(live) + 1)
       /\ live'[Len(live) + 1] = r
       /\ \A k \in 1..Len(live) : live'[k] = live[k] /\ live[k] \in RegionSet
  BY <1>2, <1>3, <1>8, AppendProperties, LenProperties, ElementOfSeq
<1>20. InBlock(r, c)
  BY <1>5, <1>7, <1>8 DEF InBlock
<1>21. LiveInside'
  <2>1. ASSUME NEW k \in 1..(Len(live) + 1)
        PROVE  \E i \in DOMAIN blocks' : InBlock(live'[k], blocks'[i])
    <3>1. CASE k = Len(live) + 1
      <4>1. blocks'[current + 1] = c /\ live'[k] = r
        BY <1>9, <1>19, <3>1
      <4>2. current + 1 \in 1..(L + 1)
        BY <1>4
      <4>3. current + 1 \in DOMAIN blocks'
        BY <1>10, <4>2
      <4>. QED BY <1>20, <4>1, <4>3, Zenon
    <3>2. CASE k \in 1..Len(live)
      <4>1. PICK i \in 1..L : InBlock(live[k], blocks[i])
        BY <1>1, <1>4, <1>19, <3>2 DEF LiveInside
      <4>2. PICK j \in 1..(L + 1) : blocks'[j] = blocks[i]
        BY <1>13, <4>1
      <4>3. InBlock(live'[k], blocks'[j])
        BY <1>19, <3>2, <4>1, <4>2
      <4> QED BY <1>10, <4>3
    <3> QED BY <1>19, <3>1, <3>2
  <2> QED BY <1>19, <2>1 DEF LiveInside, RegionSet
<1>22. \A k \in DOMAIN live : Apart(live[k].at, live[k].size, r.at, r.size)
  <2> SUFFICES ASSUME NEW k \in 1..Len(live)
               PROVE  Apart(live[k].at, live[k].size, r.at, r.size)
    BY <1>19
  <2>1. PICK i \in DOMAIN blocks : InBlock(live[k], blocks[i])
    BY <1>1, <1>19 DEF LiveInside
  <2>2. live[k].at \in Nat /\ live[k].size \in Nat
    BY <1>19 DEF RegionSet
  <2>3. blocks[i].used <= blocks[i].capacity /\ blocks[i].base \in Nat
        /\ blocks[i].used \in Nat /\ blocks[i].capacity \in Nat
    BY <1>1, BlockFacts
  <2>4. Apart(blocks[i].base, blocks[i].capacity, base, cap)
    BY <1>14 DEF Apart
  <2>5. /\ blocks[i].base <= live[k].at
        /\ live[k].at + live[k].size <= blocks[i].base + blocks[i].used
    BY <2>1 DEF InBlock
  <2>6. Apart(live[k].at, live[k].size, base + o, s)
    BY <1>5, <1>6, <1>7, <2>2, <2>3, <2>4, <2>5, PartsApart
  <2> QED BY <1>8, <2>6
<1>23. \E d \in heap' : d.base <= r.at /\ r.at + r.size <= d.base + d.capacity
  <2>1. [base |-> base, capacity |-> cap] \in heap'
    BY <1>2
  <2>2. base <= base + o /\ (base + o) + s <= base + cap
    BY <1>5, <1>6, <1>7
  <2> QED BY <1>8, <2>1, <2>2
<1>24. RegionsApart'
  BY <1>1, <1>2, <1>5, <1>8, <1>22, <1>23, OneMore
<1> QED BY <1>1, <1>15, <1>16, <1>17, <1>18, <1>21, <1>24, StillFit DEF ArenaInv

-----------------------------------------------------------------------------
\* Without regions nothing overlaps.
LEMMA NoRegions ==
  ASSUME live' = <<>>
  PROVE  LiveInside' /\ RegionsApart'
<1>1. live' \in Seq(RegionSet) /\ DOMAIN live' = {}
  BY EmptySeq, SMT
<1> QED BY <1>1 DEF LiveInside, RegionsApart, RegionSet

LEMMA CreateStep ==
  ASSUME ArenaInv, NEW base \in Heap, Create(base)
  PROVE  ArenaInv'
<1> DEFINE c == Block(base, BlockSize, 0)
<1>1. /\ blocks = <<>> /\ heap = {} /\ blocks' = <<c>> /\ current' = 1
      /\ heap' = heap \cup {[base |-> base, capacity |-> BlockSize]} /\ live' = <<>>
  <2>1. current = 0 /\ blocks = <<>>
    BY DEF Create, ArenaInv, BlocksOK
  <2>2. heap = {}
    BY <2>1 DEF ArenaInv, NothingLeaks
  <2> QED BY <2>1, <2>2 DEF Create
<1>2. /\ c \in BlockSet /\ c.base = base /\ c.capacity = BlockSize /\ c.used = 0
  BY ArenaAssumption DEF Block, BlockSet
<1> HIDE DEF c
<1>3. /\ blocks' \in Seq(BlockSet) /\ Len(blocks') = 1 /\ DOMAIN blocks' = {1}
      /\ blocks'[1] = c
  BY <1>1, <1>2
<1>4. BlocksOK'
  <2>1. current' \in 0..Len(blocks') /\ (current' = 0 => blocks' = <<>>)
    BY <1>1, <1>3
  <2>2. c.used <= c.capacity
    BY <1>2, ArenaAssumption
  <2>3. c.base + c.capacity <= HeapEnd
    BY <1>2 DEF Create, Free
  <2> QED BY <1>2, <1>3, <2>1, <2>2, <2>3 DEF BlocksOK, BlockSet
<1>5. BlocksApart' /\ EmptyBehind'
  BY <1>1, <1>2, <1>3 DEF BlocksApart, EmptyBehind
<1>6. NothingLeaks'
  <2>1. Chunk(c) = [base |-> base, capacity |-> BlockSize]
    BY <1>2 DEF Chunk
  <2>2. {Chunk(blocks'[i]) : i \in DOMAIN blocks'} = {Chunk(c)}
    BY <1>3
  <2>3. {Chunk(blocks'[i]) : i \in DOMAIN blocks'}
        = {Chunk(blocks[i]) : i \in DOMAIN blocks}'
    BY DEF Chunk
  <2> QED BY <1>1, <2>1, <2>2, <2>3 DEF NothingLeaks
<1>7. RequestsFit'
  BY StillFit DEF ArenaInv
<1> QED BY <1>1, <1>4, <1>5, <1>6, <1>7, NoRegions DEF ArenaInv

LEMMA ResetStep ==
  ASSUME ArenaInv, Reset
  PROVE  ArenaInv'
<1> DEFINE e(i) == Block(blocks[i].base, blocks[i].capacity, 0)
<1>1. /\ BlocksOK /\ BlocksApart /\ NothingLeaks /\ RequestsFit
      /\ current # 0 /\ blocks' = [i \in DOMAIN blocks |-> e(i)]
      /\ current' = 1 /\ heap' = heap /\ live' = <<>>
  BY DEF Reset, ArenaInv
<1>2. blocks \in Seq(BlockSet) /\ DOMAIN blocks = 1..Len(blocks) /\ Len(blocks) \in Nat
  BY <1>1, LenProperties DEF BlocksOK, BlockSet
<1>3. \A i \in DOMAIN blocks :
        /\ e(i) \in BlockSet /\ e(i).base = blocks[i].base
        /\ e(i).capacity = blocks[i].capacity /\ e(i).used = 0
  <2> SUFFICES ASSUME NEW i \in DOMAIN blocks
               PROVE  /\ e(i) \in BlockSet /\ e(i).base = blocks[i].base
                      /\ e(i).capacity = blocks[i].capacity /\ e(i).used = 0
    OBVIOUS
  <2>1. blocks[i] \in BlockSet
    BY <1>1, BlockFacts
  <2> QED BY <2>1 DEF Block, BlockSet
<1> HIDE DEF e
<1>4. blocks' \in Seq(BlockSet) /\ Len(blocks') = Len(blocks) /\ DOMAIN blocks' = DOMAIN blocks
  BY <1>1, <1>2, <1>3
<1>5. \A i \in DOMAIN blocks :
        /\ blocks'[i].base = blocks[i].base /\ blocks'[i].used = 0
        /\ blocks'[i].capacity = blocks[i].capacity
  BY <1>1, <1>3
<1>6. BlocksOK'
  <2>1. current \in 0..Len(blocks)
    BY <1>1 DEF BlocksOK
  <2>2. current' \in 0..Len(blocks') /\ (current' = 0 => blocks' = <<>>)
    BY <1>1, <1>2, <1>4, <2>1
  <2>3. \A i \in DOMAIN blocks' : blocks'[i].used <= blocks'[i].capacity
    <3>1. \A i \in DOMAIN blocks : blocks[i].capacity \in Nat
      BY <1>1, BlockFacts
    <3> QED BY <1>4, <1>5, <3>1
  <2>4. \A i \in DOMAIN blocks' : blocks'[i].base + blocks'[i].capacity <= HeapEnd
    BY <1>1, <1>4, <1>5 DEF BlocksOK
  <2> QED BY <1>4, <2>2, <2>3, <2>4 DEF BlocksOK, BlockSet
<1>7. BlocksApart' /\ EmptyBehind'
  BY <1>1, <1>4, <1>5 DEF BlocksApart, EmptyBehind
<1>8. NothingLeaks'
  <2>1. {Chunk(blocks'[i]) : i \in DOMAIN blocks'} = {Chunk(blocks[i]) : i \in DOMAIN blocks}
    BY <1>4, <1>5 DEF Chunk
  <2>2. {Chunk(blocks'[i]) : i \in DOMAIN blocks'}
        = {Chunk(blocks[i]) : i \in DOMAIN blocks}'
    BY DEF Chunk
  <2> QED BY <1>1, <2>1, <2>2 DEF NothingLeaks
<1> QED BY <1>1, <1>6, <1>7, <1>8, NoRegions, StillFit DEF ArenaInv

LEMMA NoBlocks ==
  ASSUME RequestsFit, heap' = {}, blocks' = <<>>, current' = 0, live' = <<>>
  PROVE  ArenaInv'
<1>1. blocks' \in Seq(BlockSet) /\ DOMAIN blocks' = {} /\ Len(blocks') = 0
  BY EmptySeq, SMT
<1>2. BlocksOK' /\ BlocksApart' /\ EmptyBehind' /\ NothingLeaks'
  BY <1>1 DEF BlocksOK, BlocksApart, EmptyBehind, NothingLeaks, BlockSet
<1> QED BY <1>2, NoRegions, StillFit DEF ArenaInv

LEMMA DestroyStep ==
  ASSUME ArenaInv, Destroy
  PROVE  ArenaInv'
<1>1. RequestsFit /\ heap' = {} /\ blocks' = <<>> /\ current' = 0 /\ live' = <<>>
  BY DEF Destroy, ArenaInv, NothingLeaks
<1> QED BY <1>1, NoBlocks

LEMMA Unchanged_ ==
  ASSUME ArenaInv, UNCHANGED arenaVars
  PROVE  ArenaInv'
BY DEF ArenaInv, BlocksOK, BlocksApart, EmptyBehind, LiveInside, NothingLeaks,
       RegionsApart, RequestsFit, arenaVars, InBlock, Apart, Chunk

-----------------------------------------------------------------------------
LEMMA InitInv == RequestsFit /\ ArenaInit => ArenaInv
<1> SUFFICES ASSUME RequestsFit, ArenaInit PROVE ArenaInv
  OBVIOUS
<1>1. blocks \in Seq(BlockSet) /\ DOMAIN blocks = {} /\ Len(blocks) = 0
  BY EmptySeq, SMT DEF ArenaInit
<1>2. live \in Seq(RegionSet) /\ DOMAIN live = {}
  BY EmptySeq, SMT DEF ArenaInit
<1> QED BY <1>1, <1>2 DEF ArenaInit, ArenaInv, BlocksOK, BlocksApart, EmptyBehind,
                          LiveInside, NothingLeaks, RegionsApart, BlockSet, RegionSet

\* Every reachable state of an arena satisfies the inductive invariant.
THEOREM ArenaInvariant == RequestsFit /\ ArenaSpec => []ArenaInv
<1>1. RequestsFit /\ ArenaInit => ArenaInv
  BY InitInv
<1>2. ArenaInv /\ [ArenaNext]_arenaVars => ArenaInv'
  <2> SUFFICES ASSUME ArenaInv, [ArenaNext]_arenaVars PROVE ArenaInv'
    OBVIOUS
  <2>1. ASSUME NEW base \in Heap, Create(base) PROVE ArenaInv'
    BY <2>1, CreateStep
  <2>2. ASSUME NEW s \in Sizes, NEW n \in Aligns, NEW r, Alloc(s, n, r) PROVE ArenaInv'
    BY <2>2, AllocHereStep, AllocNewBlockStep DEF Alloc
  <2>3. ASSUME NEW s \in Sizes, NEW n \in Aligns, AllocFails(s, n) PROVE ArenaInv'
    BY <2>3, Unchanged_ DEF AllocFails
  <2>4. CASE Reset BY <2>4, ResetStep
  <2>5. CASE Destroy BY <2>5, DestroyStep
  <2>6. CASE UNCHANGED arenaVars BY <2>6, Unchanged_
  <2> QED BY <2>1, <2>2, <2>3, <2>4, <2>5, <2>6 DEF ArenaNext
<1> QED BY <1>1, <1>2, PTL DEF ArenaSpec

\* No two regions handed out by oas_arena_alloc since the last reset overlap,
\* and each is aligned and inside memory malloc gave, for callers that ask for
\* no more than the address space has behind the heap: that the three sums of
\* oas_arena_alloc do not wrap then is part of the proof.
THEOREM RegionsNeverOverlap == RequestsFit /\ ArenaSpec => []RegionsApart
<1>1. ArenaInv => RegionsApart
  BY DEF ArenaInv
<1> QED BY <1>1, ArenaInvariant, PTL

\* The list of blocks reaches all that malloc gave, so oas_arena_destroy frees it.
THEOREM ListReachesEveryBlock == RequestsFit /\ ArenaSpec => []NothingLeaks
<1>1. ArenaInv => NothingLeaks
  BY DEF ArenaInv
<1> QED BY <1>1, ArenaInvariant, PTL
-----------------------------------------------------------------------------
\* The inductive invariant of the two clients.  The list first: its array is
\* live and has room, its numbers grow with the position and are at least the
\* position, so a full list was given more than InitCap errors, and none of the
\* first InitCap is missing.
EntrySet == [number : Nat, message : RegionSet \cup {NoPtr}, path : RegionSet \cup {NoPtr}]

CallShape ==
  \/ call \in {<<"idle">>, <<"list array">>, <<"grow">>, <<"message">>, <<"path">>,
              <<"buckets">>}
  \/ \E s \in Strings : call = <<"copy", s>>
  \/ \E s \in Strings, r \in RegionSet : call = <<"entry", s, r>>

ArrayOK ==
  /\ list \in [array : RegionSet, capacity : Nat, errors : Seq(EntrySet)]
  /\ list.array \in ToSet(live) /\ list.array.size = ErrorSize * list.capacity
  /\ InitCap <= list.capacity /\ Len(list.errors) <= list.capacity
  /\ added \in Seq(Errors) /\ Len(added) <= MaxAdds

NumbersOK ==
  /\ \A i \in DOMAIN list.errors :
       i <= list.errors[i].number /\ list.errors[i].number <= Completed
  /\ \A i, j \in DOMAIN list.errors :
       i < j => list.errors[i].number < list.errors[j].number
  /\ \A n \in 1..Completed : n <= InitCap =>
       \E i \in DOMAIN list.errors : list.errors[i].number = n

TextsOK ==
  \A i \in DOMAIN list.errors :
    LET e == list.errors[i]
    IN  /\ IsTextAt(e.message, added[e.number].message)
        /\ e.path # NoPtr => IsTextAt(e.path, added[e.number].path)

\* Where oas_error_list_add stands.
AddOK ==
  /\ call[1] \in {"grow", "message", "path"} => Len(added) > 0
  /\ call[1] = "grow" => Len(list.errors) >= list.capacity
  /\ call[1] = "message" => Len(list.errors) < list.capacity
  /\ call[1] = "path" =>
       LET n == Len(list.errors)
       IN  n > 0 /\ list.errors[n].number = Len(added) /\ Last(added).path # NoPtr

ListInv ==
  /\ list.array = NoPtr => list = NoList /\ added = <<>>
  /\ call[1] = "list array" => list.array = NoPtr
  /\ call[1] \in {"grow", "message", "path"} => list.array # NoPtr
  /\ list.array # NoPtr => ArrayOK /\ NumbersOK /\ TextsOK /\ AddOK

\* The pool: what has been answered is in a bucket, every entry in the bucket
\* of its string, and neither a string nor a pointer is in two entries.
Entries == UNION {ToSet(pool[b]) : b \in Buckets}

PoolOK ==
  /\ pool \in BucketLists
  /\ \A b \in Buckets : \A e \in ToSet(pool[b]) : BucketOf[e.str] = b
  /\ \A e \in Entries : e.at \in ToSet(live)
  /\ \A e, f \in Entries : e.str = f.str <=> e.at = f.at
  /\ interned \subseteq {<<e.str, e.at>> : e \in Entries}

\* Where oas_intern_get stands: what it is about to enter is in no entry.
InternOK ==
  /\ call[1] \in {"copy", "entry"} => \A e \in Entries : e.str # call[2]
  /\ call[1] = "entry" => /\ call[3] \in ToSet(live)
                         /\ \A e \in Entries : e.at # call[3]

PoolInv ==
  /\ call[1] \in {"copy", "entry"} => pool # NoPtr
  /\ call[1] = "buckets" => pool = NoPtr
  /\ pool = NoPtr => interned = {}
  /\ pool # NoPtr => PoolOK /\ InternOK

ClientInv == ArenaInv /\ CallShape /\ ListInv /\ PoolInv

\* What an allocation gives: a live region of the size asked for, which none
\* of the live ones is.
LEMMA NewRegion ==
  ASSUME ArenaInv, NEW s \in Sizes, NEW n \in Aligns, NEW r, Alloc(s, n, r)
  PROVE  /\ ArenaInv' /\ r \in RegionSet /\ r.size = s
         /\ r \notin ToSet(live) /\ ToSet(live') = ToSet(live) \cup {r}
<1>1. ArenaInv'
  BY AllocHereStep, AllocNewBlockStep DEF Alloc
<1>2. live' = Append(live, r) /\ r.size = s
  BY DEF Alloc, AllocHere, AllocNewBlock, Region
<1>3. live \in Seq(RegionSet) /\ live' \in Seq(RegionSet)
  BY <1>1 DEF ArenaInv, LiveInside, RegionSet
<1>4. live \in Seq(RegionSet \cup {r})
  BY <1>3, SeqMonotonic
<1>5. /\ Len(live) \in Nat /\ DOMAIN live = 1..Len(live)
      /\ DOMAIN live' = 1..(Len(live) + 1) /\ live'[Len(live) + 1] = r
      /\ \A k \in 1..Len(live) : live'[k] = live[k]
  BY <1>2, <1>4, AppendProperties, LenProperties
<1>6. r \in RegionSet
  <2>1. Len(live) + 1 \in DOMAIN live'
    BY <1>5
  <2>. QED BY <1>3, <1>5, <2>1, ElementOfSeq, LenProperties
<1>7. ASSUME NEW k \in 1..Len(live) PROVE live[k] # r
  <2>1. Apart(live'[k].at, live'[k].size, r.at, r.size)
    BY <1>1, <1>5 DEF ArenaInv, RegionsApart
  <2>2. r.at \in Nat /\ r.size \in Nat \ {0}
    BY <1>6 DEF RegionSet
  <2>. QED BY <1>5, <2>1, <2>2 DEF Apart
<1>. QED BY <1>1, <1>2, <1>5, <1>6, <1>7 DEF ToSet

-----------------------------------------------------------------------------
\* The phases in which oas_error_list_add and _create are not at work.
Elsewhere == {"idle", "buckets", "copy", "entry"}

\* What leaves the list alone keeps its invariant.
LEMMA ListKept ==
  ASSUME ListInv, list' = list, added' = added, ToSet(live) \subseteq ToSet(live'),
         call[1] \in Elsewhere, call'[1] \in Elsewhere
  PROVE  ListInv'
<1>1. Completed' = Completed
  BY DEF Completed, Elsewhere
<1>2. CASE list.array = NoPtr
  BY <1>2 DEF ListInv, NoList, Elsewhere
<1>3. CASE list.array # NoPtr
  <2>1. ArrayOK /\ NumbersOK /\ TextsOK
    BY <1>3 DEF ListInv
  <2>2. ArrayOK'
    BY <2>1 DEF ArrayOK
  <2>3. NumbersOK'
    BY <1>1, <2>1 DEF NumbersOK
  <2>4. TextsOK'
    BY <2>1 DEF TextsOK, IsTextAt
  <2>5. AddOK'
    BY DEF AddOK, Elsewhere
  <2>. QED BY <1>3, <2>2, <2>3, <2>4, <2>5 DEF ListInv, Elsewhere
<1>. QED BY <1>2, <1>3

\* What leaves the pool alone, and oas_intern_get where it is not at work.
LEMMA PoolKept ==
  ASSUME PoolInv, pool' = pool, interned' = interned,
         ToSet(live) \subseteq ToSet(live'),
         call'[1] \notin {"copy", "entry"}, call'[1] = "buckets" => pool = NoPtr
  PROVE  PoolInv'
<1>1. CASE pool = NoPtr
  BY <1>1 DEF PoolInv
<1>2. CASE pool # NoPtr
  <2>1. PoolOK
    BY <1>2 DEF PoolInv
  <2>2. Entries' = Entries
    BY DEF Entries
  <2>3. PoolOK'
    BY <2>1, <2>2 DEF PoolOK
  <2>4. InternOK'
    BY DEF InternOK
  <2>. QED BY <1>2, <2>3, <2>4 DEF PoolInv
<1>. QED BY <1>1, <1>2

-----------------------------------------------------------------------------
\* What an allocation of a client's call leaves: the arena in order and every
\* region that was live.
LEMMA ArenaGoesOn ==
  ASSUME ArenaInv, NEW s \in Sizes, NEW n \in Aligns,
         (\E r : Alloc(s, n, r)) \/ AllocFails(s, n)
  PROVE  ArenaInv' /\ ToSet(live) \subseteq ToSet(live')
<1>1. CASE \E r : Alloc(s, n, r)
  BY <1>1, NewRegion
<1>2. CASE AllocFails(s, n)
  BY <1>2, Unchanged_ DEF AllocFails, arenaVars
<1>. QED BY <1>1, <1>2

\* The invariant of the list when its array and errors are given.
LEMMA ListHeaderStep ==
  ASSUME ClientInv, ListHeader
  PROVE  ClientInv'
<1>1. HeaderSize \in Sizes /\ WordAlign \in Aligns
  BY ClientsAssumption
<1>2. /\ call = <<"idle">> /\ list.array = NoPtr /\ list' = list /\ pool' = pool
      /\ added' = added /\ interned' = interned
      /\ (\E r : Alloc(HeaderSize, WordAlign, r)) \/ AllocFails(HeaderSize, WordAlign)
      /\ call' \in {<<"idle">>, <<"list array">>}
  BY DEF ListHeader, AllocThen, Idle
<1>3. ArenaInv' /\ ToSet(live) \subseteq ToSet(live')
  BY <1>1, <1>2, ArenaGoesOn DEF ClientInv
<1>c. call[1] = "idle" /\ call'[1] \in {"idle", "list array"}
  <2>1. call' = <<"idle">> \/ call' = <<"list array">>
    BY <1>2
  <2>2. <<"idle">>[1] = "idle" /\ <<"list array">>[1] = "list array"
    OBVIOUS
  <2>. QED BY <1>2, <2>1, <2>2
<1>4. CallShape'
  BY <1>2 DEF CallShape
<1>5. ListInv'
  BY <1>2, <1>c DEF ClientInv, ListInv, NoList
<1>6. PoolInv'
  BY <1>2, <1>3, <1>c, PoolKept DEF ClientInv
<1>. QED BY <1>3, <1>4, <1>5, <1>6 DEF ClientInv

LEMMA ListArrayStep ==
  ASSUME ClientInv, ListArray
  PROVE  ClientInv'
<1>1. ErrorSize * InitCap \in Sizes /\ WordAlign \in Aligns
  BY ClientsAssumption
<1>2. /\ call = <<"list array">> /\ call' = <<"idle">> /\ pool' = pool
      /\ added' = added /\ interned' = interned
  BY DEF ListArray, Return
<1>3. list = NoList /\ added = <<>>
  BY <1>2 DEF ClientInv, ListInv
<1>4. CallShape'
  BY <1>2 DEF CallShape
<1>5. CASE \E r \in Results(ErrorSize * InitCap, WordAlign) :
             /\ Alloc(ErrorSize * InitCap, WordAlign, r)
             /\ list' = [array |-> r, capacity |-> InitCap, errors |-> <<>>]
  <2>1. PICK r : /\ Alloc(ErrorSize * InitCap, WordAlign, r)
                 /\ list' = [array |-> r, capacity |-> InitCap, errors |-> <<>>]
    BY <1>5
  <2>2. /\ ArenaInv' /\ r \in RegionSet /\ r.size = ErrorSize * InitCap
        /\ ToSet(live') = ToSet(live) \cup {r}
    BY <1>1, <2>1, NewRegion DEF ClientInv
  <2>3. InitCap \in Nat \ {0} /\ MaxAdds \in Nat
    BY ClientsAssumption
  <2>4. /\ <<>> \in Seq(EntrySet) /\ <<>> \in Seq(Errors)
        /\ Len(<<>>) = 0 /\ DOMAIN <<>> = {}
    BY EmptySeq, SMT
  <2>e. /\ list'.array = r /\ list'.capacity = InitCap /\ list'.errors = <<>>
        /\ call'[1] = "idle" /\ added' = <<>> /\ Len(list'.errors) = 0
        /\ Len(added') = 0 /\ DOMAIN list'.errors = {}
    BY <1>2, <1>3, <2>1, <2>4
  <2>t. list' \in [array : RegionSet, capacity : Nat, errors : Seq(EntrySet)]
    BY <2>1, <2>2, <2>3, <2>4
  <2>5. ArrayOK'
    BY <2>e, <2>t, <2>2, <2>3, <2>4 DEF ArrayOK
  <2>6. Completed' = 0
    BY <2>e DEF Completed
  <2>7. NumbersOK' /\ TextsOK' /\ AddOK'
    BY <2>e, <2>6 DEF NumbersOK, TextsOK, AddOK
  <2>8. list'.array # NoPtr
    BY <2>1, <2>2, ClientsAssumption DEF RegionSet
  <2>9. ListInv'
    BY <1>2, <2>5, <2>7, <2>8 DEF ListInv
  <2>10. PoolInv'
    BY <1>2, <2>2, PoolKept DEF ClientInv
  <2>. QED BY <1>4, <2>2, <2>9, <2>10 DEF ClientInv
<1>6. CASE AllocFails(ErrorSize * InitCap, WordAlign) /\ list' = list
  <2>1. ArenaInv' /\ ToSet(live) \subseteq ToSet(live')
    BY <1>1, <1>6, ArenaGoesOn DEF ClientInv
  <2>2. ListInv'
    BY <1>2, <1>3, <1>6 DEF ListInv, NoList
  <2>3. PoolInv'
    BY <1>2, <2>1, PoolKept DEF ClientInv
  <2>. QED BY <1>4, <2>1, <2>2, <2>3 DEF ClientInv
<1>. QED BY <1>5, <1>6 DEF ListArray, AllocThen

LEMMA AddErrorStep ==
  ASSUME ClientInv, NEW e \in Errors, AddError(e)
  PROVE  ClientInv'
<1>1. /\ call = <<"idle">> /\ list.array # NoPtr /\ Len(added) < MaxAdds
      /\ added' = Append(added, e) /\ list' = list /\ pool' = pool
      /\ interned' = interned /\ live' = live /\ UNCHANGED arenaVars
      /\ call' = IF Len(list.errors) >= list.capacity THEN <<"grow">> ELSE <<"message">>
  BY DEF AddError, Idle, arenaVars
<1>2. ArrayOK /\ NumbersOK /\ TextsOK
  BY <1>1 DEF ClientInv, ListInv
<1>3. /\ added' \in Seq(Errors) /\ Len(added') = Len(added) + 1 /\ Len(added) \in Nat
      /\ DOMAIN added = 1..Len(added) /\ \A k \in 1..Len(added) : added'[k] = added[k]
  BY <1>1, <1>2, AppendProperties, LenProperties DEF ArrayOK
<1>4. /\ DOMAIN list.errors = 1..Len(list.errors) /\ Len(list.errors) \in Nat
      /\ \A i \in DOMAIN list.errors : list.errors[i] \in EntrySet
      /\ list.capacity \in Nat
  BY <1>2, LenProperties, ElementOfSeq DEF ArrayOK
<1>5. Completed = Len(added) /\ Completed' = Len(added)
  BY <1>1, <1>3 DEF Completed
<1>6. ArrayOK'
  BY <1>1, <1>2, <1>3, ClientsAssumption DEF ArrayOK
<1>7. NumbersOK'
  BY <1>1, <1>2, <1>5 DEF NumbersOK
<1>8. TextsOK'
  <2>1. ASSUME NEW i \in DOMAIN list.errors
        PROVE  added'[list.errors[i].number] = added[list.errors[i].number]
    <3>1. list.errors[i].number \in 1..Len(added)
      BY <1>2, <1>3, <1>4, <1>5 DEF NumbersOK, EntrySet
    <3>. QED BY <1>3, <3>1
  <2>. QED BY <1>1, <1>2, <2>1 DEF TextsOK, IsTextAt
<1>9. AddOK'
  BY <1>1, <1>3, <1>4 DEF AddOK
<1>10. ListInv'
  BY <1>1, <1>6, <1>7, <1>8, <1>9 DEF ListInv
<1>11. PoolInv'
  BY <1>1, PoolKept DEF ClientInv
<1>12. CallShape'
  BY <1>1 DEF CallShape
<1>. QED BY <1>1, <1>10, <1>11, <1>12, Unchanged_ DEF ClientInv

\* What the invariant says of the list while an error is being added to it.
LEMMA ListFacts ==
  ASSUME ListInv, list.array # NoPtr
  PROVE  /\ ArrayOK /\ NumbersOK /\ TextsOK /\ AddOK
         /\ DOMAIN list.errors = 1..Len(list.errors) /\ Len(list.errors) \in Nat
         /\ \A i \in DOMAIN list.errors :
              /\ list.errors[i] \in EntrySet
              /\ list.errors[i].number \in Nat
         /\ list.capacity \in Nat /\ Len(added) \in Nat
         /\ DOMAIN added = 1..Len(added)
<1>1. ArrayOK /\ NumbersOK /\ TextsOK /\ AddOK
  BY DEF ListInv
<1>2. list.errors \in Seq(EntrySet) /\ added \in Seq(Errors) /\ list.capacity \in Nat
  BY <1>1 DEF ArrayOK
<1>3. DOMAIN list.errors = 1..Len(list.errors) /\ Len(list.errors) \in Nat
  BY <1>2, LenProperties
<1>4. Len(added) \in Nat /\ DOMAIN added = 1..Len(added)
  BY <1>2, LenProperties
<1>5. ASSUME NEW i \in DOMAIN list.errors
      PROVE  list.errors[i] \in EntrySet /\ list.errors[i].number \in Nat
  <2>1. list.errors[i] \in EntrySet
    BY <1>2, <1>3, <1>5, ElementOfSeq
  <2>. QED BY <2>1 DEF EntrySet
<1>. QED BY <1>1, <1>2, <1>3, <1>4, <1>5

\* A list that has to grow was given more errors than it has room for, so its
\* new array is one of those the arena has been asked to be fit for.
LEMMA GrownFits ==
  ASSUME ListInv, call[1] = "grow"
  PROVE  list.capacity <= Len(added) - 1 /\ ErrorSize * (2 * list.capacity) \in Sizes
<1>1. list.array # NoPtr
  BY DEF ListInv
<1>2. /\ ArrayOK /\ NumbersOK /\ AddOK
      /\ DOMAIN list.errors = 1..Len(list.errors) /\ Len(list.errors) \in Nat
      /\ \A i \in DOMAIN list.errors : list.errors[i].number \in Nat
      /\ list.capacity \in Nat /\ Len(added) \in Nat
  BY <1>1, ListFacts
<1>3. InitCap \in Nat \ {0} /\ MaxAdds \in Nat
  BY ClientsAssumption
<1>4. /\ Len(list.errors) = list.capacity /\ InitCap <= list.capacity
      /\ Len(added) <= MaxAdds /\ Completed = Len(added) - 1
  BY <1>2 DEF ArrayOK, AddOK, Completed
<1>5. Len(list.errors) \in DOMAIN list.errors
  BY <1>2, <1>3, <1>4
<1>6. /\ Len(list.errors) <= list.errors[Len(list.errors)].number
      /\ list.errors[Len(list.errors)].number <= Completed
  BY <1>2, <1>5 DEF NumbersOK
<1>7. list.capacity <= Len(added) - 1
  BY <1>2, <1>4, <1>5, <1>6
<1>8. list.capacity \in 1..(MaxAdds - 1)
  BY <1>2, <1>3, <1>4, <1>7
<1>. QED BY <1>7, <1>8, ClientsAssumption

LEMMA GrowStep ==
  ASSUME ClientInv, Grow
  PROVE  ClientInv'
<1>. DEFINE size == ErrorSize * (2 * list.capacity)
<1>1. /\ call = <<"grow">> /\ pool' = pool /\ added' = added /\ interned' = interned
      /\ call[1] = "grow"
  BY DEF Grow
<1>2. list.array # NoPtr
  BY <1>1 DEF ClientInv, ListInv
<1>3. /\ ArrayOK /\ NumbersOK /\ TextsOK /\ AddOK
      /\ DOMAIN list.errors = 1..Len(list.errors) /\ Len(list.errors) \in Nat
      /\ \A i \in DOMAIN list.errors :
           list.errors[i] \in EntrySet /\ list.errors[i].number \in Nat
      /\ list.capacity \in Nat /\ Len(added) \in Nat
      /\ DOMAIN added = 1..Len(added)
  BY <1>2, ListFacts DEF ClientInv
<1>4. InitCap \in Nat \ {0} /\ MaxAdds \in Nat /\ WordAlign \in Aligns
  BY ClientsAssumption
<1>5. Completed = Len(added) - 1
  BY <1>1 DEF Completed
<1>6. Len(list.errors) = list.capacity /\ InitCap <= list.capacity
  BY <1>1, <1>3 DEF ArrayOK, AddOK
<1>7. list.capacity <= Completed /\ size \in Sizes
  BY <1>1, <1>5, GrownFits DEF ClientInv
<1>9. CASE \E r \in Results(size, WordAlign) :
             /\ Alloc(size, WordAlign, r) /\ call' = <<"message">>
             /\ list' = [list EXCEPT !.array = r, !.capacity = 2 * @]
  <2>1. PICK r : /\ Alloc(size, WordAlign, r) /\ call' = <<"message">>
                 /\ list' = [list EXCEPT !.array = r, !.capacity = 2 * @]
    BY <1>9
  <2>2. /\ ArenaInv' /\ r \in RegionSet /\ r.size = size
        /\ ToSet(live') = ToSet(live) \cup {r}
    BY <1>4, <1>7, <2>1, NewRegion DEF ClientInv
  <2>3. /\ list' \in [array : RegionSet, capacity : Nat, errors : Seq(EntrySet)]
        /\ list'.array = r /\ list'.capacity = 2 * list.capacity
        /\ list'.errors = list.errors /\ call'[1] = "message"
    <3>1. list \in [array : RegionSet, capacity : Nat, errors : Seq(EntrySet)]
      BY <1>3 DEF ArrayOK
    <3>2. 2 * list.capacity \in Nat
      BY <1>3
    <3>. QED BY <2>1, <2>2, <3>1, <3>2
  <2>4. InitCap <= 2 * list.capacity /\ Len(list.errors) < 2 * list.capacity
    BY <1>3, <1>4, <1>6
  <2>5. ArrayOK'
    <3>1. list'.array.size = ErrorSize * list'.capacity
      BY <2>2, <2>3
    <3>. QED BY <1>1, <1>3, <2>2, <2>3, <2>4, <3>1 DEF ArrayOK
  <2>6. Completed' = Completed
    BY <1>1, <2>3 DEF Completed
  <2>7. NumbersOK'
    BY <1>3, <2>3, <2>6 DEF NumbersOK
  <2>8. TextsOK'
    BY <1>1, <1>3, <2>2, <2>3 DEF TextsOK, IsTextAt
  <2>9. AddOK'
    BY <1>1, <1>3, <2>3, <2>4 DEF AddOK
  <2>10. ListInv'
    <3>1. r # NoPtr
      BY <2>2, ClientsAssumption DEF RegionSet
    <3>. QED BY <2>3, <2>5, <2>7, <2>8, <2>9, <3>1 DEF ListInv
  <2>11. PoolInv'
    BY <1>1, <2>2, <2>3, PoolKept DEF ClientInv
  <2>12. CallShape'
    BY <2>1 DEF CallShape
  <2>. QED BY <2>2, <2>10, <2>11, <2>12 DEF ClientInv
<1>10. CASE AllocFails(size, WordAlign) /\ call' = <<"idle">> /\ list' = list
  <2>1. ArenaInv' /\ ToSet(live) \subseteq ToSet(live') /\ call'[1] = "idle"
    BY <1>4, <1>7, <1>10, ArenaGoesOn DEF ClientInv
  <2>2. Completed' = Len(added)
    BY <1>1, <2>1 DEF Completed
  <2>3. ArrayOK' /\ TextsOK' /\ AddOK'
    BY <1>1, <1>3, <1>10, <2>1 DEF ArrayOK, TextsOK, AddOK, IsTextAt
  <2>4. NumbersOK'
    <3>1. ASSUME NEW i \in DOMAIN list.errors
          PROVE  list.errors[i].number <= Len(added)
      <4>1. list.errors[i].number <= Completed
        BY <1>3 DEF NumbersOK
      <4>. QED BY <1>3, <1>5, <4>1
    <3>2. ASSUME NEW n \in 1..Len(added), n <= InitCap
          PROVE  \E i \in DOMAIN list.errors : list.errors[i].number = n
      <4>1. n \in 1..Completed
        BY <1>3, <1>4, <1>5, <1>6, <1>7, <3>2
      <4>. QED BY <1>3, <3>2, <4>1 DEF NumbersOK
    <3>. QED BY <1>3, <1>10, <2>2, <3>1, <3>2 DEF NumbersOK
  <2>5. ListInv'
    BY <1>2, <1>10, <2>1, <2>3, <2>4 DEF ListInv
  <2>6. PoolInv'
    BY <1>1, <2>1, PoolKept DEF ClientInv
  <2>7. CallShape'
    BY <1>10 DEF CallShape
  <2>. QED BY <2>1, <2>5, <2>6, <2>7 DEF ClientInv
<1>. QED BY <1>9, <1>10 DEF Grow, AllocThen, Return

\* The entry oas_error_list_add puts behind the others, with the copy of the
\* message or without it.
LEMMA OneMoreError ==
  ASSUME ListInv, list.array # NoPtr, call[1] = "message", added' = added,
         ToSet(live) \subseteq ToSet(live'),
         NEW m \in RegionSet \cup {NoPtr},
         m # NoPtr => m \in ToSet(live') /\ m.size = SizeOf[Last(added).message],
         list' = [list EXCEPT !.errors = Append(@, Entry_(Len(added), m))],
         call' = IF Last(added).path = NoPtr THEN <<"idle">> ELSE <<"path">>
  PROVE  ListInv'
<1>. DEFINE e == Entry_(Len(added), m)
            n == Len(list.errors)
<1>1. /\ ArrayOK /\ NumbersOK /\ TextsOK /\ AddOK
      /\ DOMAIN list.errors = 1..n /\ n \in Nat
      /\ \A i \in DOMAIN list.errors :
           list.errors[i] \in EntrySet /\ list.errors[i].number \in Nat
      /\ list.capacity \in Nat /\ Len(added) \in Nat
  BY ListFacts
<1>2. /\ e \in EntrySet /\ e.number = Len(added) /\ e.message = m /\ e.path = NoPtr
  BY <1>1 DEF Entry_, EntrySet
<1>3. list \in [array : RegionSet, capacity : Nat, errors : Seq(EntrySet)]
  BY <1>1 DEF ArrayOK
<1>. HIDE DEF e
<1>4. /\ list' = [list EXCEPT !.errors = Append(list.errors, e)]
      /\ list'.array = list.array /\ list'.capacity = list.capacity
      /\ list'.errors = Append(list.errors, e)
  BY <1>3 DEF e
<1>5. /\ list'.errors \in Seq(EntrySet) /\ Len(list'.errors) = n + 1
      /\ DOMAIN list'.errors = 1..(n + 1) /\ list'.errors[n + 1] = e
      /\ \A i \in 1..n : list'.errors[i] = list.errors[i]
  BY <1>2, <1>3, <1>4, AppendProperties, LenProperties
<1>6. /\ Len(added) > 0 /\ n < list.capacity
      /\ Completed = Len(added) - 1 /\ Completed' = Len(added)
      /\ call'[1] = IF Last(added).path = NoPtr THEN "idle" ELSE "path"
  <2>1. call'[1] = IF Last(added).path = NoPtr THEN "idle" ELSE "path"
    OBVIOUS
  <2>. QED BY <1>1, <2>1 DEF Completed, AddOK
<1>7. ArrayOK'
  <2>1. list' \in [array : RegionSet, capacity : Nat, errors : Seq(EntrySet)]
    BY <1>3, <1>4, <1>5
  <2>. QED BY <1>1, <1>4, <1>5, <1>6, <2>1 DEF ArrayOK
<1>8. NumbersOK'
  <2>1. ASSUME NEW i \in 1..(n + 1)
        PROVE  i <= list'.errors[i].number /\ list'.errors[i].number <= Len(added)
    <3>1. CASE i = n + 1
      <4>1. n <= Completed
        <5>1. CASE n = 0
          BY <1>1, <1>6, <5>1
        <5>2. CASE n # 0
          <6>1. n \in DOMAIN list.errors
            BY <1>1, <5>2
          <6>. QED BY <1>1, <1>6, <6>1 DEF NumbersOK
        <5>. QED BY <5>1, <5>2
      <4>. QED BY <1>1, <1>2, <1>5, <1>6, <3>1, <4>1
    <3>2. CASE i \in 1..n
      BY <1>1, <1>5, <1>6, <3>2 DEF NumbersOK
    <3>. QED BY <1>1, <3>1, <3>2
  <2>2. ASSUME NEW i \in 1..(n + 1), NEW j \in 1..(n + 1), i < j
        PROVE  list'.errors[i].number < list'.errors[j].number
    <3>1. i \in 1..n /\ list'.errors[i] = list.errors[i]
      BY <1>1, <1>5, <2>2
    <3>2. CASE j = n + 1
      BY <1>1, <1>2, <1>5, <1>6, <3>1, <3>2 DEF NumbersOK
    <3>3. CASE j \in 1..n
      BY <1>1, <1>5, <2>2, <3>1, <3>3 DEF NumbersOK
    <3>. QED BY <1>1, <3>2, <3>3
  <2>3. ASSUME NEW k \in 1..Len(added), k <= InitCap
        PROVE  \E i \in 1..(n + 1) : list'.errors[i].number = k
    <3>1. CASE k = Len(added)
      <4>1. n + 1 \in 1..(n + 1)
        BY <1>1
      <4>. QED BY <1>2, <1>5, <3>1, <4>1
    <3>2. CASE k # Len(added)
      <4>1. k \in 1..Completed
        BY <1>1, <1>6, <3>2
      <4>2. PICK i \in 1..n : list.errors[i].number = k
        BY <1>1, <2>3, <4>1 DEF NumbersOK
      <4>. QED BY <1>1, <1>5, <4>2
    <3>. QED BY <3>1, <3>2
  <2>. QED BY <1>5, <1>6, <2>1, <2>2, <2>3 DEF NumbersOK
<1>9. TextsOK'
  <2>1. ASSUME NEW i \in 1..(n + 1)
        PROVE  /\ \/ list'.errors[i].message = NoPtr
                  \/ /\ list'.errors[i].message \in ToSet(live')
                     /\ list'.errors[i].message.size
                           = SizeOf[added[list'.errors[i].number].message]
               /\ list'.errors[i].path # NoPtr =>
                    /\ list'.errors[i].path \in ToSet(live')
                    /\ list'.errors[i].path.size
                          = SizeOf[added[list'.errors[i].number].path]
    <3>1. CASE i = n + 1
      BY <1>2, <1>5, <3>1 DEF Last
    <3>2. CASE i \in 1..n
      <4>1. i \in DOMAIN list.errors /\ list'.errors[i] = list.errors[i]
        BY <1>1, <1>5, <3>2
      <4>2. /\ \/ list.errors[i].message = NoPtr
               \/ /\ list.errors[i].message \in ToSet(live)
                  /\ list.errors[i].message.size = SizeOf[added[list.errors[i].number].message]
            /\ list.errors[i].path # NoPtr =>
                 /\ list.errors[i].path \in ToSet(live)
                 /\ list.errors[i].path.size = SizeOf[added[list.errors[i].number].path]
        <5>. HIDE DEF n
        <5>1. TextsOK
          BY <1>1
        <5>. QED BY <4>1, <5>1 DEF TextsOK, IsTextAt
      <4>. QED BY <4>1, <4>2
    <3>3. i = n + 1 \/ i \in 1..n
      BY <1>1
    <3>. QED BY <3>1, <3>2, <3>3, Zenon
  <2>2. DOMAIN list'.errors = 1..(n + 1) /\ added' = added
    BY <1>5
  <2>. HIDE DEF n
  <2>. QED BY <2>1, <2>2 DEF TextsOK, IsTextAt
<1>10. AddOK'
  BY <1>1, <1>2, <1>5, <1>6 DEF AddOK, Last
<1>. QED BY <1>4, <1>6, <1>7, <1>8, <1>9, <1>10 DEF ListInv

\* The texts of the error in progress that are copied.
LEMMA TextsToCopy ==
  ASSUME ClientInv, call[1] \in {"message", "path"}
  PROVE  /\ Last(added).message \in Strings
         /\ call[1] = "path" => Last(added).path \in Strings
<1>1. list.array # NoPtr /\ ListInv
  BY DEF ClientInv, ListInv
<1>2. /\ added \in Seq(Errors) /\ Len(added) \in Nat /\ Len(added) > 0
      /\ call[1] = "path" => Last(added).path # NoPtr
  BY <1>1, ListFacts DEF ArrayOK, AddOK
<1>3. Last(added) \in Errors
  BY <1>2, ElementOfSeq DEF Last
<1>. QED BY <1>2, <1>3, ClientsAssumption

LEMMA MessageStep ==
  ASSUME ClientInv, Message
  PROVE  ClientInv'
<1>. DEFINE e == Last(added)
<1>1. /\ call = <<"message">> /\ pool' = pool /\ added' = added /\ interned' = interned
      /\ call[1] = "message"
      /\ call' = IF e.path = NoPtr THEN <<"idle">> ELSE <<"path">>
  BY DEF Message
<1>2. list.array # NoPtr /\ ListInv
  BY <1>1 DEF ClientInv, ListInv
<1>3. e.message \in Strings
  BY <1>1, TextsToCopy
<1>4. SizeOf[e.message] \in Sizes /\ 1 \in Aligns
  BY <1>3, ClientsAssumption
<1>5. call'[1] \in {"idle", "path"} /\ CallShape'
  <2>1. call' = <<"idle">> \/ call' = <<"path">>
    BY <1>1
  <2>2. <<"idle">>[1] = "idle" /\ <<"path">>[1] = "path"
    OBVIOUS
  <2>3. CallShape'
    BY <2>1 DEF CallShape
  <2>. QED BY <2>1, <2>2, <2>3
<1>6. CASE \E r \in Results(SizeOf[e.message], 1) :
             /\ Alloc(SizeOf[e.message], 1, r)
             /\ list' = [list EXCEPT !.errors = Append(@, Entry_(Len(added), r))]
  <2>1. PICK r : /\ Alloc(SizeOf[e.message], 1, r)
                 /\ list' = [list EXCEPT !.errors = Append(@, Entry_(Len(added), r))]
    BY <1>6
  <2>2. /\ ArenaInv' /\ r \in RegionSet /\ r.size = SizeOf[e.message]
        /\ ToSet(live') = ToSet(live) \cup {r}
    BY <1>4, <2>1, NewRegion DEF ClientInv
  <2>3. ListInv'
    BY <1>1, <1>2, <2>1, <2>2, OneMoreError
  <2>4. PoolInv'
    BY <1>1, <1>5, <2>2, PoolKept DEF ClientInv
  <2>. QED BY <1>5, <2>2, <2>3, <2>4 DEF ClientInv
<1>7. CASE /\ AllocFails(SizeOf[e.message], 1)
           /\ list' = [list EXCEPT !.errors = Append(@, Entry_(Len(added), NoPtr))]
  <2>1. ArenaInv' /\ ToSet(live) \subseteq ToSet(live')
    BY <1>4, <1>7, ArenaGoesOn DEF ClientInv
  <2>2. ListInv'
    BY <1>1, <1>2, <1>7, <2>1, OneMoreError
  <2>3. PoolInv'
    BY <1>1, <1>5, <2>1, PoolKept DEF ClientInv
  <2>. QED BY <1>5, <2>1, <2>2, <2>3 DEF ClientInv
<1>. QED BY <1>6, <1>7 DEF Message, AllocThen

\* The path of the entry that was added last.
LEMMA WithPath ==
  ASSUME ListInv, list.array # NoPtr, call[1] = "path", added' = added,
         ToSet(live) \subseteq ToSet(live'),
         NEW q \in RegionSet \cup {NoPtr},
         q # NoPtr => q \in ToSet(live') /\ q.size = SizeOf[Last(added).path],
         list' = [list EXCEPT !.errors[Len(list.errors)].path = q],
         call' = <<"idle">>
  PROVE  ListInv'
<1>. DEFINE n == Len(list.errors)
            e == [list.errors[n] EXCEPT !.path = q]
<1>1. /\ ArrayOK /\ NumbersOK /\ TextsOK /\ AddOK
      /\ DOMAIN list.errors = 1..n /\ n \in Nat
      /\ \A i \in DOMAIN list.errors :
           list.errors[i] \in EntrySet /\ list.errors[i].number \in Nat
      /\ list.capacity \in Nat /\ Len(added) \in Nat
  BY ListFacts
<1>2. /\ n \in 1..n /\ list.errors[n].number = Len(added) /\ Len(added) > 0
  BY <1>1 DEF AddOK
<1>3. list \in [array : RegionSet, capacity : Nat, errors : Seq(EntrySet)]
  BY <1>1 DEF ArrayOK
<1>4. /\ e \in EntrySet /\ e.number = Len(added) /\ e.path = q
      /\ e.message = list.errors[n].message
  <2>1. list.errors[n] \in EntrySet
    BY <1>1, <1>2
  <2>. QED BY <1>2, <2>1 DEF EntrySet
<1>5. /\ list' = [list EXCEPT !.errors = [list.errors EXCEPT ![n] = e]]
      /\ list'.array = list.array /\ list'.capacity = list.capacity
      /\ list'.errors = [list.errors EXCEPT ![n] = e]
  BY <1>3
<1>. HIDE DEF e
<1>6. /\ list'.errors \in Seq(EntrySet) /\ Len(list'.errors) = n
      /\ DOMAIN list'.errors = 1..n /\ list'.errors[n] = e
      /\ \A i \in 1..n : i # n => list'.errors[i] = list.errors[i]
  <2>1. PICK es, l : es = list.errors /\ l = n
    OBVIOUS
  <2>2. es \in Seq(EntrySet) /\ Len(es) = l /\ l \in 1..l /\ DOMAIN es = 1..l
    BY <1>1, <1>2, <1>3, <2>1
  <2>3. l \in DOMAIN es
    BY <2>2
  <2>. DEFINE fs == [es EXCEPT ![l] = e]
  <2>4. /\ fs \in Seq(EntrySet) /\ Len(fs) = l /\ DOMAIN fs = 1..l /\ fs[l] = e
        /\ \A i \in 1..l : i # l => fs[i] = es[i]
    BY <1>4, <2>2, <2>3, ExceptSeq
  <2>5. list'.errors = fs
    BY <1>5, <2>1
  <2>. QED BY <2>1, <2>4, <2>5
<1>7. \A i \in 1..n : /\ list'.errors[i].number = list.errors[i].number
                     /\ list'.errors[i].message = list.errors[i].message
  BY <1>2, <1>4, <1>6
<1>8. call'[1] = "idle" /\ Completed' = Completed
  BY DEF Completed
<1>9. ArrayOK'
  <2>1. list' \in [array : RegionSet, capacity : Nat, errors : Seq(EntrySet)]
    BY <1>3, <1>5, <1>6
  <2>. QED BY <1>1, <1>5, <1>6, <2>1 DEF ArrayOK
<1>10. NumbersOK'
  <2>1. \A i \in 1..n :
          i <= list'.errors[i].number /\ list'.errors[i].number <= Completed
    BY <1>1, <1>7 DEF NumbersOK
  <2>2. \A i, j \in 1..n : i < j => list'.errors[i].number < list'.errors[j].number
    BY <1>1, <1>7 DEF NumbersOK
  <2>3. \A k \in 1..Completed : k <= InitCap => \E i \in 1..n : list'.errors[i].number = k
    BY <1>1, <1>7 DEF NumbersOK
  <2>. QED BY <1>6, <1>8, <2>1, <2>2, <2>3 DEF NumbersOK
<1>11. TextsOK'
  <2>1. ASSUME NEW i \in 1..n
        PROVE  /\ \/ list'.errors[i].message = NoPtr
                  \/ /\ list'.errors[i].message \in ToSet(live')
                     /\ list'.errors[i].message.size
                           = SizeOf[added[list'.errors[i].number].message]
               /\ list'.errors[i].path # NoPtr =>
                    /\ list'.errors[i].path \in ToSet(live')
                    /\ list'.errors[i].path.size
                          = SizeOf[added[list'.errors[i].number].path]
    <3>1. CASE i = n
      <4>1. /\ list'.errors[i].number = Len(added)
            /\ list'.errors[i].message = list.errors[i].message
            /\ list'.errors[i].number = list.errors[i].number
            /\ list'.errors[i].path = q /\ i \in DOMAIN list.errors
        BY <1>1, <1>2, <1>4, <1>6, <1>7, <3>1
      <4>2. \/ list.errors[i].message = NoPtr
            \/ /\ list.errors[i].message \in ToSet(live')
               /\ list.errors[i].message.size = SizeOf[added[list.errors[i].number].message]
        BY <1>1, <4>1 DEF TextsOK, IsTextAt
      <4>3. q # NoPtr => q \in ToSet(live') /\ q.size = SizeOf[added[Len(added)].path]
        BY DEF Last
      <4>. QED BY <4>1, <4>2, <4>3, Zenon
    <3>2. CASE i # n
      <4>1. i \in DOMAIN list.errors /\ list'.errors[i] = list.errors[i]
        BY <1>1, <1>6, <3>2
      <4>2. /\ \/ list.errors[i].message = NoPtr
               \/ /\ list.errors[i].message \in ToSet(live)
                  /\ list.errors[i].message.size = SizeOf[added[list.errors[i].number].message]
            /\ list.errors[i].path # NoPtr =>
                 /\ list.errors[i].path \in ToSet(live)
                 /\ list.errors[i].path.size = SizeOf[added[list.errors[i].number].path]
        <5>. HIDE DEF n
        <5>1. TextsOK
          BY <1>1
        <5>. QED BY <4>1, <5>1 DEF TextsOK, IsTextAt
      <4>. QED BY <4>1, <4>2
    <3>. QED BY <3>1, <3>2, Zenon
  <2>2. DOMAIN list'.errors = 1..n /\ added' = added
    BY <1>6
  <2>. HIDE DEF n
  <2>. QED BY <2>1, <2>2 DEF TextsOK, IsTextAt
<1>12. AddOK'
  BY <1>8 DEF AddOK
<1>. QED BY <1>5, <1>8, <1>9, <1>10, <1>11, <1>12 DEF ListInv

LEMMA PathStep ==
  ASSUME ClientInv, Path
  PROVE  ClientInv'
<1>. DEFINE size == SizeOf[Last(added).path]
<1>1. /\ call = <<"path">> /\ pool' = pool /\ added' = added /\ interned' = interned
      /\ call[1] = "path" /\ call' = <<"idle">> /\ call'[1] = "idle"
  BY DEF Path, Return
<1>2. list.array # NoPtr /\ ListInv
  BY <1>1 DEF ClientInv, ListInv
<1>3. Last(added).path \in Strings
  BY <1>1, TextsToCopy
<1>4. size \in Sizes /\ 1 \in Aligns
  BY <1>3, ClientsAssumption
<1>5. CallShape'
  BY <1>1 DEF CallShape
<1>6. CASE \E r \in Results(size, 1) :
             /\ Alloc(size, 1, r)
             /\ list' = [list EXCEPT !.errors[Len(list.errors)].path = r]
  <2>1. PICK r : /\ Alloc(size, 1, r)
                 /\ list' = [list EXCEPT !.errors[Len(list.errors)].path = r]
    BY <1>6
  <2>2. /\ ArenaInv' /\ r \in RegionSet /\ r.size = size
        /\ ToSet(live') = ToSet(live) \cup {r}
    BY <1>4, <2>1, NewRegion DEF ClientInv
  <2>3. ListInv'
    BY <1>1, <1>2, <2>1, <2>2, WithPath
  <2>4. PoolInv'
    BY <1>1, <2>2, PoolKept DEF ClientInv
  <2>. QED BY <1>5, <2>2, <2>3, <2>4 DEF ClientInv
<1>7. CASE /\ AllocFails(size, 1)
           /\ list' = [list EXCEPT !.errors[Len(list.errors)].path = NoPtr]
  <2>1. ArenaInv' /\ ToSet(live) \subseteq ToSet(live')
    BY <1>4, <1>7, ArenaGoesOn DEF ClientInv
  <2>2. ListInv'
    BY <1>1, <1>2, <1>7, <2>1, WithPath
  <2>3. PoolInv'
    BY <1>1, <2>1, PoolKept DEF ClientInv
  <2>. QED BY <1>5, <2>1, <2>2, <2>3 DEF ClientInv
<1>. QED BY <1>6, <1>7 DEF Path, AllocThen

-----------------------------------------------------------------------------
\* What the steps of the pool have in common: the list is left alone.
LEMMA PoolHeaderStep ==
  ASSUME ClientInv, PoolHeader
  PROVE  ClientInv'
<1>1. HeaderSize \in Sizes /\ WordAlign \in Aligns
  BY ClientsAssumption
<1>2. /\ call = <<"idle">> /\ pool = NoPtr /\ list' = list /\ pool' = pool
      /\ added' = added /\ interned' = interned
      /\ (\E r : Alloc(HeaderSize, WordAlign, r)) \/ AllocFails(HeaderSize, WordAlign)
      /\ call' = <<"idle">> \/ call' = <<"buckets">>
  BY DEF PoolHeader, AllocThen, Idle
<1>3. ArenaInv' /\ ToSet(live) \subseteq ToSet(live')
  BY <1>1, <1>2, ArenaGoesOn DEF ClientInv
<1>4. call[1] = "idle" /\ call'[1] \in {"idle", "buckets"}
  <2>1. <<"idle">>[1] = "idle" /\ <<"buckets">>[1] = "buckets"
    OBVIOUS
  <2>. QED BY <1>2, <2>1
<1>5. CallShape'
  BY <1>2 DEF CallShape
<1>6. ListInv'
  BY <1>2, <1>3, <1>4, ListKept DEF ClientInv, Elsewhere
<1>7. PoolInv'
  BY <1>2, <1>3, <1>4, PoolKept DEF ClientInv
<1>. QED BY <1>3, <1>5, <1>6, <1>7 DEF ClientInv

LEMMA PoolBucketsStep ==
  ASSUME ClientInv, PoolBuckets
  PROVE  ClientInv'
<1>. DEFINE size == PointerSize * Cardinality(Buckets)
<1>1. size \in Sizes /\ WordAlign \in Aligns
  BY ClientsAssumption
<1>2. /\ call = <<"buckets">> /\ call[1] = "buckets"
      /\ call' = <<"idle">> /\ call'[1] = "idle"
      /\ list' = list /\ added' = added /\ interned' = interned
      /\ (\E r : Alloc(size, WordAlign, r)) \/ AllocFails(size, WordAlign)
      /\ pool' = pool \/ pool' = NoPool
  BY DEF PoolBuckets, AllocThen, Return
<1>3. ArenaInv' /\ ToSet(live) \subseteq ToSet(live')
  BY <1>1, <1>2, ArenaGoesOn DEF ClientInv
<1>4. CallShape'
  BY <1>2 DEF CallShape
<1>5. ListInv'
  BY <1>2, <1>3, ListKept DEF ClientInv, Elsewhere
<1>6. PoolInv'
  <2>1. CASE pool' = pool
    BY <1>2, <1>3, <2>1, PoolKept DEF ClientInv
  <2>2. CASE pool' = NoPool
    <3>1. interned' = {}
      BY <1>2 DEF ClientInv, PoolInv
    <3>2. \A b \in Buckets : pool'[b] = <<>>
      BY <2>2 DEF NoPool
    <3>3. <<>> \in Seq([str : Strings, at : RegionSet]) /\ DOMAIN <<>> = {}
      BY EmptySeq, SMT
    <3>4. \A b \in Buckets : ToSet(pool'[b]) = {}
      BY <3>2, <3>3 DEF ToSet
    <3>5. Entries' = {}
      BY <3>4 DEF Entries
    <3>6. pool' \in BucketLists
      BY <2>2, <3>3 DEF NoPool, BucketLists
    <3>7. PoolOK'
      BY <3>1, <3>4, <3>5, <3>6 DEF PoolOK
    <3>8. InternOK'
      BY <1>2 DEF InternOK
    <3>. QED BY <1>2, <3>1, <3>7, <3>8 DEF PoolInv
  <2>. QED BY <1>2, <2>1, <2>2
<1>. QED BY <1>3, <1>4, <1>5, <1>6 DEF ClientInv

\* The search of a bucket finds the entry of the string when there is one.
LEMMA FoundFacts ==
  ASSUME PoolOK, NEW str \in Strings
  PROVE  /\ Found(str) # 0 =>
              \E e \in Entries : e.str = str /\ e.at = pool[BucketOf[str]][Found(str)].at
         /\ Found(str) = 0 => \A e \in Entries : e.str # str
<1>. DEFINE b == BucketOf[str]
            q == pool[b]
            I == {i \in 1..Len(q) : Matches(q[i], str)}
<1>1. b \in Buckets
  BY DEF Buckets
<1>2. q \in Seq([str : Strings, at : RegionSet])
  BY <1>1 DEF PoolOK, BucketLists
<1>3. DOMAIN q = 1..Len(q) /\ Len(q) \in Nat
  BY <1>2, LenProperties
<1>4. Found(str) = IF I # {} THEN Min(I) ELSE 0
  BY DEF Found, SelectInSeq
<1>5. CASE I # {}
  <2>1. I \in SUBSET Nat
    BY <1>3
  <2>2. \E i \in I : \A j \in I : i <= j
    <3>. HIDE DEF I
    <3>. QED BY <1>5, <2>1, LeastElement
  <2>3. Min(I) \in I
    <3>. HIDE DEF I
    <3>. QED BY <2>2 DEF Min
  <2>4. /\ Found(str) \in 1..Len(q) /\ q[Found(str)].str = str
    BY <1>4, <1>5, <2>3 DEF Matches
  <2>5. q[Found(str)] \in Entries
    BY <1>1, <1>3, <2>4 DEF Entries, ToSet
  <2>. QED BY <1>3, <2>4, <2>5
<1>6. CASE I = {}
  <2>1. ASSUME NEW e \in Entries, e.str = str PROVE FALSE
    <3>1. PICK c \in Buckets : e \in ToSet(pool[c])
      BY DEF Entries
    <3>2. c = b
      BY <2>1, <3>1 DEF PoolOK
    <3>3. PICK i \in 1..Len(q) : e = q[i]
      BY <1>3, <3>1, <3>2 DEF ToSet
    <3>. QED BY <1>6, <2>1, <3>3 DEF Matches
  <2>2. Found(str) = 0
    BY <1>4, <1>6
  <2>. QED BY <2>1, <2>2
<1>. QED BY <1>5, <1>6

LEMMA InternStep ==
  ASSUME ClientInv, NEW str \in Strings, Intern(str)
  PROVE  ClientInv'
<1>1. /\ call = <<"idle">> /\ call[1] = "idle" /\ pool # NoPtr /\ pool' = pool
      /\ list' = list /\ added' = added /\ UNCHANGED arenaVars /\ live' = live
  BY DEF Intern, Idle, arenaVars
<1>2. PoolOK
  BY <1>1 DEF ClientInv, PoolInv
<1>3. ArenaInv'
  BY <1>1, Unchanged_ DEF ClientInv
<1>4. Entries' = Entries
  BY <1>1 DEF Entries
<1>5. CASE Found(str) # 0
  <2>1. /\ interned' = interned \cup {<<str, pool[BucketOf[str]][Found(str)].at>>}
        /\ call' = <<"idle">> /\ call'[1] = "idle"
    BY <1>1, <1>5 DEF Intern
  <2>2. PICK e \in Entries : e.str = str /\ e.at = pool[BucketOf[str]][Found(str)].at
    BY <1>2, <1>5, FoundFacts
  <2>3. interned' \subseteq {<<f.str, f.at>> : f \in Entries}
    BY <1>2, <2>1, <2>2 DEF PoolOK
  <2>4. PoolOK' /\ InternOK'
    BY <1>1, <1>2, <1>4, <2>1, <2>3 DEF PoolOK, InternOK
  <2>5. PoolInv'
    BY <1>1, <2>1, <2>4 DEF PoolInv
  <2>6. ListInv'
    BY <1>1, <2>1, ListKept DEF ClientInv, Elsewhere
  <2>7. CallShape'
    BY <2>1 DEF CallShape
  <2>. QED BY <1>3, <2>5, <2>6, <2>7 DEF ClientInv
<1>6. CASE Found(str) = 0
  <2>1. /\ interned' = interned /\ call' = <<"copy", str>>
        /\ call'[1] = "copy" /\ call'[2] = str
    BY <1>1, <1>6 DEF Intern
  <2>2. \A e \in Entries : e.str # str
    BY <1>2, <1>6, FoundFacts
  <2>3. PoolOK' /\ InternOK'
    BY <1>1, <1>2, <1>4, <2>1, <2>2 DEF PoolOK, InternOK
  <2>4. PoolInv'
    BY <1>1, <2>1, <2>3 DEF PoolInv
  <2>5. ListInv'
    BY <1>1, <2>1, ListKept DEF ClientInv, Elsewhere
  <2>6. CallShape'
    BY <2>1 DEF CallShape
  <2>. QED BY <1>3, <2>4, <2>5, <2>6 DEF ClientInv
<1>. QED BY <1>5, <1>6

\* The parts of a call that has got further than its name.
LEMMA CallParts ==
  ASSUME CallShape
  PROVE  /\ call[1] = "copy" => call[2] \in Strings
         /\ call[1] = "entry" => call[2] \in Strings /\ call[3] \in RegionSet
<1>1. ASSUME call \in {<<"idle">>, <<"list array">>, <<"grow">>, <<"message">>, <<"path">>,
                      <<"buckets">>}
      PROVE  call[1] \notin {"copy", "entry"}
  <2>1. /\ <<"idle">>[1] = "idle" /\ <<"list array">>[1] = "list array"
        /\ <<"grow">>[1] = "grow" /\ <<"message">>[1] = "message"
        /\ <<"path">>[1] = "path" /\ <<"buckets">>[1] = "buckets"
    OBVIOUS
  <2>. QED BY <1>1, <2>1
<1>2. ASSUME NEW s \in Strings, call = <<"copy", s>>
      PROVE  call[1] = "copy" /\ call[2] \in Strings
  BY <1>2
<1>3. ASSUME NEW s \in Strings, NEW r \in RegionSet, call = <<"entry", s, r>>
      PROVE  call[1] = "entry" /\ call[2] \in Strings /\ call[3] \in RegionSet
  BY <1>3
<1>. QED BY <1>1, <1>2, <1>3 DEF CallShape

LEMMA CopyStep ==
  ASSUME ClientInv, Copy
  PROVE  ClientInv'
<1>1. /\ call[1] = "copy" /\ pool' = pool /\ list' = list /\ added' = added
      /\ interned' = interned
  BY DEF Copy
<1>2. call[2] \in Strings
  BY <1>1, CallParts DEF ClientInv
<1>3. PICK str \in Strings : str = call[2]
  BY <1>2
<1>4. SizeOf[str] \in Sizes /\ 1 \in Aligns
  BY ClientsAssumption
<1>5. pool # NoPtr /\ PoolOK /\ InternOK
  BY <1>1 DEF ClientInv, PoolInv
<1>6. CASE \E r \in Results(SizeOf[str], 1) :
             Alloc(SizeOf[str], 1, r) /\ call' = <<"entry", str, r>>
  <2>1. PICK r : Alloc(SizeOf[str], 1, r) /\ call' = <<"entry", str, r>>
    BY <1>6
  <2>2. /\ ArenaInv' /\ r \in RegionSet /\ r \notin ToSet(live)
        /\ ToSet(live') = ToSet(live) \cup {r}
    BY <1>4, <2>1, NewRegion DEF ClientInv
  <2>3. call'[1] = "entry" /\ call'[2] = str /\ call'[3] = r
    BY <2>1
  <2>4. Entries' = Entries
    BY <1>1 DEF Entries
  <2>5. PoolOK'
    BY <1>1, <1>5, <2>2, <2>4 DEF PoolOK
  <2>6. InternOK'
    <3>1. \A e \in Entries : e.str # str
      BY <1>1, <1>3, <1>5 DEF InternOK
    <3>2. \A e \in Entries : e.at # r
      BY <1>5, <2>2 DEF PoolOK
    <3>. QED BY <2>2, <2>3, <2>4, <3>1, <3>2 DEF InternOK
  <2>7. PoolInv'
    BY <1>1, <1>5, <2>3, <2>5, <2>6 DEF PoolInv
  <2>8. ListInv'
    BY <1>1, <2>2, <2>3, ListKept DEF ClientInv, Elsewhere
  <2>9. CallShape'
    BY <2>1, <2>2 DEF CallShape
  <2>. QED BY <2>2, <2>7, <2>8, <2>9 DEF ClientInv
<1>7. CASE AllocFails(SizeOf[str], 1) /\ call' = <<"idle">>
  <2>1. ArenaInv' /\ ToSet(live) \subseteq ToSet(live') /\ call'[1] = "idle"
    BY <1>4, <1>7, ArenaGoesOn DEF ClientInv
  <2>2. ListInv' /\ PoolInv'
    BY <1>1, <2>1, ListKept, PoolKept DEF ClientInv, Elsewhere
  <2>3. CallShape'
    BY <1>7 DEF CallShape
  <2>. QED BY <2>1, <2>2, <2>3 DEF ClientInv
<1>. QED BY <1>3, <1>6, <1>7 DEF Copy, AllocThen, Return

\* A new entry in front of a bucket.
LEMMA OneMoreEntry ==
  ASSUME PoolOK, NEW e \in [str : Strings, at : RegionSet],
         \A f \in Entries : f.str # e.str /\ f.at # e.at,
         e.at \in ToSet(live'), ToSet(live) \subseteq ToSet(live'),
         pool' = [pool EXCEPT ![BucketOf[e.str]] = <<e>> \o @],
         interned' = interned \cup {<<e.str, e.at>>}
  PROVE  PoolOK'
<1>. DEFINE b == BucketOf[e.str]
            ES == [str : Strings, at : RegionSet]
<1>1. b \in Buckets
  BY DEF Buckets
<1>2. pool \in [Buckets -> Seq(ES)]
  BY DEF PoolOK, BucketLists
<1>3. PICK q : q = pool[b]
  OBVIOUS
<1>4. q \in Seq(ES) /\ <<e>> \in Seq(ES) /\ <<e>> \o q \in Seq(ES)
  <2>1. q \in Seq(ES)
    BY <1>1, <1>2, <1>3
  <2>2. <<e>> \in Seq(ES)
    OBVIOUS
  <2>. HIDE DEF ES
  <2>. QED BY <2>1, <2>2, ConcatProperties
<1>5. ToSet(<<e>> \o q) = ToSet(q) \cup {e}
  <2>1. Range(<<e>> \o q) = Range(<<e>>) \cup Range(q)
    <3>1. \A p \in Seq(ES) : \A r \in Seq(ES) : Range(p \o r) = Range(p) \cup Range(r)
      BY RangeConcatenation, Zenon
    <3>. HIDE DEF ES
    <3>. QED BY <1>4, <3>1, Zenon
  <2>2. Range(<<e>>) = {e}
    BY DEF Range
  <2>. QED BY <2>1, <2>2 DEF ToSet, Range
<1>6. /\ pool' \in [Buckets -> Seq(ES)] /\ pool'[b] = <<e>> \o q
      /\ \A c \in Buckets : c # b => pool'[c] = pool[c]
  BY <1>1, <1>2, <1>3, <1>4
<1>7. /\ ToSet(pool'[b]) = ToSet(pool[b]) \cup {e}
      /\ \A c \in Buckets : c # b => ToSet(pool'[c]) = ToSet(pool[c])
  BY <1>3, <1>5, <1>6
<1>8. Entries' = Entries \cup {e}
  <2>1. Entries' = UNION {ToSet(pool'[c]) : c \in Buckets}
    BY DEF Entries, ToSet
  <2>2. ASSUME NEW f \in Entries' PROVE f \in Entries \cup {e}
    <3>1. PICK c \in Buckets : f \in ToSet(pool'[c])
      BY <2>1
    <3>. QED BY <1>7, <3>1 DEF Entries
  <2>3. ASSUME NEW f \in Entries PROVE f \in Entries'
    <3>1. PICK c \in Buckets : f \in ToSet(pool[c])
      BY DEF Entries
    <3>2. f \in ToSet(pool'[c])
      BY <1>7, <3>1
    <3>. QED BY <2>1, <3>2
  <2>4. e \in Entries'
    BY <1>1, <1>7, <2>1
  <2>. QED BY <2>2, <2>3, <2>4
<1>9. \A c \in Buckets : \A f \in ToSet(pool'[c]) : BucketOf[f.str] = c
  BY <1>1, <1>7 DEF PoolOK
<1>10. \A f \in Entries' : f.at \in ToSet(live')
  BY <1>8 DEF PoolOK
<1>11. \A f, g \in Entries' : f.str = g.str <=> f.at = g.at
  BY <1>8 DEF PoolOK
<1>12. interned' \subseteq {<<f.str, f.at>> : f \in Entries'}
  BY <1>8 DEF PoolOK
<1>13. ToSet(live)' = ToSet(live')
  BY DEF ToSet
<1>. QED BY <1>6, <1>9, <1>10, <1>11, <1>12, <1>13 DEF PoolOK, BucketLists

LEMMA InternEntryStep ==
  ASSUME ClientInv, InternEntry
  PROVE  ClientInv'
<1>1. /\ call[1] = "entry" /\ call' = <<"idle">> /\ call'[1] = "idle"
      /\ list' = list /\ added' = added
  BY DEF InternEntry, Return
<1>2. call[2] \in Strings /\ call[3] \in RegionSet
  BY <1>1, CallParts DEF ClientInv
<1>3. EntrySize \in Sizes /\ WordAlign \in Aligns
  BY ClientsAssumption
<1>4. pool # NoPtr /\ PoolOK /\ InternOK
  BY <1>1 DEF ClientInv, PoolInv
<1>5. CallShape'
  BY <1>1 DEF CallShape
<1>. DEFINE e == [str |-> call[2], at |-> call[3]]
<1>6. CASE \E r \in Results(EntrySize, WordAlign) :
             /\ Alloc(EntrySize, WordAlign, r)
             /\ pool' = [pool EXCEPT ![BucketOf[call[2]]] = <<e>> \o @]
             /\ interned' = interned \cup {<<call[2], call[3]>>}
  <2>1. PICK r : /\ Alloc(EntrySize, WordAlign, r)
                 /\ pool' = [pool EXCEPT ![BucketOf[call[2]]] = <<e>> \o @]
                 /\ interned' = interned \cup {<<call[2], call[3]>>}
    BY <1>6
  <2>2. ArenaInv' /\ ToSet(live) \subseteq ToSet(live')
    BY <1>3, <2>1, NewRegion DEF ClientInv
  <2>3. e \in [str : Strings, at : RegionSet] /\ e.str = call[2] /\ e.at = call[3]
    BY <1>2
  <2>4. e.at \in ToSet(live') /\ \A f \in Entries : f.str # e.str /\ f.at # e.at
    BY <1>1, <1>4, <2>2, <2>3 DEF InternOK
  <2>5. PoolOK'
    <3>. HIDE DEF e
    <3>1. PICK d \in [str : Strings, at : RegionSet] : d = e
      BY <2>3
    <3>2. /\ pool' = [pool EXCEPT ![BucketOf[d.str]] = <<d>> \o @]
          /\ interned' = interned \cup {<<d.str, d.at>>}
      BY <2>1, <2>3, <3>1
    <3>3. d.at \in ToSet(live') /\ \A f \in Entries : f.str # d.str /\ f.at # d.at
      BY <2>4, <3>1
    <3>. QED BY <1>4, <2>2, <3>2, <3>3, OneMoreEntry
  <2>6. pool' # NoPtr
    BY <2>5, ClientsAssumption DEF PoolOK
  <2>7. InternOK'
    BY <1>1 DEF InternOK
  <2>8. PoolInv'
    BY <1>1, <2>5, <2>6, <2>7 DEF PoolInv
  <2>9. ListInv'
    BY <1>1, <2>2, ListKept DEF ClientInv, Elsewhere
  <2>. QED BY <1>5, <2>2, <2>8, <2>9 DEF ClientInv
<1>7. CASE AllocFails(EntrySize, WordAlign) /\ UNCHANGED <<pool, interned>>
  <2>1. ArenaInv' /\ ToSet(live) \subseteq ToSet(live')
    BY <1>3, <1>7, ArenaGoesOn DEF ClientInv
  <2>2. ListInv' /\ PoolInv'
    BY <1>1, <1>7, <2>1, ListKept, PoolKept DEF ClientInv, Elsewhere
  <2>. QED BY <1>5, <2>1, <2>2 DEF ClientInv
<1>. QED BY <1>6, <1>7 DEF InternEntry, AllocThen

-----------------------------------------------------------------------------
\* Without clients everything said of them holds.
LEMMA NoClients ==
  ASSUME list' = NoList, pool' = NoPtr, call' = <<"idle">>, added' = <<>>, interned' = {}
  PROVE  CallShape' /\ ListInv' /\ PoolInv'
<1>1. call'[1] = "idle"
  OBVIOUS
<1>. QED BY <1>1 DEF CallShape, ListInv, PoolInv, NoList

LEMMA OwnerStep ==
  ASSUME ClientInv, Owner
  PROVE  ClientInv'
<1>1. CallShape' /\ ListInv' /\ PoolInv'
  BY NoClients DEF Owner, Fresh
<1>2. ArenaInv'
  BY CreateStep, ResetStep, DestroyStep DEF Owner, ClientInv
<1>. QED BY <1>1, <1>2 DEF ClientInv

\* Every reachable state of the two clients satisfies the invariant.
THEOREM ClientInvariant == RequestsFit /\ Spec => []ClientInv
<1>1. RequestsFit /\ Init => ClientInv
  <2>. SUFFICES ASSUME RequestsFit, Init PROVE ClientInv
    OBVIOUS
  <2>1. ArenaInv
    BY InitInv DEF Init
  <2>2. call[1] = "idle"
    BY DEF Init
  <2>3. CallShape /\ ListInv /\ PoolInv
    BY <2>2 DEF Init, CallShape, ListInv, PoolInv, NoList
  <2>. QED BY <2>1, <2>3 DEF ClientInv
<1>2. ClientInv /\ [Next]_vars => ClientInv'
  <2>. SUFFICES ASSUME ClientInv, [Next]_vars PROVE ClientInv'
    OBVIOUS
  <2>1. CASE Owner BY <2>1, OwnerStep
  <2>2. CASE ListHeader BY <2>2, ListHeaderStep
  <2>3. CASE ListArray BY <2>3, ListArrayStep
  <2>4. CASE Grow BY <2>4, GrowStep
  <2>5. CASE Message BY <2>5, MessageStep
  <2>6. CASE Path BY <2>6, PathStep
  <2>7. CASE PoolHeader BY <2>7, PoolHeaderStep
  <2>8. CASE PoolBuckets BY <2>8, PoolBucketsStep
  <2>9. CASE Copy BY <2>9, CopyStep
  <2>10. CASE InternEntry BY <2>10, InternEntryStep
  <2>11. CASE \E e \in Errors : AddError(e) BY <2>11, AddErrorStep
  <2>12. CASE \E s \in Strings : Intern(s) BY <2>12, InternStep
  <2>13. CASE UNCHANGED vars
    <3>1. ArenaInv'
      BY <2>13, Unchanged_ DEF vars, arenaVars, ClientInv
    <3>2. /\ list' = list /\ pool' = pool /\ call' = call /\ added' = added
          /\ interned' = interned /\ live' = live
      BY <2>13 DEF vars
    <3>3. CallShape'
      BY <3>2 DEF ClientInv, CallShape
    <3>4. ListInv'
      BY <3>2 DEF ClientInv, ListInv, ArrayOK, NumbersOK, TextsOK, AddOK, Completed,
                  IsTextAt, NoList
    <3>5. PoolInv'
      BY <3>2 DEF ClientInv, PoolInv, PoolOK, InternOK, Entries
    <3>. QED BY <3>1, <3>3, <3>4, <3>5 DEF ClientInv
  <2>. QED BY <2>1, <2>2, <2>3, <2>4, <2>5, <2>6, <2>7, <2>8, <2>9, <2>10, <2>11,
              <2>12, <2>13 DEF Next
<1>. QED BY <1>1, <1>2, PTL DEF Spec

\* What the clients do to the arena are calls of its functions with sizes and
\* alignments it was proved for: no list grows beyond them.
THEOREM ClientsUseTheArena == RequestsFit /\ Spec => ArenaSpec
<1>1. Init => ArenaInit
  BY DEF Init
<1>2. ClientInv /\ [Next]_vars => [ArenaNext]_arenaVars
  <2>. SUFFICES ASSUME ClientInv, [Next]_vars PROVE [ArenaNext]_arenaVars
    OBVIOUS
  <2>. DEFINE Request(s, n) == (\E r \in Results(s, n) : Alloc(s, n, r)) \/ AllocFails(s, n)
  <2>1. ASSUME NEW s \in Sizes, NEW n \in Aligns, Request(s, n) PROVE ArenaNext
    BY <2>1 DEF ArenaNext
  <2>2. CASE Owner
    BY <2>2 DEF Owner, ArenaNext
  <2>3. /\ {HeaderSize, EntrySize, ErrorSize * InitCap} \subseteq Sizes
        /\ PointerSize * Cardinality(Buckets) \in Sizes
        /\ {1, WordAlign} \subseteq Aligns
    BY ClientsAssumption
  <2>4. CASE ListHeader
    <3>1. Request(HeaderSize, WordAlign)
      BY <2>4 DEF ListHeader, AllocThen
    <3>. QED BY <2>1, <2>3, <3>1
  <2>5. CASE ListArray
    <3>1. Request(ErrorSize * InitCap, WordAlign)
      BY <2>5 DEF ListArray, AllocThen
    <3>. QED BY <2>1, <2>3, <3>1
  <2>6. CASE Grow
    <3>1. Request(ErrorSize * (2 * list.capacity), WordAlign)
      BY <2>6 DEF Grow, AllocThen
    <3>2. call[1] = "grow" /\ ListInv
      BY <2>6 DEF Grow, ClientInv
    <3>3. ErrorSize * (2 * list.capacity) \in Sizes
      BY <3>2, GrownFits
    <3>. QED BY <2>1, <2>3, <3>1, <3>3
  <2>7. CASE Message
    <3>1. Request(SizeOf[Last(added).message], 1)
      BY <2>7 DEF Message, AllocThen
    <3>2. Last(added).message \in Strings
      BY <2>7, TextsToCopy DEF Message
    <3>. QED BY <2>1, <2>3, <3>1, <3>2, ClientsAssumption
  <2>8. CASE Path
    <3>1. Request(SizeOf[Last(added).path], 1)
      BY <2>8 DEF Path, AllocThen
    <3>2. Last(added).path \in Strings
      BY <2>8, TextsToCopy DEF Path
    <3>. QED BY <2>1, <2>3, <3>1, <3>2, ClientsAssumption
  <2>9. CASE PoolHeader
    <3>1. Request(HeaderSize, WordAlign)
      BY <2>9 DEF PoolHeader, AllocThen
    <3>. QED BY <2>1, <2>3, <3>1
  <2>10. CASE PoolBuckets
    <3>1. Request(PointerSize * Cardinality(Buckets), WordAlign)
      BY <2>10 DEF PoolBuckets, AllocThen
    <3>. QED BY <2>1, <2>3, <3>1
  <2>11. CASE Copy
    <3>1. Request(SizeOf[call[2]], 1)
      BY <2>11 DEF Copy, AllocThen
    <3>2. call[2] \in Strings
      BY <2>11, CallParts DEF Copy, ClientInv
    <3>. QED BY <2>1, <2>3, <3>1, <3>2, ClientsAssumption
  <2>12. CASE InternEntry
    <3>1. Request(EntrySize, WordAlign)
      BY <2>12 DEF InternEntry, AllocThen
    <3>. QED BY <2>1, <2>3, <3>1
  <2>13. CASE (\E e \in Errors : AddError(e)) \/ (\E s \in Strings : Intern(s))
    BY <2>13 DEF AddError, Intern
  <2>14. CASE UNCHANGED vars
    BY <2>14 DEF vars, arenaVars
  <2>. HIDE DEF Request
  <2>. QED BY <2>2, <2>4, <2>5, <2>6, <2>7, <2>8, <2>9, <2>10, <2>11, <2>12, <2>13,
              <2>14 DEF Next
<1>. QED BY <1>1, <1>2, ClientInvariant, PTL DEF Spec, ArenaSpec

\* A list holds the errors it had room for in the order in which they were
\* added, its first InitCap always, whatever allocation failed.
THEOREM ErrorsStayInOrder == RequestsFit /\ Spec => []ErrorsKeptInOrder
<1>1. ClientInv => ErrorsKeptInOrder
  <2>. SUFFICES ASSUME ClientInv, list.array # NoPtr PROVE ErrorsKeptInOrder
    BY DEF ErrorsKeptInOrder
  <2>1. ArrayOK /\ NumbersOK /\ TextsOK
    BY DEF ClientInv, ListInv
  <2>2. DOMAIN Numbers = DOMAIN list.errors
    BY DEF Numbers
  <2>3. \A i \in DOMAIN list.errors : Numbers[i] = list.errors[i].number
    BY DEF Numbers
  <2>4. ToSet(Numbers) = {list.errors[i].number : i \in DOMAIN list.errors}
    BY <2>2, <2>3 DEF ToSet
  <2>5. \A n \in 1..Completed : n <= InitCap => n \in ToSet(Numbers)
    BY <2>1, <2>4 DEF NumbersOK
  <2>6. \A i, j \in DOMAIN Numbers : i < j => Numbers[i] < Numbers[j]
    BY <2>1, <2>2, <2>3 DEF NumbersOK
  <2>. QED BY <2>1, <2>5, <2>6 DEF ErrorsKeptInOrder, ArrayOK, TextsOK
<1>. QED BY <1>1, ClientInvariant, PTL

\* A string has one pointer, which no other string has and which stays live.
THEOREM StringsHaveOnePointer == RequestsFit /\ Spec => []InternedOnce
<1>1. ClientInv => InternedOnce
  <2>. SUFFICES ASSUME ClientInv, NEW x \in interned, NEW y \in interned
                PROVE  /\ (x[1] = y[1]) <=> (x[2] = y[2])
                       /\ x[2] \in ToSet(live)
    BY DEF InternedOnce
  <2>1. PoolOK
    BY DEF ClientInv, PoolInv
  <2>2. PICK e \in Entries : x = <<e.str, e.at>>
    BY <2>1 DEF PoolOK
  <2>3. PICK f \in Entries : y = <<f.str, f.at>>
    BY <2>1 DEF PoolOK
  <2>4. x[1] = e.str /\ x[2] = e.at /\ y[1] = f.str /\ y[2] = f.at
    BY <2>2, <2>3
  <2>. QED BY <2>1, <2>4 DEF PoolOK
<1>. QED BY <1>1, ClientInvariant, PTL
=============================================================================
