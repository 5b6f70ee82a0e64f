----------------------------- MODULE MSAGCProofs -----------------------------
(***************************************************************************)
(* The invariants of the garbage-collecting allocator.                     *)
(*                                                                         *)
(* The inductive invariant IInv has four parts.  HeapInv: every block is   *)
(* well formed and counts no fewer segments than are in use there.         *)
(* Balanced: the counters of the heap are the sums over its blocks.        *)
(* HeldInv: what the program holds is in use.  MarkInv and SweepInv: while *)
(* sweep runs, it is at the start of a segment and its two pointers are    *)
(* next to each other in the free list, the first of them behind it; marks *)
(* are only ahead of it, and everything ahead of it that the program holds *)
(* of allocGC has one, so that what it releases is not held.               *)
(***************************************************************************)
EXTENDS MSAGC, MSAProofs

-----------------------------------------------------------------------------
(* What is held and what is marked in a heap.                              *)

\* The segments of S are in use in the heap h.
HeldInv(h, S) == \A s \in S : s.blk \in Ids(h) /\ s.off \in Used(h, Pos(h, s.blk))

\* The marked segments, as pairs of position and offset.
Marks(h) == {x \in Nat \X Nat : x[2] \in Used(h, x[1]) /\ h.blks[x[1]].seg[x[2]].mark}

\* The blocks of h are in g, in the same order.
Aligned(h, g) ==
    /\ Len(h.blks) <= Len(g.blks)
    /\ \A i \in 1 .. Len(h.blks) : g.blks[i].id = h.blks[i].id

\* A pair is a mark if the segment there has one,
LEMMA MarkIs ==
    ASSUME NEW h, NEW i \in Nat, NEW o \in Nat
    PROVE  <<i, o>> \in Marks(h) <=> o \in Used(h, i) /\ h.blks[i].seg[o].mark
  BY DEF Marks

\* and every mark is such a pair.
LEMMA MarkPair ==
    ASSUME NEW h, NEW x \in Marks(h)
    PROVE  /\ x[1] \in Nat /\ x[2] \in Nat /\ x = <<x[1], x[2]>>
           /\ x[2] \in Used(h, x[1]) /\ h.blks[x[1]].seg[x[2]].mark
  BY DEF Marks

\* A segment in use is one of a block that is well formed.
LEMMA UsedFacts ==
    ASSUME NEW h, HeapInv(h), NEW i, NEW o \in Used(h, i)
    PROVE  /\ i \in 1 .. Len(h.blks) /\ i \in Nat /\ o \in UsedSet(h.blks[i].seg)
           /\ o \in DOMAIN h.blks[i].seg /\ o \in Nat /\ BlkInv(h.blks[i])
           /\ h.blks[i].seg[o] \in SegDescr
  <1>1. i \in 1 .. Len(h.blks) /\ o \in UsedSet(h.blks[i].seg)
    BY DEF Used
  <1>2. BlkInv(h.blks[i]) /\ h.blks[i].seg \in SegMaps
    BY <1>1 DEF HeapInv, BlkInv, Segments
  <1>3. o \in DOMAIN h.blks[i].seg
    BY <1>1 DEF UsedSet
  <1> QED BY <1>1, <1>2, <1>3, SegMapElim

\* A block keeps its position when blocks are added behind it.
LEMMA AlignedPos ==
    ASSUME NEW h, HeapInv(h), NEW g, HeapInv(g), Aligned(h, g), NEW id \in Ids(h)
    PROVE  id \in Ids(g) /\ Pos(g, id) = Pos(h, id)
  <1>1. Pos(h, id) \in 1 .. Len(h.blks) /\ h.blks[Pos(h, id)].id = id
    BY PosOf
  <1>2. Len(h.blks) \in Nat /\ Len(g.blks) \in Nat
    BY HeapFields DEF HeapInv
  <1>3. Pos(h, id) \in 1 .. Len(g.blks) /\ g.blks[Pos(h, id)].id = id
    BY <1>1, <1>2 DEF Aligned
  <1> QED BY <1>3, PosOf

\* What is held is still in use if its offsets are.
LEMMA HeldStays ==
    ASSUME NEW h, HeapInv(h), NEW g, HeapInv(g), Aligned(h, g), NEW S, HeldInv(h, S),
           \A s \in S : s.off \in Used(g, Pos(h, s.blk))
    PROVE  HeldInv(g, S)
  BY AlignedPos DEF HeldInv

\* What is held stays in use when nothing is released.
LEMMA KeptHeld ==
    ASSUME NEW h, HeapInv(h), NEW g, HeapInv(g), Kept(h, g), NEW S, HeldInv(h, S),
           \A i \in Nat : Used(h, i) \subseteq Used(g, i)
    PROVE  HeldInv(g, S)
  <1>1. Aligned(h, g)
    BY DEF Kept, Aligned
  <1>2. ASSUME NEW s \in S PROVE s.off \in Used(g, Pos(h, s.blk))
    <2>1. s.off \in Used(h, Pos(h, s.blk))
      BY DEF HeldInv
    <2> QED BY <2>1, UsedFacts
  <1> QED BY <1>1, <1>2, HeldStays

\* A segment in use gets another descriptor of the same length.
Reflagged(b, o, d) ==
    [id |-> b.id, len |-> b.len, seg |-> [b.seg EXCEPT ![o] = d], free |-> b.free,
     maxFree |-> b.maxFree, nAlloc |-> b.nAlloc, nFree |-> b.nFree]

Reflags(b, o, d) ==
    /\ d \in SegDescr /\ d.len = b.seg[o].len /\ d.st # "free"
    /\ d.mark => d.st = "gc"

\* allocGC and mark set flags of a descriptor: the block is as it was otherwise.
LEMMA ReflagInv ==
    ASSUME NEW b, BlkInv(b), NEW o \in UsedSet(b.seg), NEW d, Reflags(b, o, d)
    PROVE  LET e == Reflagged(b, o, d)
           IN  /\ BlkInv(e) /\ e.id = b.id /\ e.len = b.len /\ e.free = b.free
               /\ DOMAIN e.seg = DOMAIN b.seg /\ UsedSet(e.seg) = UsedSet(b.seg)
               /\ e.seg[o] = d /\ \A x \in DOMAIN b.seg : x # o => e.seg[x] = b.seg[x]
  <1> DEFINE t == [b.seg EXCEPT ![o] = d]
             e == Reflagged(b, o, d)
  <1>1. /\ b \in Blk /\ Segments(b.seg, DataLen(b)) /\ Lists(b.free, FreeSet(b.seg))
        /\ b.nFree = Len(b.free) /\ b.nAlloc >= Cardinality(UsedSet(b.seg))
    BY DEF BlkInv
  <1>2. DOMAIN b.seg \subseteq Nat /\ b.seg \in [DOMAIN b.seg -> SegDescr] /\ o \in DOMAIN b.seg
    BY <1>1, SegMapElim DEF Segments, UsedSet
  <1>3. d \in SegDescr /\ d.len = b.seg[o].len /\ d.st # "free" /\ (d.mark => d.st = "gc")
    BY DEF Reflags
  <1>4. DOMAIN t = DOMAIN b.seg /\ t[o] = d /\ \A x \in DOMAIN b.seg : x # o => t[x] = b.seg[x]
    BY <1>2
  <1>5. t \in SegMaps
    BY <1>2, <1>3, SegMapIntro
  <1>6. e = [id |-> b.id, len |-> b.len, seg |-> t, free |-> b.free,
             maxFree |-> b.maxFree, nAlloc |-> b.nAlloc, nFree |-> b.nFree]
    BY DEF Reflagged
  <1> HIDE DEF t, e
  <1>7. \A x \in DOMAIN t : t[x].len = b.seg[x].len /\ (t[x].st = "free" <=> b.seg[x].st = "free")
    BY <1>2, <1>3, <1>4 DEF UsedSet
  <1>8. UsedSet(t) = UsedSet(b.seg) /\ FreeSet(t) = FreeSet(b.seg)
    BY <1>4, <1>7 DEF UsedSet, FreeSet
  <1>9. Tiled(t, DataLen(b))
    <2>1. Tiled(b.seg, DataLen(b))
      BY <1>1 DEF Segments
    <2>2. \A x \in UsedSet(t) : t[x].len > 0
      BY <2>1, <1>4, <1>7, <1>8 DEF Tiled, UsedSet
    <2>3. \A x \in DOMAIN b.seg : t[x].len = b.seg[x].len
      BY <1>4, <1>7
    <2> QED BY ONLY <2>1, <2>2, <2>3, <1>4 DEF Tiled
  <1>10. Apart(t)
    <2>1. Apart(b.seg)
      BY <1>1 DEF Segments
    <2>2. \A x \in FreeSet(t) : t[x].len = b.seg[x].len
      BY <1>7 DEF FreeSet
    <2> QED BY ONLY <2>1, <2>2, <1>8 DEF Apart
  <1>11. MarkedGC(t)
    BY <1>1, <1>3, <1>4 DEF MarkedGC, Segments
  <1>12. /\ e.id = b.id /\ e.len = b.len /\ e.seg = t /\ e.free = b.free
         /\ e.nAlloc = b.nAlloc /\ e.nFree = b.nFree /\ e.maxFree = b.maxFree
    BY ONLY <1>6
  <1>13. e \in Blk /\ DataLen(e) = DataLen(b)
    BY <1>1, <1>5, <1>6, <1>12, BlkFields DEF Blk, DataLen
  <1>14. BlkInv(e)
    BY ONLY <1>1, <1>5, <1>8, <1>9, <1>10, <1>11, <1>12, <1>13 DEF BlkInv, Segments
  <1> QED BY ONLY <1>4, <1>8, <1>12, <1>14 DEF e

\* g is h with descriptor d at o of the block at j, which is in use.
ReflaggedHeap(h, g, j, o, d) ==
    /\ HeapInv(g) /\ Aligned(h, g) /\ Len(g.blks) = Len(h.blks) /\ Ids(g) = Ids(h)
    /\ g.blks[j].free = h.blks[j].free /\ g.blks[j].len = h.blks[j].len
    /\ DOMAIN g.blks[j].seg = DOMAIN h.blks[j].seg
    /\ \A i \in Nat : Used(g, i) = Used(h, i)
    /\ g.blks[j].seg[o] = d
    /\ \A i \in Nat : \A x \in Used(h, i) :
         <<i, x>> # <<j, o>> => g.blks[i].seg[x] = h.blks[i].seg[x]
    /\ Marks(g) = IF d.mark THEN Marks(h) \cup {<<j, o>>} ELSE Marks(h) \ {<<j, o>>}
    /\ Balanced(h) => Balanced(g)

\* The same segments and blocks of the same lengths are the same sums.
LEMMA LensBalanced ==
    ASSUME NEW h, NEW g, Len(g.blks) = Len(h.blks),
           \A i \in 1 .. Len(h.blks) : g.blks[i].len = h.blks[i].len,
           \A i \in Nat : Used(g, i) = Used(h, i),
           \A i \in Nat : \A x \in Used(h, i) : g.blks[i].seg[x].len = h.blks[i].seg[x].len,
           g.nSeg = h.nSeg, g.currUse = h.currUse, g.totUse = h.totUse, Balanced(h)
    PROVE  Balanced(g)
  <1>1. Uses(g) = Uses(h)
    BY DEF Uses
  <1>2. \A x \in Uses(h) : g.blks[x[1]].seg[x[2]].len = h.blks[x[1]].seg[x[2]].len
    BY UsePair
  <1>3. UseLens(g) = UseLens(h)
    BY <1>1, <1>2 DEF UseLens
  <1>4. BlkLens(g) = BlkLens(h)
    BY DEF BlkLens
  <1> QED BY <1>1, <1>3, <1>4 DEF Balanced, Booked

\* The same for the heap.
LEMMA ReflagAt ==
    ASSUME NEW h, HeapInv(h), NEW j \in 1 .. Len(h.blks), NEW o \in UsedSet(h.blks[j].seg),
           NEW d, Reflags(h.blks[j], o, d), NEW g,
           g = Put(h, j, Reflagged(h.blks[j], o, d), h.curr, h.nSeg, h.currUse)
    PROVE  ReflaggedHeap(h, g, j, o, d)
  <1> DEFINE b == h.blks[j]
             e == Reflagged(b, o, d)
  <1>1. h \in Heap /\ BlkInv(b) /\ h.curr \in Ids(h) \cup {None} /\ h.nSeg \in Int /\ h.currUse \in Int
    BY HeapFields DEF HeapInv
  <1>2. /\ BlkInv(e) /\ e.id = b.id /\ e.len = b.len /\ e.free = b.free
        /\ DOMAIN e.seg = DOMAIN b.seg /\ UsedSet(e.seg) = UsedSet(b.seg)
        /\ e.seg[o] = d /\ \A x \in DOMAIN b.seg : x # o => e.seg[x] = b.seg[x]
    <2>1. o \in UsedSet(b.seg) /\ Reflags(b, o, d) /\ BlkInv(b)
      BY <1>1
    <2> HIDE DEF b
    <2> QED BY ONLY <2>1, ReflagInv
  <1> HIDE DEF e
  <1>3. Replaced(h, g, j, e)
    <2>1. g = Put(h, j, e, h.curr, h.nSeg, h.currUse)
      BY DEF e
    <2> QED BY ONLY <2>1, <1>1, <1>2, HeapInv(h), j \in 1 .. Len(h.blks), ReplacedInv
  <1>4. /\ HeapInv(g) /\ Len(g.blks) = Len(h.blks) /\ Ids(g) = Ids(h) /\ g.blks[j] = e
        /\ \A i \in 1 .. Len(h.blks) : i # j => g.blks[i] = h.blks[i]
    BY <1>3 DEF Replaced
  <1>5. Aligned(h, g)
    <2>1. Len(h.blks) \in Nat
      BY <1>1, HeapFields
    <2> QED BY <2>1, <1>2, <1>4 DEF Aligned
  <1>6. ASSUME NEW i \in Nat PROVE Used(g, i) = Used(h, i)
    BY <1>2, <1>4 DEF Used
  <1>7. ASSUME NEW i \in Nat, NEW x \in Used(h, i), <<i, x>> # <<j, o>>
        PROVE  g.blks[i].seg[x] = h.blks[i].seg[x]
    <2>1. i \in 1 .. Len(h.blks) /\ x \in DOMAIN h.blks[i].seg
      BY UsedFacts
    <2>2. CASE i = j
      BY <2>1, <2>2, <1>2, <1>4, <1>7
    <2>3. CASE i # j
      BY <2>1, <2>3, <1>4
    <2> QED BY <2>2, <2>3
  <1>8. j \in Nat /\ o \in Nat /\ o \in Used(h, j)
    <2>1. o \in Used(h, j)
      BY DEF Used
    <2> QED BY <2>1, UsedFacts
  <1>9. ASSUME NEW i \in Nat, NEW x \in Nat
        PROVE  <<i, x>> \in Marks(g) <=> \/ <<i, x>> = <<j, o>> /\ d.mark
                                         \/ <<i, x>> # <<j, o>> /\ <<i, x>> \in Marks(h)
    <2>1. CASE <<i, x>> = <<j, o>>
      BY <2>1, <1>2, <1>4, <1>6, <1>8, MarkIs
    <2>2. CASE <<i, x>> # <<j, o>>
      <3>1. x \in Used(h, i) => g.blks[i].seg[x] = h.blks[i].seg[x]
        BY ONLY <2>2, <1>7, i \in Nat
      <3>2. Used(g, i) = Used(h, i)
        BY <1>6
      <3> QED BY ONLY <2>2, <3>1, <3>2, i \in Nat, x \in Nat, MarkIs
    <2> QED BY <2>1, <2>2
  <1>10. Marks(g) = IF d.mark THEN Marks(h) \cup {<<j, o>>} ELSE Marks(h) \ {<<j, o>>}
    <2>1. <<j, o>> \in Nat \X Nat /\ Marks(g) \subseteq Nat \X Nat /\ Marks(h) \subseteq Nat \X Nat
      BY <1>8 DEF Marks
    <2>2. d.mark \in BOOLEAN
      BY DEF Reflags, SegDescr
    <2>3. \A y \in Nat \X Nat : y \in Marks(g) <=> \/ y = <<j, o>> /\ d.mark
                                                   \/ y # <<j, o>> /\ y \in Marks(h)
      BY ONLY <1>9
    <2> QED BY ONLY <2>1, <2>2, <2>3
  <1>11. Balanced(h) => Balanced(g)
    <2> SUFFICES ASSUME Balanced(h) PROVE Balanced(g)
      OBVIOUS
    <2>1. g.nSeg = h.nSeg /\ g.currUse = h.currUse /\ g.totUse = h.totUse
      BY DEF Put
    <2>2. \A i \in 1 .. Len(h.blks) : g.blks[i].len = h.blks[i].len
      BY <1>2, <1>4
    <2>3. e.seg[o].len = b.seg[o].len
      BY <1>2 DEF Reflags
    <2>4. ASSUME NEW i \in Nat, NEW x \in Used(h, i)
          PROVE  g.blks[i].seg[x].len = h.blks[i].seg[x].len
      <3>1. CASE <<i, x>> = <<j, o>>
        <4>1. i = j /\ x = o
          BY <3>1
        <4> QED BY <4>1, <2>3, <1>4
      <3>2. CASE <<i, x>> # <<j, o>>
        BY <3>2, <1>7
      <3> QED BY <3>1, <3>2
    <2> QED BY ONLY <2>1, <2>2, <2>4, <1>4, <1>6, Balanced(h), LensBalanced
  <1> QED BY <1>2, <1>4, <1>5, <1>6, <1>7, <1>10, <1>11 DEF ReflaggedHeap

-----------------------------------------------------------------------------
(* Allocation, while nothing is marked.                                    *)

\* Without marks before, and none on what was added, there are none.
LEMMA KeptUnmarked ==
    ASSUME NEW h, HeapInv(h), NEW g, HeapInv(g), Kept(h, g), Marks(h) = {},
           \A i \in Nat : \A x \in Used(g, i) \ Used(h, i) : ~g.blks[i].seg[x].mark
    PROVE  Marks(g) = {}
  <1> SUFFICES ASSUME NEW y \in Marks(g) PROVE FALSE
    OBVIOUS
  <1>1. PICK i \in Nat, x \in Nat : y = <<i, x>> /\ x \in Used(g, i) /\ g.blks[i].seg[x].mark
    BY MarkPair
  <1>2. x \in Used(h, i)
    BY <1>1
  <1>3. i \in 1 .. Len(h.blks)
    BY <1>2, UsedFacts
  <1>4. g.blks[i].seg[x] = h.blks[i].seg[x]
    BY <1>2, <1>3 DEF Kept
  <1> QED BY <1>1, <1>2, <1>4, MarkIs

\* The heap g of the call that the program goes on with, and all it holds then.
Served(g, S) ==
    /\ HeapInv(g) /\ Balanced(g)
    /\ S \subseteq [blk : Nat, off : Nat] /\ HeldInv(g, S) /\ Marks(g) = {}

\* A call that takes nothing leaves the program with what it held.
LEMMA ServedSame ==
    ASSUME NEW h, NEW S, Served(h, S), NEW g, HeapInv(g), Balanced(g), Same(h, g)
    PROVE  Served(g, S)
  <1>1. Kept(h, g) /\ \A i \in Nat : Used(g, i) = Used(h, i)
    BY DEF Same
  <1>2. HeldInv(g, S)
    BY <1>1, KeptHeld DEF Served
  <1>3. Marks(g) = {}
    BY <1>1, KeptUnmarked DEF Served
  <1> QED BY <1>2, <1>3 DEF Served

\* A call that takes a segment adds it to what the program holds.
LEMMA ServedMore ==
    ASSUME NEW h, NEW S, Served(h, S), NEW g, Balanced(g), NEW s, NEW r, Taking(h, g, s, r)
    PROVE  /\ Served(g, S \cup {s}) /\ s # NoSegment
           /\ s.blk \in Ids(g) /\ Pos(g, s.blk) \in 1 .. Len(g.blks)
           /\ s.off \in UsedSet(g.blks[Pos(g, s.blk)].seg)
           /\ g.blks[Pos(g, s.blk)].seg[s.off] = AllocDescr(r)
  <1>1. HeapInv(g)
    BY DEF Taking
  <1>2. PICK j \in 1 .. Len(g.blks), o \in Nat :
          s = [blk |-> g.blks[j].id, off |-> o] /\ More(h, g, j, o, r)
    BY DEF Taking
  <1>3. s.blk = g.blks[j].id /\ s.off = o /\ s.blk \in Nat /\ s \in [blk : Nat, off : Nat] /\ s # NoSegment
    <2>1. g.blks[j].id \in Nat
      BY <1>1, BlkFields DEF HeapInv, BlkInv
    <2> QED BY <2>1, <1>2 DEF NoSegment, None
  <1>4. s.blk \in Ids(g) /\ Pos(g, s.blk) = j
    BY <1>1, <1>3, PosOf
  <1>5. /\ Kept(h, g) /\ g.blks[j].seg[o] = AllocDescr(r)
        /\ \A i \in Nat : Used(g, i) = Used(h, i) \cup (IF i = j THEN {o} ELSE {})
    BY <1>2 DEF More
  <1>6. HeldInv(g, S)
    BY <1>1, <1>5, KeptHeld DEF Served
  <1>7. o \in Used(g, j)
    BY <1>5
  <1>8. Marks(g) = {}
    <2>1. \A i \in Nat : \A x \in Used(g, i) \ Used(h, i) : ~g.blks[i].seg[x].mark
      BY <1>5 DEF AllocDescr
    <2> QED BY <2>1, <1>1, <1>5, KeptUnmarked DEF Served
  <1>9. HeldInv(g, S \cup {s})
    BY <1>3, <1>4, <1>6, <1>7 DEF HeldInv
  <1> QED BY <1>1, <1>3, <1>4, <1>5, <1>7, <1>8, <1>9 DEF Served, Used

\* alloc serves the program, whether it finds a segment or not.
LEMMA AllocServes ==
    ASSUME NEW h, NEW S, Served(h, S), NEW a, NEW r, Allocated(h, a, r)
    PROVE  Served(a.heap, S \cup ({a.seg} \ {NoSegment}))
  <1>0. Balanced(a.heap)
    BY DEF Allocated, Served
  <1>1. CASE a.seg = NoSegment /\ HeapInv(a.heap) /\ Same(h, a.heap)
    <2>1. S \cup ({a.seg} \ {NoSegment}) = S
      BY <1>1
    <2> QED BY <2>1, <1>0, <1>1, ServedSame
  <1>2. CASE Taking(h, a.heap, a.seg, r)
    <2>1. Served(a.heap, S \cup {a.seg}) /\ a.seg # NoSegment
      BY <1>0, <1>2, ServedMore
    <2>2. S \cup ({a.seg} \ {NoSegment}) = S \cup {a.seg}
      BY <2>1
    <2> QED BY <2>1, <2>2
  <1> QED BY <1>1, <1>2 DEF Allocated

\* allocGC then flags the segment as its own.
LEMMA ServedReflagged ==
    ASSUME NEW h, NEW S, Served(h, S), NEW j \in 1 .. Len(h.blks), NEW o \in UsedSet(h.blks[j].seg),
           NEW d, ~d.mark, NEW g, ReflaggedHeap(h, g, j, o, d)
    PROVE  Served(g, S)
  <1>1. HeapInv(g) /\ Aligned(h, g) /\ \A i \in Nat : Used(g, i) = Used(h, i)
    BY DEF ReflaggedHeap
  <1>2. ASSUME NEW s \in S PROVE s.off \in Used(g, Pos(h, s.blk))
    <2>1. s.off \in Used(h, Pos(h, s.blk))
      BY DEF HeldInv, Served
    <2> QED BY <2>1, <1>1, UsedFacts DEF Served
  <1>3. HeldInv(g, S)
    BY <1>1, <1>2, HeldStays DEF Served
  <1>4. Marks(g) = {} /\ Balanced(g)
    BY DEF ReflaggedHeap, Served
  <1> QED BY <1>1, <1>3, <1>4 DEF Served

\* The descriptor of a segment of allocGC.
LEMMA FlagDescr ==
    ASSUME NEW x \in SegDescr, NEW r, x = AllocDescr(r)
    PROVE  [x EXCEPT !.st = "gc"] = [len |-> r, st |-> "gc", mark |-> FALSE]
  <1> DEFINE y == [x EXCEPT !.st = "gc"]
  <1>1. x.len = r /\ x.mark = FALSE
    BY DEF AllocDescr
  <1>2. x = [len |-> x.len, st |-> x.st, mark |-> x.mark]
    BY DEF SegDescr
  <1>3. y = [x EXCEPT !.st = "gc"]
    OBVIOUS
  <1> HIDE DEF y
  <1>4. y = [len |-> x.len, st |-> "gc", mark |-> x.mark]
    BY ONLY <1>2, <1>3
  <1> QED BY <1>1, <1>4 DEF y

\* Nothing but its segments changes in a block.
LEMMA SegsOfBlk ==
    ASSUME NEW b \in Blk, NEW t
    PROVE  [b EXCEPT !.seg = t] = [id |-> b.id, len |-> b.len, seg |-> t, free |-> b.free,
                                   maxFree |-> b.maxFree, nAlloc |-> b.nAlloc, nFree |-> b.nFree]
  <1> DEFINE y == [b EXCEPT !.seg = t]
  <1>1. y = [b EXCEPT !.seg = t]
    OBVIOUS
  <1> HIDE DEF y
  <1>2. y = [id |-> b.id, len |-> b.len, seg |-> t, free |-> b.free,
             maxFree |-> b.maxFree, nAlloc |-> b.nAlloc, nFree |-> b.nFree]
    BY ONLY <1>1, b \in Blk DEF Blk
  <1> QED BY <1>2 DEF y

\* allocGC sets its flag on the segment that was taken.
LEMMA FlaggedServes ==
    ASSUME NEW h, NEW S, Served(h, S), NEW a, NEW r, Allocated(h, a, r)
    PROVE  Served(Flagged(a), S \cup ({a.seg} \ {NoSegment}))
  <1>1. CASE a.seg = NoSegment
    <2>1. Flagged(a) = a.heap
      BY <1>1 DEF Flagged
    <2>2. Served(a.heap, S \cup ({a.seg} \ {NoSegment}))
      BY AllocServes
    <2> QED BY ONLY <2>1, <2>2
  <1>2. CASE a.seg # NoSegment
    <2> DEFINE f == a.heap
               T == S \cup ({a.seg} \ {NoSegment})
               j == Pos(f, a.seg.blk)
               o == a.seg.off
               b == f.blks[j]
               d == [len |-> r, st |-> "gc", mark |-> FALSE]
               g == Flagged(a)
    <2>1. Taking(h, f, a.seg, r)
      BY <1>2 DEF Allocated
    <2>3. Served(f, T)
      BY AllocServes
    <2>2. /\ j \in 1 .. Len(f.blks) /\ o \in UsedSet(b.seg) /\ b.seg[o] = AllocDescr(r)
      BY <2>1, <2>3, ServedMore DEF Served
    <2>4. f \in Heap /\ BlkInv(b) /\ b \in Blk /\ DOMAIN f.blks = 1 .. Len(f.blks)
      BY <2>2, <2>3, HeapFields DEF Served, HeapInv, BlkInv
    <2>5. /\ o \in DOMAIN b.seg /\ b.seg[o] \in SegDescr
      BY <2>2, <2>4, SegMapElim DEF BlkInv, Segments, UsedSet
    <2>7. Reflags(b, o, d) /\ ~d.mark
      BY <2>2, <2>5 DEF Reflags, AllocDescr, SegDescr
    <2>8. g = Put(f, j, Reflagged(b, o, d), f.curr, f.nSeg, f.currUse)
      <3>1. g = [f EXCEPT !.blks[j].seg[o].st = "gc"]
        BY <1>2 DEF Flagged
      <3>2. f = [blks |-> f.blks, curr |-> f.curr, nSeg |-> f.nSeg,
                 currUse |-> f.currUse, totUse |-> f.totUse]
        BY <2>4, HeapFields
      <3>4. [f.blks EXCEPT ![j].seg[o].st = "gc"] = [f.blks EXCEPT ![j] = Reflagged(b, o, d)]
        <4>1. [b EXCEPT !.seg[o].st = "gc"] = Reflagged(b, o, d)
          <5>1. [b.seg EXCEPT ![o].st = "gc"] = [b.seg EXCEPT ![o] = d]
            <6>1. [b.seg[o] EXCEPT !.st = "gc"] = d
              BY ONLY <2>2, <2>5, FlagDescr
            <6> QED BY ONLY <6>1
          <5>2. [b EXCEPT !.seg = [b.seg EXCEPT ![o] = d]] = Reflagged(b, o, d)
            BY ONLY <2>4, SegsOfBlk DEF Reflagged
          <5> QED BY ONLY <5>1, <5>2
        <4> QED BY <4>1
      <3> QED BY <3>1, <3>2, <3>4 DEF Put
    <2> HIDE DEF f, T, j, o, b, d, g
    <2>9. ReflaggedHeap(f, g, j, o, d)
      BY <2>2, <2>3, <2>7, <2>8, ReflagAt DEF Served, b
    <2>10. Served(g, T)
      BY <2>2, <2>3, <2>7, <2>9, ServedReflagged DEF b
    <2> QED BY <2>10 DEF g, T
  <1> QED BY <1>1, <1>2

-----------------------------------------------------------------------------
(* The inductive invariant.                                                *)

\* The segment at o of the block at i is still before sweep, which is at f of
\* the block at p and goes to the head of the list; all are while the frames mark.
Ahead(q, p, f, i, o) ==
    \/ q = "mark"
    \/ q \in {"seg", "blk"} /\ i < p
    \/ q = "seg" /\ i = p /\ o >= f

\* Marks are only ahead of sweep, and there all that the program holds of
\* allocGC has one.
MarkInv(h, q, p, f, S) ==
    /\ \A x \in Marks(h) : Ahead(q, p, f, x[1], x[2])
    /\ q \in {"seg", "blk"} =>
         \A s \in S : LET i == Pos(h, s.blk) IN
           h.blks[i].seg[s.off].st = "gc" /\ Ahead(q, p, f, i, s.off) => <<i, s.off>> \in Marks(h)

\* sweep is at a segment of the block, and its pointers are two neighbours in
\* the free list, of which the first is behind.
Between(b, s, m) ==
    /\ m \in 0 .. Len(b.free)
    /\ s.prev = PrevAt(b.free, m) /\ s.next = NextAt(b.free, m)
    /\ \A k \in 1 .. m : b.free[k] < s.off

Pointed(b, s) == \E m \in Nat : Between(b, s, m)

Cursor(b, s) == s.off \in DOMAIN b.seg /\ Pointed(b, s)

SweepInv(h, q, s) ==
    IF q \in {"seg", "blk"}
    THEN s.blk \in Ids(h) /\ (q = "seg" => Cursor(h.blks[Pos(h, s.blk)], s))
    ELSE s = NoSweep

SweepLocals == [blk : Nat \cup {None}, off : Nat, prev : Nat \cup {None}, next : Nat \cup {None},
                max : Nat, freed : Nat, before : Nat]

AllocInvs(h, n, q, S, s) ==
    /\ HeapInv(h) /\ Balanced(h)
    /\ S \subseteq [blk : Nat, off : Nat] /\ HeldInv(h, S)
    /\ IsFiniteSet(Marks(h)) /\ n = Cardinality(Marks(h))
    /\ MarkInv(h, q, Pos(h, s.blk), s.off, S)
    /\ s \in SweepLocals /\ SweepInv(h, q, s)

IInv ==
    /\ enabled \in BOOLEAN
    /\ pc \in {"idle", "mark", "seg", "blk", "retry"}
    /\ req \in Length \cup {0}
    /\ AllocInvs(heap, markCount, pc, held, sw)

\* With nothing marked and sweep not running the invariant is that of the program.
LEMMA QuietIntro ==
    ASSUME NEW h, NEW S, Served(h, S), NEW q \in {"idle", "mark", "retry"}
    PROVE  AllocInvs(h, 0, q, S, NoSweep)
  <1>1. HeapInv(h) /\ Balanced(h) /\ S \subseteq [blk : Nat, off : Nat] /\ HeldInv(h, S) /\ Marks(h) = {}
    BY DEF Served
  <1>2. IsFiniteSet(Marks(h)) /\ 0 = Cardinality(Marks(h))
    BY <1>1, FS_EmptySet
  <1>3. NoSweep \in SweepLocals
    BY DEF NoSweep, SweepLocals
  <1>4. SweepInv(h, q, NoSweep)
    BY DEF SweepInv
  <1>5. MarkInv(h, q, Pos(h, NoSweep.blk), NoSweep.off, S)
    BY <1>1 DEF MarkInv
  <1> QED BY ONLY <1>1, <1>2, <1>3, <1>4, <1>5 DEF AllocInvs

\* It is this between collections.
LEMMA QuietElim ==
    ASSUME NEW h, NEW n, NEW S, NEW s, NEW q \in {"idle", "retry"}, AllocInvs(h, n, q, S, s)
    PROVE  Served(h, S) /\ n = 0 /\ s = NoSweep
  <1>1. Marks(h) = {}
    BY DEF AllocInvs, MarkInv, Ahead
  <1>2. n = 0
    BY <1>1, FS_EmptySet DEF AllocInvs
  <1>3. s = NoSweep
    BY DEF AllocInvs, SweepInv
  <1> QED BY <1>1, <1>2, <1>3 DEF AllocInvs, Served

\* The invariant holds in the heap without blocks.
LEMMA InitInv == ASSUME Init PROVE IInv
  <1>1. heap = EmptyHeap /\ enabled = TRUE /\ markCount = 0 /\ pc = "idle" /\ req = 0 /\ held = {}
        /\ sw = NoSweep
    BY DEF Init
  <1>2. EmptyHeap \in Heap
    BY DEF EmptyHeap, Heap, None
  <1>3. Len(EmptyHeap.blks) = 0 /\ EmptyHeap.curr = None /\ EmptyHeap.totUse = 0
    BY DEF EmptyHeap
  <1>4. HeapInv(EmptyHeap)
    BY <1>2, <1>3, LengthAssumption DEF HeapInv
  <1>5. Marks(EmptyHeap) = {} /\ Uses(EmptyHeap) = {}
    BY <1>3 DEF Marks, Uses, Used
  <1>5a. Balanced(EmptyHeap)
    <2>1. DOMAIN UseLens(EmptyHeap) = {} /\ DOMAIN BlkLens(EmptyHeap) = {}
      BY <1>3, <1>5 DEF UseLens, BlkLens
    <2>2. Total(UseLens(EmptyHeap)) = 0 /\ Total(BlkLens(EmptyHeap)) = 0
      BY ONLY <2>1, TotalNone
    <2>3. EmptyHeap.nSeg = 0 /\ EmptyHeap.currUse = 0
      BY DEF EmptyHeap
    <2>4. Cardinality(Uses(EmptyHeap)) = 0
      BY <1>5, FS_EmptySet
    <2> QED BY ONLY <2>2, <2>3, <2>4, <1>3 DEF Balanced, Booked
  <1>6. Served(EmptyHeap, {})
    BY <1>4, <1>5, <1>5a DEF Served, HeldInv
  <1>7. AllocInvs(EmptyHeap, 0, "idle", {}, NoSweep)
    BY <1>6, QuietIntro
  <1> QED BY ONLY <1>1, <1>7 DEF IInv

-----------------------------------------------------------------------------
(* The program.                                                            *)

\* MSA::alloc keeps it,
LEMMA AllocSegInv ==
    ASSUME IInv, NEW r \in Length, AllocSeg(r) PROVE IInv'
  <1> DEFINE a == Alloc(heap, r, TRUE)
  <1>1. /\ pc = "idle" /\ heap' = a.heap /\ enabled' = Enabled(a, TRUE)
        /\ held' = held \cup ({a.seg} \ {NoSegment})
        /\ markCount' = markCount /\ pc' = pc /\ req' = req /\ sw' = sw
    BY DEF AllocSeg
  <1>2. Served(heap, held) /\ markCount = 0 /\ sw = NoSweep
    <2>1. AllocInvs(heap, markCount, pc, held, sw) /\ pc \in {"idle", "retry"}
      BY <1>1 DEF IInv
    <2> QED BY ONLY <2>1, QuietElim
  <1>3. Allocated(heap, a, r)
    <2>1. r \in Nat /\ TRUE \in BOOLEAN /\ HeapInv(heap)
      BY <1>2, LengthAssumption DEF Served
    <2> QED BY ONLY <2>1, AllocInv
  <1> HIDE DEF a
  <1>4. Served(heap', held')
    <2>1. Served(a.heap, held \cup ({a.seg} \ {NoSegment}))
      BY ONLY <1>2, <1>3, AllocServes
    <2> QED BY ONLY <2>1, <1>1
  <1>5. AllocInvs(heap', markCount', pc', held', sw')
    <2>1. AllocInvs(heap', 0, pc', held', NoSweep)
      BY <1>1, <1>4, QuietIntro
    <2> QED BY ONLY <2>1, <1>1, <1>2
  <1>6. enabled' \in BOOLEAN
    BY <1>1, <1>3 DEF IInv, Enabled, Allocated
  <1> QED BY <1>1, <1>5, <1>6 DEF IInv

\* allocGC, whatever called it and whatever follows.
LEMMA AllocGCInv ==
    ASSUME IInv, pc \in {"idle", "retry"}, NEW r \in Length \cup {0}, NEW e \in BOOLEAN,
           NEW failure \in {"idle", "mark", "retry"}, AllocGC(r, e, failure)
    PROVE  IInv'
  <1> DEFINE a == Alloc(heap, r, ~enabled \/ e)
  <1>1. /\ heap' = Flagged(a) /\ enabled' = Enabled(a, e)
        /\ held' = held \cup ({a.seg} \ {NoSegment})
        /\ pc' = (IF a.seg = NoSegment THEN failure ELSE "idle")
        /\ req' = (IF pc' = "idle" THEN 0 ELSE r)
        /\ markCount' = markCount /\ sw' = sw
    BY DEF AllocGC
  <1>2. Served(heap, held) /\ markCount = 0 /\ sw = NoSweep
    <2>1. AllocInvs(heap, markCount, pc, held, sw)
      BY DEF IInv
    <2> QED BY ONLY <2>1, pc \in {"idle", "retry"}, QuietElim
  <1>3. Allocated(heap, a, r)
    <2>1. r \in Nat /\ (~enabled \/ e) \in BOOLEAN /\ HeapInv(heap)
      BY <1>2, LengthAssumption DEF Served, IInv
    <2> QED BY ONLY <2>1, AllocInv
  <1> HIDE DEF a
  <1>4. Served(heap', held')
    <2>1. Served(Flagged(a), held \cup ({a.seg} \ {NoSegment}))
      BY ONLY <1>2, <1>3, FlaggedServes
    <2> QED BY ONLY <2>1, <1>1
  <1>5. pc' \in {"idle", "mark", "retry"}
    BY <1>1
  <1>6. AllocInvs(heap', markCount', pc', held', sw')
    <2>1. AllocInvs(heap', 0, pc', held', NoSweep)
      BY ONLY <1>4, <1>5, QuietIntro
    <2> QED BY ONLY <2>1, <1>1, <1>2
  <1>7. enabled' \in BOOLEAN
    BY <1>1, <1>3 DEF IInv, Enabled, Allocated
  <1>8. req' \in Length \cup {0}
    BY <1>1
  <1> QED BY <1>5, <1>6, <1>7, <1>8 DEF IInv

\* and memAlloc_GC, which may start a collection when it finds no room,
LEMMA MemAllocInv == ASSUME IInv, NEW r \in Length, MemAlloc(r) PROVE IInv'
  <1>1. pc \in {"idle", "retry"} /\ r \in Length \cup {0} /\ FALSE \in BOOLEAN
    BY DEF MemAlloc
  <1>2. PICK failure \in {"idle", "mark", "retry"} : AllocGC(r, FALSE, failure)
    BY DEF MemAlloc
  <1> QED BY ONLY <1>1, <1>2, IInv, AllocGCInv

\* and execMemAlloc_GC while the collector is disabled,
LEMMA ExecMemAllocInv == ASSUME IInv, NEW r \in Length, ExecMemAlloc(r) PROVE IInv'
  <1>1. pc \in {"idle", "retry"} /\ r \in Length \cup {0} /\ TRUE \in BOOLEAN
        /\ AllocGC(r, TRUE, "idle") /\ "idle" \in {"idle", "mark", "retry"}
    BY DEF ExecMemAlloc
  <1> QED BY ONLY <1>1, IInv, AllocGCInv

\* and the second attempt after the collection.
LEMMA RetryInv == ASSUME IInv, Retry PROVE IInv'
  <1>1. pc \in {"idle", "retry"} /\ req \in Length \cup {0} /\ TRUE \in BOOLEAN
        /\ AllocGC(req, TRUE, "idle") /\ "idle" \in {"idle", "mark", "retry"}
    BY DEF Retry, IInv
  <1> QED BY ONLY <1>1, IInv, AllocGCInv

\* The program forgets a segment.
LEMMA DropInv == ASSUME IInv, NEW s \in held, Drop(s) PROVE IInv'
  <1>1. /\ pc = "idle" /\ held' = held \ {s}
        /\ heap' = heap /\ enabled' = enabled /\ markCount' = markCount /\ pc' = pc
        /\ req' = req /\ sw' = sw
    BY DEF Drop
  <1>2. Served(heap, held) /\ markCount = 0 /\ sw = NoSweep
    <2>1. AllocInvs(heap, markCount, pc, held, sw) /\ pc \in {"idle", "retry"}
      BY <1>1 DEF IInv
    <2> QED BY ONLY <2>1, QuietElim
  <1>3. Served(heap', held')
    BY <1>1, <1>2 DEF Served, HeldInv
  <1>4. AllocInvs(heap', markCount', pc', held', sw')
    <2>1. AllocInvs(heap', 0, pc', held', NoSweep)
      BY <1>1, <1>3, QuietIntro
    <2> QED BY ONLY <2>1, <1>1, <1>2
  <1> QED BY <1>1, <1>4 DEF IInv

\* After free, what else is held is still in use.
LEMMA LessServes ==
    ASSUME NEW h, NEW S, Served(h, S), NEW s \in S, NEW g, Balanced(g),
           Less(h, g, Pos(h, s.blk), s.off)
    PROVE  Served(g, S \ {s})
  <1> DEFINE j == Pos(h, s.blk)
  <1>1. /\ HeapInv(h) /\ HeapInv(g) /\ Len(g.blks) = Len(h.blks) /\ Len(h.blks) \in Nat
        /\ \A i \in 1 .. Len(h.blks) :
             /\ g.blks[i].id = h.blks[i].id
             /\ Used(g, i) = Used(h, i) \ (IF i = j THEN {s.off} ELSE {})
             /\ \A x \in Used(g, i) : g.blks[i].seg[x] = h.blks[i].seg[x]
    BY HeapFields DEF Less, Served, HeapInv
  <1>2. Aligned(h, g)
    BY <1>1 DEF Aligned
  <1>3. ASSUME NEW t \in S \ {s} PROVE t.off \in Used(g, Pos(h, t.blk))
    <2>1. t.blk \in Ids(h) /\ t.off \in Used(h, Pos(h, t.blk)) /\ s.blk \in Ids(h)
      BY DEF Served, HeldInv
    <2>2. Pos(h, t.blk) \in 1 .. Len(h.blks) /\ h.blks[Pos(h, t.blk)].id = t.blk /\ h.blks[j].id = s.blk
      BY <2>1, <1>1, PosOf
    <2>3. ~(Pos(h, t.blk) = j /\ t.off = s.off)
      <3>1. s \in [blk : Nat, off : Nat] /\ t \in [blk : Nat, off : Nat] /\ t # s
        BY DEF Served
      <3>2. t.blk # s.blk \/ t.off # s.off
        BY <3>1
      <3> QED BY <3>2, <2>2
    <2> HIDE DEF j
    <2> QED BY <2>1, <2>2, <2>3, <1>1
  <1>4. HeldInv(g, S \ {s})
    <2>1. HeldInv(h, S \ {s})
      BY DEF Served, HeldInv
    <2> QED BY ONLY <2>1, <1>1, <1>2, <1>3, HeldStays
  <1>5. Marks(g) = {}
    <2> SUFFICES ASSUME NEW y \in Marks(g) PROVE FALSE
      OBVIOUS
    <2>1. PICK i \in Nat, x \in Nat : y = <<i, x>> /\ x \in Used(g, i) /\ g.blks[i].seg[x].mark
      BY MarkPair
    <2>2. i \in 1 .. Len(h.blks)
      BY <2>1, <1>1, UsedFacts
    <2>3. x \in Used(h, i) /\ g.blks[i].seg[x] = h.blks[i].seg[x]
      BY <2>1, <2>2, <1>1
    <2> QED BY <2>1, <2>3, MarkIs DEF Served
  <1> QED BY <1>1, <1>4, <1>5 DEF Served

\* The blocks that are left keep their segments.
LEMMA WithoutPos ==
    ASSUME NEW h, HeapInv(h), NEW j \in 1 .. Len(h.blks), NEW g, Without(h, g, j),
           NEW id \in Ids(h), Pos(h, id) # j
    PROVE  /\ id \in Ids(g) /\ Used(g, Pos(g, id)) = Used(h, Pos(h, id))
           /\ Pos(h, id) < j => Pos(g, id) = Pos(h, id)
           /\ Pos(h, id) > j => Pos(g, id) = Pos(h, id) - 1
  <1> DEFINE i == Pos(h, id)
             k == IF i < j THEN i ELSE i - 1
  <1>1. /\ HeapInv(g) /\ Len(g.blks) = Len(h.blks) - 1 /\ Len(h.blks) \in Nat
        /\ \A n \in 1 .. Len(h.blks) : /\ n < j => g.blks[n] = h.blks[n]
                                       /\ n > j => g.blks[n - 1] = h.blks[n]
    BY HeapFields DEF Without, HeapInv
  <1>2. i \in 1 .. Len(h.blks) /\ h.blks[i].id = id
    BY PosOf
  <1>3. k \in 1 .. Len(g.blks) /\ g.blks[k] = h.blks[i]
    <2> HIDE DEF i
    <2>1. i < j \/ i > j
      BY <1>2 DEF i
    <2> QED BY <2>1, <1>1, <1>2
  <1>4. Pos(g, g.blks[k].id) = k /\ g.blks[k].id \in Ids(g)
    BY <1>1, <1>3, PosOf
  <1>5. Used(g, k) = Used(h, i)
    BY <1>2, <1>3 DEF Used
  <1>6. i > j => k = i - 1
    BY <1>2
  <1>7. Pos(g, id) = k /\ id \in Ids(g)
    BY <1>2, <1>3, <1>4
  <1> QED BY <1>5, <1>6, <1>7

\* Marks move up when a block leaves the list.
LEMMA WithoutMarks ==
    ASSUME NEW h, HeapInv(h), NEW j \in 1 .. Len(h.blks), NEW g, Without(h, g, j),
           NEW i \in Nat, NEW x \in Nat
    PROVE  /\ i < j => (<<i, x>> \in Marks(g) <=> <<i, x>> \in Marks(h))
           /\ i >= j => (<<i, x>> \in Marks(g) <=> <<i + 1, x>> \in Marks(h))
  <1>1. /\ HeapInv(g) /\ Len(g.blks) = Len(h.blks) - 1 /\ Len(h.blks) \in Nat
        /\ \A n \in 1 .. Len(h.blks) : /\ n < j => g.blks[n] = h.blks[n]
                                       /\ n > j => g.blks[n - 1] = h.blks[n]
    BY HeapFields DEF Without, HeapInv
  <1>2. CASE i < j
    <2>1. i \in 1 .. Len(h.blks) <=> i \in 1 .. Len(g.blks)
      BY <1>1, <1>2
    <2>2. i \in 1 .. Len(h.blks) => g.blks[i] = h.blks[i]
      BY <1>1, <1>2
    <2>3. Used(g, i) = Used(h, i)
      BY ONLY <2>1, <2>2 DEF Used
    <2>4. x \in Used(h, i) => g.blks[i].seg[x] = h.blks[i].seg[x]
      BY ONLY <2>2 DEF Used
    <2>5. ~(i >= j)
      BY <1>2
    <2> QED BY ONLY <2>3, <2>4, <2>5, i \in Nat, x \in Nat, MarkIs
  <1>3. CASE i >= j
    <2>1. i + 1 \in 1 .. Len(h.blks) <=> i \in 1 .. Len(g.blks)
      BY <1>1, <1>3
    <2>2. i + 1 \in 1 .. Len(h.blks) => g.blks[i] = h.blks[i + 1]
      <3>1. i + 1 > j /\ i + 1 - 1 = i
        BY <1>3
      <3> QED BY <3>1, <1>1
    <2>3. i + 1 \in Nat
      OBVIOUS
    <2>4. Used(g, i) = Used(h, i + 1)
      BY ONLY <2>1, <2>2 DEF Used
    <2>5. x \in Used(h, i + 1) => g.blks[i].seg[x] = h.blks[i + 1].seg[x]
      BY ONLY <2>2 DEF Used
    <2>6. ~(i < j)
      BY <1>3
    <2> QED BY ONLY <2>3, <2>4, <2>5, <2>6, i \in Nat, x \in Nat, MarkIs
  <1> QED BY <1>2, <1>3

\* A block of which one segment was in use, freed now, may be released.
LEMMA WithoutServes ==
    ASSUME NEW h, NEW S, Served(h, S), NEW s \in S, NEW g, Balanced(g), Without(h, g, Pos(h, s.blk)),
           Used(h, Pos(h, s.blk)) = {s.off}
    PROVE  Served(g, S \ {s})
  <1> DEFINE j == Pos(h, s.blk)
  <1>1. HeapInv(h) /\ HeapInv(g) /\ j \in 1 .. Len(h.blks)
    BY PosOf DEF Served, HeldInv, Without
  <1>2. ASSUME NEW t \in S \ {s} PROVE t.blk \in Ids(g) /\ t.off \in Used(g, Pos(g, t.blk))
    <2>1. t.blk \in Ids(h) /\ t.off \in Used(h, Pos(h, t.blk)) /\ s.blk \in Ids(h)
      BY DEF Served, HeldInv
    <2>2. Pos(h, t.blk) # j
      <3> SUFFICES ASSUME Pos(h, t.blk) = j PROVE FALSE
        OBVIOUS
      <3>1. t.off = s.off
        BY <2>1
      <3>2. t.blk = s.blk
        BY <2>1, <1>1, PosOf
      <3>3. s \in [blk : Nat, off : Nat] /\ t \in [blk : Nat, off : Nat] /\ t # s
        BY DEF Served
      <3> QED BY <3>1, <3>2, <3>3
    <2> HIDE DEF j
    <2>3. Without(h, g, j)
      BY DEF j
    <2> QED BY <2>1, <2>2, <2>3, <1>1, WithoutPos
  <1>3. Marks(g) = {}
    <2> SUFFICES ASSUME NEW y \in Marks(g) PROVE FALSE
      OBVIOUS
    <2>1. PICK i \in Nat, x \in Nat : y = <<i, x>>
      BY MarkPair
    <2>2. i < j \/ i >= j
      BY <1>1
    <2> HIDE DEF j
    <2>3. <<i, x>> \in Marks(h) \/ <<i + 1, x>> \in Marks(h)
      BY <2>1, <2>2, <1>1, WithoutMarks DEF j
    <2> QED BY <2>3 DEF Served
  <1> QED BY <1>1, <1>2, <1>3 DEF Served, HeldInv

\* free keeps the invariant, for each of its two ways.
LEMMA FreeSegInv == ASSUME IInv, NEW s \in held, FreeSeg(s) PROVE IInv'
  <1>1. /\ pc = "idle" /\ held' = held \ {s} /\ heap' = FreeSegment(heap, s)
        /\ enabled' = enabled /\ markCount' = markCount /\ pc' = pc
        /\ req' = req /\ sw' = sw
    BY DEF FreeSeg
  <1>2. Served(heap, held) /\ markCount = 0 /\ sw = NoSweep
    <2>1. AllocInvs(heap, markCount, pc, held, sw) /\ pc \in {"idle", "retry"}
      BY <1>1 DEF IInv
    <2> QED BY ONLY <2>1, QuietElim
  <1>3. HeapInv(heap) /\ s.blk \in Ids(heap) /\ s.off \in Used(heap, Pos(heap, s.blk))
    BY <1>2 DEF Served, HeldInv
  <1>4. Served(heap', held')
    <2>1. /\ \/ Less(heap, heap', Pos(heap, s.blk), s.off)
             \/ Used(heap, Pos(heap, s.blk)) = {s.off} /\ Without(heap, heap', Pos(heap, s.blk))
          /\ Balanced(heap) => Balanced(heap')
      BY ONLY <1>1, <1>3, FreeInv
    <2>1a. Balanced(heap')
      BY <2>1, <1>2 DEF Served
    <2>2. Served(heap', held \ {s})
      BY ONLY <1>2, <2>1, <2>1a, s \in held, LessServes, WithoutServes
    <2> QED BY ONLY <2>2, <1>1
  <1>5. AllocInvs(heap', markCount', pc', held', sw')
    <2>1. AllocInvs(heap', 0, pc', held', NoSweep)
      BY <1>1, <1>4, QuietIntro
    <2> QED BY ONLY <2>1, <1>1, <1>2
  <1> QED BY <1>1, <1>5 DEF IInv

-----------------------------------------------------------------------------
(* mark.                                                                   *)

\* A descriptor in the heap changes.
LEMMA PutDescr ==
    ASSUME NEW h, HeapInv(h), NEW j \in 1 .. Len(h.blks), NEW o, NEW d
    PROVE  [h EXCEPT !.blks[j].seg[o] = d]
             = Put(h, j, Reflagged(h.blks[j], o, d), h.curr, h.nSeg, h.currUse)
  <1> DEFINE b == h.blks[j]
             t == [b.seg EXCEPT ![o] = d]
             y == [h EXCEPT !.blks = [h.blks EXCEPT ![j] = [b EXCEPT !.seg = t]]]
             e == Reflagged(b, o, d)
  <1>1. h \in Heap /\ b \in Blk
    BY DEF HeapInv, BlkInv
  <1>2. [b EXCEPT !.seg = t] = e
    BY ONLY <1>1, SegsOfBlk DEF Reflagged
  <1>3. y = [h EXCEPT !.blks = [h.blks EXCEPT ![j] = e]]
    BY ONLY <1>2
  <1>4. y = [h EXCEPT !.blks[j].seg[o] = d]
    OBVIOUS
  <1> HIDE DEF y, e
  <1>5. y = [blks |-> [h.blks EXCEPT ![j] = e], curr |-> h.curr, nSeg |-> h.nSeg,
             currUse |-> h.currUse, totUse |-> h.totUse]
    BY ONLY <1>1, <1>3 DEF Heap
  <1> QED BY <1>4, <1>5 DEF Put, e

\* The descriptor of a marked segment.
LEMMA MarkedDescr ==
    ASSUME NEW x \in SegDescr, NEW m \in BOOLEAN
    PROVE  [x EXCEPT !.mark = m] = [len |-> x.len, st |-> x.st, mark |-> m]
  <1> DEFINE y == [x EXCEPT !.mark = m]
  <1>1. x = [len |-> x.len, st |-> x.st, mark |-> x.mark]
    BY DEF SegDescr
  <1>2. y = [x EXCEPT !.mark = m]
    OBVIOUS
  <1> HIDE DEF y
  <1>3. y = [len |-> x.len, st |-> x.st, mark |-> m]
    BY ONLY <1>1, <1>2
  <1> QED BY <1>3 DEF y

\* The mark of a segment of allocGC is set or reset.
Remarked(h, j, o, m) == [h EXCEPT !.blks[j].seg[o].mark = m]
GCDescr(len, m) == [len |-> len, st |-> "gc", mark |-> m]

\* Setting a mark changes no other segment.
LEMMA MarkSet ==
    ASSUME NEW h, HeapInv(h), NEW j \in 1 .. Len(h.blks), NEW o \in UsedSet(h.blks[j].seg),
           h.blks[j].seg[o].st = "gc", NEW m \in BOOLEAN, NEW g,
           g = Remarked(h, j, o, m)
    PROVE  ReflaggedHeap(h, g, j, o, GCDescr(h.blks[j].seg[o].len, m))
  <1> DEFINE x == h.blks[j].seg[o]
             d == [len |-> x.len, st |-> x.st, mark |-> m]
  <1>1. x \in SegDescr
    <2>1. o \in Used(h, j)
      BY DEF Used
    <2> QED BY <2>1, UsedFacts
  <1>2. [x EXCEPT !.mark = m] = d
    BY ONLY <1>1, m \in BOOLEAN, MarkedDescr
  <1>3. g = [h EXCEPT !.blks[j].seg[o] = d]
    BY ONLY <1>2, g = Remarked(h, j, o, m) DEF Remarked
  <1>4. d \in SegDescr /\ d.mark = m /\ d.st = "gc" /\ d.len = x.len
    BY <1>1 DEF SegDescr
  <1>5. Reflags(h.blks[j], o, d)
    BY <1>4 DEF Reflags
  <1> HIDE DEF d, x
  <1>6. g = Put(h, j, Reflagged(h.blks[j], o, d), h.curr, h.nSeg, h.currUse)
    BY ONLY <1>3, HeapInv(h), j \in 1 .. Len(h.blks), PutDescr
  <1>7. ReflaggedHeap(h, g, j, o, d)
    BY ONLY <1>5, <1>6, HeapInv(h), j \in 1 .. Len(h.blks), o \in UsedSet(h.blks[j].seg), ReflagAt
  <1>8. d = GCDescr(h.blks[j].seg[o].len, m)
    BY DEF d, x, GCDescr
  <1> QED BY ONLY <1>7, <1>8

\* mark keeps the invariant: the count goes up only with a new mark.
LEMMA MarkStep == ASSUME IInv, NEW s \in held, Mark(s) PROVE IInv'
  <1> DEFINE j == Pos(heap, s.blk)
             o == s.off
  <1>1. /\ pc = "mark" /\ s \in Unmarked
        /\ heap' = [heap EXCEPT !.blks[j].seg[o].mark = TRUE] /\ markCount' = markCount + 1
        /\ enabled' = enabled /\ pc' = pc /\ req' = req /\ held' = held /\ sw' = sw
    BY DEF Mark
  <1>2. /\ HeapInv(heap) /\ Balanced(heap) /\ held \subseteq [blk : Nat, off : Nat] /\ HeldInv(heap, held)
        /\ IsFiniteSet(Marks(heap)) /\ markCount = Cardinality(Marks(heap))
        /\ sw = NoSweep /\ sw \in SweepLocals
    BY <1>1 DEF IInv, AllocInvs, SweepInv
  <1>3. heap.blks[j].seg[o].st = "gc" /\ ~heap.blks[j].seg[o].mark
    BY <1>1 DEF Unmarked, Seg
  <1>4. /\ o \in Used(heap, j) /\ j \in 1 .. Len(heap.blks) /\ o \in UsedSet(heap.blks[j].seg)
        /\ j \in Nat /\ o \in Nat
    <2>1. o \in Used(heap, j)
      BY <1>2 DEF HeldInv
    <2> QED BY <2>1, <1>2, UsedFacts
  <1> HIDE DEF j, o
  <1>5. ReflaggedHeap(heap, heap', j, o, GCDescr(heap.blks[j].seg[o].len, TRUE))
    <2>1. TRUE \in BOOLEAN /\ heap' = Remarked(heap, j, o, TRUE)
      BY <1>1 DEF Remarked
    <2> QED BY ONLY <2>1, <1>2, <1>3, <1>4, MarkSet
  <1>6. /\ HeapInv(heap') /\ Aligned(heap, heap')
        /\ \A i \in Nat : Used(heap', i) = Used(heap, i)
        /\ Marks(heap') = Marks(heap) \cup {<<j, o>>} /\ Balanced(heap')
    BY <1>2, <1>5 DEF ReflaggedHeap, GCDescr
  <1>7. IsFiniteSet(Marks(heap')) /\ markCount' = Cardinality(Marks(heap'))
    <2>1. <<j, o>> \notin Marks(heap)
      BY <1>3, <1>4, MarkIs
    <2> DEFINE x == <<j, o>>
    <2>2. x \notin Marks(heap) /\ Marks(heap') = Marks(heap) \cup {x}
      BY <2>1, <1>6
    <2> HIDE DEF x
    <2>3. IsFiniteSet(Marks(heap) \cup {x})
          /\ Cardinality(Marks(heap) \cup {x}) = Cardinality(Marks(heap)) + 1
      BY ONLY <2>2, <1>2, FS_AddElement
    <2> QED BY ONLY <2>2, <2>3, <1>1, <1>2
  <1>8. HeldInv(heap', held')
    <2>1. \A t \in held : t.off \in Used(heap', Pos(heap, t.blk))
      BY <1>2, <1>6, UsedFacts DEF HeldInv
    <2>2. HeldInv(heap', held)
      BY ONLY <2>1, <1>2, <1>6, HeldStays
    <2> QED BY <2>2, <1>1
  <1>9. MarkInv(heap', pc', Pos(heap', sw'.blk), sw'.off, held')
    BY <1>1 DEF MarkInv, Ahead
  <1>10. SweepInv(heap', pc', sw')
    BY <1>1, <1>2 DEF SweepInv
  <1>11. AllocInvs(heap', markCount', pc', held', sw')
    BY ONLY <1>1, <1>2, <1>6, <1>7, <1>8, <1>9, <1>10 DEF AllocInvs
  <1> QED BY <1>1, <1>11 DEF IInv

-----------------------------------------------------------------------------
(* sweep.                                                                  *)

\* sweep enters a block: nothing of its free list is behind.
LEMMA AtBlkInv ==
    ASSUME NEW h, HeapInv(h), NEW s \in SweepLocals, NEW p \in 1 .. Len(h.blks)
    PROVE  LET t == AtBlk(s, h.blks[p])
           IN  /\ t \in SweepLocals /\ t.blk = h.blks[p].id /\ Pos(h, t.blk) = p /\ t.off = 0
               /\ SweepInv(h, "seg", t)
  <1> DEFINE b == h.blks[p]
             t == AtBlk(s, b)
             next == IF b.free = <<>> THEN None ELSE b.free[1]
  <1>1. /\ BlkInv(b) /\ b.id \in Nat /\ b.free \in Seq(Nat) /\ Len(b.free) \in Nat
        /\ Segments(b.seg, DataLen(b))
    BY BlkFields DEF HeapInv, BlkInv
  <1>2. next \in Nat \cup {None} /\ next = NextAt(b.free, 0)
    <2>1. CASE b.free = <<>>
      BY <2>1 DEF NextAt
    <2>2. CASE b.free # <<>>
      <3>1. 1 \in 1 .. Len(b.free) /\ 0 # Len(b.free) /\ b.free[1] \in Nat
        BY <1>1, <2>2
      <3> QED BY <3>1, <2>2 DEF NextAt
    <2> QED BY <2>1, <2>2
  <1>2a. t = [s EXCEPT !.blk = b.id, !.off = 0, !.prev = None, !.max = 0, !.next = next]
    BY DEF AtBlk
  <1> HIDE DEF next, t
  <1>3. t = [blk |-> b.id, off |-> 0, prev |-> None, next |-> next, max |-> 0,
             freed |-> s.freed, before |-> s.before]
    BY ONLY <1>2a, s \in SweepLocals DEF SweepLocals
  <1>4. /\ t.blk = b.id /\ t.off = 0 /\ t.prev = None /\ t.next = next
    BY ONLY <1>3
  <1>5. t \in SweepLocals
    BY <1>1, <1>2, <1>3 DEF SweepLocals
  <1>6. Pos(h, t.blk) = p /\ t.blk \in Ids(h)
    BY <1>4, PosOf
  <1>7. Cursor(b, t)
    <2>1. 0 \in DOMAIN b.seg
      BY <1>1 DEF Segments, Tiled
    <2>2. Between(b, t, 0)
      BY <1>1, <1>2, <1>4 DEF PrevAt, Between
    <2> QED BY <2>1, <2>2, <1>4 DEF Cursor, Pointed
  <1>8. SweepInv(h, "seg", t)
    BY <1>6, <1>7 DEF SweepInv
  <1> QED BY ONLY <1>4, <1>5, <1>6, <1>8 DEF t

\* sweep starts at the last block: every mark is ahead.
LEMMA SweepStartInv == ASSUME IInv, SweepStart PROVE IInv'
  <1>1. /\ pc = "mark" /\ Unmarked = {} /\ heap' = heap /\ markCount' = markCount
        /\ req' = req /\ held' = held
    BY DEF SweepStart
  <1>2. /\ HeapInv(heap) /\ Balanced(heap) /\ held \subseteq [blk : Nat, off : Nat] /\ HeldInv(heap, held)
        /\ IsFiniteSet(Marks(heap)) /\ markCount = Cardinality(Marks(heap))
        /\ sw = NoSweep /\ sw \in SweepLocals
    BY <1>1 DEF IInv, AllocInvs, SweepInv
  <1>3. heap.blks \in Seq(Blk) /\ Len(heap.blks) \in Nat
    BY <1>2, HeapFields DEF HeapInv
  <1>4. CASE heap.blks = <<>>
    <2>1. enabled' = FALSE /\ pc' = "retry" /\ sw' = sw
      BY <1>4 DEF SweepStart
    <2>2. Marks(heap) = {}
      <3>1. \A i \in Nat : Used(heap, i) = {}
        BY <1>4 DEF Used
      <3> QED BY <3>1 DEF Marks
    <2>3. Served(heap, held) /\ markCount = 0
      BY <2>2, <1>2, FS_EmptySet DEF Served
    <2>4. AllocInvs(heap, 0, "retry", held, NoSweep)
      BY <2>3, QuietIntro
    <2>5. AllocInvs(heap', markCount', pc', held', sw')
      BY ONLY <2>1, <2>3, <2>4, <1>1, <1>2
    <2> QED BY <2>1, <2>5, <1>1 DEF IInv
  <1>5. CASE heap.blks # <<>>
    <2> DEFINE p == Len(heap.blks)
    <2>1. enabled' = enabled /\ pc' = "seg" /\ sw' = AtBlk(NoSweep, heap.blks[p])
      BY <1>5 DEF SweepStart, Last
    <2>2. p \in 1 .. Len(heap.blks)
      BY <1>3, <1>5
    <2>3. /\ sw' \in SweepLocals /\ Pos(heap, sw'.blk) = p /\ sw'.off = 0
          /\ SweepInv(heap, "seg", sw')
      <3>1. NoSweep \in SweepLocals
        BY <1>2
      <3> QED BY ONLY <3>1, <2>1, <2>2, <1>2, AtBlkInv
    <2>4. MarkInv(heap, "seg", p, 0, held)
      <3>1. \A x \in Marks(heap) : Ahead("seg", p, 0, x[1], x[2])
        <4> SUFFICES ASSUME NEW x \in Marks(heap) PROVE Ahead("seg", p, 0, x[1], x[2])
          OBVIOUS
        <4>1. x[1] \in 1 .. p /\ x[2] \in Nat
          BY <1>2, MarkPair, UsedFacts
        <4> QED BY <4>1, <1>3 DEF Ahead
      <3>2. ASSUME NEW s \in held, heap.blks[Pos(heap, s.blk)].seg[s.off].st = "gc"
            PROVE  <<Pos(heap, s.blk), s.off>> \in Marks(heap)
        <4>1. heap.blks[Pos(heap, s.blk)].seg[s.off].mark
          BY <1>1, <3>2 DEF Unmarked, Seg
        <4>2. s.off \in Used(heap, Pos(heap, s.blk))
          BY <1>2 DEF HeldInv
        <4> QED BY <4>1, <4>2, <1>2, UsedFacts, MarkIs
      <3> QED BY <3>1, <3>2 DEF MarkInv
    <2>5. AllocInvs(heap, markCount, "seg", held, sw')
      BY ONLY <2>3, <2>4, <1>2 DEF AllocInvs
    <2>6. AllocInvs(heap', markCount', pc', held', sw')
      BY ONLY <2>1, <2>5, <1>1
    <2> QED BY <2>1, <2>6, <1>1 DEF IInv
  <1> QED BY <1>4, <1>5

\* The step of sweep over the segment at o of the block at p turns h into g,
\* where a segment at at starts no later and ends no earlier.
Swept(h, g, p, o, at) ==
    /\ HeapInv(g) /\ Aligned(h, g) /\ Len(g.blks) = Len(h.blks)
    /\ p \in 1 .. Len(h.blks) /\ g.blks[p].len = h.blks[p].len
    /\ \A i \in Nat : Used(g, i) \subseteq Used(h, i)
    /\ \A i \in Nat : \A x \in Used(h, i) :
         <<i, x>> # <<p, o>> => x \in Used(g, i) /\ g.blks[i].seg[x] = h.blks[i].seg[x]
    /\ <<p, o>> \notin Marks(g)
    /\ o \in Nat /\ at \in DOMAIN g.blks[p].seg
    /\ at <= o /\ o <= at + g.blks[p].seg[at].len
    /\ Balanced(h) => Balanced(g)

\* If the program holds that segment, it is still there, and a segment of
\* allocGC is behind sweep after the step.
Spared(h, g, p, o, at, S) ==
    \A s \in S : Pos(h, s.blk) = p /\ s.off = o =>
      o \in Used(g, p) /\ (g.blks[p].seg[o].st = "gc" => o < at + g.blks[p].seg[at].len)

\* Where sweep is after the step.
PassedTo(g, p, at) == at + g.blks[p].seg[at].len
PassedPc(g, p, at) == IF PassedTo(g, p, at) = DataLen(g.blks[p]) THEN "blk" ELSE "seg"

\* The next segment starts there; what is in use beyond at does so later, and
\* at the end of the block nothing does.
LEMMA PassedOn ==
    ASSUME NEW b, BlkInv(b), NEW at \in DOMAIN b.seg
    PROVE  /\ at \in Nat /\ b.seg[at].len \in Nat
           /\ at + b.seg[at].len \in DOMAIN b.seg \cup {DataLen(b)}
           /\ \A x \in UsedSet(b.seg) : at < x => /\ at + b.seg[at].len <= x
                                                  /\ at + b.seg[at].len # DataLen(b)
  <1>1. Segments(b.seg, DataLen(b)) /\ DataLen(b) \in Nat
    BY BlkFields DEF BlkInv
  <1>2. /\ DOMAIN b.seg \subseteq Nat
        /\ \A x \in DOMAIN b.seg : b.seg[x].len \in Nat
    BY <1>1, SegMapElim DEF Segments
  <1>3. /\ \A x \in DOMAIN b.seg : x + b.seg[x].len \in DOMAIN b.seg \cup {DataLen(b)}
        /\ \A x \in DOMAIN b.seg : x + b.seg[x].len <= DataLen(b)
        /\ \A x \in DOMAIN b.seg : \A y \in DOMAIN b.seg : x < y => x + b.seg[x].len <= y
        /\ \A x \in UsedSet(b.seg) : b.seg[x].len > 0
    BY <1>1 DEF Segments, Tiled
  <1>4. ASSUME NEW x \in UsedSet(b.seg), at < x
        PROVE  at + b.seg[at].len <= x /\ at + b.seg[at].len # DataLen(b)
    <2>1. x \in DOMAIN b.seg
      BY DEF UsedSet
    <2>2. /\ at \in Nat /\ x \in Nat /\ b.seg[at].len \in Nat /\ b.seg[x].len \in Nat
          /\ at + b.seg[at].len <= x /\ x + b.seg[x].len <= DataLen(b) /\ b.seg[x].len > 0
      BY <2>1, <1>2, <1>3, <1>4
    <2> QED BY ONLY <2>2, <1>1
  <1> QED BY <1>2, <1>3, <1>4

\* Every step over a segment keeps the marks ahead, and marked what is held.
LEMMA SweptMarks ==
    ASSUME NEW h, HeapInv(h), NEW g, NEW p, NEW o, NEW at, Swept(h, g, p, o, at),
           NEW S, HeldInv(h, S), MarkInv(h, "seg", p, o, S), Spared(h, g, p, o, at, S)
    PROVE  /\ HeldInv(g, S) /\ Marks(g) = Marks(h) \ {<<p, o>>}
           /\ MarkInv(g, PassedPc(g, p, at), p, PassedTo(g, p, at), S)
  <1> DEFINE f == PassedTo(g, p, at)
             q == PassedPc(g, p, at)
  <1>1. /\ HeapInv(g) /\ Aligned(h, g) /\ Len(g.blks) = Len(h.blks) /\ p \in 1 .. Len(h.blks)
        /\ \A i \in Nat : Used(g, i) \subseteq Used(h, i)
        /\ \A i \in Nat : \A x \in Used(h, i) :
             <<i, x>> # <<p, o>> => x \in Used(g, i) /\ g.blks[i].seg[x] = h.blks[i].seg[x]
        /\ <<p, o>> \notin Marks(g) /\ o \in Nat /\ at \in DOMAIN g.blks[p].seg
        /\ at <= o /\ o <= at + g.blks[p].seg[at].len
    BY DEF Swept
  <1>2. Len(h.blks) \in Nat /\ p \in Nat
    BY <1>1, HeapFields DEF HeapInv
  <1>3. /\ BlkInv(g.blks[p]) /\ at \in Nat /\ f \in Nat /\ o <= f /\ f = at + g.blks[p].seg[at].len
        /\ \A x \in Used(g, p) : x > at => x >= f /\ f # DataLen(g.blks[p])
    <2>1. BlkInv(g.blks[p])
      BY <1>1 DEF HeapInv
    <2>2. f = at + g.blks[p].seg[at].len
      BY DEF PassedTo
    <2>3. at \in Nat /\ g.blks[p].seg[at].len \in Nat
          /\ \A x \in UsedSet(g.blks[p].seg) : at < x => /\ f <= x /\ f # DataLen(g.blks[p])
      BY ONLY <2>1, <2>2, <1>1, PassedOn
    <2> HIDE DEF f
    <2>4. ASSUME NEW x \in Used(g, p), x > at PROVE x >= f /\ f # DataLen(g.blks[p])
      <3>1. x \in UsedSet(g.blks[p].seg) /\ x \in Nat
        BY <1>1, UsedFacts
      <3> QED BY <3>1, <2>3, <2>2, <2>4
    <2> QED BY <1>1, <2>1, <2>2, <2>3, <2>4
  <1>4. q = IF f = DataLen(g.blks[p]) THEN "blk" ELSE "seg"
    BY DEF PassedPc
  <1> HIDE DEF f, q
  <1>5. ASSUME NEW t \in S
        PROVE  /\ Pos(h, t.blk) \in Nat /\ t.off \in Nat /\ t.off \in Used(h, Pos(h, t.blk))
               /\ t.off \in Used(g, Pos(h, t.blk)) /\ Pos(g, t.blk) = Pos(h, t.blk)
    <2>1. t.off \in Used(h, Pos(h, t.blk)) /\ t.blk \in Ids(h)
      BY DEF HeldInv
    <2>2. Pos(h, t.blk) \in Nat /\ t.off \in Nat
      BY <2>1, UsedFacts
    <2>3. t.off \in Used(g, Pos(h, t.blk))
      <3>1. CASE Pos(h, t.blk) = p /\ t.off = o
        BY <3>1 DEF Spared
      <3>2. CASE ~(Pos(h, t.blk) = p /\ t.off = o)
        BY <3>2, <2>1, <2>2, <1>1
      <3> QED BY <3>1, <3>2
    <2> QED BY <2>1, <2>2, <2>3, <1>1, AlignedPos
  <1>6. HeldInv(g, S)
    BY ONLY <1>1, <1>5, HeapInv(h), HeldInv(h, S), HeldStays
  <1>7. ASSUME NEW i \in Nat, NEW x \in Nat
        PROVE  <<i, x>> \in Marks(g) <=> <<i, x>> \in Marks(h) /\ <<i, x>> # <<p, o>>
    <2>1. CASE <<i, x>> = <<p, o>>
      BY <2>1, <1>1
    <2>2. CASE <<i, x>> # <<p, o>>
      <3>1. x \in Used(g, i) <=> x \in Used(h, i)
        BY <2>2, <1>1
      <3>2. x \in Used(h, i) => g.blks[i].seg[x] = h.blks[i].seg[x]
        BY <2>2, <1>1
      <3> QED BY ONLY <2>2, <3>1, <3>2, i \in Nat, x \in Nat, MarkIs
    <2> QED BY <2>1, <2>2
  <1>8. Marks(g) = Marks(h) \ {<<p, o>>}
    <2>1. Marks(g) \subseteq Nat \X Nat /\ Marks(h) \subseteq Nat \X Nat
      BY DEF Marks
    <2>2. \A y \in Nat \X Nat : y \in Marks(g) <=> y \in Marks(h) /\ y # <<p, o>>
      BY ONLY <1>7
    <2> QED BY ONLY <2>1, <2>2
  <1>9. ASSUME NEW y \in Marks(g) PROVE Ahead(q, p, f, y[1], y[2])
    <2>1. /\ y[1] \in Nat /\ y[2] \in Nat /\ y = <<y[1], y[2]>> /\ y[2] \in Used(g, y[1])
      BY MarkPair
    <2>2. y \in Marks(h) /\ y # <<p, o>>
      BY <1>8
    <2>3. y[1] < p \/ (y[1] = p /\ y[2] >= o)
      BY <2>2 DEF MarkInv, Ahead
    <2>4. CASE y[1] < p
      BY <2>4, <1>4 DEF Ahead
    <2>5. CASE y[1] = p /\ y[2] >= o
      <3>1. y[2] # o
        BY <2>1, <2>2, <2>5
      <3>2. y[2] > at
        BY <3>1, <2>1, <2>5, <1>1, <1>3
      <3>3. y[2] >= f /\ f # DataLen(g.blks[p])
        BY <3>2, <2>1, <2>5, <1>3
      <3> QED BY <3>3, <2>5, <1>4 DEF Ahead
    <2> QED BY <2>3, <2>4, <2>5
  <1>10. ASSUME NEW t \in S, g.blks[Pos(g, t.blk)].seg[t.off].st = "gc",
                Ahead(q, p, f, Pos(g, t.blk), t.off)
         PROVE  <<Pos(g, t.blk), t.off>> \in Marks(g)
    <2> DEFINE i == Pos(h, t.blk)
               x == t.off
    <2>1. Pos(g, t.blk) = i /\ i \in Nat /\ x \in Nat /\ x \in Used(h, i)
      BY <1>5
    <2>2. i < p \/ (i = p /\ x >= f)
      BY <2>1, <1>4, <1>10 DEF Ahead
    <2>3. <<i, x>> # <<p, o>>
      <3> SUFFICES ASSUME i = p, x = o PROVE FALSE
        OBVIOUS
      <3>1. g.blks[p].seg[o].st = "gc" => o < f
        BY <1>3 DEF Spared
      <3>2. o >= f
        BY <2>2, <1>2
      <3> QED BY <3>1, <3>2, <2>1, <1>1, <1>3, <1>10
    <2>4. Ahead("seg", p, o, i, x)
      BY <2>1, <2>2, <1>1, <1>3 DEF Ahead
    <2>5. h.blks[i].seg[x].st = "gc"
      BY <2>1, <2>3, <1>1, <1>10
    <2>6. <<i, x>> \in Marks(h)
      BY <2>4, <2>5 DEF MarkInv
    <2> QED BY <2>1, <2>3, <2>6, <1>8
  <1>11. MarkInv(g, q, p, f, S)
    BY ONLY <1>9, <1>10 DEF MarkInv
  <1> QED BY <1>6, <1>8, <1>11 DEF f, q

\* The invariant after a step of sweep over a segment, which leaves the locals t.
LEMMA SweptInv ==
    ASSUME NEW h, NEW n, NEW S, NEW s, AllocInvs(h, n, "seg", S, s),
           NEW g, NEW p, p = Pos(h, s.blk), NEW at, Swept(h, g, p, s.off, at), Spared(h, g, p, s.off, at, S),
           NEW t \in SweepLocals, t.blk = s.blk, t.off = PassedTo(g, p, at),
           NEW m \in Nat, Between(g.blks[p], t, m),
           NEW k, k = IF <<p, s.off>> \in Marks(h) THEN n - 1 ELSE n
    PROVE  AllocInvs(g, k, PassedPc(g, p, at), S, t)
  <1> DEFINE q == PassedPc(g, p, at)
             o == s.off
  <1>1. /\ HeapInv(h) /\ Balanced(h) /\ S \subseteq [blk : Nat, off : Nat] /\ HeldInv(h, S)
        /\ IsFiniteSet(Marks(h)) /\ n = Cardinality(Marks(h))
        /\ MarkInv(h, "seg", p, o, S) /\ s.blk \in Ids(h)
    BY DEF AllocInvs, SweepInv
  <1>2. HeldInv(g, S) /\ Marks(g) = Marks(h) \ {<<p, o>>} /\ MarkInv(g, q, p, t.off, S)
    BY <1>1, SweptMarks
  <1>3. IsFiniteSet(Marks(g)) /\ k = Cardinality(Marks(g))
    <2>1. CASE <<p, o>> \in Marks(h)
      <3>1. k = n - 1
        BY <2>1
      <3> DEFINE x == <<p, o>>
      <3>2. x \in Marks(h) /\ Marks(g) = Marks(h) \ {x}
        BY <2>1, <1>2
      <3> HIDE DEF x
      <3>3. IsFiniteSet(Marks(h) \ {x}) /\ Cardinality(Marks(h) \ {x}) = Cardinality(Marks(h)) - 1
        BY ONLY <3>2, <1>1, FS_RemoveElement
      <3> QED BY ONLY <3>1, <3>2, <3>3, <1>1
    <2>2. CASE <<p, o>> \notin Marks(h)
      <3>1. Marks(g) = Marks(h)
        BY <2>2, <1>2
      <3> QED BY <2>2, <3>1, <1>1
    <2> QED BY <2>1, <2>2
  <1>4. HeapInv(g) /\ Balanced(g) /\ t.blk \in Ids(g) /\ Pos(g, t.blk) = p
    BY <1>1, AlignedPos DEF Swept
  <1>5. MarkInv(g, q, Pos(g, t.blk), t.off, S)
    BY ONLY <1>2, <1>4
  <1>6. q \in {"seg", "blk"} /\ (q = "seg" => t.off # DataLen(g.blks[p]))
    BY DEF PassedPc
  <1>7. q = "seg" => Cursor(g.blks[p], t)
    <2>1. BlkInv(g.blks[p]) /\ at \in DOMAIN g.blks[p].seg
      BY <1>4 DEF Swept, HeapInv
    <2>2. t.off \in DOMAIN g.blks[p].seg \cup {DataLen(g.blks[p])}
      BY <2>1, PassedOn DEF PassedTo
    <2> QED BY <2>2, <1>6 DEF Cursor, Pointed
  <1>8. SweepInv(g, q, t)
    BY <1>4, <1>6, <1>7 DEF SweepInv
  <1> QED BY ONLY <1>1, <1>2, <1>3, <1>4, <1>5, <1>8, t \in SweepLocals DEF AllocInvs, q

\* What is known in the loop over the segments of a block.
Sweeping(h, n, S, s, p, o, b, m) ==
    /\ AllocInvs(h, n, "seg", S, s) /\ HeapInv(h) /\ s \in SweepLocals
    /\ p = Pos(h, s.blk) /\ p \in 1 .. Len(h.blks) /\ p \in Nat
    /\ b = h.blks[p] /\ BlkInv(b) /\ b \in Blk /\ DataLen(b) \in Nat
    /\ o = s.off /\ o \in Nat /\ o \in DOMAIN b.seg /\ b.seg[o] \in SegDescr /\ b.seg[o].len \in Nat
    /\ m \in Nat /\ Between(b, s, m)

\* In the loop sweep is at a segment of a block, next to its place in the free list.
LEMMA InLoop ==
    ASSUME IInv, pc = "seg"
    PROVE  \E m : Sweeping(heap, markCount, held, sw, Pos(heap, sw.blk), sw.off, SweptBlk, m)
  <1> DEFINE p == Pos(heap, sw.blk)
             b == SweptBlk
             o == sw.off
  <1>1. /\ AllocInvs(heap, markCount, "seg", held, sw) /\ HeapInv(heap) /\ sw \in SweepLocals
        /\ sw.blk \in Ids(heap) /\ Cursor(heap.blks[p], sw)
    BY DEF IInv, AllocInvs, SweepInv
  <1>2. p \in 1 .. Len(heap.blks) /\ p \in Nat
    BY <1>1, PosOf
  <1>3. b = heap.blks[p] /\ BlkInv(b) /\ b \in Blk /\ DataLen(b) \in Nat
    BY <1>1, <1>2, BlkFields DEF SweptBlk, HeapInv, BlkInv
  <1>4. o \in DOMAIN b.seg /\ o \in Nat /\ b.seg[o] \in SegDescr /\ b.seg[o].len \in Nat
    BY <1>1, <1>3, SegMapElim DEF Cursor, Pointed, BlkInv, Segments
  <1>5. PICK m \in Nat : Between(b, sw, m)
    BY <1>1, <1>3 DEF Cursor, Pointed
  <1>6. Sweeping(heap, markCount, held, sw, p, o, b, m)
    BY ONLY <1>1, <1>2, <1>3, <1>4, <1>5 DEF Sweeping
  <1> QED BY <1>6

\* Moving on changes nothing else in the locals.
LEMMA MovedOn ==
    ASSUME NEW s \in SweepLocals, NEW f \in Nat, s.off <= f, NEW b, BlkInv(b), NEW m \in Nat, Between(b, s, m),
           NEW t, t = [s EXCEPT !.off = f]
    PROVE  t \in SweepLocals /\ t.blk = s.blk /\ t.off = f /\ Between(b, t, m)
  <1>1. t = [blk |-> s.blk, off |-> f, prev |-> s.prev, next |-> s.next, max |-> s.max,
             freed |-> s.freed, before |-> s.before]
    BY ONLY t = [s EXCEPT !.off = f], s \in SweepLocals DEF SweepLocals
  <1>2. t.blk = s.blk /\ t.off = f /\ t.prev = s.prev /\ t.next = s.next
    BY ONLY <1>1
  <1>3. t \in SweepLocals /\ s.off \in Nat
    BY ONLY <1>1, s \in SweepLocals, f \in Nat DEF SweepLocals
  <1>4. Between(b, t, m)
    <2>1. \A k \in 1 .. m : b.free[k] < f
      <3> SUFFICES ASSUME NEW k \in 1 .. m PROVE b.free[k] < f
        OBVIOUS
      <3>1. b.free[k] < s.off
        BY DEF Between
      <3>2. b.free[k] \in Nat
        BY BlkFields DEF Between, BlkInv
      <3> QED BY ONLY <3>1, <3>2, <1>3, f \in Nat, s.off <= f
    <2> QED BY ONLY <2>1, <1>2, Between(b, s, m) DEF Between
  <1> QED BY <1>2, <1>3, <1>4

\* sweep passes a segment that is free or not a collected one.
LEMMA SweepOtherInv == ASSUME IInv, SweepOther PROVE IInv'
  <1> DEFINE p == Pos(heap, sw.blk)
             b == SweptBlk
             o == sw.off
  <1>1. /\ pc = "seg" /\ SweptSeg.st # "gc" /\ sw' = [sw EXCEPT !.off = @ + SweptSeg.len]
        /\ pc' = (IF sw'.off = DataLen(SweptBlk) THEN "blk" ELSE "seg")
        /\ heap' = heap /\ enabled' = enabled /\ markCount' = markCount
        /\ req' = req /\ held' = held
    BY DEF SweepOther
  <1>2. PICK m : Sweeping(heap, markCount, held, sw, p, o, b, m)
    BY <1>1, InLoop
  <1>3. SweptSeg = b.seg[o]
    BY DEF SweptSeg
  <1> HIDE DEF b, p, o
  <1>4. /\ AllocInvs(heap, markCount, "seg", held, sw) /\ HeapInv(heap) /\ sw \in SweepLocals
        /\ p \in 1 .. Len(heap.blks) /\ p \in Nat
        /\ b = heap.blks[p] /\ BlkInv(b)
        /\ o = sw.off /\ o \in Nat /\ o \in DOMAIN b.seg /\ b.seg[o].len \in Nat
        /\ m \in Nat /\ Between(b, sw, m) /\ p = Pos(heap, sw.blk)
    BY ONLY <1>2 DEF Sweeping
  <1>5. sw' \in SweepLocals /\ sw'.blk = sw.blk /\ sw'.off = o + b.seg[o].len /\ Between(b, sw', m)
    <2>1. sw' = [sw EXCEPT !.off = o + b.seg[o].len]
      BY <1>1, <1>3 DEF o
    <2>2. o + b.seg[o].len \in Nat /\ sw.off <= o + b.seg[o].len
      BY <1>4
    <2> QED BY ONLY <2>1, <2>2, <1>4, MovedOn
  <1>6. <<p, o>> \notin Marks(heap)
    <2>1. MarkedGC(b.seg)
      BY <1>4 DEF BlkInv, Segments
    <2>2. ~b.seg[o].mark
      BY <2>1, <1>1, <1>3, <1>4 DEF MarkedGC
    <2> QED BY ONLY <2>2, <1>4, MarkIs
  <1>7. Swept(heap, heap, p, o, o)
    <2>1. Aligned(heap, heap)
      BY <1>4, HeapFields DEF Aligned, HeapInv
    <2> QED BY <2>1, <1>4, <1>6 DEF Swept
  <1>8. Spared(heap, heap, p, o, o, held)
    <2> SUFFICES ASSUME NEW s \in held, Pos(heap, s.blk) = p, s.off = o PROVE o \in Used(heap, p)
      BY <1>1, <1>3, <1>4 DEF Spared
    <2> QED BY <1>4 DEF AllocInvs, HeldInv
  <1>9. AllocInvs(heap, markCount, PassedPc(heap, p, o), held, sw')
    <2>1. sw'.off = PassedTo(heap, p, o) /\ Between(heap.blks[p], sw', m)
      BY <1>4, <1>5 DEF PassedTo
    <2>2. markCount = IF <<p, o>> \in Marks(heap) THEN markCount - 1 ELSE markCount
      BY <1>6
    <2> QED BY ONLY <2>1, <2>2, <1>4, <1>5, <1>7, <1>8, SweptInv
  <1>10. pc' = PassedPc(heap, p, o)
    BY <1>1, <1>4, <1>5 DEF PassedPc, PassedTo, b
  <1>11. AllocInvs(heap', markCount', pc', held', sw')
    BY ONLY <1>1, <1>9, <1>10
  <1> QED BY <1>1, <1>11 DEF IInv

\* sweep resets a mark: it falls behind as it goes.
LEMMA SweepMarkedInv == ASSUME IInv, SweepMarked PROVE IInv'
  <1> DEFINE p == Pos(heap, sw.blk)
             b == SweptBlk
             o == sw.off
  <1>1. /\ pc = "seg" /\ SweptSeg.st = "gc" /\ SweptSeg.mark
        /\ heap' = [heap EXCEPT !.blks[p].seg[o].mark = FALSE] /\ markCount' = markCount - 1
        /\ sw' = [sw EXCEPT !.off = @ + SweptSeg.len]
        /\ pc' = (IF sw'.off = DataLen(SweptBlk) THEN "blk" ELSE "seg")
        /\ enabled' = enabled /\ req' = req /\ held' = held
    BY DEF SweepMarked
  <1>2. PICK m : Sweeping(heap, markCount, held, sw, p, o, b, m)
    BY <1>1, InLoop
  <1>3. SweptSeg = b.seg[o]
    BY DEF SweptSeg
  <1>1a. b = SweptBlk /\ sw.off = o
    OBVIOUS
  <1> HIDE DEF b, p, o
  <1>4. /\ AllocInvs(heap, markCount, "seg", held, sw) /\ HeapInv(heap) /\ sw \in SweepLocals
        /\ p \in 1 .. Len(heap.blks) /\ p \in Nat
        /\ b = heap.blks[p] /\ BlkInv(b)
        /\ o = sw.off /\ o \in Nat /\ o \in DOMAIN b.seg /\ b.seg[o].len \in Nat
        /\ m \in Nat /\ Between(b, sw, m) /\ p = Pos(heap, sw.blk)
    BY ONLY <1>2 DEF Sweeping
  <1>5. o \in UsedSet(b.seg) /\ o \in Used(heap, p) /\ b.seg[o].len > 0
    <2>1. o \in UsedSet(b.seg)
      BY <1>1, <1>3, <1>4 DEF UsedSet
    <2>2. o \in Used(heap, p)
      BY <2>1, <1>4 DEF Used
    <2> QED BY <2>1, <2>2, <1>4 DEF BlkInv, Segments, Tiled
  <1>6. ReflaggedHeap(heap, heap', p, o, GCDescr(b.seg[o].len, FALSE))
    <2>1. FALSE \in BOOLEAN /\ heap' = Remarked(heap, p, o, FALSE)
          /\ o \in UsedSet(heap.blks[p].seg) /\ heap.blks[p].seg[o].st = "gc"
      BY <1>1, <1>3, <1>4, <1>5 DEF Remarked
    <2>2. HeapInv(heap) /\ p \in 1 .. Len(heap.blks)
      BY <1>4
    <2>3. ReflaggedHeap(heap, heap', p, o, GCDescr(heap.blks[p].seg[o].len, FALSE))
      BY ONLY <2>1, <2>2, MarkSet
    <2> QED BY ONLY <2>3, <1>4
  <1>7. /\ HeapInv(heap') /\ Aligned(heap, heap') /\ Len(heap'.blks) = Len(heap.blks)
        /\ heap'.blks[p].free = b.free /\ heap'.blks[p].len = b.len
        /\ DOMAIN heap'.blks[p].seg = DOMAIN b.seg
        /\ \A i \in Nat : Used(heap', i) = Used(heap, i)
        /\ heap'.blks[p].seg[o].len = b.seg[o].len
        /\ \A i \in Nat : \A x \in Used(heap, i) :
             <<i, x>> # <<p, o>> => heap'.blks[i].seg[x] = heap.blks[i].seg[x]
        /\ Marks(heap') = Marks(heap) \ {<<p, o>>} /\ (Balanced(heap) => Balanced(heap'))
    BY <1>4, <1>6 DEF ReflaggedHeap, GCDescr
  <1>8. Swept(heap, heap', p, o, o)
    <2>1. o <= o + heap'.blks[p].seg[o].len
      BY <1>4, <1>7
    <2> QED BY <2>1, <1>4, <1>7 DEF Swept
  <1>9. Spared(heap, heap', p, o, o, held)
    <2>1. o < o + heap'.blks[p].seg[o].len /\ o \in Used(heap', p)
      BY <1>4, <1>5, <1>7
    <2> QED BY ONLY <2>1 DEF Spared
  <1>10. sw' \in SweepLocals /\ sw'.blk = sw.blk /\ sw'.off = o + b.seg[o].len /\ Between(b, sw', m)
    <2>1. sw' = [sw EXCEPT !.off = o + b.seg[o].len]
      BY <1>1, <1>3 DEF o
    <2>2. o + b.seg[o].len \in Nat /\ sw.off <= o + b.seg[o].len
      BY <1>4
    <2> QED BY ONLY <2>1, <2>2, <1>4, MovedOn
  <1>11. <<p, o>> \in Marks(heap)
    BY <1>1, <1>3, <1>4, <1>5, MarkIs
  <1>12. AllocInvs(heap', markCount', PassedPc(heap', p, o), held, sw')
    <2>1. sw'.off = PassedTo(heap', p, o)
      BY <1>7, <1>10 DEF PassedTo
    <2>2. Between(heap'.blks[p], sw', m)
      BY <1>7, <1>10 DEF Between
    <2>3. markCount' = IF <<p, o>> \in Marks(heap) THEN markCount - 1 ELSE markCount
      BY <1>1, <1>11
    <2> QED BY ONLY <2>1, <2>2, <2>3, <1>4, <1>8, <1>9, <1>10, SweptInv
  <1>13. pc' = PassedPc(heap', p, o)
    <2>1. DataLen(SweptBlk) = DataLen(heap'.blks[p])
      BY <1>1a, <1>7 DEF DataLen
    <2>2. sw'.off = PassedTo(heap', p, o)
      BY <1>7, <1>10 DEF PassedTo
    <2> QED BY ONLY <2>1, <2>2, <1>1 DEF PassedPc
  <1>14. AllocInvs(heap', markCount', pc', held', sw')
    BY ONLY <1>1, <1>12, <1>13
  <1> QED BY <1>1, <1>14 DEF IInv

\* Where the joined segment starts and ends.
LEMMA JoinBounds ==
    ASSUME NEW b, BlkInv(b), NEW o \in UsedSet(b.seg), NEW m, Around(b.free, m, o)
    PROVE  LET prev == PrevAt(b.free, m)
               at == JoinAt(b, o, prev)
           IN  at \in Nat /\ o \in Nat /\ at <= o /\ o < at + JoinedLen(b, o, prev, NextAt(b.free, m))
  <1> DEFINE prev == PrevAt(b.free, m)
             next == NextAt(b.free, m)
             at == JoinAt(b, o, prev)
             new == JoinedLen(b, o, prev, next)
  <1>1. Segments(b.seg, DataLen(b)) /\ Lists(b.free, FreeSet(b.seg))
    BY DEF BlkInv
  <1>2. DOMAIN b.seg \subseteq Nat /\ \A x \in DOMAIN b.seg : b.seg[x].len \in Nat
    BY <1>1, SegMapElim DEF Segments
  <1>3. o \in DOMAIN b.seg /\ o \in Nat /\ b.seg[o].len \in Nat /\ b.seg[o].len > 0
    BY <1>1, <1>2 DEF UsedSet, Segments, Tiled
  <1>4. Neighbours(b.seg, o, prev, next)
    BY <1>1, <1>3, AroundNeighbours
  <1> HIDE DEF prev, next
  <1>5. prev # None => prev \in Nat /\ b.seg[prev].len \in Nat
    BY <1>2, <1>4 DEF Neighbours, FreeSet
  <1>6. next # None => b.seg[next].len \in Nat
    BY <1>2, <1>4 DEF Neighbours, FreeSet
  <1>7. CASE JoinsPrev(b, o, prev)
    <2>1. prev # None /\ prev + b.seg[prev].len = o
      BY <1>7 DEF JoinsPrev
    <2>2. at = prev /\ new \in Nat /\ new >= b.seg[o].len + b.seg[prev].len
      BY <1>3, <1>5, <1>6, <1>7, <2>1 DEF JoinAt, JoinedLen, JoinsNext
    <2> QED BY ONLY <2>1, <2>2, <1>3, <1>5 DEF prev, next
  <1>8. CASE ~JoinsPrev(b, o, prev)
    <2>1. at = o /\ new \in Nat /\ new >= b.seg[o].len
      BY <1>3, <1>6, <1>8 DEF JoinAt, JoinedLen, JoinsNext
    <2> QED BY ONLY <2>1, <1>3 DEF prev, next
  <1> QED BY <1>7, <1>8

\* A step of sweep that releases the segment.
Stepping(h, g, p, o, at, new) ==
    Swept(h, g, p, o, at) /\ PassedTo(g, p, at) = at + new /\ o < at + new /\ at + new \in Nat

\* sweep releases an unmarked segment.
LEMMA ReleaseStep ==
    ASSUME NEW h, HeapInv(h), NEW p \in 1 .. Len(h.blks), NEW b, b = h.blks[p],
           NEW o \in UsedSet(b.seg), NEW m, Around(b.free, m, o), NEW c, LinkedBlk(b, c, m, o),
           NEW n \in Nat, n >= b.nAlloc - 1, NEW max \in Nat, NEW nSeg \in Int, NEW currUse \in Int,
           nSeg = h.nSeg - 1, currUse = h.currUse - b.seg[o].len,
           NEW g, g = Put(h, p, Counted(c, n, max), h.curr, nSeg, currUse)
    PROVE  Stepping(h, g, p, o, JoinAt(b, o, PrevAt(b.free, m)),
                    JoinedLen(b, o, PrevAt(b.free, m), NextAt(b.free, m)))
  <1> DEFINE e == Counted(c, n, max)
             at == JoinAt(b, o, PrevAt(b.free, m))
             new == JoinedLen(b, o, PrevAt(b.free, m), NextAt(b.free, m))
  <1>1. BlkInv(b)
    BY DEF HeapInv
  <1>2. Replaced(h, g, p, e) /\ Less(h, g, p, o) /\ (Balanced(h) => Balanced(g))
    <2>1. o \in UsedSet(h.blks[p].seg) /\ LinkedBlk(h.blks[p], c, m, o) /\ n >= h.blks[p].nAlloc - 1
          /\ nSeg = h.nSeg - 1 /\ currUse = h.currUse - h.blks[p].seg[o].len
      OBVIOUS
    <2> QED BY ONLY <2>1, HeapInv(h), p \in 1 .. Len(h.blks), n \in Nat, max \in Nat, nSeg \in Int,
            currUse \in Int, g = Put(h, p, Counted(c, n, max), h.curr, nSeg, currUse), ReleasedAt
  <1>3. at \in Nat /\ o \in Nat /\ at <= o /\ o < at + new
    BY <1>1, JoinBounds
  <1>4. /\ c.len = b.len /\ new \in 1 .. DataLen(b) /\ at \in DOMAIN c.seg /\ c.seg[at].len = new
    BY DEF LinkedBlk
  <1>5. new \in Nat
    BY <1>1, <1>4, BlkFields DEF BlkInv
  <1>6. e.seg = c.seg /\ e.len = c.len
    BY DEF Counted
  <1> HIDE DEF e, at, new
  <1>7. g.blks[p].len = b.len /\ at \in DOMAIN g.blks[p].seg /\ g.blks[p].seg[at].len = new
    BY <1>2, <1>4, <1>6 DEF Replaced
  <1>8. /\ HeapInv(g) /\ Len(g.blks) = Len(h.blks) /\ Len(h.blks) \in Nat
        /\ \A i \in 1 .. Len(h.blks) :
             /\ g.blks[i].id = h.blks[i].id
             /\ Used(g, i) = Used(h, i) \ (IF i = p THEN {o} ELSE {})
             /\ \A x \in Used(g, i) : g.blks[i].seg[x] = h.blks[i].seg[x]
    BY <1>2, HeapFields DEF Less, HeapInv
  <1>9. Aligned(h, g)
    BY ONLY <1>8 DEF Aligned
  <1>10. ASSUME NEW i \in Nat
         PROVE  /\ Used(g, i) \subseteq Used(h, i)
                /\ \A x \in Used(h, i) : <<i, x>> # <<p, o>> =>
                     x \in Used(g, i) /\ g.blks[i].seg[x] = h.blks[i].seg[x]
    <2>1. CASE i \in 1 .. Len(h.blks)
      BY ONLY <2>1, <1>8
    <2>2. CASE i \notin 1 .. Len(h.blks)
      BY <2>2, <1>8 DEF Used
    <2> QED BY <2>1, <2>2
  <1>11. <<p, o>> \notin Marks(g)
    <2>1. o \notin Used(g, p)
      BY <1>8
    <2> QED BY <2>1 DEF Marks
  <1>12. Swept(h, g, p, o, at)
    <2>1. o <= at + new
      BY <1>3, <1>5
    <2>2. Balanced(h) => Balanced(g)
      BY <1>2
    <2>3. p \in 1 .. Len(h.blks) /\ g.blks[p].len = h.blks[p].len
      BY <1>7
    <2>4. /\ o \in Nat /\ at \in DOMAIN g.blks[p].seg
          /\ at <= o /\ o <= at + g.blks[p].seg[at].len
      BY ONLY <2>1, <1>3, <1>7
    <2>5. HeapInv(g) /\ Len(g.blks) = Len(h.blks)
      BY <1>8
    <2> QED BY ONLY <2>2, <2>3, <2>4, <2>5, <1>9, <1>10, <1>11 DEF Swept
  <1>13. PassedTo(g, p, at) = at + new /\ at + new \in Nat
    BY ONLY <1>3, <1>5, <1>7 DEF PassedTo
  <1> QED BY <1>3, <1>12, <1>13 DEF Stepping, at, new

\* Its pointers after it: the joined segment, and the free one after that.
Pointers(b, o, m, t) ==
    /\ t.off = JoinAt(b, o, PrevAt(b.free, m)) + JoinedLen(b, o, PrevAt(b.free, m), NextAt(b.free, m))
    /\ t.prev = JoinAt(b, o, PrevAt(b.free, m))
    /\ t.next = NextAt(b.free, IF JoinsNext(b, o, NextAt(b.free, m)) THEN m + 1 ELSE m)

\* The pointers it has then are again neighbours in the free list.
LEMMA ReleaseBetween ==
    ASSUME NEW b, BlkInv(b), NEW o \in UsedSet(b.seg), NEW m, Around(b.free, m, o),
           NEW c, LinkedBlk(b, c, m, o), NEW e, e.free = c.free,
           NEW t, Pointers(b, o, m, t)
    PROVE  Pointed(e, t)
  <1> DEFINE at == JoinAt(b, o, PrevAt(b.free, m))
             new == JoinedLen(b, o, PrevAt(b.free, m), NextAt(b.free, m))
  <1>0. /\ t.off = at + new /\ t.prev = at
        /\ t.next = NextAt(b.free, IF JoinsNext(b, o, NextAt(b.free, m)) THEN m + 1 ELSE m)
    BY DEF Pointers
  <1> DEFINE k == IF JoinsPrev(b, o, PrevAt(b.free, m)) THEN m ELSE m + 1
             l == c.free
  <1>1. /\ Lists(l, FreeSet(c.seg)) /\ new \in 1 .. DataLen(b)
        /\ k \in 1 .. Len(l) /\ l[k] = at
        /\ NextAt(l, k) = NextAt(b.free, IF JoinsNext(b, o, NextAt(b.free, m)) THEN m + 1 ELSE m)
    BY DEF LinkedBlk
  <1> HIDE DEF k, l, at, new
  <1>2. Len(l) \in Nat /\ l \in Seq(Nat) /\ DataLen(b) \in Nat
    BY <1>1, BlkFields DEF Lists, BlkInv
  <1>3. k \in Nat /\ k # 0 /\ at \in Nat /\ new \in Nat /\ new > 0
    BY <1>1, <1>2
  <1>4. t.prev = PrevAt(l, k) /\ t.next = NextAt(l, k)
    BY <1>0, <1>1, <1>3 DEF PrevAt
  <1>5. ASSUME NEW i \in 1 .. k PROVE l[i] < t.off
    <2>1. i \in 1 .. Len(l) /\ l[i] \in Nat
      BY <1>1, <1>2
    <2>2. l[i] <= l[k]
      <3>1. CASE i = k
        BY <3>1, <2>1
      <3>2. CASE i # k
        <4>1. i < k
          BY <3>2, <1>3
        <4>2. l[i] < l[k]
          BY ONLY <4>1, <2>1, <1>1 DEF Lists
        <4> QED BY ONLY <4>2, <2>1, <1>1, <1>3
      <3> QED BY <3>1, <3>2
    <2> QED BY ONLY <2>1, <2>2, <1>0, <1>1, <1>3
  <1>6. k \in 0 .. Len(l)
    BY ONLY <1>1, <1>2, <1>3
  <1>7. Between(e, t, k)
    BY ONLY <1>4, <1>5, <1>6, e.free = c.free DEF Between, l
  <1> QED BY ONLY <1>3, <1>7 DEF Pointed

FreedIn(h, j, x, len) == [h EXCEPT !.blks[j] = x, !.nSeg = @ - 1, !.currUse = @ - len]

\* What sweep writes to the heap as it releases.
LEMMA ReleasedIs ==
    ASSUME NEW h \in Heap, NEW j, NEW x, NEW len
    PROVE  FreedIn(h, j, x, len)
             = Put(h, j, x, h.curr, h.nSeg - 1, h.currUse - len)
  <1> DEFINE bs == [h.blks EXCEPT ![j] = x]
             y == [h EXCEPT !.blks = bs, !.nSeg = @ - 1, !.currUse = @ - len]
  <1>1. y = FreedIn(h, j, x, len)
    BY DEF FreedIn
  <1>2. y = [h EXCEPT !.blks = bs, !.nSeg = @ - 1, !.currUse = @ - len]
    OBVIOUS
  <1>3. Put(h, j, x, h.curr, h.nSeg - 1, h.currUse - len)
          = [blks |-> bs, curr |-> h.curr, nSeg |-> h.nSeg - 1,
             currUse |-> h.currUse - len, totUse |-> h.totUse]
    BY DEF Put
  <1> HIDE DEF y, bs
  <1>4. y = [blks |-> bs, curr |-> h.curr, nSeg |-> h.nSeg - 1,
             currUse |-> h.currUse - len, totUse |-> h.totUse]
    BY ONLY <1>2, h \in Heap DEF Heap
  <1> QED BY ONLY <1>1, <1>3, <1>4

\* Both actions that release a segment.
LEMMA ReleaseInv ==
    ASSUME IInv, pc = "seg", SweptSeg.st = "gc", ~SweptSeg.mark,
           NEW m, Around(SweptBlk.free, m, sw.off), NEW prev, prev = PrevAt(SweptBlk.free, m),
           NEW next, next = NextAt(SweptBlk.free, m),
           NEW n \in Nat, n >= SweptBlk.nAlloc - 1, NEW max \in Nat,
           heap' = Released(Counted(Linked(SweptBlk, sw.off, prev, next), n, max)),
           sw' \in SweepLocals, sw'.blk = sw.blk,
           sw'.off = JoinAt(SweptBlk, sw.off, prev) + JoinedLen(SweptBlk, sw.off, prev, next),
           sw'.prev = JoinAt(SweptBlk, sw.off, prev),
           sw'.next = NextAt(SweptBlk.free, IF JoinsNext(SweptBlk, sw.off, next) THEN m + 1 ELSE m),
           pc' = (IF sw'.off = DataLen(SweptBlk) THEN "blk" ELSE "seg"),
           enabled' = enabled, markCount' = markCount, req' = req, held' = held
    PROVE  IInv'
  <1> DEFINE p == Pos(heap, sw.blk)
             b == SweptBlk
             o == sw.off
             c == Linked(b, o, prev, next)
             at == JoinAt(b, o, prev)
             new == JoinedLen(b, o, prev, next)
             len == b.seg[o].len
             e == Counted(c, n, max)
  <1>1. PICK i : Sweeping(heap, markCount, held, sw, p, o, b, i)
    BY InLoop
  <1>2. /\ b.seg[o].st = "gc" /\ ~b.seg[o].mark /\ Around(b.free, m, o) /\ n >= b.nAlloc - 1
        /\ sw'.off = at + new /\ sw'.prev = at
        /\ sw'.next = NextAt(b.free, IF JoinsNext(b, o, next) THEN m + 1 ELSE m)
        /\ pc' = (IF sw'.off = DataLen(b) THEN "blk" ELSE "seg")
    BY DEF SweptSeg
  <1>3. heap' = FreedIn(heap, p, e, len)
    BY DEF Released, SweptSeg, FreedIn
  <1>4. c = Linked(b, o, prev, next) /\ at = JoinAt(b, o, prev) /\ new = JoinedLen(b, o, prev, next)
        /\ e = Counted(c, n, max) /\ len = b.seg[o].len
    OBVIOUS
  <1> HIDE DEF p, b, o, c, at, new, len, e
  <1>5. /\ AllocInvs(heap, markCount, "seg", held, sw) /\ HeapInv(heap)
        /\ p \in 1 .. Len(heap.blks) /\ p \in Nat
        /\ b = heap.blks[p] /\ BlkInv(b)
        /\ o = sw.off /\ o \in Nat /\ o \in DOMAIN b.seg /\ b.seg[o].len \in Nat
        /\ p = Pos(heap, sw.blk)
    BY ONLY <1>1 DEF Sweeping
  <1>6. o \in UsedSet(b.seg)
    BY <1>2, <1>5 DEF UsedSet
  <1>7. heap' = Put(heap, p, e, heap.curr, heap.nSeg - 1, heap.currUse - len)
    BY ONLY <1>3, <1>5, ReleasedIs DEF HeapInv
  <1>8. LinkedBlk(b, c, m, o)
    <2>1. c = Linked(b, o, PrevAt(b.free, m), NextAt(b.free, m))
      BY <1>4 DEF b
    <2> QED BY ONLY <2>1, <1>2, <1>5, <1>6, LinkedInv
  <1>9. prev = PrevAt(b.free, m) /\ next = NextAt(b.free, m)
    BY DEF b
  <1>10. Stepping(heap, heap', p, o, at, new)
    <2>1. heap.nSeg - 1 \in Int /\ heap.currUse - len \in Int
      BY <1>4, <1>5, HeapFields DEF HeapInv
    <2>2. /\ heap' = Put(heap, p, Counted(c, n, max), heap.curr, heap.nSeg - 1, heap.currUse - len)
          /\ heap.currUse - len = heap.currUse - b.seg[o].len
      BY ONLY <1>4, <1>7
    <2>3. Stepping(heap, heap', p, o, JoinAt(b, o, PrevAt(b.free, m)),
                   JoinedLen(b, o, PrevAt(b.free, m), NextAt(b.free, m)))
      BY ONLY <2>1, <2>2, <1>2, <1>5, <1>6, <1>8, n \in Nat, max \in Nat, ReleaseStep
    <2> QED BY ONLY <2>3, <1>4, <1>9
  <1>11. heap'.blks[p] = e
    <2>1. DOMAIN heap.blks = 1 .. Len(heap.blks)
      BY <1>5, HeapFields DEF HeapInv
    <2> QED BY ONLY <2>1, <1>5, <1>7 DEF Put
  <1>12. e.free = c.free /\ e.len = c.len /\ c.len = b.len
    BY ONLY <1>4, <1>8 DEF Counted, LinkedBlk
  <1>13. PICK k \in Nat : Between(heap'.blks[p], sw', k)
    <2>1. heap'.blks[p].free = c.free
      BY ONLY <1>11, <1>12
    <2>2. Pointers(b, o, m, sw')
      BY ONLY <1>2, <1>4, <1>9 DEF Pointers
    <2>3. Pointed(heap'.blks[p], sw')
      BY ONLY <2>1, <2>2, <1>2, <1>5, <1>6, <1>8, ReleaseBetween
    <2> QED BY ONLY <2>3 DEF Pointed
  <1>14. <<p, o>> \notin Marks(heap)
    BY ONLY <1>2, <1>5, MarkIs
  <1>15. Spared(heap, heap', p, o, at, held)
    <2> SUFFICES ASSUME NEW s \in held, Pos(heap, s.blk) = p, s.off = o PROVE FALSE
      BY DEF Spared
    <2>1. MarkInv(heap, "seg", p, o, held)
      BY <1>5 DEF AllocInvs
    <2>2. Ahead("seg", p, o, p, o)
      BY <1>5 DEF Ahead
    <2>3. <<p, o>> \in Marks(heap)
      BY <2>1, <2>2, <1>2, <1>5 DEF MarkInv
    <2> QED BY <2>3, <1>14
  <1>16. AllocInvs(heap', markCount, PassedPc(heap', p, at), held, sw')
    <2>1. markCount = IF <<p, o>> \in Marks(heap) THEN markCount - 1 ELSE markCount
      BY <1>14
    <2>2. sw'.off = PassedTo(heap', p, at)
      BY <1>2, <1>10 DEF Stepping
    <2>3. Swept(heap, heap', p, o, at)
      BY <1>10 DEF Stepping
    <2> QED BY ONLY <2>1, <2>2, <2>3, <1>5, <1>13, <1>15, sw' \in SweepLocals, sw'.blk = sw.blk, SweptInv
  <1>17. pc' = PassedPc(heap', p, at)
    <2>1. DataLen(b) = DataLen(heap'.blks[p])
      BY <1>11, <1>12 DEF DataLen
    <2> QED BY ONLY <2>1, <1>2, <1>10 DEF PassedPc, Stepping
  <1>18. AllocInvs(heap', markCount', pc', held', sw')
    BY ONLY <1>16, <1>17, markCount' = markCount, held' = held
  <1> QED BY <1>17, <1>18 DEF IInv, PassedPc

\* Linking in the first free segment of a block, as sweep writes it.
LEMMA FirstIs ==
    ASSUME NEW b, BlkInv(b), NEW o \in DOMAIN b.seg
    PROVE  [b EXCEPT !.seg[o] = FreeDescr(@.len), !.free = <<o>>, !.nAlloc = @ - 1, !.nFree = @ + 1]
             = Counted(Linked(b, o, None, None), b.nAlloc - 1, b.maxFree)
  <1> DEFINE len == b.seg[o].len
             t == [b.seg EXCEPT ![o] = FreeDescr(len)]
             c == Linked(b, o, None, None)
             u == [x \in DOMAIN b.seg \ {} |-> IF x = o THEN FreeDescr(JoinedLen(b, o, None, None))
                                               ELSE b.seg[x]]
             y == [b EXCEPT !.seg = t, !.free = <<o>>, !.nAlloc = @ - 1, !.nFree = @ + 1]
             z == [b EXCEPT !.seg = u, !.free = <<o>>, !.nFree = @ + 1 - 0]
  <1>1. b \in Blk /\ b.seg \in SegMaps /\ b.nFree \in Nat
    BY BlkFields DEF BlkInv
  <1>2. b.seg \in [DOMAIN b.seg -> SegDescr] /\ o \in Nat /\ len \in Nat
    BY <1>1, SegMapElim
  <1>3. JoinedLen(b, o, None, None) = len
    BY <1>2 DEF JoinedLen, JoinsNext, JoinsPrev
  <1>4. t = u
    BY <1>2, <1>3
  <1>5. c = z
    <2>1. ~JoinsNext(b, o, None) /\ ~JoinsPrev(b, o, None)
      BY DEF JoinsNext, JoinsPrev
    <2>2. Upto(b.free, None) = <<>> /\ From(b.free, None) = <<>>
      BY DEF Upto, From
    <2>3. <<>> \o <<o>> \o <<>> = <<o>>
      BY <1>2
    <2> QED BY <2>1, <2>2, <2>3 DEF Linked
  <1>6. y = [b EXCEPT !.seg[o] = FreeDescr(@.len), !.free = <<o>>, !.nAlloc = @ - 1, !.nFree = @ + 1]
    OBVIOUS
  <1>7. y = [b EXCEPT !.seg = t, !.free = <<o>>, !.nAlloc = @ - 1, !.nFree = @ + 1]
        /\ z = [b EXCEPT !.seg = u, !.free = <<o>>, !.nFree = @ + 1 - 0]
    OBVIOUS
  <1> HIDE DEF y, z, t, u, c
  <1>8. y = [id |-> b.id, len |-> b.len, seg |-> t, free |-> <<o>>, maxFree |-> b.maxFree,
             nAlloc |-> b.nAlloc - 1, nFree |-> b.nFree + 1]
    BY ONLY <1>1, <1>7 DEF Blk
  <1>9. z = [id |-> b.id, len |-> b.len, seg |-> u, free |-> <<o>>, maxFree |-> b.maxFree,
             nAlloc |-> b.nAlloc, nFree |-> b.nFree + 1]
    <2>1. b.nFree + 1 - 0 = b.nFree + 1
      BY <1>1
    <2> QED BY ONLY <2>1, <1>1, <1>7 DEF Blk
  <1>10. y = Counted(c, b.nAlloc - 1, b.maxFree)
    BY ONLY <1>4, <1>5, <1>8, <1>9 DEF Counted
  <1> QED BY ONLY <1>6, <1>10 DEF c

\* A block with a segment in use counts at least one.
LEMMA SomeUsed ==
    ASSUME NEW b, BlkInv(b), NEW o \in UsedSet(b.seg)
    PROVE  b.nAlloc \in Nat /\ b.nAlloc # 0 /\ b.nAlloc - 1 \in Nat
  <1>1. IsFiniteSet(UsedSet(b.seg)) /\ Cardinality(UsedSet(b.seg)) \in Nat
    BY UsedFinite, BlkFields DEF BlkInv
  <1>2. Cardinality(UsedSet(b.seg)) # 0
    BY <1>1, FS_EmptySet
  <1>3. b.nAlloc \in Nat /\ b.nAlloc >= Cardinality(UsedSet(b.seg))
    BY BlkFields DEF BlkInv
  <1> QED BY ONLY <1>1, <1>2, <1>3

\* The first segment released in a block keeps the invariant.
LEMMA SweepFirstInv == ASSUME IInv, SweepFirst PROVE IInv'
  <1> DEFINE p == Pos(heap, sw.blk)
             b == SweptBlk
             o == sw.off
             len == b.seg[o].len
  <1>1. /\ pc = "seg" /\ SweptSeg.st = "gc" /\ ~SweptSeg.mark /\ sw.prev = None /\ sw.next = None
        /\ heap' = Released([b EXCEPT !.seg[o] = FreeDescr(@.len), !.free = <<o>>,
                                      !.nAlloc = @ - 1, !.nFree = @ + 1])
        /\ sw' = [sw EXCEPT !.off = o + len, !.prev = o, !.max = len, !.freed = @ + len]
        /\ pc' = (IF sw'.off = DataLen(b) THEN "blk" ELSE "seg")
        /\ enabled' = enabled /\ markCount' = markCount /\ req' = req /\ held' = held
    BY DEF SweepFirst, SweptSeg
  <1>2. PICK m : Sweeping(heap, markCount, held, sw, p, o, b, m)
    BY <1>1, InLoop
  <1>2a. SweptSeg = b.seg[o] /\ o = sw.off /\ b = SweptBlk
    BY DEF SweptSeg
  <1> HIDE DEF p, b, o
  <1>3. /\ BlkInv(b) /\ sw \in SweepLocals /\ o \in DOMAIN b.seg /\ o \in Nat /\ len \in Nat
        /\ m \in Nat /\ Between(b, sw, m)
    BY ONLY <1>2 DEF Sweeping
  <1> HIDE DEF len
  <1>4. o \in UsedSet(b.seg)
    BY <1>1, <1>2a, <1>3 DEF UsedSet
  <1>5. b.free = <<>> /\ Len(b.free) = 0 /\ m = 0
    <2>1. b.free \in Seq(Nat) /\ Len(b.free) \in Nat /\ m \in 0 .. Len(b.free)
      BY <1>3, BlkFields DEF BlkInv, Between
    <2>2. m = 0
      <3> SUFFICES ASSUME m # 0 PROVE FALSE
        OBVIOUS
      <3>1. b.free[m] = None
        BY <1>1, <1>3 DEF Between, PrevAt
      <3>2. b.free[m] \in Nat
        BY <2>1
      <3> QED BY <3>1, <3>2 DEF None
    <2>3. Len(b.free) = 0
      <3> SUFFICES ASSUME Len(b.free) # 0 PROVE FALSE
        OBVIOUS
      <3>1. b.free[1] = None
        BY <1>1, <1>3, <2>2 DEF Between, NextAt
      <3>2. b.free[1] \in Nat
        BY <2>1
      <3> QED BY <3>1, <3>2 DEF None
    <2> QED BY <2>1, <2>2, <2>3
  <1>6. Around(b.free, 0, o) /\ PrevAt(b.free, 0) = None /\ NextAt(b.free, 0) = None
    BY <1>5 DEF Around, PrevAt, NextAt
  <1>7. heap' = Released(Counted(Linked(b, o, None, None), b.nAlloc - 1, b.maxFree))
    BY <1>1, <1>3, FirstIs
  <1>8. b.nAlloc - 1 \in Nat /\ b.nAlloc \in Nat /\ b.maxFree \in Nat
    BY <1>3, <1>4, SomeUsed, BlkFields DEF BlkInv
  <1>9. sw' = [blk |-> sw.blk, off |-> o + len, prev |-> o, next |-> sw.next, max |-> len,
               freed |-> sw.freed + len, before |-> sw.before]
    BY ONLY <1>1, <1>3 DEF SweepLocals
  <1>10. sw' \in SweepLocals
    BY ONLY <1>3, <1>9 DEF SweepLocals
  <1>11. sw'.off = o + len /\ sw'.prev = o /\ sw'.next = None /\ sw'.blk = sw.blk
    BY ONLY <1>1, <1>9
  <1>12. JoinAt(b, o, None) = o /\ JoinedLen(b, o, None, None) = len /\ ~JoinsNext(b, o, None)
    BY <1>3 DEF JoinAt, JoinedLen, JoinsNext, JoinsPrev, len
  <1>13. /\ pc = "seg" /\ SweptSeg.st = "gc" /\ ~SweptSeg.mark
         /\ Around(SweptBlk.free, 0, sw.off) /\ None = PrevAt(SweptBlk.free, 0)
         /\ None = NextAt(SweptBlk.free, 0) /\ b.nAlloc - 1 \in Nat /\ b.nAlloc - 1 >= SweptBlk.nAlloc - 1
         /\ b.maxFree \in Nat
         /\ heap' = Released(Counted(Linked(SweptBlk, sw.off, None, None), b.nAlloc - 1, b.maxFree))
         /\ sw' \in SweepLocals /\ sw'.blk = sw.blk
         /\ sw'.off = JoinAt(SweptBlk, sw.off, None) + JoinedLen(SweptBlk, sw.off, None, None)
         /\ sw'.prev = JoinAt(SweptBlk, sw.off, None)
         /\ sw'.next = NextAt(SweptBlk.free, IF JoinsNext(SweptBlk, sw.off, None) THEN 0 + 1 ELSE 0)
         /\ pc' = (IF sw'.off = DataLen(SweptBlk) THEN "blk" ELSE "seg")
         /\ enabled' = enabled /\ markCount' = markCount /\ req' = req /\ held' = held
    <2>1. b.nAlloc - 1 >= b.nAlloc - 1
      BY <1>8
    <2>2. NextAt(b.free, IF JoinsNext(b, o, None) THEN 0 + 1 ELSE 0) = None
      BY <1>6, <1>12
    <2> QED BY ONLY <2>1, <2>2, <1>1, <1>2a, <1>6, <1>7, <1>8, <1>10, <1>11, <1>12
  <1> QED BY ONLY <1>13, IInv, ReleaseInv

\* How far sweep moves next: past what is before the segment at o.
Stop(ahead, o) == Min({k \in DOMAIN ahead : ahead[k] >= o} \cup {Len(ahead) + 1})

Walked(l, s, m, o, ahead, stop) ==
    /\ Len(ahead) \in Nat /\ stop \in Nat /\ stop \in 1 .. (Len(ahead) + 1)
    /\ m + stop - 1 \in Nat /\ m + stop - 1 \in 0 .. Len(l)
    /\ \A k \in 1 .. Len(ahead) : m + k \in 1 .. Len(l) /\ ahead[k] = l[m + k]
    /\ Around(l, m + stop - 1, o)
    /\ PrevAt(l, m + stop - 1) = IF stop = 1 THEN s.prev ELSE ahead[stop - 1]
    /\ NextAt(l, m + stop - 1) = IF stop > Len(ahead) THEN None ELSE ahead[stop]
    /\ stop <= Len(ahead) =>
         NextAt(l, m + stop - 1 + 1) = IF stop = Len(ahead) THEN None ELSE ahead[stop + 1]

\* sweep follows the free list from where it stood to the segment.
LEMMA WalkOn ==
    ASSUME NEW b, BlkInv(b), NEW o \in UsedSet(b.seg), NEW s, s.off = o, NEW m \in Nat, Between(b, s, m)
    PROVE  Walked(b.free, s, m, o, From(b.free, s.next), Stop(From(b.free, s.next), o))
  <1> DEFINE l == b.free
             L == Len(l)
             ahead == From(l, s.next)
             n == Len(ahead)
             K == {k \in DOMAIN ahead : ahead[k] >= o} \cup {n + 1}
             stop == Min(K)
             w == m + stop - 1
  <1>1. /\ Lists(l, FreeSet(b.seg)) /\ l \in Seq(Nat) /\ L \in Nat /\ L = Len(l) /\ m \in 0 .. L
        /\ s.prev = PrevAt(l, m) /\ s.next = NextAt(l, m)
        /\ \A k \in 1 .. m : l[k] < o
    BY DEF BlkInv, Between, Lists
  <1>2. ahead = SubSeq(l, m + 1, L)
    BY ONLY <1>1, FromIs
  <1>3. /\ ahead \in Seq(Nat) /\ n = L - m /\ n \in Nat /\ DOMAIN ahead = 1 .. n
        /\ \A k \in 1 .. n : ahead[k] = l[m + k]
    <2>1. m + 1 \in 1 .. (L + 1) /\ L \in 0 .. L
      BY <1>1
    <2>2. /\ Lists(SubSeq(l, m + 1, L), Part(l, m + 1, L))
          /\ Len(SubSeq(l, m + 1, L)) = IF m + 1 <= L THEN L - (m + 1) + 1 ELSE 0
          /\ \A i \in 1 .. L - (m + 1) + 1 : SubSeq(l, m + 1, L)[i] = l[m + 1 + i - 1]
      BY ONLY <2>1, <1>1, ListPart
    <2> HIDE DEF ahead, l, L
    <2>3. ahead \in Seq(Nat)
      BY <2>2, <1>2 DEF Lists
    <2>4. n = L - m /\ L - (m + 1) + 1 = L - m /\ n \in Nat
      BY <2>2, <1>1, <1>2
    <2>5. \A k \in 1 .. n : m + 1 + k - 1 = m + k
      BY <1>1
    <2>6. \A k \in 1 .. n : ahead[k] = l[m + k]
      BY ONLY <2>2, <2>4, <2>5, <1>2
    <2> QED BY <2>3, <2>4, <2>6
  <1> HIDE DEF l, L, ahead, n
  <1>4. /\ stop \in K /\ stop \in 1 .. (n + 1) /\ stop \in Nat
        /\ \A k \in 1 .. n : k < stop => ahead[k] < o
        /\ stop <= n => ahead[stop] >= o
    <2>1. K \subseteq Nat /\ K # {} /\ K \subseteq 1 .. (n + 1)
      BY <1>3
    <2>2. stop \in K /\ \A y \in K : stop <= y
      BY ONLY <2>1, LeastExists
    <2>3. o \in Nat
      BY SegMapElim DEF BlkInv, Segments, UsedSet
    <2>4. stop \in 1 .. (n + 1) /\ stop \in Nat
      BY <2>1, <2>2, <1>3
    <2>5. ASSUME NEW k \in 1 .. n, k < stop PROVE ahead[k] < o
      <3>1. k \notin K
        BY <2>2, <2>4, <2>5
      <3>2. ahead[k] \in Nat /\ k \in DOMAIN ahead
        BY <1>3
      <3> QED BY <3>1, <3>2, <2>3
    <2>6. stop <= n => ahead[stop] >= o
      <3> HIDE DEF stop
      <3> QED BY <2>2, <2>4, <1>3
    <2> QED BY <2>2, <2>4, <2>5, <2>6
  <1> HIDE DEF stop, K
  <1>5. \A k \in 1 .. n : m + k \in 1 .. L
    BY ONLY <1>1, <1>3
  <1>6. w \in Nat /\ w \in 0 .. L /\ w >= m /\ w + 1 = m + stop
    BY ONLY <1>1, <1>3, <1>4
  <1>7. (w = L <=> stop = n + 1) /\ (w = 0 => stop = 1 /\ m = 0) /\ (stop = 1 => w = m)
        /\ (stop > n <=> stop = n + 1) /\ (w + 1 = L <=> stop = n)
    <2>1. m \in Nat /\ L \in Nat /\ n \in Nat /\ n = L - m /\ stop \in Nat /\ 1 <= stop /\ stop <= n + 1
          /\ w \in Nat /\ w + 1 = m + stop
      BY <1>1, <1>3, <1>4, <1>6
    <2> HIDE DEF w
    <2> QED BY ONLY <2>1
  <1>8. Around(l, w, o)
    <2>1. ASSUME NEW k \in 1 .. w PROVE l[k] < o
      <3>1. CASE k <= m
        BY <3>1, <1>1, <1>6
      <3>2. CASE k > m
        <4>1. k - m \in 1 .. n /\ k - m < stop /\ m + (k - m) = k
          BY ONLY <3>2, <2>1, <1>1, <1>3, <1>4, <1>6
        <4> QED BY ONLY <4>1, <1>3, <1>4
      <3> QED BY <3>1, <3>2, <1>1, <1>6
    <2>2. ASSUME NEW k \in (w + 1) .. L PROVE o < l[k]
      <3>1. w + 1 \in 1 .. L /\ k \in 1 .. L /\ stop <= n /\ stop \in 1 .. n
        BY <2>2, <1>1, <1>3, <1>4, <1>6, <1>7
      <3>2. l[w + 1] >= o
        BY ONLY <3>1, <1>3, <1>4, <1>6
      <3>3. l[w + 1] <= l[k]
        <4>1. CASE k = w + 1
          BY <4>1, <3>1, <1>1
        <4>2. CASE k # w + 1
          <5>1. w + 1 < k
            BY ONLY <4>2, <2>2, <1>1, <1>6
          <5>2. l[w + 1] < l[k]
            BY ONLY <5>1, <3>1, <1>1 DEF Lists
          <5>3. l[w + 1] \in Nat /\ l[k] \in Nat
            BY ONLY <3>1, <1>1
          <5> QED BY ONLY <5>2, <5>3
        <4> QED BY <4>1, <4>2
      <3>4. l[k] # o
        <4>1. l[k] \in FreeSet(b.seg)
          BY ONLY <3>1, <1>1, ListItem
        <4> QED BY <4>1 DEF FreeSet, UsedSet
      <3>5. l[w + 1] \in Nat /\ l[k] \in Nat /\ o \in Nat
        BY <3>1, <1>1, SegMapElim DEF BlkInv, Segments, UsedSet
      <3> QED BY ONLY <3>2, <3>3, <3>4, <3>5
    <2> QED BY ONLY <2>1, <2>2, <1>6 DEF Around, L
  <1>9. PrevAt(l, w) = IF stop = 1 THEN s.prev ELSE ahead[stop - 1]
    <2>1. CASE stop = 1
      BY <2>1, <1>1, <1>7
    <2>2. CASE stop # 1
      <3>1. stop - 1 \in 1 .. n /\ m + (stop - 1) = w
        BY ONLY <2>2, <1>1, <1>3, <1>4
      <3> QED BY ONLY <3>1, <2>2, <1>3, <1>7 DEF PrevAt
    <2> QED BY <2>1, <2>2
  <1>10. NextAt(l, w) = IF stop > n THEN None ELSE ahead[stop]
    <2>1. CASE stop > n
      BY ONLY <2>1, <1>7 DEF NextAt, L
    <2>2. CASE ~(stop > n)
      <3>1. stop \in 1 .. n
        BY ONLY <2>2, <1>3, <1>4
      <3> QED BY ONLY <3>1, <2>2, <1>3, <1>6, <1>7 DEF NextAt, L
    <2> QED BY <2>1, <2>2
  <1>11. ASSUME stop <= n PROVE NextAt(l, w + 1) = IF stop = n THEN None ELSE ahead[stop + 1]
    <2>1. CASE stop = n
      BY ONLY <2>1, <1>7 DEF NextAt, L
    <2>2. CASE stop # n
      <3>1. stop + 1 \in 1 .. n /\ w + 1 + 1 = m + (stop + 1)
        BY ONLY <2>2, <1>3, <1>4, <1>6, <1>11, <1>1
      <3> QED BY ONLY <3>1, <2>2, <1>3, <1>7 DEF NextAt, L
    <2> QED BY <2>1, <2>2
  <1> DEFINE z == Stop(ahead, o)
  <1>12. stop = z
    BY DEF stop, K, n, Stop
  <1> HIDE DEF z
  <1>13. Walked(l, s, m, o, ahead, stop)
    BY ONLY <1>3, <1>4, <1>5, <1>6, <1>8, <1>9, <1>10, <1>11 DEF Walked, n, L
  <1> QED BY ONLY <1>12, <1>13 DEF z, l, ahead

\* The greatest length seen: finitely many were, none longer than the block.
Seen(b, s, ahead, stop, new, jp) ==
    {s.max} \cup {b.seg[ahead[k]].len : k \in 1 .. (stop - 1)} \cup (IF jp THEN {new} ELSE {})

\* The greatest free length it saw.
LEMMA SeenMax ==
    ASSUME NEW b, BlkInv(b), NEW s \in SweepLocals, NEW m \in Nat, NEW o,
           NEW ahead, NEW stop, Walked(b.free, s, m, o, ahead, stop),
           NEW new \in 1 .. DataLen(b), NEW jp \in BOOLEAN
    PROVE  Max(Seen(b, s, ahead, stop, new, jp)) \in Nat
  <1> DEFINE A == {b.seg[ahead[k]].len : k \in 1 .. (stop - 1)}
             B == IF jp THEN {new} ELSE {}
             S == {s.max} \cup A \cup B
             n == s.max + DataLen(b)
  <1>1. DataLen(b) \in Nat /\ s.max \in Nat /\ n \in Nat
    <2>1. DataLen(b) \in Nat
      BY BlkFields DEF BlkInv
    <2>2. s.max \in Nat
      BY DEF SweepLocals
    <2> QED BY ONLY <2>1, <2>2
  <1>2. ASSUME NEW k \in 1 .. (stop - 1) PROVE b.seg[ahead[k]].len \in 0 .. n
    <2>1. k \in 1 .. Len(ahead)
      BY DEF Walked
    <2>2. ahead[k] \in FreeSet(b.seg)
      <3>1. m + k \in 1 .. Len(b.free) /\ ahead[k] = b.free[m + k]
        BY <2>1 DEF Walked
      <3>2. Lists(b.free, FreeSet(b.seg))
        BY DEF BlkInv
      <3> QED BY ONLY <3>1, <3>2, ListItem
    <2>3. Segments(b.seg, DataLen(b)) /\ ahead[k] \in DOMAIN b.seg
      BY <2>2 DEF BlkInv, FreeSet
    <2>4. b.seg[ahead[k]].len \in Nat /\ ahead[k] \in Nat
      BY <2>3, SegMapElim DEF Segments
    <2>5. ahead[k] + b.seg[ahead[k]].len <= DataLen(b)
      BY <2>3 DEF Segments, Tiled
    <2> QED BY ONLY <2>4, <2>5, <1>1
  <1>3. S \subseteq 0 .. n /\ S # {}
    <2>1. A \subseteq 0 .. n
      BY <1>2
    <2>2. B \subseteq 0 .. n
      <3>1. new \in 0 .. n
        BY <1>1
      <3> QED BY <3>1
    <2>3. s.max \in 0 .. n
      BY <1>1
    <2> HIDE DEF A, B
    <2> QED BY ONLY <2>1, <2>2, <2>3
  <1> HIDE DEF S, n
  <1>4. Max(S) \in 0 .. n
    <2>1. Max(S) \in S
      BY ONLY <1>1, <1>3, GreatestExists
    <2> QED BY <2>1, <1>3
  <1> QED BY <1>1, <1>4 DEF S, Seen

\* The locals after a segment was linked in.
LinkedTo(t, s, f, prev, next) ==
    t \in SweepLocals /\ t.blk = s.blk /\ t.off = f /\ t.prev = prev /\ t.next = next

LinkedOn(s, f, prev, next, max, len) ==
    [s EXCEPT !.off = f, !.prev = prev, !.next = next, !.max = max, !.freed = @ + len]

\* The locals of sweep after it linked a segment in.
LEMMA LinkLocals ==
    ASSUME NEW s \in SweepLocals, NEW f \in Nat, NEW prev \in Nat, NEW next \in Nat \cup {None},
           NEW max \in Nat, NEW len \in Nat
    PROVE  LinkedTo(LinkedOn(s, f, prev, next, max, len), s, f, prev, next)
  <1> DEFINE t == LinkedOn(s, f, prev, next, max, len)
  <1>0. t = LinkedOn(s, f, prev, next, max, len)
    OBVIOUS
  <1> HIDE DEF t
  <1>1. t = [blk |-> s.blk, off |-> f, prev |-> prev, next |-> next, max |-> max,
             freed |-> s.freed + len, before |-> s.before]
    BY ONLY s \in SweepLocals, <1>0 DEF SweepLocals, LinkedOn
  <1>2. s.freed + len \in Nat
    BY DEF SweepLocals
  <1>3. t.blk = s.blk /\ t.off = f /\ t.prev = prev /\ t.next = next
    BY ONLY <1>1
  <1>4. t \in SweepLocals
    BY ONLY <1>1, <1>2, s \in SweepLocals, f \in Nat, prev \in Nat, next \in Nat \cup {None},
            max \in Nat DEF SweepLocals
  <1> QED BY ONLY <1>0, <1>3, <1>4 DEF LinkedTo

\* Every later release in the block keeps the invariant: its count may be too high,
\* since sweep does not count here, and is never too low.
LEMMA SweepLinkInv == ASSUME IInv, SweepLink PROVE IInv'
  <1> DEFINE p == Pos(heap, sw.blk)
             b == SweptBlk
             o == sw.off
             ahead == From(b.free, sw.next)
             stop == Stop(ahead, o)
             prev == IF stop = 1 THEN sw.prev ELSE ahead[stop - 1]
             next == IF stop > Len(ahead) THEN None ELSE ahead[stop]
             new == JoinedLen(b, o, prev, next)
             seen == {sw.max} \cup {b.seg[ahead[k]].len : k \in 1 .. (stop - 1)}
                     \cup (IF JoinsPrev(b, o, prev) THEN {new} ELSE {})
             after == Linked(b, o, prev, next)
             beyond == IF ~JoinsNext(b, o, next) THEN next
                       ELSE IF stop = Len(ahead) THEN None ELSE ahead[stop + 1]
             off == IF JoinsPrev(b, o, prev) THEN prev + new ELSE o + new
             at == IF JoinsPrev(b, o, prev) THEN prev ELSE o
             len == b.seg[o].len
  <1>1. /\ pc = "seg" /\ SweptSeg.st = "gc" /\ ~SweptSeg.mark
        /\ heap' = Released(after)
        /\ sw' = [sw EXCEPT !.off = off, !.prev = at, !.next = beyond, !.max = Max(seen), !.freed = @ + len]
        /\ pc' = (IF sw'.off = DataLen(b) THEN "blk" ELSE "seg")
        /\ enabled' = enabled /\ markCount' = markCount /\ req' = req /\ held' = held
    BY DEF SweepLink, Stop
  <1>2. PICK m : Sweeping(heap, markCount, held, sw, p, o, b, m)
    BY <1>1, InLoop
  <1> DEFINE w == m + stop - 1
  <1>3. /\ SweptSeg = b.seg[o] /\ o = sw.off /\ b = SweptBlk
        /\ ahead = From(b.free, sw.next) /\ stop = Stop(ahead, o) /\ new = JoinedLen(b, o, prev, next)
        /\ after = Linked(b, o, prev, next) /\ len = b.seg[o].len
        /\ prev = (IF stop = 1 THEN sw.prev ELSE ahead[stop - 1])
        /\ next = (IF stop > Len(ahead) THEN None ELSE ahead[stop])
        /\ beyond = (IF ~JoinsNext(b, o, next) THEN next
                     ELSE IF stop = Len(ahead) THEN None ELSE ahead[stop + 1])
        /\ off = at + new /\ at = JoinAt(b, o, prev) /\ w = m + stop - 1
    BY DEF SweptSeg, JoinAt
  <1>3a. seen = {sw.max} \cup {b.seg[ahead[k]].len : k \in 1 .. (stop - 1)}
                \cup (IF JoinsPrev(b, o, prev) THEN {new} ELSE {})
    OBVIOUS
  <1> HIDE DEF p, b, o, ahead, stop, prev, next, new, seen, after, beyond, off, at, len, w
  <1>4. /\ BlkInv(b) /\ sw \in SweepLocals /\ o \in DOMAIN b.seg /\ o \in Nat /\ len \in Nat
        /\ m \in Nat /\ Between(b, sw, m)
    BY ONLY <1>2, <1>3 DEF Sweeping
  <1>5. o \in UsedSet(b.seg)
    BY ONLY <1>1, <1>3, <1>4 DEF UsedSet
  <1>6. Walked(b.free, sw, m, o, ahead, stop)
    <2>1. Walked(b.free, sw, m, o, From(b.free, sw.next), Stop(From(b.free, sw.next), o))
      BY ONLY <1>3, <1>4, <1>5, WalkOn
    <2> QED BY ONLY <2>1, <1>3
  <1>7. /\ w \in Nat /\ Around(b.free, w, o) /\ prev = PrevAt(b.free, w) /\ next = NextAt(b.free, w)
        /\ stop <= Len(ahead) => NextAt(b.free, w + 1) = (IF stop = Len(ahead) THEN None ELSE ahead[stop + 1])
    BY ONLY <1>3, <1>6 DEF Walked
  <1>8. beyond = NextAt(b.free, IF JoinsNext(b, o, next) THEN w + 1 ELSE w)
    <2>1. JoinsNext(b, o, next) => stop <= Len(ahead)
      <3>1. JoinsNext(b, o, next) => ~(stop > Len(ahead))
        BY ONLY <1>3 DEF JoinsNext
      <3>2. stop \in Nat /\ Len(ahead) \in Nat
        BY ONLY <1>6 DEF Walked
      <3> QED BY ONLY <3>1, <3>2
    <2> QED BY ONLY <2>1, <1>3, <1>7
  <1>9. LinkedBlk(b, after, w, o)
    <2>1. after = Linked(b, o, PrevAt(b.free, w), NextAt(b.free, w))
      BY ONLY <1>3, <1>7
    <2> QED BY ONLY <2>1, <1>4, <1>5, <1>7, LinkedInv
  <1>10. after = Counted(after, b.nAlloc, b.maxFree)
    BY ONLY <1>9 DEF LinkedBlk, Counted, Blk
  <1>11. at \in Nat /\ new \in 1 .. DataLen(b) /\ new \in Nat /\ off \in Nat
    <2>1. at \in Nat
      <3>1. JoinAt(b, o, PrevAt(b.free, w)) \in Nat
        BY ONLY <1>4, <1>5, <1>7, JoinBounds
      <3> QED BY ONLY <3>1, <1>3, <1>7
    <2>2. new \in 1 .. DataLen(b)
      <3>1. JoinedLen(b, o, PrevAt(b.free, w), NextAt(b.free, w)) \in 1 .. DataLen(b)
        BY ONLY <1>9 DEF LinkedBlk
      <3> QED BY ONLY <3>1, <1>3, <1>7
    <2>3. DataLen(b) \in Nat
      BY <1>4, BlkFields DEF BlkInv
    <2> QED BY ONLY <2>1, <2>2, <2>3, <1>3
  <1>12. beyond \in Nat \cup {None}
    <2>1. b.free \in Seq(Nat) /\ Len(b.free) \in Nat
      BY <1>4, BlkFields DEF BlkInv
    <2>2. \A k \in 0 .. Len(b.free) : NextAt(b.free, k) \in Nat \cup {None}
      <3> SUFFICES ASSUME NEW k \in 0 .. Len(b.free), k # Len(b.free) PROVE b.free[k + 1] \in Nat
        BY DEF NextAt
      <3>1. k + 1 \in 1 .. Len(b.free)
        BY ONLY <2>1, k \in 0 .. Len(b.free), k # Len(b.free)
      <3> QED BY ONLY <3>1, <2>1
    <2>3. w \in 0 .. Len(b.free)
      BY ONLY <1>7 DEF Around
    <2>4. CASE JoinsNext(b, o, next)
      <3>1. w # Len(b.free)
        BY ONLY <2>4, <1>7 DEF JoinsNext, NextAt
      <3>2. w + 1 \in 0 .. Len(b.free)
        BY ONLY <3>1, <2>1, <2>3
      <3> QED BY ONLY <3>2, <2>2, <2>4, <1>8
    <2>5. CASE ~JoinsNext(b, o, next)
      BY ONLY <2>2, <2>3, <2>5, <1>8
    <2> QED BY <2>4, <2>5
  <1>13. Max(seen) \in Nat
    <2> DEFINE jp == JoinsPrev(b, o, prev)
    <2>1. jp \in BOOLEAN
      BY DEF JoinsPrev
    <2>2. seen = Seen(b, sw, ahead, stop, new, jp)
      BY ONLY <1>3a DEF Seen
    <2> HIDE DEF jp
    <2>3. Max(Seen(b, sw, ahead, stop, new, jp)) \in Nat
      BY ONLY <2>1, <1>4, <1>6, <1>11, SeenMax
    <2> QED BY ONLY <2>2, <2>3
  <1>14. sw' \in SweepLocals /\ sw'.blk = sw.blk /\ sw'.off = off /\ sw'.prev = at /\ sw'.next = beyond
    <2> DEFINE max == Max(seen)
    <2>1. sw' = LinkedOn(sw, off, at, beyond, max, len) /\ max \in Nat
      BY <1>1, <1>13 DEF LinkedOn
    <2> HIDE DEF max
    <2>2. LinkedTo(LinkedOn(sw, off, at, beyond, max, len), sw, off, at, beyond)
      BY ONLY <2>1, <1>4, <1>11, <1>12, LinkLocals
    <2> QED BY ONLY <2>1, <2>2 DEF LinkedTo
  <1>15. b.nAlloc \in Nat /\ b.nAlloc >= b.nAlloc - 1 /\ b.maxFree \in Nat
    BY <1>4, BlkFields DEF BlkInv
  <1>16. /\ pc = "seg" /\ SweptSeg.st = "gc" /\ ~SweptSeg.mark
         /\ Around(SweptBlk.free, w, sw.off) /\ prev = PrevAt(SweptBlk.free, w)
         /\ next = NextAt(SweptBlk.free, w) /\ b.nAlloc \in Nat /\ b.nAlloc >= SweptBlk.nAlloc - 1
         /\ b.maxFree \in Nat
         /\ heap' = Released(Counted(Linked(SweptBlk, sw.off, prev, next), b.nAlloc, b.maxFree))
         /\ sw' \in SweepLocals /\ sw'.blk = sw.blk
         /\ sw'.off = JoinAt(SweptBlk, sw.off, prev) + JoinedLen(SweptBlk, sw.off, prev, next)
         /\ sw'.prev = JoinAt(SweptBlk, sw.off, prev)
         /\ sw'.next = NextAt(SweptBlk.free, IF JoinsNext(SweptBlk, sw.off, next) THEN w + 1 ELSE w)
         /\ pc' = (IF sw'.off = DataLen(SweptBlk) THEN "blk" ELSE "seg")
         /\ enabled' = enabled /\ markCount' = markCount /\ req' = req /\ held' = held
    BY ONLY <1>1, <1>3, <1>7, <1>8, <1>10, <1>14, <1>15
  <1> QED BY ONLY <1>16, IInv, ReleaseInv

\* The end of a block: the bound of its free lengths is set, and it may become
\* the current one.
Bound(h, j, m, c) == Put(h, j, [h.blks[j] EXCEPT !.maxFree = m], c, h.nSeg, h.currUse)

MaxSet(h, j, m) == [h EXCEPT !.blks[j].maxFree = m]
CurrSet(h, j, m, c) == [MaxSet(h, j, m) EXCEPT !.curr = c]

\* What sweep writes at the end of a block it keeps.
LEMMA BoundIs ==
    ASSUME NEW h \in Heap, NEW j \in 1 .. Len(h.blks), NEW m, NEW c
    PROVE  MaxSet(h, j, m) = Bound(h, j, m, h.curr) /\ CurrSet(h, j, m, c) = Bound(h, j, m, c)
  <1> DEFINE bs == [h.blks EXCEPT ![j] = [h.blks[j] EXCEPT !.maxFree = m]]
             g == [h EXCEPT !.blks = bs]
             f == [g EXCEPT !.curr = c]
  <1>1. g = MaxSet(h, j, m) /\ f = CurrSet(h, j, m, c)
    BY DEF MaxSet, CurrSet
  <1>2. g = [h EXCEPT !.blks = bs]
    OBVIOUS
  <1>3. f = [g EXCEPT !.curr = c]
    OBVIOUS
  <1>4. \A d : Bound(h, j, m, d) = [blks |-> bs, curr |-> d, nSeg |-> h.nSeg,
                                       currUse |-> h.currUse, totUse |-> h.totUse]
    BY DEF Bound, Put
  <1> HIDE DEF f, g, bs
  <1>5. g = [blks |-> bs, curr |-> h.curr, nSeg |-> h.nSeg, currUse |-> h.currUse, totUse |-> h.totUse]
    BY ONLY <1>2, h \in Heap DEF Heap
  <1>6. f = [blks |-> bs, curr |-> c, nSeg |-> h.nSeg, currUse |-> h.currUse, totUse |-> h.totUse]
    BY ONLY <1>3, <1>5
  <1>7. g = Bound(h, j, m, h.curr) /\ f = Bound(h, j, m, c)
    BY ONLY <1>4, <1>5, <1>6
  <1> QED BY ONLY <1>1, <1>7

\* Bound and current block are no part of the segments.
LEMMA BoundSet ==
    ASSUME NEW h, HeapInv(h), NEW j \in 1 .. Len(h.blks), NEW m \in Nat, NEW c \in Ids(h) \cup {None}
    PROVE  /\ HeapInv(Bound(h, j, m, c)) /\ Same(h, Bound(h, j, m, c)) /\ Ids(Bound(h, j, m, c)) = Ids(h)
           /\ Bound(h, j, m, c).blks[j].nAlloc = h.blks[j].nAlloc
           /\ Len(Bound(h, j, m, c).blks) = Len(h.blks)
           /\ \A i \in 1 .. Len(h.blks) : i # j => Bound(h, j, m, c).blks[i] = h.blks[i]
           /\ Balanced(h) => Balanced(Bound(h, j, m, c))
  <1> DEFINE b == h.blks[j]
             e == [b EXCEPT !.maxFree = m]
             g == Bound(h, j, m, c)
  <1>1. h \in Heap /\ BlkInv(b) /\ h.nSeg \in Int /\ h.currUse \in Int
    BY HeapFields DEF HeapInv
  <1>2. e = [b EXCEPT !.maxFree = m] /\ g = Put(h, j, e, c, h.nSeg, h.currUse)
    BY DEF Bound
  <1> HIDE DEF e, g
  <1>3. BlkInv(e) /\ e.id = b.id /\ e.len = b.len /\ e.seg = b.seg /\ e.nAlloc = b.nAlloc
    BY ONLY <1>1, <1>2, m \in Nat, NewMaxInv
  <1>4. Replaced(h, g, j, e)
    BY ONLY <1>1, <1>2, <1>3, HeapInv(h), j \in 1 .. Len(h.blks), c \in Ids(h) \cup {None}, ReplacedInv
  <1>5. Same(h, g)
    <2>1. UsedSet(e.seg) = UsedSet(h.blks[j].seg) /\ e.id = h.blks[j].id /\ e.len = h.blks[j].len
          /\ \A o \in UsedSet(e.seg) : e.seg[o] = h.blks[j].seg[o]
      BY ONLY <1>3
    <2> QED BY ONLY <2>1, <1>4, HeapInv(h), j \in 1 .. Len(h.blks), ReplacedSame
  <1>6. g.nSeg = h.nSeg /\ g.currUse = h.currUse /\ g.totUse = h.totUse
    BY ONLY <1>2 DEF Put
  <1>7. Balanced(h) => Balanced(g)
    <2>1. Len(g.blks) = Len(h.blks)
      BY <1>4 DEF Replaced
    <2> QED BY ONLY <2>1, <1>5, <1>6, SameBalanced
  <1> QED BY <1>3, <1>4, <1>5, <1>7 DEF Replaced, g

\* With the segments their marks are the same.
LEMMA SameMarks ==
    ASSUME NEW h, HeapInv(h), NEW g, HeapInv(g), Same(h, g)
    PROVE  Marks(g) = Marks(h)
  <1>1. ASSUME NEW i \in Nat, NEW x \in Nat PROVE <<i, x>> \in Marks(g) <=> <<i, x>> \in Marks(h)
    <2>1. Used(g, i) = Used(h, i)
      BY DEF Same
    <2>2. x \in Used(h, i) => g.blks[i].seg[x] = h.blks[i].seg[x]
      <3> SUFFICES ASSUME x \in Used(h, i) PROVE g.blks[i].seg[x] = h.blks[i].seg[x]
        OBVIOUS
      <3>1. i \in 1 .. Len(h.blks)
        BY UsedFacts
      <3> QED BY <3>1 DEF Same, Kept
    <2> QED BY ONLY <2>1, <2>2, i \in Nat, x \in Nat, MarkIs
  <1>2. Marks(g) \subseteq Nat \X Nat /\ Marks(h) \subseteq Nat \X Nat
    BY DEF Marks
  <1>3. \A y \in Nat \X Nat : y \in Marks(g) <=> y \in Marks(h)
    BY ONLY <1>1
  <1> QED BY ONLY <1>2, <1>3

\* g keeps what is held, what is marked and the blocks before position j of h.
Behind(h, g, j, S) ==
    /\ HeapInv(g) /\ Balanced(g) /\ HeldInv(g, S) /\ Marks(g) = Marks(h)
    /\ j - 1 <= Len(g.blks)
    /\ \A i \in 1 .. (j - 1) : \A x \in Used(h, i) : g.blks[i].seg[x] = h.blks[i].seg[x]
    /\ \A s \in S : Pos(g, s.blk) < j => Pos(h, s.blk) = Pos(g, s.blk)

\* What sweep has left behind is as it was.
LEMMA SameBehind ==
    ASSUME NEW h, HeapInv(h), NEW g, HeapInv(g), Balanced(g), Same(h, g), NEW j \in 1 .. Len(h.blks),
           NEW S, HeldInv(h, S)
    PROVE  Behind(h, g, j, S)
  <1>1. Kept(h, g) /\ Aligned(h, g) /\ \A i \in Nat : Used(h, i) \subseteq Used(g, i)
    BY DEF Same, Kept, Aligned
  <1>2. HeldInv(g, S)
    BY <1>1, KeptHeld
  <1>3. Len(h.blks) \in Nat /\ Len(g.blks) \in Nat /\ Len(h.blks) <= Len(g.blks)
    BY <1>1, HeapFields DEF HeapInv, Kept
  <1>4. j - 1 <= Len(g.blks)
    BY ONLY <1>3, j \in 1 .. Len(h.blks)
  <1>5. \A i \in 1 .. (j - 1) : i \in 1 .. Len(h.blks)
    BY ONLY <1>3, j \in 1 .. Len(h.blks)
  <1>6. \A i \in 1 .. (j - 1) : \A x \in Used(h, i) : g.blks[i].seg[x] = h.blks[i].seg[x]
    BY ONLY <1>1, <1>5 DEF Kept
  <1>7. \A s \in S : Pos(h, s.blk) = Pos(g, s.blk)
    BY <1>1, AlignedPos DEF HeldInv
  <1>8. Marks(g) = Marks(h)
    BY SameMarks
  <1> QED BY ONLY <1>2, <1>4, <1>6, <1>7, <1>8, HeapInv(g), Balanced(g) DEF Behind

\* sweep goes on with the block before, or ends.
LEMMA SweepOnInv ==
    ASSUME NEW h, NEW n, NEW S, NEW s, AllocInvs(h, n, "blk", S, s), NEW j, j = Pos(h, s.blk),
           NEW g, Behind(h, g, j, S), NEW t \in SweepLocals
    PROVE  /\ j = 1 => AllocInvs(g, n, "retry", S, NoSweep)
           /\ j # 1 => AllocInvs(g, n, "seg", S, AtBlk(t, g.blks[j - 1]))
  <1>1. /\ HeapInv(h) /\ S \subseteq [blk : Nat, off : Nat] /\ HeldInv(h, S)
        /\ IsFiniteSet(Marks(h)) /\ n = Cardinality(Marks(h))
        /\ MarkInv(h, "blk", j, s.off, S) /\ s.blk \in Ids(h)
    BY DEF AllocInvs, SweepInv
  <1>2. j \in 1 .. Len(h.blks) /\ j \in Nat
    BY <1>1, PosOf
  <1>3. /\ HeapInv(g) /\ Balanced(g) /\ HeldInv(g, S) /\ Marks(g) = Marks(h) /\ j - 1 <= Len(g.blks)
        /\ \A i \in 1 .. (j - 1) : \A x \in Used(h, i) : g.blks[i].seg[x] = h.blks[i].seg[x]
        /\ \A u \in S : Pos(g, u.blk) < j => Pos(h, u.blk) = Pos(g, u.blk)
    BY DEF Behind
  <1>4. \A x \in Marks(h) : x[1] < j
    BY <1>1 DEF MarkInv, Ahead
  <1>5. CASE j = 1
    <2>1. Marks(h) = {}
      <3> SUFFICES ASSUME NEW x \in Marks(h) PROVE FALSE
        OBVIOUS
      <3>1. x[1] \in 1 .. Len(h.blks) /\ x[1] < 1
        BY <1>1, <1>4, <1>5, MarkPair, UsedFacts
      <3>2. Len(h.blks) \in Nat
        BY <1>1, HeapFields DEF HeapInv
      <3> QED BY ONLY <3>1, <3>2
    <2>2. n = 0
      BY <2>1, <1>1, FS_EmptySet
    <2>3. Served(g, S)
      BY <2>1, <1>1, <1>3 DEF Served
    <2> QED BY <2>2, <2>3, <1>5, QuietIntro
  <1>6. CASE j # 1
    <2> DEFINE p == j - 1
               u == AtBlk(t, g.blks[p])
    <2>1. p \in 1 .. Len(g.blks) /\ p \in Nat /\ p + 1 = j
      <3>1. Len(g.blks) \in Nat
        BY <1>3, HeapFields DEF HeapInv
      <3> QED BY ONLY <3>1, <1>2, <1>3, <1>6
    <2> HIDE DEF p
    <2>2. u \in SweepLocals /\ Pos(g, u.blk) = p /\ u.off = 0 /\ SweepInv(g, "seg", u)
      BY ONLY <2>1, <1>3, t \in SweepLocals, AtBlkInv
    <2> HIDE DEF u
    <2>3. \A i \in Nat, o \in Nat : Ahead("seg", p, 0, i, o) <=> i < j
      BY <2>1 DEF Ahead
    <2>4. ASSUME NEW x \in Marks(g) PROVE Ahead("seg", p, 0, x[1], x[2])
      <3>1. x[1] \in Nat /\ x[2] \in Nat /\ x[1] < j
        BY <1>3, <1>4, MarkPair
      <3> QED BY ONLY <3>1, <2>3
    <2>5. ASSUME NEW v \in S, g.blks[Pos(g, v.blk)].seg[v.off].st = "gc",
                 Ahead("seg", p, 0, Pos(g, v.blk), v.off)
          PROVE  <<Pos(g, v.blk), v.off>> \in Marks(g)
      <3> DEFINE i == Pos(g, v.blk)
                 x == v.off
      <3>1. x \in Used(g, i) /\ v.blk \in Ids(g)
        BY <1>3 DEF HeldInv
      <3>2. i \in Nat /\ x \in Nat /\ i \in 1 .. Len(g.blks)
        BY <3>1, <1>3, UsedFacts
      <3>3. i < j
        BY <2>3, <2>5, <3>2
      <3>4. Pos(h, v.blk) = i
        BY <3>3, <1>3
      <3>5. x \in Used(h, i)
        BY <3>4, <1>1 DEF HeldInv
      <3>6. i \in 1 .. (j - 1)
        BY <3>2, <3>3, <1>2
      <3>7. h.blks[i].seg[x].st = "gc"
        BY <3>5, <3>6, <1>3, <2>5
      <3>8. Ahead("blk", j, s.off, i, x)
        BY <3>3 DEF Ahead
      <3>9. <<i, x>> \in Marks(h)
        BY <3>4, <3>7, <3>8, <1>1 DEF MarkInv
      <3> QED BY <3>9, <1>3
    <2>6. MarkInv(g, "seg", p, 0, S)
      BY ONLY <2>4, <2>5 DEF MarkInv
    <2>7. AllocInvs(g, n, "seg", S, u)
      BY ONLY <2>2, <2>6, <1>1, <1>3 DEF AllocInvs
    <2> QED BY <2>7, <1>6 DEF u, p
  <1> QED BY <1>5, <1>6

\* The blocks before one that is released.
LEMMA WithoutBehind ==
    ASSUME NEW h, HeapInv(h), NEW j \in 1 .. Len(h.blks), NEW g, Balanced(g), Without(h, g, j),
           NEW S, HeldInv(h, S), \A x \in Marks(h) : x[1] < j, Used(h, j) = {}
    PROVE  Behind(h, g, j, S)
  <1>1. /\ HeapInv(g) /\ Len(g.blks) = Len(h.blks) - 1 /\ Len(h.blks) \in Nat
        /\ \A i \in 1 .. Len(h.blks) : i < j => g.blks[i] = h.blks[i]
    BY HeapFields DEF Without, HeapInv
  <1>2. ASSUME NEW s \in S
        PROVE  /\ s.blk \in Ids(g) /\ s.off \in Used(g, Pos(g, s.blk))
               /\ Pos(g, s.blk) < j => Pos(h, s.blk) = Pos(g, s.blk)
    <2>1. s.blk \in Ids(h) /\ s.off \in Used(h, Pos(h, s.blk)) /\ Pos(h, s.blk) \in 1 .. Len(h.blks)
      BY PosOf DEF HeldInv
    <2>2. Pos(h, s.blk) # j
      BY <2>1
    <2>3. /\ s.blk \in Ids(g) /\ Used(g, Pos(g, s.blk)) = Used(h, Pos(h, s.blk))
          /\ Pos(h, s.blk) < j => Pos(g, s.blk) = Pos(h, s.blk)
          /\ Pos(h, s.blk) > j => Pos(g, s.blk) = Pos(h, s.blk) - 1
      BY <2>1, <2>2, WithoutPos
    <2>4. Pos(g, s.blk) < j => Pos(h, s.blk) = Pos(g, s.blk)
      BY ONLY <2>1, <2>2, <2>3, <1>1, j \in 1 .. Len(h.blks)
    <2> QED BY <2>1, <2>3, <2>4
  <1>3. ASSUME NEW i \in Nat, NEW x \in Nat PROVE <<i, x>> \in Marks(g) <=> <<i, x>> \in Marks(h)
    <2>1. CASE i < j
      BY <2>1, WithoutMarks
    <2>2. CASE i >= j
      <3>1. \A k \in Nat, y \in Nat : k >= j => <<k, y>> \notin Marks(h)
        <4> SUFFICES ASSUME NEW k \in Nat, NEW y \in Nat, k >= j, <<k, y>> \in Marks(h) PROVE FALSE
          OBVIOUS
        <4>1. k < j
          BY ONLY <<k, y>> \in Marks(h), \A z \in Marks(h) : z[1] < j
        <4> QED BY <4>1
      <3>2. i + 1 \in Nat /\ i + 1 >= j
        BY <2>2
      <3>3. <<i, x>> \in Marks(g) <=> <<i + 1, x>> \in Marks(h)
        BY <2>2, WithoutMarks
      <3> QED BY ONLY <2>2, <3>1, <3>2, <3>3, i \in Nat, x \in Nat
    <2> QED BY <2>1, <2>2
  <1>4. Marks(g) = Marks(h)
    <2>1. Marks(g) \subseteq Nat \X Nat /\ Marks(h) \subseteq Nat \X Nat
      BY DEF Marks
    <2>2. \A y \in Nat \X Nat : y \in Marks(g) <=> y \in Marks(h)
      BY ONLY <1>3
    <2> QED BY ONLY <2>1, <2>2
  <1>5. j - 1 <= Len(g.blks) /\ \A i \in 1 .. (j - 1) : i \in 1 .. Len(h.blks) /\ i < j
    BY ONLY <1>1, j \in 1 .. Len(h.blks)
  <1>6. \A i \in 1 .. (j - 1) : \A x \in Used(h, i) : g.blks[i].seg[x] = h.blks[i].seg[x]
    BY ONLY <1>1, <1>5
  <1> QED BY ONLY <1>1, <1>2, <1>4, <1>5, <1>6, Balanced(g) DEF Behind, HeldInv

\* The counters of blocks nothing was marked in may change.
LEMMA SameInvs ==
    ASSUME NEW h, NEW n, NEW S, NEW s, AllocInvs(h, n, "blk", S, s), NEW g, HeapInv(g), Balanced(g),
           Same(h, g)
    PROVE  AllocInvs(g, n, "blk", S, s) /\ Pos(g, s.blk) = Pos(h, s.blk)
  <1>1. /\ HeapInv(h) /\ S \subseteq [blk : Nat, off : Nat] /\ HeldInv(h, S)
        /\ IsFiniteSet(Marks(h)) /\ n = Cardinality(Marks(h))
        /\ MarkInv(h, "blk", Pos(h, s.blk), s.off, S)
        /\ s \in SweepLocals /\ s.blk \in Ids(h)
    BY DEF AllocInvs, SweepInv
  <1>2. Kept(h, g) /\ Aligned(h, g) /\ \A i \in Nat : Used(h, i) \subseteq Used(g, i)
    BY DEF Same, Kept, Aligned
  <1>3. HeldInv(g, S)
    BY <1>1, <1>2, KeptHeld
  <1>4. Marks(g) = Marks(h)
    BY <1>1, SameMarks
  <1>5. s.blk \in Ids(g) /\ Pos(g, s.blk) = Pos(h, s.blk)
    BY <1>1, <1>2, AlignedPos
  <1>6. ASSUME NEW u \in S
        PROVE  /\ Pos(g, u.blk) = Pos(h, u.blk)
               /\ g.blks[Pos(h, u.blk)].seg[u.off] = h.blks[Pos(h, u.blk)].seg[u.off]
    <2>1. u.blk \in Ids(h) /\ u.off \in Used(h, Pos(h, u.blk)) /\ Pos(h, u.blk) \in 1 .. Len(h.blks)
      BY <1>1, PosOf DEF HeldInv
    <2>2. Pos(g, u.blk) = Pos(h, u.blk)
      BY <2>1, <1>1, <1>2, AlignedPos
    <2> QED BY <2>1, <2>2, <1>2 DEF Kept
  <1>7. MarkInv(g, "blk", Pos(g, s.blk), s.off, S)
    <2>1. \A x \in Marks(g) : Ahead("blk", Pos(g, s.blk), s.off, x[1], x[2])
      BY ONLY <1>1, <1>4, <1>5 DEF MarkInv
    <2>2. \A u \in S : LET i == Pos(g, u.blk) IN
            g.blks[i].seg[u.off].st = "gc" /\ Ahead("blk", Pos(g, s.blk), s.off, i, u.off)
              => <<i, u.off>> \in Marks(g)
      BY ONLY <1>1, <1>4, <1>5, <1>6 DEF MarkInv
    <2> QED BY ONLY <2>1, <2>2 DEF MarkInv
  <1>8. SweepInv(g, "blk", s)
    BY <1>5 DEF SweepInv
  <1> QED BY ONLY <1>1, <1>3, <1>4, <1>5, <1>7, <1>8, HeapInv(g), Balanced(g) DEF AllocInvs

\* sweep leaves a block, keeps it or releases it, and goes on or ends.
LEMMA SweepBlkInv == ASSUME IInv, SweepBlk PROVE IInv'
  <1> DEFINE j == Pos(heap, sw.blk)
             h == [heap EXCEPT !.blks[j].maxFree = sw.max]
             hc == [h EXCEPT !.curr = sw.blk]
             t == [sw EXCEPT !.before = sw.freed]
  <1>1. /\ pc = "blk" /\ markCount' = markCount /\ req' = req /\ held' = held
        /\ \/ /\ markCount = 0 /\ heap' = hc /\ enabled' = FALSE /\ pc' = "retry" /\ sw' = NoSweep
           \/ heap' \in {h, hc} /\ SweepOn(h, j, t)
           \/ h.blks[j].nAlloc = 0 /\ heap' = WithoutBlk(h, j) /\ SweepOn(h, j, sw)
    BY DEF SweepBlk
  <1>2. /\ AllocInvs(heap, markCount, "blk", held, sw) /\ HeapInv(heap) /\ Balanced(heap)
        /\ sw \in SweepLocals /\ sw.blk \in Ids(heap) /\ HeldInv(heap, held) /\ held \subseteq [blk : Nat, off : Nat]
        /\ IsFiniteSet(Marks(heap)) /\ markCount = Cardinality(Marks(heap))
        /\ MarkInv(heap, "blk", j, sw.off, held)
    BY <1>1 DEF IInv, AllocInvs, SweepInv
  <1>3. j \in 1 .. Len(heap.blks) /\ j \in Nat /\ sw.max \in Nat /\ heap \in Heap
        /\ heap.curr \in Ids(heap) \cup {None} /\ Len(heap.blks) \in Nat
    BY <1>2, PosOf, HeapFields DEF HeapInv, SweepLocals
  <1>4. j = Pos(heap, sw.blk)
    OBVIOUS
  <1>5. t \in SweepLocals
    <2>1. t = [sw EXCEPT !.before = sw.freed]
      OBVIOUS
    <2> HIDE DEF t
    <2>2. t = [blk |-> sw.blk, off |-> sw.off, prev |-> sw.prev, next |-> sw.next, max |-> sw.max,
               freed |-> sw.freed, before |-> sw.freed]
      BY ONLY <2>1, <1>2 DEF SweepLocals
    <2> QED BY ONLY <2>2, <1>2 DEF SweepLocals
  <1>6. h = Bound(heap, j, sw.max, heap.curr) /\ hc = Bound(heap, j, sw.max, sw.blk)
    <2>1. h = MaxSet(heap, j, sw.max) /\ hc = CurrSet(heap, j, sw.max, sw.blk)
      BY DEF MaxSet, CurrSet
    <2> HIDE DEF j, h, hc
    <2>2. MaxSet(heap, j, sw.max) = Bound(heap, j, sw.max, heap.curr)
          /\ CurrSet(heap, j, sw.max, sw.blk) = Bound(heap, j, sw.max, sw.blk)
      BY ONLY <1>3, BoundIs
    <2> QED BY ONLY <2>1, <2>2
  <1> HIDE DEF j, h, hc, t
  <1>7. ASSUME NEW g \in {h, hc}
        PROVE  /\ HeapInv(g) /\ Balanced(g) /\ Same(heap, g) /\ Ids(g) = Ids(heap)
               /\ Len(g.blks) = Len(heap.blks)
               /\ \A i \in 1 .. Len(heap.blks) : i # j => g.blks[i] = heap.blks[i]
    <2>1. PICK c \in Ids(heap) \cup {None} : g = Bound(heap, j, sw.max, c)
      BY <1>2, <1>3, <1>6
    <2> DEFINE f == Bound(heap, j, sw.max, c)
    <2>1a. /\ HeapInv(heap) /\ j \in 1 .. Len(heap.blks) /\ sw.max \in Nat
           /\ c \in Ids(heap) \cup {None}
      BY ONLY <2>1, <1>2, <1>3
    <2>2. /\ HeapInv(f) /\ (Balanced(heap) => Balanced(f)) /\ Same(heap, f) /\ Ids(f) = Ids(heap)
          /\ Len(f.blks) = Len(heap.blks)
          /\ \A i \in 1 .. Len(heap.blks) : i # j => f.blks[i] = heap.blks[i]
      BY ONLY <2>1a, BoundSet
    <2> HIDE DEF f
    <2>3. g = f
      BY <2>1 DEF f
    <2> QED BY ONLY <2>2, <2>3, <1>2
  <1>8. CASE markCount = 0 /\ heap' = hc /\ enabled' = FALSE /\ pc' = "retry" /\ sw' = NoSweep
    <2>1. Marks(heap) = {}
      BY <1>2, <1>8, FS_EmptySet
    <2>2. Served(heap, held)
      BY <2>1, <1>2 DEF Served
    <2>3. Served(heap', held)
      <3>1. HeapInv(heap') /\ Balanced(heap') /\ Same(heap, heap')
        BY <1>7, <1>8
      <3> QED BY ONLY <2>2, <3>1, ServedSame
    <2>4. AllocInvs(heap', 0, "retry", held, NoSweep)
      BY ONLY <2>3, QuietIntro
    <2>5. AllocInvs(heap', markCount', pc', held', sw')
      BY ONLY <2>4, <1>1, <1>8
    <2> QED BY <2>5, <1>1, <1>8 DEF IInv
  <1>9. ASSUME NEW f, AllocInvs(f, markCount, "blk", held, sw), j = Pos(f, sw.blk),
               Behind(f, heap', j, held), NEW v \in SweepLocals, SweepOn(h, j, v),
               j # 1 => heap'.blks[j - 1] = h.blks[j - 1]
        PROVE  IInv'
    <2>1. /\ j = 1 => AllocInvs(heap', markCount, "retry", held, NoSweep)
          /\ j # 1 => AllocInvs(heap', markCount, "seg", held, AtBlk(v, heap'.blks[j - 1]))
      BY ONLY <1>9, SweepOnInv
    <2>2. CASE j = 1
      <3>1. pc' = "retry" /\ enabled' = FALSE /\ sw' = NoSweep
        BY <2>2, <1>9 DEF SweepOn
      <3>2. AllocInvs(heap', markCount', pc', held', sw')
        BY ONLY <2>1, <2>2, <3>1, <1>1
      <3> QED BY <3>1, <3>2, <1>1 DEF IInv
    <2>3. CASE j # 1
      <3>1. pc' = "seg" /\ sw' = AtBlk(v, heap'.blks[j - 1]) /\ enabled' = enabled
        BY <2>3, <1>9 DEF SweepOn
      <3>2. AllocInvs(heap', markCount', pc', held', sw')
        BY ONLY <2>1, <2>3, <3>1, <1>1
      <3> QED BY <3>1, <3>2, <1>1 DEF IInv
    <2> QED BY <2>2, <2>3
  <1>10. CASE heap' \in {h, hc} /\ SweepOn(h, j, t)
    <2>1. HeapInv(heap') /\ Balanced(heap') /\ Same(heap, heap')
      BY <1>7, <1>10
    <2>2. Behind(heap, heap', j, held)
      BY ONLY <2>1, <1>2, <1>3, SameBehind
    <2>3. ASSUME j # 1 PROVE heap'.blks[j - 1] = h.blks[j - 1]
      <3>1. j - 1 \in 1 .. Len(heap.blks) /\ j - 1 # j
        BY ONLY <2>3, <1>3
      <3>2. heap'.blks[j - 1] = heap.blks[j - 1]
        BY <3>1, <1>7, <1>10
      <3>3. h.blks[j - 1] = heap.blks[j - 1]
        BY <3>1, <1>7
      <3> QED BY ONLY <3>2, <3>3
    <2> QED BY ONLY <2>2, <2>3, <1>2, <1>4, <1>5, <1>9, <1>10
  <1>11. CASE h.blks[j].nAlloc = 0 /\ heap' = WithoutBlk(h, j) /\ SweepOn(h, j, sw)
    <2>1. HeapInv(h) /\ Balanced(h) /\ Same(heap, h) /\ Len(h.blks) = Len(heap.blks) /\ Ids(h) = Ids(heap)
      BY <1>7
    <2>2. j \in 1 .. Len(h.blks) /\ BlkInv(h.blks[j])
      BY <2>1, <1>3 DEF HeapInv
    <2>3. /\ Without(h, heap', j)
          /\ heap'.nSeg = h.nSeg /\ heap'.currUse = h.currUse /\ heap'.totUse = h.totUse - h.blks[j].len
      BY ONLY <2>1, <2>2, <1>11, WithoutInv
    <2>4. AllocInvs(h, markCount, "blk", held, sw) /\ Pos(h, sw.blk) = j
      BY ONLY <2>1, <1>2, <1>4, SameInvs
    <2>5. Used(h, j) = {}
      <3>1. IsFiniteSet(UsedSet(h.blks[j].seg)) /\ Cardinality(UsedSet(h.blks[j].seg)) \in Nat
        BY <2>2, UsedFinite, BlkFields DEF BlkInv
      <3>2. Cardinality(UsedSet(h.blks[j].seg)) <= 0
        BY <2>2, <1>11 DEF BlkInv
      <3>3. Cardinality(UsedSet(h.blks[j].seg)) = 0
        BY ONLY <3>1, <3>2
      <3>4. UsedSet(h.blks[j].seg) = {}
        BY ONLY <3>1, <3>3, FS_EmptySet
      <3> QED BY ONLY <3>4 DEF Used
    <2>6. HeldInv(h, held) /\ \A x \in Marks(h) : x[1] < j
      BY ONLY <2>4 DEF AllocInvs, MarkInv, Ahead
    <2>6a. Balanced(heap')
      <3>1. /\ Booked(heap', h.nSeg, h.currUse)
            /\ Total(BlkLens(heap')) = Total(BlkLens(h)) - h.blks[j].len
        BY ONLY <2>1, <2>2, <2>3, <2>5, WithoutBook DEF Balanced
      <3> QED BY ONLY <3>1, <2>1, <2>3 DEF Balanced
    <2>7. Behind(h, heap', j, held)
      BY ONLY <2>1, <2>2, <2>3, <2>5, <2>6, <2>6a, WithoutBehind
    <2>8. ASSUME j # 1 PROVE heap'.blks[j - 1] = h.blks[j - 1]
      <3>1. j - 1 \in 1 .. Len(h.blks) /\ j - 1 < j
        BY ONLY <2>8, <2>1, <1>3
      <3> QED BY ONLY <3>1, <2>3 DEF Without
    <2>9. j = Pos(h, sw.blk)
      BY <2>4
    <2> QED BY ONLY <2>4, <2>7, <2>8, <2>9, <1>2, <1>9, <1>11
  <1> QED BY <1>1, <1>8, <1>10, <1>11

-----------------------------------------------------------------------------
(* The invariant of the specification.                                     *)

\* The invariant in a step that changes nothing.
LEMMA StutterInv == ASSUME IInv, UNCHANGED vars PROVE IInv'
  <1>1. /\ heap' = heap /\ enabled' = enabled /\ markCount' = markCount /\ pc' = pc
        /\ req' = req /\ held' = held /\ sw' = sw
    BY DEF vars
  <1>2. AllocInvs(heap', markCount', pc', held', sw')
    BY ONLY <1>1, IInv DEF IInv
  <1> QED BY ONLY <1>1, <1>2, IInv DEF IInv

\* Every step keeps the invariant.
LEMMA NextInv == ASSUME IInv, [Next]_vars PROVE IInv'
  <1>1. CASE Program
    <2>1. ASSUME NEW r \in Length, AllocSeg(r) \/ MemAlloc(r) \/ ExecMemAlloc(r) PROVE IInv'
      BY <2>1, AllocSegInv, MemAllocInv, ExecMemAllocInv
    <2>2. ASSUME NEW s \in held, FreeSeg(s) \/ Drop(s) PROVE IInv'
      BY <2>2, FreeSegInv, DropInv
    <2> QED BY ONLY <1>1, <2>1, <2>2 DEF Program
  <1>2. CASE Collect
    <2>1. ASSUME NEW s \in held, Mark(s) PROVE IInv'
      BY <2>1, MarkStep
    <2>2. CASE SweepStart
      BY <2>2, SweepStartInv
    <2>3. CASE SweepMarked
      BY <2>3, SweepMarkedInv
    <2>4. CASE SweepOther
      BY <2>4, SweepOtherInv
    <2>5. CASE SweepFirst
      BY <2>5, SweepFirstInv
    <2>6. CASE SweepLink
      BY <2>6, SweepLinkInv
    <2>7. CASE SweepBlk
      BY <2>7, SweepBlkInv
    <2>8. CASE Retry
      BY <2>8, RetryInv
    <2> QED BY ONLY <1>2, <2>1, <2>2, <2>3, <2>4, <2>5, <2>6, <2>7, <2>8 DEF Collect
  <1>3. CASE UNCHANGED vars
    BY <1>3, StutterInv
  <1> QED BY <1>1, <1>2, <1>3 DEF Next

\* The inductive invariant holds in every reachable state.
THEOREM InvHolds == Spec => []IInv
  <1>1. Init => IInv
    BY InitInv
  <1>2. IInv /\ [Next]_vars => IInv'
    BY NextInv
  <1> QED BY <1>1, <1>2, PTL DEF Spec

\* What the invariant says of a block.
LEMMA BlkOfInv ==
    ASSUME IInv, NEW j \in DOMAIN heap.blks
    PROVE  /\ j \in 1 .. Len(heap.blks) /\ BlkInv(heap.blks[j]) /\ heap.blks[j] \in Blk
           /\ DOMAIN heap.blks[j].seg \subseteq Nat
           /\ \A o \in DOMAIN heap.blks[j].seg : heap.blks[j].seg[o] \in SegDescr
           /\ ToSet(heap.blks[j].free) = FreeSet(heap.blks[j].seg)
  <1>1. HeapInv(heap) /\ heap \in Heap
    BY DEF IInv, AllocInvs, HeapInv
  <1>2. j \in 1 .. Len(heap.blks) /\ BlkInv(heap.blks[j])
    BY <1>1, HeapFields DEF HeapInv
  <1>3. /\ heap.blks[j] \in Blk /\ heap.blks[j].seg \in SegMaps
        /\ Lists(heap.blks[j].free, FreeSet(heap.blks[j].seg))
    BY <1>2 DEF BlkInv, Segments
  <1> QED BY <1>2, <1>3, SegMapElim, ListedSet

\* The types are part of the invariant.
LEMMA InvTypeOK == IInv => TypeOK
  <1> SUFFICES ASSUME IInv PROVE TypeOK
    OBVIOUS
  <1>1. ASSUME NEW j \in DOMAIN heap.blks
        PROVE  LET b == heap.blks[j] IN
                 /\ \A o \in DOMAIN b.seg : b.seg[o] \in SegDescr
                 /\ ToSet(b.free) \subseteq DOMAIN b.seg
                 /\ {b.len, b.maxFree, b.nAlloc, b.nFree} \subseteq Nat
    <2>1. /\ heap.blks[j].len \in Nat /\ heap.blks[j].maxFree \in Nat
          /\ heap.blks[j].nAlloc \in Nat /\ heap.blks[j].nFree \in Nat
      BY BlkOfInv, BlkFields
    <2> QED BY <2>1, BlkOfInv DEF FreeSet
  <1>2. HeapInv(heap) /\ heap \in Heap /\ IsFiniteSet(Marks(heap)) /\ markCount = Cardinality(Marks(heap))
    BY DEF IInv, AllocInvs, HeapInv
  <1>3. {heap.nSeg, heap.currUse, heap.totUse} \subseteq Int /\ markCount \in Nat
    BY <1>2, HeapFields, FS_CardinalityType
  <1>4. heap.curr \in Ids(heap) \cup {None}
    BY <1>2 DEF HeapInv
  <1>5. sw.blk \in Ids(heap) \cup {None}
    <2>1. CASE pc \in {"seg", "blk"}
      BY <2>1 DEF IInv, AllocInvs, SweepInv
    <2>2. CASE pc \notin {"seg", "blk"}
      BY <2>2 DEF IInv, AllocInvs, SweepInv, NoSweep
    <2> QED BY <2>1, <2>2
  <1> QED BY <1>1, <1>3, <1>4, <1>5 DEF TypeOK, IInv

\* So is what is checked of a block.
LEMMA InvSound == ASSUME IInv, NEW j \in DOMAIN heap.blks PROVE BlockSound(heap.blks[j])
  <1> DEFINE b == heap.blks[j]
  <1>1. /\ Segments(b.seg, DataLen(b)) /\ Lists(b.free, FreeSet(b.seg)) /\ b.nFree = Len(b.free)
        /\ ToSet(b.free) = FreeSet(b.seg)
    BY BlkOfInv DEF BlkInv
  <1> HIDE DEF b
  <1>2. /\ 0 \in DOMAIN b.seg
        /\ \A o \in DOMAIN b.seg : o + b.seg[o].len \in DOMAIN b.seg \cup {DataLen(b)}
        /\ \A o \in DOMAIN b.seg : \A x \in DOMAIN b.seg : o < x => o + b.seg[o].len <= x
    BY ONLY <1>1 DEF Segments, Tiled
  <1>3. ToSet(b.free) = {o \in DOMAIN b.seg : b.seg[o].st = "free"}
    BY ONLY <1>1 DEF FreeSet
  <1>4. ASSUME NEW k \in 1 .. (Len(b.free) - 1)
        PROVE  b.free[k] + b.seg[b.free[k]].len < b.free[k + 1]
    <2>1. Len(b.free) \in Nat
      BY <1>1 DEF Lists
    <2>2. k \in 1 .. Len(b.free) /\ k + 1 \in 1 .. Len(b.free) /\ k < k + 1
      BY <2>1
    <2>3. b.free[k] \in FreeSet(b.seg) /\ b.free[k + 1] \in FreeSet(b.seg) /\ b.free[k] < b.free[k + 1]
      BY ONLY <2>2, <1>1 DEF Lists
    <2> QED BY ONLY <2>3, <1>1 DEF Segments, Apart
  <1> QED BY ONLY <1>1, <1>2, <1>3, <1>4 DEF BlockSound, b

\* Marks by position are marks by block.
LEMMA InvMarked == ASSUME IInv PROVE Marked = Marks(heap)
  <1>1. HeapInv(heap) /\ DOMAIN heap.blks = 1 .. Len(heap.blks)
    BY HeapFields DEF IInv, AllocInvs, HeapInv
  <1>2. ASSUME NEW i, NEW x
        PROVE  <<i, x>> \in AllInUse <=> x \in Used(heap, i)
    <2>1. <<i, x>> \in AllInUse <=> i \in DOMAIN heap.blks /\ x \in InUse(heap.blks[i])
      BY DEF AllInUse
    <2> QED BY ONLY <2>1, <1>1 DEF Used, UsedSet, InUse
  <1>3. ASSUME NEW y \in AllInUse PROVE \E i, x : y = <<i, x>>
    BY DEF AllInUse
  <1>4. ASSUME NEW y \in Marked PROVE y \in Marks(heap)
    <2>1. PICK i, x : y = <<i, x>>
      BY <1>3 DEF Marked
    <2>2. x \in Used(heap, i) /\ heap.blks[i].seg[x].mark
      BY <2>1, <1>2 DEF Marked
    <2>3. i \in Nat /\ x \in Nat
      BY <2>2, <1>1, UsedFacts
    <2> QED BY <2>1, <2>2, <2>3, MarkIs
  <1>5. ASSUME NEW y \in Marks(heap) PROVE y \in Marked
    <2>1. PICK i \in Nat, x \in Nat : y = <<i, x>> /\ x \in Used(heap, i) /\ heap.blks[i].seg[x].mark
      BY MarkPair
    <2> QED BY <2>1, <1>2 DEF Marked
  <1> QED BY <1>4, <1>5

-----------------------------------------------------------------------------
(* The theorems.                                                           *)

\* The heap, the list of its blocks and the locals of sweep have their types:
\* the members of MSA, SegBlk and the descriptors that alloc, free and sweep
\* update.
THEOREM AllocTypeOK == Spec => []TypeOK
  <1>1. IInv => TypeOK
    BY InvTypeOK
  <1> QED BY <1>1, InvHolds, PTL

\* Between the steps of sweep the segments of a block cover its data area and
\* its free list has the free ones, no two of them adjacent: fstFit, free and
\* sweep never lose, overlap or double a segment, for blocks of any length.
THEOREM AllocHeapSound == Spec => []HeapSound
  <1>1. IInv => HeapSound
    BY InvSound DEF HeapSound
  <1> QED BY <1>1, InvHolds, PTL

\* What the program holds is never released by free, sweep or the release of a
\* block, however many blocks there are and wherever sweep is.
THEOREM AllocHeldKept == Spec => []HeldKept
  <1>1. IInv => HeldKept
    <2> SUFFICES ASSUME IInv, NEW s \in held
                 PROVE  /\ s.blk \in Ids(heap)
                        /\ s.off \in DOMAIN heap.blks[Pos(heap, s.blk)].seg
                        /\ Seg(s).st # "free"
      BY DEF HeldKept
    <2>1. s.blk \in Ids(heap) /\ s.off \in Used(heap, Pos(heap, s.blk))
      BY DEF IInv, AllocInvs, HeldInv
    <2> QED BY <2>1 DEF Used, UsedSet, Seg
  <1> QED BY <1>1, InvHolds, PTL

\* _nAllocSeg, on which free and sweep decide to release a block, is never less
\* than the number of segments in use there, though sweep lets it grow.
THEOREM AllocCountNotLow == Spec => []CountNotLow
  <1>1. IInv => CountNotLow
    <2> SUFFICES ASSUME IInv, NEW j \in DOMAIN heap.blks
                 PROVE  heap.blks[j].nAlloc >= Cardinality(InUse(heap.blks[j]))
      BY DEF CountNotLow
    <2>1. BlkInv(heap.blks[j])
      BY BlkOfInv
    <2>2. InUse(heap.blks[j]) = UsedSet(heap.blks[j].seg)
      BY DEF InUse, UsedSet
    <2> QED BY <2>1, <2>2 DEF BlkInv
  <1> QED BY <1>1, InvHolds, PTL

\* _markCount is the number of marks and 0 when sweep has ended, as the
\* assertion at its end says.
THEOREM AllocMarksCounted == Spec => []MarksCounted
  <1>1. IInv => MarksCounted
    <2> SUFFICES ASSUME IInv PROVE MarksCounted
      OBVIOUS
    <2>1. AllocInvs(heap, markCount, pc, held, sw)
      BY DEF IInv
    <2>2. markCount = Cardinality(Marked)
      BY <2>1, InvMarked DEF AllocInvs
    <2>3. pc \in {"idle", "retry"} => markCount = 0
      BY <2>1, QuietElim
    <2> QED BY <2>2, <2>3 DEF MarksCounted
  <1> QED BY <1>1, InvHolds, PTL

\* The pairs in use are the same, whichever way they are collected.
LEMMA InvUses == ASSUME IInv PROVE AllInUse = Uses(heap)
  <1>1. HeapInv(heap) /\ DOMAIN heap.blks = 1 .. Len(heap.blks)
    BY HeapFields DEF IInv, AllocInvs, HeapInv
  <1>2. ASSUME NEW i, NEW x
        PROVE  <<i, x>> \in AllInUse <=> x \in Used(heap, i)
    <2>1. <<i, x>> \in AllInUse <=> i \in DOMAIN heap.blks /\ x \in InUse(heap.blks[i])
      BY DEF AllInUse
    <2> QED BY ONLY <2>1, <1>1 DEF Used, UsedSet, InUse
  <1>3. ASSUME NEW y \in AllInUse PROVE y \in Uses(heap)
    <2>1. PICK i, x : y = <<i, x>>
      BY DEF AllInUse
    <2>2. x \in Used(heap, i)
      BY <2>1, <1>2
    <2>3. i \in Nat /\ x \in Nat
      BY <2>2, <1>1, UsedFacts
    <2> QED BY <2>1, <2>2, <2>3, UseIs
  <1>4. ASSUME NEW y \in Uses(heap) PROVE y \in AllInUse
    <2>1. y = <<y[1], y[2]>> /\ y[2] \in Used(heap, y[1])
      BY UsePair
    <2> QED BY <2>1, <1>2
  <1> QED BY <1>3, <1>4

\* _nSeg, _currUse and _totUse, by which alloc chooses the block to search and
\* addBlk keeps the limit, are what a count over all blocks would give, after
\* every split, join, release of a segment and release of a block.
THEOREM AllocUseCounted == Spec => []UseCounted
  <1>1. IInv => UseCounted
    <2> SUFFICES ASSUME IInv PROVE UseCounted
      OBVIOUS
    <2>1. Balanced(heap) /\ DOMAIN heap.blks = 1 .. Len(heap.blks)
      BY HeapFields DEF IInv, AllocInvs, HeapInv
    <2>2. AllInUse = Uses(heap)
      BY InvUses
    <2>3. [x \in AllInUse |-> heap.blks[x[1]].seg[x[2]].len] = UseLens(heap)
      BY <2>2 DEF UseLens
    <2>4. [j \in DOMAIN heap.blks |-> heap.blks[j].len] = BlkLens(heap)
      BY <2>1 DEF BlkLens
    <2> QED BY ONLY <2>1, <2>2, <2>3, <2>4 DEF UseCounted, Balanced, Booked
  <1> QED BY <1>1, InvHolds, PTL

\* addBlk keeps the memory of all blocks within _limit.
THEOREM AllocLimitKept == Spec => []LimitKept
  <1>1. IInv => LimitKept
    BY DEF IInv, AllocInvs, HeapInv, LimitKept
  <1> QED BY <1>1, InvHolds, PTL
==============================================================================
