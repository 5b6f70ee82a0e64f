------------------------------- MODULE MSAGC ---------------------------------
(***************************************************************************)
(* The garbage-collecting allocator MSA_GC (source/API/MSA, MSA_GC.h) and  *)
(* the two routines that allocate from it and start a collection:          *)
(* memAlloc_GC of the abstract machine and execMemAlloc_GC of the byte     *)
(* code interpreter.                                                       *)
(*                                                                         *)
(* pc is "idle" between calls, "mark" while the frames mark what they      *)
(* hold, "seg" in the loop of sweep over the segments of a block, "blk"    *)
(* after that loop and "retry" back in the allocating routine.             *)
(*                                                                         *)
(* The program is external: it holds segments, drops them, and marks those *)
(* it holds through its frame descriptors.  It frees what it got from      *)
(* alloc and leaves what it got from allocGC to the collector.             *)
(***************************************************************************)
EXTENDS MSA

CONSTANTS MaxCount  \* bound: a block whose _nAllocSeg is this stops the program
                    \* from asking for more (sweep lets the count grow)

ASSUME CountAssumption == MaxCount \in Nat

VARIABLES
    heap,        \* the MSA
    enabled,     \* _enabled; _enableAddBlk is 1 between calls
    markCount,   \* _markCount
    pc, req,     \* the request being served
    held,        \* the segments the program holds
    sw           \* the locals of sweep

vars == <<heap, enabled, markCount, pc, req, held, sw>>

\* blk and off are where sweep is, prev and next its free list pointers, max is
\* maxFreeSegLen, freed is nFree and before is prevN_Free.
NoSweep == [blk |-> None, off |-> 0, prev |-> None, next |-> None, max |-> 0,
            freed |-> 0, before |-> 0]

Seg(s) == heap.blks[Pos(heap, s.blk)].seg[s.off]

Init ==
    /\ heap = EmptyHeap
    /\ enabled = TRUE /\ markCount = 0
    /\ pc = "idle" /\ req = 0
    /\ held = {}
    /\ sw = NoSweep

-----------------------------------------------------------------------------
(* The program.                                                            *)

Bounded(r) == r = 0 \/ \A j \in DOMAIN heap.blks : heap.blks[j].nAlloc < MaxCount

\* MSA_GC::addBlk turns the collector on again when it calls MSA::addBlk while
\* _enableAddBlk is set, whatever comes of it.
Enabled(a, enableAddBlk) == enabled \/ (a.called /\ enableAddBlk)

\* alloc, as in new(msa).
AllocSeg(r) ==
    LET a == Alloc(heap, r, TRUE) IN
    /\ pc = "idle" /\ Bounded(r)
    /\ heap' = a.heap
    /\ enabled' = Enabled(a, TRUE)
    /\ held' = held \cup ({a.seg} \ {NoSegment})
    /\ UNCHANGED <<markCount, pc, req, sw>>

FreeSeg(s) ==
    /\ pc = "idle" /\ s \in held /\ Seg(s).st = "alloc"
    /\ heap' = FreeSegment(heap, s)
    /\ held' = held \ {s}
    /\ UNCHANGED <<enabled, markCount, pc, req, sw>>

\* The program forgets a segment of allocGC.
Drop(s) ==
    /\ pc = "idle" /\ s \in held /\ Seg(s).st = "gc"
    /\ held' = held \ {s}
    /\ UNCHANGED <<heap, enabled, markCount, pc, req, sw>>

\* The heap after allocGC: the flag is set on the segment, if there is one.
Flagged(a) ==
    IF a.seg = NoSegment THEN a.heap
    ELSE [a.heap EXCEPT !.blks[Pos(a.heap, a.seg.blk)].seg[a.seg.off].st = "gc"]

\* allocGC(r), after which the program goes on or, if it fails, pc is failure.
AllocGC(r, enableAddBlk, failure) ==
    LET a == Alloc(heap, r, ~enabled \/ enableAddBlk) IN
    /\ heap' = Flagged(a)
    /\ enabled' = Enabled(a, enableAddBlk)
    /\ held' = held \cup ({a.seg} \ {NoSegment})
    /\ pc' = IF a.seg = NoSegment THEN failure ELSE "idle"
    /\ req' = IF pc' = "idle" THEN 0 ELSE r
    /\ UNCHANGED <<markCount, sw>>

\* memAlloc_GC: the first attempt may not add a block while the collector is
\* enabled, and starts it if it fails, unless the code point has no frame
\* descriptor.
MemAlloc(r) ==
    /\ pc = "idle" /\ Bounded(r)
    /\ \E failure \in {"retry"} \cup (IF enabled THEN {"mark"} ELSE {}) : AllocGC(r, FALSE, failure)

\* execMemAlloc_GC with the collector disabled; else it is as MemAlloc.
ExecMemAlloc(r) ==
    /\ pc = "idle" /\ Bounded(r) /\ ~enabled
    /\ AllocGC(r, TRUE, "idle")

\* allocGC after the collection.
Retry ==
    /\ pc = "retry"
    /\ AllocGC(req, TRUE, "idle")

-----------------------------------------------------------------------------
(* mark and sweep.                                                         *)

Unmarked == {s \in held : Seg(s).st = "gc" /\ ~Seg(s).mark}

\* mark(seg).  The frames mark in some order, which makes no difference: the
\* lowest first.  Marking again what is marked changes nothing.
Mark(s) ==
    /\ pc = "mark" /\ s \in Unmarked
    /\ \A u \in Unmarked : s.blk < u.blk \/ (s.blk = u.blk /\ s.off <= u.off)
    /\ heap' = [heap EXCEPT !.blks[Pos(heap, s.blk)].seg[s.off].mark = TRUE]
    /\ markCount' = markCount + 1
    /\ UNCHANGED <<enabled, pc, req, held, sw>>

\* The locals of sweep as the loop over the segments of a block starts.
AtBlk(s, b) ==
    [s EXCEPT !.blk = b.id, !.off = 0, !.prev = None, !.max = 0,
              !.next = IF b.free = <<>> THEN None ELSE b.free[1]]

\* Mutant: sweep does not wait for the frames to be marked.
SweepAtOnce ==
    /\ pc = "mark" /\ heap.blks # <<>>
    /\ sw' = AtBlk(NoSweep, Last(heap.blks))
    /\ pc' = "seg" /\ UNCHANGED <<heap, enabled, markCount, req, held>>

\* sweep starts at the tail.  Without blocks there is nothing to do.
SweepStart ==
    /\ pc = "mark" /\ Unmarked = {}
    /\ IF heap.blks = <<>>
       THEN /\ enabled' = FALSE /\ pc' = "retry" /\ UNCHANGED sw
       ELSE /\ sw' = AtBlk(NoSweep, Last(heap.blks))
            /\ pc' = "seg" /\ UNCHANGED enabled
    /\ UNCHANGED <<heap, markCount, req, held>>

SweptBlk == heap.blks[Pos(heap, sw.blk)]
SweptSeg == SweptBlk.seg[sw.off]

\* Mutant: the mark count is left as it is.
SweepMarkedUncounted ==
    /\ pc = "seg" /\ SweptSeg.st = "gc" /\ SweptSeg.mark
    /\ heap' = [heap EXCEPT !.blks[Pos(heap, sw.blk)].seg[sw.off].mark = FALSE]
    /\ sw' = [sw EXCEPT !.off = @ + SweptSeg.len]
    /\ pc' = IF sw'.off = DataLen(SweptBlk) THEN "blk" ELSE "seg"
    /\ UNCHANGED <<enabled, markCount, req, held>>

\* A marked segment loses the mark.
SweepMarked ==
    /\ pc = "seg" /\ SweptSeg.st = "gc" /\ SweptSeg.mark
    /\ heap' = [heap EXCEPT !.blks[Pos(heap, sw.blk)].seg[sw.off].mark = FALSE]
    /\ markCount' = markCount - 1
    /\ sw' = [sw EXCEPT !.off = @ + SweptSeg.len]
    /\ pc' = IF sw'.off = DataLen(SweptBlk) THEN "blk" ELSE "seg"
    /\ UNCHANGED <<enabled, req, held>>

\* Mutant: the loop does not move past the segment.
SweepOtherStays == pc = "seg" /\ SweptSeg.st # "gc" /\ UNCHANGED vars

\* A free segment, or one of alloc.
SweepOther ==
    /\ pc = "seg" /\ SweptSeg.st # "gc"
    /\ sw' = [sw EXCEPT !.off = @ + SweptSeg.len]
    /\ pc' = IF sw'.off = DataLen(SweptBlk) THEN "blk" ELSE "seg"
    /\ UNCHANGED <<heap, enabled, markCount, req, held>>

\* An unmarked segment is released: heap h' with block b in its place.
Released(b) ==
    [heap EXCEPT !.blks[Pos(heap, sw.blk)] = b, !.nSeg = @ - 1, !.currUse = @ - SweptSeg.len]

\* It is the first free segment of the block: the only case in which
\* _nAllocSeg is decremented.
SweepFirst ==
    LET o == sw.off IN
    /\ pc = "seg" /\ SweptSeg.st = "gc" /\ ~SweptSeg.mark
    /\ sw.prev = None /\ sw.next = None
    /\ heap' = Released([SweptBlk EXCEPT !.seg[o] = FreeDescr(@.len), !.free = <<o>>,
                                         !.nAlloc = @ - 1, !.nFree = @ + 1])
    /\ sw' = [sw EXCEPT !.off = o + SweptSeg.len, !.prev = o, !.max = SweptSeg.len,
                        !.freed = @ + SweptSeg.len]
    /\ pc' = IF sw'.off = DataLen(SweptBlk) THEN "blk" ELSE "seg"
    /\ UNCHANGED <<enabled, markCount, req, held>>

\* There are others: next is moved past the segment, which is linked in.
SweepLink ==
    LET b     == SweptBlk
        o     == sw.off
        ahead == From(b.free, sw.next)
        stop  == Min({k \in DOMAIN ahead : ahead[k] >= o} \cup {Len(ahead) + 1})
        prev  == IF stop = 1 THEN sw.prev ELSE ahead[stop - 1]
        next  == IF stop > Len(ahead) THEN None ELSE ahead[stop]
        new   == JoinedLen(b, o, prev, next)
        seen  == {sw.max} \cup {b.seg[ahead[k]].len : k \in 1 .. (stop - 1)}
                 \cup (IF JoinsPrev(b, o, prev) THEN {new} ELSE {})
        after == Linked(b, o, prev, next)
    IN
    /\ pc = "seg" /\ SweptSeg.st = "gc" /\ ~SweptSeg.mark
    /\ ~(sw.prev = None /\ sw.next = None)
    /\ heap' = Released(after)
    /\ sw' = [sw EXCEPT !.off = IF JoinsPrev(b, o, prev) THEN prev + new ELSE o + new,
                        !.prev = IF JoinsPrev(b, o, prev) THEN prev ELSE o,
                        !.next = IF ~JoinsNext(b, o, next) THEN next
                                 ELSE IF stop = Len(ahead) THEN None ELSE ahead[stop + 1],
                        !.max = Max(seen),
                        !.freed = @ + b.seg[o].len]
    /\ pc' = IF sw'.off = DataLen(b) THEN "blk" ELSE "seg"
    /\ UNCHANGED <<enabled, markCount, req, held>>

\* sweep goes on with the block before position j of heap h, or ends.
SweepOn(h, j, s) ==
    IF j = 1 THEN /\ pc' = "retry" /\ enabled' = FALSE /\ sw' = NoSweep
    ELSE /\ pc' = "seg" /\ sw' = AtBlk(s, h.blks[j - 1]) /\ UNCHANGED enabled

\* All segments of the block were visited.
SweepBlk ==
    LET j == Pos(heap, sw.blk)
        h == [heap EXCEPT !.blks[j].maxFree = sw.max]
    IN
    /\ pc = "blk"
    /\ \/ \* enough for now: what is left stays
          /\ sw.freed >= BlkLen /\ markCount = 0
          /\ heap' = [h EXCEPT !.curr = sw.blk]
          /\ enabled' = FALSE /\ pc' = "retry" /\ sw' = NoSweep
       \/ /\ sw.freed < BlkLen \/ markCount # 0
          /\ h.blks[j].nAlloc # 0
          /\ heap' = IF sw.freed # sw.before THEN [h EXCEPT !.curr = sw.blk] ELSE h
          /\ SweepOn(h, j, [sw EXCEPT !.before = sw.freed])
       \/ /\ sw.freed < BlkLen \/ markCount # 0
          /\ h.blks[j].nAlloc = 0
          /\ heap' = WithoutBlk(h, j)
          /\ SweepOn(h, j, sw)
    /\ UNCHANGED <<markCount, req, held>>

-----------------------------------------------------------------------------
Program ==
    \/ \E r \in Length : AllocSeg(r) \/ MemAlloc(r) \/ ExecMemAlloc(r)
    \/ \E s \in held : FreeSeg(s) \/ Drop(s)

Collect ==
    \/ \E s \in held : Mark(s)
    \/ SweepStart
    \/ SweepMarked \/ SweepOther \/ SweepFirst \/ SweepLink \/ SweepBlk
    \/ Retry

Next == Program \/ Collect

Spec == Init /\ [][Next]_vars

\* A call that was made runs on.
FairSpec == Spec /\ WF_vars(Collect)

-----------------------------------------------------------------------------
(* What the allocator must keep true.                                      *)

\* The counters of the heap are sums over it: UseCounted says which.
TypeOK ==
    /\ \A j \in DOMAIN heap.blks : LET b == heap.blks[j] IN
         /\ \A o \in DOMAIN b.seg : b.seg[o] \in SegDescr
         /\ ToSet(b.free) \subseteq DOMAIN b.seg
         /\ {b.len, b.maxFree, b.nAlloc, b.nFree} \subseteq Nat
    /\ {heap.nSeg, heap.currUse, heap.totUse} \subseteq Int /\ markCount \in Nat
    /\ heap.curr \in Ids(heap) \cup {None}
    /\ enabled \in BOOLEAN
    /\ pc \in {"idle", "mark", "seg", "blk", "retry"}
    /\ req \in Length \cup {0}
    /\ sw.blk \in Ids(heap) \cup {None}

\* Between calls the segments of a block cover its data area without gaps, the
\* free list has exactly the free ones in address order, no two of them are
\* adjacent, and _nFreeSeg is their number: alloc, free and sweep never lose,
\* overlap or double a segment.
BlockSound(b) ==
    /\ 0 \in DOMAIN b.seg
    /\ \A o \in DOMAIN b.seg : o + b.seg[o].len \in DOMAIN b.seg \cup {DataLen(b)}
    /\ \A o \in DOMAIN b.seg : \A x \in DOMAIN b.seg : o < x => o + b.seg[o].len <= x
    /\ ToSet(b.free) = {o \in DOMAIN b.seg : b.seg[o].st = "free"}
    /\ \A k \in 1 .. (Len(b.free) - 1) : b.free[k] + b.seg[b.free[k]].len < b.free[k + 1]
    /\ b.nFree = Len(b.free)

HeapSound == pc \in {"idle", "mark", "retry"} => \A j \in DOMAIN heap.blks : BlockSound(heap.blks[j])

\* What the program holds is never released: its block is there and its
\* segment is allocated, also while sweep is at work.
HeldKept ==
    \A s \in held : /\ s.blk \in Ids(heap)
                    /\ s.off \in DOMAIN heap.blks[Pos(heap, s.blk)].seg
                    /\ Seg(s).st # "free"

InUse(b) == {o \in DOMAIN b.seg : b.seg[o].st # "free"}

\* A block is released only when its count of allocated segments is 0, so the
\* count must never be too low.
CountNotLow == \A j \in DOMAIN heap.blks : heap.blks[j].nAlloc >= Cardinality(InUse(heap.blks[j]))

\* Segments of all blocks, as pairs of position and offset.
AllInUse == UNION {{<<j, o>> : o \in InUse(heap.blks[j])} : j \in DOMAIN heap.blks}
Marked == {x \in AllInUse : heap.blks[x[1]].seg[x[2]].mark}

\* _currUse, _totUse and _nSeg, on which the choice of the block to search
\* depends, agree with the blocks.
UseCounted ==
    /\ heap.currUse = Total([x \in AllInUse |-> heap.blks[x[1]].seg[x[2]].len])
    /\ heap.totUse = Total([j \in DOMAIN heap.blks |-> heap.blks[j].len])
    /\ heap.nSeg = Cardinality(AllInUse)

\* The assertion at the end of sweep: the mark count is 0 whenever sweep has
\* ended, early or not, and it is always the number of marks.
MarksCounted == markCount = Cardinality(Marked) /\ (pc \in {"idle", "retry"} => markCount = 0)

\* The memory in use never exceeds the limit, also when blocks of any length
\* come and go (addBlk.cpp: "restrict length or return error").
LimitKept == Limit # 0 => heap.totUse <= Limit

\* sweep.cpp: "freeing block if none remain".  A block sweep has gone over and
\* passes on from has a segment in use or is released.
EmptyBlkFreed ==
    [][(pc = "blk" /\ pc' = "seg" /\ InUse(SweptBlk) = {}) => sw.blk \notin Ids(heap')]_vars

\* A request for memory that starts a collection is answered: marking and the
\* two loops of sweep come to an end.
Answered == (pc # "idle") ~> (pc = "idle")
==============================================================================
