--------------------------------- MODULE MSA ---------------------------------
(***************************************************************************)
(* The segment allocator MSA (source/API/MSA, source/header/MSA.h).        *)
(*                                                                         *)
(* Memory is a list of blocks.  The data area of a block is divided into   *)
(* segments, allocated and free, and its free segments are linked in       *)
(* address order.  Lengths and offsets count units of MSA_QUANT bytes; the *)
(* length of a request is the one alloc rounds it up to, 0 if 0 bytes are  *)
(* asked for.  A unit holds a FreeSeg, as with pointers of 4 bytes: with   *)
(* longer ones fstFit may leave a remainder too short for its link.  A     *)
(* segment that is merged into another loses its descriptor here; in       *)
(* memory the stale one is never reached again.                            *)
(*                                                                         *)
(* A heap is a record of the data members of an MSA.  _limit is a          *)
(* constant: preEval sets it while the heap is new.  The counters nothing  *)
(* reads (_maxUse, _errCode) and _nBlk, which is Len(h.blks), are left out.*)
(***************************************************************************)
EXTENDS Integers, SequencesExt

CONSTANTS
    BlkLen,     \* _blkLen: the default length of a block, header included
    HdrLen,     \* MSA_BLK_HDR_LENGTH
    SizeRange,  \* lengths are unsigned: they are counted modulo this
    Limit,      \* _limit, 0 for none
    Length,     \* the rounded lengths that are requested, 0 for nothing
    MaxBlks     \* blocks there is memory for

ASSUME LengthAssumption ==
    /\ HdrLen \in Nat \ {0}
    /\ BlkLen \in Nat /\ BlkLen > HdrLen
    /\ Limit \in Nat /\ SizeRange \in Nat /\ SizeRange > Limit + BlkLen
    /\ Length \subseteq Nat
    /\ MaxBlks \in Nat \ {0}

None == -1                      \* the null FreeSeg*, SegBlk* or segment

\* "alloc" has MSA_ALLOC_FLAG, "gc" has MSA_GC_FLAG too; mark is MSA_MARK_FLAG.
\* len is 0 in a block for which the limit left nothing but its header.
SegDescr == [len : Nat, st : {"free", "alloc", "gc"}, mark : BOOLEAN]

FreeDescr(len) == [len |-> len, st |-> "free", mark |-> FALSE]
AllocDescr(len) == [len |-> len, st |-> "alloc", mark |-> FALSE]

\* A SegBlk.  id stands for its address, seg has the descriptor at each offset
\* a segment starts at, and free is the list from _hdFreeSeg on.
Data(len) == (len - HdrLen) % SizeRange

NewBlk(id, len) ==
    [id |-> id, len |-> len, seg |-> [o \in {0} |-> FreeDescr(Data(len))],
     free |-> <<0>>, maxFree |-> Data(len), nAlloc |-> 0, nFree |-> 1]

DataLen(b) == Data(b.len)

FreeLens(b) == {b.seg[b.free[k]].len : k \in DOMAIN b.free}

EmptyHeap == [blks |-> <<>>, curr |-> None, nSeg |-> 0, currUse |-> 0, totUse |-> 0]

\* The sum of the values of a function.
Total(f) == FoldFunction(+, 0, f)

Ids(h) == {h.blks[j].id : j \in DOMAIN h.blks}

\* The position in the list of the block with an id.
Pos(h, id) == CHOOSE j \in DOMAIN h.blks : h.blks[j].id = id

HdBlk(blks) == IF blks = <<>> THEN None ELSE blks[1].id

-----------------------------------------------------------------------------
(* SegBlk::fstFit.                                                         *)

\* The search found nothing: the bound is corrected.
Corrected(b) == [b EXCEPT !.maxFree = Max(FreeLens(b))]

Fits(b, req) == {k \in DOMAIN b.free : b.seg[b.free[k]].len >= req}

\* The first free segment that is long enough, and the block after it was
\* taken, whole or split.
FitOffset(b, req) == b.free[Min(Fits(b, req))]

\* Mutant: a segment taken whole is not counted.
FstFitUncounted(b, req) ==
    LET k    == Min(Fits(b, req))
        o    == b.free[k]
        left == b.seg[o].len - req
    IN  IF left = 0
        THEN [b EXCEPT !.seg[o] = AllocDescr(req), !.free = RemoveAt(@, k), !.nFree = @ - 1]
        ELSE [b EXCEPT !.seg = [x \in DOMAIN @ \cup {o + req} |->
                                  CASE x = o       -> AllocDescr(req)
                                    [] x = o + req -> FreeDescr(left)
                                    [] OTHER       -> @[x]],
                       !.free[k] = o + req, !.nAlloc = @ + 1]

FstFit(b, req) ==
    LET k    == Min(Fits(b, req))
        o    == b.free[k]
        left == b.seg[o].len - req
    IN  IF left = 0
        THEN [b EXCEPT !.seg[o] = AllocDescr(req),
                       !.free = RemoveAt(@, k),
                       !.nFree = @ - 1,
                       !.maxFree = IF b.nFree = 1 THEN 0 ELSE @,
                       !.nAlloc = @ + 1]
        ELSE [b EXCEPT !.seg = [x \in DOMAIN @ \cup {o + req} |->
                                  CASE x = o       -> AllocDescr(req)
                                    [] x = o + req -> FreeDescr(left)
                                    [] OTHER       -> @[x]],
                       !.free[k] = o + req,
                       !.maxFree = IF b.nFree = 1 THEN left ELSE @,
                       !.nAlloc = @ + 1]

-----------------------------------------------------------------------------
(* MSA::alloc and MSA::addBlk.                                             *)

\* The block the search starts at: the current one, or the head if less than
\* 80% of the memory is in use.
StartBlk(h) == IF h.currUse * 5 < h.totUse * 4 THEN HdBlk(h.blks) ELSE h.curr

\* From there to the tail, then backwards to the head: the turn of position j.
Turn(h, j) == LET c == Pos(h, StartBlk(h)) IN IF j >= c THEN j - c ELSE Len(h.blks) - j

\* fstFit is called for the blocks whose _maxFreeSegLen promises enough.
Promising(h, req) ==
    {j \in DOMAIN h.blks : h.blks[j].free # <<>> /\ req <= h.blks[j].maxFree}

Hits(h, req) == {j \in Promising(h, req) : Fits(h.blks[j], req) # {}}

\* The position the search ends at: none or one.
Found(h, req) == {j \in Hits(h, req) : \A m \in Hits(h, req) : Turn(h, j) <= Turn(h, m)}

\* The blocks after the search, of which those tried in vain are corrected.
Searched(h, req) ==
    [j \in DOMAIN h.blks |->
        IF /\ j \in Promising(h, req) \ Hits(h, req)
           /\ \A m \in Found(h, req) : Turn(h, j) < Turn(h, m)
        THEN Corrected(h.blks[j]) ELSE h.blks[j]]

\* The length of a block that has room for the request.
WantedLen(req) == Max({BlkLen, req + HdrLen})

\* Mutant: what is in use already is not taken off the limit.
AddedLenWhole(h, req) ==
    IF Limit # 0 /\ WantedLen(req) > Limit THEN Limit ELSE WantedLen(req)

\* The limit may leave less.
AddedLen(h, req) ==
    IF Limit # 0 /\ h.totUse + WantedLen(req) > Limit THEN Limit - h.totUse ELSE WantedLen(req)

CanAdd(h, req) == Len(h.blks) < MaxBlks /\ AddedLen(h, req) >= req

AddBlk(h, req) ==
    LET len == AddedLen(h, req)
        id  == Min({n \in 1 .. (Len(h.blks) + 1) : n \notin Ids(h)})
    IN  [h EXCEPT !.blks = Append(@, NewBlk(id, len)), !.totUse = @ + len]

\* fstFit at position j, and what alloc does after it.
Taken(h, j, req) ==
    [h EXCEPT !.blks[j] = FstFit(@, req), !.curr = h.blks[j].id,
              !.nSeg = @ + 1, !.currUse = @ + req]

NoSegment == [blk |-> None, off |-> None]

SegmentAt(h, j, req) == [blk |-> h.blks[j].id, off |-> FitOffset(h.blks[j], req)]

\* What alloc returns for the heap h: the heap after it, the segment, and
\* whether MSA::addBlk was called.  It is not unless mayAdd, and fails when there
\* is no memory left.  A block that the limit made too short is added in vain.
Alloc(h, req, mayAdd) ==
    LET none(g, called) == [heap |-> g, seg |-> NoSegment, called |-> called]
        some(g, j, called) == [heap |-> Taken(g, j, req), seg |-> SegmentAt(g, j, req), called |-> called]
        g == IF h.curr = None THEN h
             ELSE [h EXCEPT !.blks = Searched(h, req), !.curr = StartBlk(h)]
    IN  IF req = 0 THEN none(h, FALSE)
        ELSE IF h.curr # None /\ Found(h, req) # {}
        THEN some(g, CHOOSE j \in Found(h, req) : TRUE, FALSE)
        ELSE IF mayAdd /\ CanAdd(g, req)
        THEN IF Data(AddedLen(g, req)) >= req
             THEN some(AddBlk(g, req), Len(h.blks) + 1, TRUE)
             ELSE none([AddBlk(g, req) EXCEPT !.blks[Len(h.blks) + 1] = Corrected(@)], TRUE)
        ELSE none(g, mayAdd)

-----------------------------------------------------------------------------
(* MSA::free, and the linking it shares with MSA_GC::sweep.                *)

\* The list up to and including x, and from x on; x may be None.
Upto(free, x) == IF x = None THEN <<>> ELSE SubSeq(free, 1, CHOOSE k \in DOMAIN free : free[k] = x)
From(free, x) == IF x = None THEN <<>> ELSE SubSeq(free, CHOOSE k \in DOMAIN free : free[k] = x, Len(free))

JoinsNext(b, o, next) == next # None /\ o + b.seg[o].len = next
JoinsPrev(b, o, prev) == prev # None /\ prev + b.seg[prev].len = o

\* The length of the free segment that the segment at o becomes part of.
JoinedLen(b, o, prev, next) ==
    b.seg[o].len + (IF JoinsNext(b, o, next) THEN b.seg[next].len ELSE 0)
                 + (IF JoinsPrev(b, o, prev) THEN b.seg[prev].len ELSE 0)

\* Mutant: a segment is concatenated with the next free one only.
LinkedNextOnly(b, o, prev, next) ==
    LET jn == JoinsNext(b, o, next)
    IN  [b EXCEPT !.seg = [x \in DOMAIN @ \ (IF jn THEN {next} ELSE {}) |->
                             IF x = o THEN FreeDescr(JoinedLen(b, o, None, next)) ELSE @[x]],
                  !.free = Upto(@, prev) \o <<o>> \o (IF jn THEN Tail(From(@, next)) ELSE From(@, next)),
                  !.nFree = @ + (IF jn THEN 0 ELSE 1)]

\* Block b with the segment at o in the free list between prev and next, and
\* concatenated with those of them that are adjacent.
Linked(b, o, prev, next) ==
    LET jn == JoinsNext(b, o, next)
        jp == JoinsPrev(b, o, prev)
        at == IF jp THEN prev ELSE o
        gone == (IF jn THEN {next} ELSE {}) \cup (IF jp THEN {o} ELSE {})
    IN  [b EXCEPT !.seg = [x \in DOMAIN @ \ gone |->
                             IF x = at THEN FreeDescr(JoinedLen(b, o, prev, next)) ELSE @[x]],
                  !.free = Upto(@, prev) \o (IF jp THEN <<>> ELSE <<o>>)
                             \o (IF jn THEN Tail(From(@, next)) ELSE From(@, next)),
                  !.nFree = @ + (IF jn THEN 0 ELSE 1) - (IF jp THEN 1 ELSE 0)]

\* Mutants: the current block may be the one released; its length stays in use.
WithoutBlkCurr(h, j) == [h EXCEPT !.blks = RemoveAt(@, j), !.totUse = @ - h.blks[j].len]
WithoutBlkUse(h, j) ==
    LET blks == RemoveAt(h.blks, j) IN
    [h EXCEPT !.blks = blks, !.curr = IF @ = h.blks[j].id THEN HdBlk(blks) ELSE @]

\* The heap without the block at position j, which the caller found empty.
WithoutBlk(h, j) ==
    LET blks == RemoveAt(h.blks, j) IN
    [h EXCEPT !.blks = blks, !.totUse = @ - h.blks[j].len,
              !.curr = IF @ = h.blks[j].id THEN HdBlk(blks) ELSE @]

\* Where a walk along the list stops: at the first segment beyond o, if any.
NextFree(b, o) == LET k == SelectInSeq(b.free, LAMBDA x : x > o) IN
                  IF k = 0 THEN None ELSE b.free[k]
PrevFree(b, o) == LET k == SelectInSeq(b.free, LAMBDA x : x > o)
                      n == IF k = 0 THEN Len(b.free) ELSE k - 1
                  IN  IF n = 0 THEN None ELSE b.free[n]

\* free(seg), for a segment of alloc.
FreeSegment(h, s) ==
    LET j    == Pos(h, s.blk)
        b    == h.blks[j]
        len  == b.seg[s.off].len
        prev == PrevFree(b, s.off)
        next == NextFree(b, s.off)
        new  == JoinedLen(b, s.off, prev, next)
        g    == [h EXCEPT !.nSeg = @ - 1, !.currUse = @ - len]
    IN  IF b.nAlloc = 1 THEN WithoutBlk(g, j)
        ELSE [g EXCEPT !.blks[j] =
                [Linked(b, s.off, prev, next) EXCEPT
                    !.nAlloc = @ - 1,
                    !.maxFree = IF new > @ THEN new ELSE @]]
==============================================================================
