------------------------------ MODULE MSAProofs ------------------------------
(***************************************************************************)
(* The operations of MSA keep a heap well formed: first lists of offsets   *)
(* in ascending order, then the segments of one block with its free list,  *)
(* then heaps.                                                             *)
(*                                                                         *)
(* A block is well formed (BlkInv) when its segments cover its data area,  *)
(* no two free ones touch, only those of allocGC are marked, and its free  *)
(* list has the free ones in ascending order.  Every operation on it is    *)
(* one of four: a free segment is taken whole, or in part; a segment in    *)
(* use is linked into the free list, alone or joined with a neighbour.     *)
(***************************************************************************)
EXTENDS MSA, SequenceTheorems, FiniteSetTheorems, WellFoundedInduction, TLAPS

-----------------------------------------------------------------------------
(* Least and greatest elements.                                            *)

\* A nonempty set of numbers has a least element, which Min is.
LEMMA LeastExists ==
    ASSUME NEW S, S \subseteq Nat, S # {}
    PROVE  Min(S) \in S /\ \A y \in S : Min(S) <= y
  <1>1. PICK x \in S : \A y \in S : ~(<<y, x>> \in OpToRel(<, Nat))
    BY NatLessThanWellFounded, WFMin
  <1>2. \A y \in S : ~(y < x)
    BY <1>1 DEF OpToRel
  <1>3. \A y \in S : x =< y
    BY <1>2
  <1>4. \E z \in S : \A y \in S : z =< y
    BY <1>3
  <1> QED BY <1>4 DEF Min

\* A nonempty set of numbers up to n has a greatest element, which Max is.
LEMMA GreatestExists ==
    ASSUME NEW n \in Nat, NEW S, S \subseteq 0 .. n, S # {}
    PROVE  Max(S) \in S /\ \A y \in S : y <= Max(S)
  <1> DEFINE T == {k \in 0 .. n : n - k \in S}
  <1>1. ASSUME NEW y \in S PROVE n - y \in T
    <2>1. n - y \in 0 .. n /\ n - (n - y) = y
      OBVIOUS
    <2> QED BY <2>1
  <1>2. T \subseteq Nat
    OBVIOUS
  <1> HIDE DEF T
  <1>2a. T # {}
    BY <1>1
  <1>3. PICK t \in T : \A z \in T : t <= z
    BY <1>2, <1>2a, LeastExists
  <1>4. n - t \in S /\ \A y \in S : n - t >= y
    BY <1>1, <1>3 DEF T
  <1>5. \E x \in S : \A y \in S : x >= y
    BY <1>4
  <1>6. Max(S) \in S /\ \A y \in S : Max(S) >= y
    BY <1>5 DEF Max
  <1> QED BY <1>6

-----------------------------------------------------------------------------
(* Lists of offsets in ascending order.                                    *)

\* l lists the offsets of F in ascending order.
Lists(l, F) ==
    /\ l \in Seq(Nat)
    /\ \A k \in 1 .. Len(l) : l[k] \in F
    /\ \A x \in F : \E k \in 1 .. Len(l) : l[k] = x
    /\ \A k, m \in 1 .. Len(l) : k < m => l[k] < l[m]

\* A list of F has the offsets of F, which are numbers.
LEMMA ListedSet ==
    ASSUME NEW F, NEW l, Lists(l, F)
    PROVE  ToSet(l) = F /\ DOMAIN l = 1 .. Len(l) /\ Len(l) \in Nat /\ F \subseteq Nat
  <1>1. DOMAIN l = 1 .. Len(l) /\ Len(l) \in Nat /\ \A k \in 1 .. Len(l) : l[k] \in Nat
    BY DEF Lists
  <1> QED BY <1>1 DEF ToSet, Lists

\* An item of the list is an offset of F.
LEMMA ListItem ==
    ASSUME NEW F, NEW l, Lists(l, F), NEW k \in 1 .. Len(l)
    PROVE  l[k] \in F /\ l[k] \in Nat
  BY DEF Lists

Part(l, a, c) == {l[k] : k \in a .. c}

\* Part of a list lists what stands there.
LEMMA ListPart ==
    ASSUME NEW F, NEW l, Lists(l, F), NEW a \in 1 .. (Len(l) + 1), NEW c \in 0 .. Len(l)
    PROVE  /\ Lists(SubSeq(l, a, c), Part(l, a, c))
           /\ Len(SubSeq(l, a, c)) = IF a <= c THEN c - a + 1 ELSE 0
           /\ \A i \in 1 .. c - a + 1 : SubSeq(l, a, c)[i] = l[a + i - 1]
  <1> DEFINE n == SubSeq(l, a, c)
  <1>1. l \in Seq(Nat) /\ Len(l) \in Nat /\ \A k \in 1 .. Len(l) : l[k] \in Nat
    BY DEF Lists
  <1>2. /\ n \in Seq(Nat)
        /\ Len(n) = IF a <= c THEN c - a + 1 ELSE 0
        /\ \A i \in 1 .. c - a + 1 : n[i] = l[a + i - 1]
    BY <1>1, SubSeqProperties
  <1> HIDE DEF n
  <1>3. ASSUME NEW k \in 1 .. Len(n)
        PROVE  a + k - 1 \in a .. c /\ a + k - 1 \in 1 .. Len(l) /\ n[k] = l[a + k - 1]
    <2>1. k \in 1 .. c - a + 1
      BY <1>1, <1>2
    <2> QED BY <2>1, <1>1, <1>2
  <1>3a. \A k \in 1 .. Len(n) : n[k] \in Part(l, a, c)
    BY <1>3 DEF Part
  <1>4. \A x \in Part(l, a, c) : \E k \in 1 .. Len(n) : n[k] = x
    <2> SUFFICES ASSUME NEW k \in a .. c PROVE \E i \in 1 .. Len(n) : n[i] = l[k]
      BY DEF Part
    <2>1. k - a + 1 \in 1 .. Len(n) /\ n[k - a + 1] = l[k]
      BY <1>1, <1>2
    <2> QED BY <2>1
  <1>5. \A k, m \in 1 .. Len(n) : k < m => n[k] < n[m]
    <2> SUFFICES ASSUME NEW k \in 1 .. Len(n), NEW m \in 1 .. Len(n), k < m
                 PROVE  n[k] < n[m]
      OBVIOUS
    <2>1. a + k - 1 < a + m - 1
      BY <1>1, <1>2
    <2>2. l[a + k - 1] < l[a + m - 1]
      BY <2>1, <1>3 DEF Lists
    <2> QED BY <2>2, <1>3
  <1> QED BY <1>2, <1>3a, <1>4, <1>5 DEF Lists, n

Below(P, Q) == \A x \in P : \A y \in Q : x < y

\* n is q after p.
Joined(n, p, q) ==
    /\ Len(n) = Len(p) + Len(q)
    /\ \A i \in 1 .. Len(p) : n[i] = p[i]
    /\ \A i \in 1 .. Len(q) : n[Len(p) + i] = q[i]

\* Two lists in a row list both sets, if all of the first is below the second.
LEMMA ListJoin ==
    ASSUME NEW P, NEW p, Lists(p, P), NEW Q, NEW q, Lists(q, Q), Below(P, Q)
    PROVE  Lists(p \o q, P \cup Q) /\ Joined(p \o q, p, q)
  <1> DEFINE n == p \o q
  <1>1. p \in Seq(Nat) /\ Len(p) \in Nat /\ q \in Seq(Nat) /\ Len(q) \in Nat
    BY DEF Lists
  <1>2. /\ n \in Seq(Nat)
        /\ Len(n) = Len(p) + Len(q)
        /\ \A i \in 1 .. Len(p) + Len(q) : n[i] = IF i <= Len(p) THEN p[i] ELSE q[i - Len(p)]
    BY <1>1, ConcatProperties
  <1> HIDE DEF n
  <1>3. ASSUME NEW i \in 1 .. Len(p) PROVE i \in 1 .. Len(n) /\ n[i] = p[i] /\ p[i] \in P
    <2>1. i \in 1 .. Len(p) + Len(q) /\ i <= Len(p)
      BY <1>1
    <2> QED BY <2>1, <1>2 DEF Lists
  <1>3a. ASSUME NEW i \in 1 .. Len(q)
         PROVE  Len(p) + i \in 1 .. Len(n) /\ n[Len(p) + i] = q[i] /\ q[i] \in Q
    <2>1. /\ Len(p) + i \in 1 .. Len(p) + Len(q)
          /\ ~(Len(p) + i <= Len(p)) /\ Len(p) + i - Len(p) = i
      BY <1>1
    <2> QED BY <2>1, <1>2 DEF Lists
  <1>3b. ASSUME NEW k \in 1 .. Len(n), k \notin 1 .. Len(p)
         PROVE  k - Len(p) \in 1 .. Len(q) /\ n[k] = q[k - Len(p)]
    <2>1. k - Len(p) \in 1 .. Len(q) /\ ~(k <= Len(p)) /\ k \in 1 .. Len(p) + Len(q)
      BY <1>1, <1>2, <1>3b
    <2> QED BY <2>1, <1>2
  <1>4. \A k \in 1 .. Len(n) : n[k] \in P \cup Q
    BY <1>3, <1>3a, <1>3b
  <1>5. \A x \in P \cup Q : \E k \in 1 .. Len(n) : n[k] = x
    <2>1. ASSUME NEW x \in P PROVE \E k \in 1 .. Len(n) : n[k] = x
      <3>1. PICK i \in 1 .. Len(p) : p[i] = x
        BY <2>1 DEF Lists
      <3> QED BY <3>1, <1>3
    <2>2. ASSUME NEW x \in Q PROVE \E k \in 1 .. Len(n) : n[k] = x
      <3>1. PICK i \in 1 .. Len(q) : q[i] = x
        BY <2>2 DEF Lists
      <3> QED BY <3>1, <1>3a
    <2> QED BY <2>1, <2>2
  <1>6. ASSUME NEW k \in 1 .. Len(n), NEW m \in 1 .. Len(n), k < m
        PROVE  n[k] < n[m]
    <2>1. CASE k \in 1 .. Len(p) /\ m \in 1 .. Len(p)
      BY <2>1, <1>3, <1>6 DEF Lists
    <2>2. CASE k \in 1 .. Len(p) /\ m \notin 1 .. Len(p)
      <3>1. n[k] \in P /\ n[m] \in Q
        BY <2>2, <1>3, <1>3a, <1>3b
      <3> QED BY <3>1 DEF Below
    <2>3. CASE k \notin 1 .. Len(p) /\ m \notin 1 .. Len(p)
      <3>1. k - Len(p) < m - Len(p)
        BY <1>1, <1>2, <1>6
      <3>2. q[k - Len(p)] < q[m - Len(p)]
        BY <3>1, <2>3, <1>3b DEF Lists
      <3> QED BY <3>2, <2>3, <1>3b
    <2>4. ~(k \notin 1 .. Len(p) /\ m \in 1 .. Len(p))
      BY <1>1, <1>2, <1>6
    <2> QED BY <2>1, <2>2, <2>3, <2>4
  <1>7. Joined(n, p, q)
    BY <1>2, <1>3, <1>3a DEF Joined
  <1> QED BY <1>2, <1>4, <1>5, <1>6, <1>7 DEF Lists, n

\* The list of one offset, and of none.
LEMMA ListOne == ASSUME NEW o \in Nat PROVE Lists(<<o>>, {o}) /\ Lists(<<>>, {}) /\ Len(<<o>>) = 1
  BY DEF Lists

\* n is the part of l up to m, a short list and the part from c on.
Spliced(n, l, m, mid, c) ==
    /\ Len(n) = m + Len(mid) + (Len(l) - c + 1)
    /\ \A i \in 1 .. m : n[i] = l[i]
    /\ \A i \in 1 .. Len(mid) : n[m + i] = mid[i]
    /\ \A i \in 1 .. Len(l) - c + 1 : n[m + Len(mid) + i] = l[c + i - 1]

\* A list with a piece of it exchanged.
LEMMA ListSplice ==
    ASSUME NEW F, NEW l, Lists(l, F), NEW m \in 0 .. Len(l), NEW c \in 1 .. (Len(l) + 1), m < c,
           NEW M, NEW mid, Lists(mid, M),
           \A x \in M : (\A k \in 1 .. m : l[k] < x) /\ (\A k \in c .. Len(l) : x < l[k])
    PROVE  LET n == SubSeq(l, 1, m) \o mid \o SubSeq(l, c, Len(l))
           IN  /\ Lists(n, Part(l, 1, m) \cup M \cup Part(l, c, Len(l)))
               /\ Spliced(n, l, m, mid, c)
  <1> DEFINE p == SubSeq(l, 1, m)
             q == SubSeq(l, c, Len(l))
             P == Part(l, 1, m)
             Q == Part(l, c, Len(l))
  <1>1. l \in Seq(Nat) /\ Len(l) \in Nat /\ Len(mid) \in Nat
    BY DEF Lists
  <1>2. Lists(p, P) /\ Len(p) = m /\ \A i \in 1 .. m : p[i] = l[i]
    <2>1. /\ Lists(p, P) /\ Len(p) = IF 1 <= m THEN m - 1 + 1 ELSE 0
          /\ \A i \in 1 .. m - 1 + 1 : p[i] = l[1 + i - 1]
      BY <1>1, ListPart
    <2>2. \A i \in 1 .. m : i \in 1 .. m - 1 + 1 /\ 1 + i - 1 = i
      OBVIOUS
    <2> HIDE DEF p, P
    <2> QED BY <2>1, <2>2
  <1>3. /\ Lists(q, Q) /\ Len(q) = Len(l) - c + 1
        /\ \A i \in 1 .. Len(l) - c + 1 : q[i] = l[c + i - 1]
    <2>1. /\ Lists(q, Q) /\ Len(q) = IF c <= Len(l) THEN Len(l) - c + 1 ELSE 0
          /\ \A i \in 1 .. Len(l) - c + 1 : q[i] = l[c + i - 1]
      BY <1>1, ListPart
    <2> HIDE DEF q, Q
    <2> QED BY <2>1, <1>1
  <1>4. Below(P, M)
    BY DEF Part, Below
  <1>5. Below(P \cup M, Q)
    <2>1. ASSUME NEW i \in 1 .. m, NEW k \in c .. Len(l) PROVE l[i] < l[k]
      <3>1. i \in 1 .. Len(l) /\ k \in 1 .. Len(l) /\ i < k
        BY <1>1
      <3> QED BY <3>1 DEF Lists
    <2> QED BY <2>1 DEF Part, Below
  <1> HIDE DEF p, q, P, Q
  <1>6. /\ Lists(p \o mid, P \cup M) /\ Len(p \o mid) = m + Len(mid)
        /\ \A i \in 1 .. m : (p \o mid)[i] = l[i]
        /\ \A i \in 1 .. Len(mid) : (p \o mid)[m + i] = mid[i]
    <2>1. Lists(p, P) /\ Lists(mid, M) /\ Below(P, M)
      BY <1>2, <1>4
    <2>2. Lists(p \o mid, P \cup M) /\ Joined(p \o mid, p, mid)
      BY ONLY <2>1, ListJoin
    <2> QED BY <2>2, <1>2 DEF Joined
  <1> DEFINE r == p \o mid
  <1>6a. \A i \in 1 .. m : i \in 1 .. m + Len(mid)
    BY <1>1
  <1>6b. \A i \in 1 .. Len(mid) : m + i \in 1 .. m + Len(mid)
    BY <1>1
  <1> HIDE DEF r
  <1>7. /\ Lists(r \o q, P \cup M \cup Q) /\ Len(r \o q) = m + Len(mid) + Len(q)
        /\ \A i \in 1 .. m + Len(mid) : (r \o q)[i] = r[i]
        /\ \A i \in 1 .. Len(q) : (r \o q)[m + Len(mid) + i] = q[i]
    <2>1. Lists(r, P \cup M) /\ Len(r) = m + Len(mid)
      BY <1>6 DEF r
    <2>2. Lists(q, Q) /\ Below(P \cup M, Q)
      BY <1>3, <1>5
    <2>3. Lists(r \o q, P \cup M \cup Q) /\ Joined(r \o q, r, q)
      BY ONLY <2>1, <2>2, ListJoin
    <2>4. Len(r \o q) = m + Len(mid) + Len(q)
      BY <2>1, <2>3 DEF Joined
    <2>5. \A i \in 1 .. m + Len(mid) : (r \o q)[i] = r[i]
      BY ONLY <2>1, <2>3 DEF Joined
    <2>6. \A i \in 1 .. Len(q) : (r \o q)[m + Len(mid) + i] = q[i]
      BY ONLY <2>1, <2>3 DEF Joined
    <2> QED BY ONLY <2>3, <2>4, <2>5, <2>6
  <1>8. /\ \A i \in 1 .. m : (r \o q)[i] = l[i]
        /\ \A i \in 1 .. Len(mid) : (r \o q)[m + i] = mid[i]
        /\ \A i \in 1 .. Len(l) - c + 1 : (r \o q)[m + Len(mid) + i] = l[c + i - 1]
    <2>1. /\ \A i \in 1 .. m : r[i] = l[i]
          /\ \A i \in 1 .. Len(mid) : r[m + i] = mid[i]
      BY <1>6 DEF r
    <2>2. \A i \in 1 .. m : (r \o q)[i] = l[i]
      BY <2>1, <1>6a, <1>7
    <2>3. \A i \in 1 .. Len(mid) : (r \o q)[m + i] = mid[i]
      BY <2>1, <1>6b, <1>7
    <2>4. \A i \in 1 .. Len(l) - c + 1 : (r \o q)[m + Len(mid) + i] = l[c + i - 1]
      BY <1>3, <1>7
    <2> QED BY <2>2, <2>3, <2>4
  <1>9. Spliced(r \o q, l, m, mid, c)
    BY <1>3, <1>7, <1>8 DEF Spliced
  <1> QED BY <1>7, <1>9 DEF r, p, q, P, Q

\* What the two parts have, with or without the element between them.
LEMMA PartsOf ==
    ASSUME NEW F, NEW l, Lists(l, F), NEW m \in 0 .. Len(l)
    PROVE  /\ Part(l, 1, m) \cup Part(l, m + 1, Len(l)) = F
           /\ m < Len(l) => Part(l, 1, m) \cup Part(l, m + 2, Len(l)) = F \ {l[m + 1]}
  <1>1. Len(l) \in Nat /\ l \in Seq(Nat)
    BY DEF Lists
  <1>2. ASSUME NEW a \in {m + 1, m + 2}, NEW k \in 1 .. m \cup a .. Len(l) PROVE k \in 1 .. Len(l)
    BY <1>1
  <1>3. Part(l, 1, m) \cup Part(l, m + 1, Len(l)) \subseteq F
    BY <1>2 DEF Lists, Part
  <1>4. ASSUME NEW x \in F PROVE x \in Part(l, 1, m) \cup Part(l, m + 1, Len(l))
    <2>1. PICK k \in 1 .. Len(l) : l[k] = x
      BY DEF Lists
    <2>2. k \in 1 .. m \/ k \in (m + 1) .. Len(l)
      BY <1>1
    <2> QED BY <2>1, <2>2 DEF Part
  <1>5. ASSUME m < Len(l) PROVE Part(l, 1, m) \cup Part(l, m + 2, Len(l)) = F \ {l[m + 1]}
    <2>1. ASSUME NEW x \in F, x # l[m + 1] PROVE x \in Part(l, 1, m) \cup Part(l, m + 2, Len(l))
      <3>1. PICK k \in 1 .. Len(l) : l[k] = x
        BY DEF Lists
      <3>2. k \in 1 .. m \/ k \in (m + 2) .. Len(l)
        BY <1>1, <2>1, <3>1
      <3> QED BY <3>1, <3>2 DEF Part
    <2>2. ASSUME NEW k \in 1 .. m \cup (m + 2) .. Len(l) PROVE l[k] \in F /\ l[k] # l[m + 1]
      <3>1. k \in 1 .. Len(l) /\ m + 1 \in 1 .. Len(l) /\ (k < m + 1 \/ m + 1 < k)
        BY <1>1, <1>5
      <3>2. l[k] \in Nat /\ l[m + 1] \in Nat
        BY <3>1, <1>1
      <3> QED BY <3>1, <3>2 DEF Lists
    <2> QED BY <2>1, <2>2 DEF Part
  <1> QED BY <1>3, <1>4, <1>5

-----------------------------------------------------------------------------
(* The segments of a block.                                                *)

SegMaps == UNION {[O -> SegDescr] : O \in SUBSET Nat}

FreeSet(s) == {o \in DOMAIN s : s[o].st = "free"}
UsedSet(s) == {o \in DOMAIN s : s[o].st # "free"}

\* The segments of s cover 0 .. d - 1 without gaps.
Tiled(s, d) ==
    /\ 0 \in DOMAIN s
    /\ \A o \in DOMAIN s : o + s[o].len \in DOMAIN s \cup {d}
    /\ \A o \in DOMAIN s : o + s[o].len <= d
    /\ \A o \in DOMAIN s : \A x \in DOMAIN s : o < x => o + s[o].len <= x
    /\ \A o \in DOMAIN s : s[o].len = 0 => d = 0
    /\ \A o \in UsedSet(s) : s[o].len > 0

\* No two free segments are adjacent.
Apart(s) == \A x \in FreeSet(s) : \A y \in FreeSet(s) : x < y => x + s[x].len < y

MarkedGC(s) == \A o \in DOMAIN s : s[o].mark => s[o].st = "gc"

Segments(s, d) == s \in SegMaps /\ Tiled(s, d) /\ Apart(s) /\ MarkedGC(s)

\* A function from offsets to descriptors is a map of segments,
LEMMA SegMapIntro ==
    ASSUME NEW D \in SUBSET Nat, NEW f \in [D -> SegDescr] PROVE f \in SegMaps
  BY DEF SegMaps

\* and the other way round.
LEMMA SegMapElim ==
    ASSUME NEW s \in SegMaps
    PROVE  /\ DOMAIN s \subseteq Nat /\ s \in [DOMAIN s -> SegDescr]
           /\ \A o \in DOMAIN s : /\ s[o] \in SegDescr
                                  /\ s[o].len \in Nat /\ s[o].mark \in BOOLEAN
  <1>1. PICK O \in SUBSET Nat : s \in [O -> SegDescr]
    BY DEF SegMaps
  <1> QED BY <1>1 DEF SegDescr

\* A free segment is taken whole.
LEMMA TakeWhole ==
    ASSUME NEW s, NEW d \in Nat, Segments(s, d), NEW o \in FreeSet(s), NEW t,
           s[o].len > 0, t = [s EXCEPT ![o] = AllocDescr(s[o].len)]
    PROVE  /\ Segments(t, d)
           /\ FreeSet(t) = FreeSet(s) \ {o} /\ UsedSet(t) = UsedSet(s) \cup {o}
           /\ \A x \in UsedSet(s) : t[x] = s[x]
           /\ t[o] = AllocDescr(s[o].len)
  <1>1. /\ DOMAIN s \subseteq Nat /\ s \in [DOMAIN s -> SegDescr] /\ o \in DOMAIN s
        /\ \A x \in DOMAIN s : s[x].len \in Nat
    BY SegMapElim DEF Segments, FreeSet
  <1>2. AllocDescr(s[o].len) \in SegDescr
    BY <1>1 DEF AllocDescr, SegDescr
  <1>3. DOMAIN t = DOMAIN s /\ t[o] = AllocDescr(s[o].len) /\ \A x \in DOMAIN s : x # o => t[x] = s[x]
    BY <1>1
  <1>4. t \in SegMaps
    BY <1>1, <1>2, SegMapIntro
  <1>5. \A x \in DOMAIN s : t[x].len = s[x].len
    BY <1>3 DEF AllocDescr
  <1>6. FreeSet(t) = FreeSet(s) \ {o} /\ UsedSet(t) = UsedSet(s) \cup {o}
    BY <1>1, <1>3 DEF FreeSet, UsedSet, AllocDescr
  <1>7. Tiled(t, d)
    <2>1. Tiled(s, d)
      BY DEF Segments
    <2>2. \A x \in UsedSet(t) : t[x].len > 0
      <3>1. \A x \in UsedSet(s) : x \in DOMAIN s /\ s[x].len > 0
        BY <2>1 DEF Tiled, UsedSet
      <3> QED BY <3>1, <1>1, <1>5, <1>6
    <2> QED BY <2>1, <2>2, <1>3, <1>5 DEF Tiled
  <1>8. Apart(t)
    BY <1>1, <1>5, <1>6 DEF Apart, Segments, FreeSet
  <1>9. MarkedGC(t)
    BY <1>1, <1>3 DEF MarkedGC, Segments, AllocDescr
  <1>10. \A x \in UsedSet(s) : x # o /\ x \in DOMAIN s
    BY DEF FreeSet, UsedSet
  <1> QED BY <1>3, <1>4, <1>6, <1>7, <1>8, <1>9, <1>10 DEF Segments

\* A free segment is split, and the first part of it taken.
SplitMap(s, o, r, left) ==
    [x \in DOMAIN s \cup {o + r} |-> CASE x = o     -> AllocDescr(r)
                                       [] x = o + r -> FreeDescr(left)
                                       [] OTHER     -> s[x]]

Split(s, t, d, o, r) ==
    /\ Segments(t, d)
    /\ FreeSet(t) = (FreeSet(s) \ {o}) \cup {o + r} /\ UsedSet(t) = UsedSet(s) \cup {o}
    /\ \A x \in UsedSet(s) : t[x] = s[x]
    /\ t[o] = AllocDescr(r) /\ o + r \notin DOMAIN s

\* fstFit splits a free segment: the block stays covered (MSA/alloc.cpp).
LEMMA TakeSplit ==
    ASSUME NEW s, NEW d \in Nat, Segments(s, d), NEW o \in FreeSet(s), NEW r \in Nat \ {0},
           NEW left \in Nat \ {0}, left = s[o].len - r, NEW t,
           t = SplitMap(s, o, r, left)
    PROVE  Split(s, t, d, o, r)
  <1>1. /\ DOMAIN s \subseteq Nat /\ s \in [DOMAIN s -> SegDescr] /\ o \in DOMAIN s
        /\ \A x \in DOMAIN s : s[x].len \in Nat
    BY SegMapElim DEF Segments, FreeSet
  <1>2. AllocDescr(r) \in SegDescr /\ FreeDescr(left) \in SegDescr
    BY DEF AllocDescr, FreeDescr, SegDescr
  <1>3. o + r # o /\ o + r \in Nat /\ o + s[o].len = o + r + left /\ o < o + r
        /\ o + r < o + s[o].len
    BY <1>1
  <1>4. o + r \notin DOMAIN s
    BY <1>1, <1>3 DEF Segments, Tiled
  <1>5. /\ DOMAIN t = DOMAIN s \cup {o + r}
        /\ t[o] = AllocDescr(r) /\ t[o + r] = FreeDescr(left)
        /\ \A x \in DOMAIN s : x # o => t[x] = s[x]
    BY <1>1, <1>3, <1>4 DEF SplitMap
  <1>6. t \in SegMaps
    <2>1. \A x \in DOMAIN t : t[x] \in SegDescr
      BY <1>1, <1>2, <1>5
    <2>2. t \in [DOMAIN t -> SegDescr] /\ DOMAIN t \in SUBSET Nat
      BY <2>1, <1>1, <1>3, <1>5 DEF SplitMap
    <2> QED BY <2>2, SegMapIntro
  <1>7. FreeSet(t) = (FreeSet(s) \ {o}) \cup {o + r} /\ UsedSet(t) = UsedSet(s) \cup {o}
    BY <1>1, <1>3, <1>4, <1>5 DEF FreeSet, UsedSet, AllocDescr, FreeDescr
  <1>8. /\ t[o].len = r /\ t[o + r].len = left
        /\ \A x \in DOMAIN s : x # o => t[x].len = s[x].len
    BY <1>5 DEF AllocDescr, FreeDescr
  <1>9. Tiled(t, d)
    <2>1. \A x \in DOMAIN t : x + t[x].len \in DOMAIN t \cup {d} /\ x + t[x].len <= d
      <3>1. ASSUME NEW x \in DOMAIN s, x # o
            PROVE  x + t[x].len \in DOMAIN t \cup {d} /\ x + t[x].len <= d
        BY <3>1, <1>1, <1>5, <1>8 DEF Segments, Tiled
      <3>2. o + t[o].len \in DOMAIN t /\ o + t[o].len <= d
        BY <1>1, <1>3, <1>5, <1>8 DEF Segments, Tiled
      <3>3. o + r + t[o + r].len \in DOMAIN t \cup {d} /\ o + r + t[o + r].len <= d
        BY <1>1, <1>3, <1>5, <1>8 DEF Segments, Tiled
      <3> QED BY <3>1, <3>2, <3>3, <1>5
    <2>2. ASSUME NEW x \in DOMAIN t, NEW y \in DOMAIN t, x < y PROVE x + t[x].len <= y
      <3>1. CASE x \in DOMAIN s /\ x # o /\ y \in DOMAIN s
        BY <3>1, <2>2, <1>8 DEF Segments, Tiled
      <3>2. CASE x = o /\ y \in DOMAIN s
        BY <3>2, <2>2, <1>1, <1>3, <1>8 DEF Segments, Tiled
      <3>3. CASE x \in DOMAIN s /\ x # o /\ y = o + r
        <4>1. x < o \/ o < x
          BY <3>3, <1>1
        <4>2. o < x => o + s[o].len <= x
          BY <3>3, <1>1 DEF Segments, Tiled
        <4>3. x < o => x + s[x].len <= o
          BY <3>3, <1>1 DEF Segments, Tiled
        <4> QED BY <4>1, <4>2, <4>3, <3>3, <2>2, <1>1, <1>3, <1>8
      <3>4. CASE x = o /\ y = o + r
        BY <3>4, <1>1, <1>8
      <3>5. CASE x = o + r /\ y \in DOMAIN s
        <4>1. o + s[o].len <= y
          BY <3>5, <2>2, <1>1, <1>3 DEF Segments, Tiled
        <4> QED BY <4>1, <3>5, <1>1, <1>3, <1>8
      <3>6. ~(x = o + r /\ y = o + r)
        BY <2>2, <1>3
      <3> QED BY <3>1, <3>2, <3>3, <3>4, <3>5, <3>6, <1>5
    <2>3. /\ \A x \in UsedSet(t) : t[x].len > 0
          /\ \A x \in DOMAIN t : t[x].len = 0 => d = 0
      <3>1. \A x \in UsedSet(s) : x \in DOMAIN s /\ x # o /\ s[x].len > 0
        BY DEF Segments, Tiled, UsedSet, FreeSet
      <3>2. \A x \in DOMAIN s : s[x].len = 0 => d = 0
        BY DEF Segments, Tiled
      <3> QED BY ONLY <3>1, <3>2, <1>5, <1>7, <1>8, r \in Nat \ {0}, left \in Nat \ {0}
    <2> QED BY <2>1, <2>2, <2>3, <1>5 DEF Tiled, Segments
  <1>10. Apart(t)
    <2> SUFFICES ASSUME NEW x \in FreeSet(t), NEW y \in FreeSet(t), x < y
                 PROVE  x + t[x].len < y
      BY DEF Apart
    <2>1. FreeSet(s) \subseteq DOMAIN s
      BY DEF FreeSet
    <2>2. CASE x \in FreeSet(s) \ {o} /\ y \in FreeSet(s) \ {o}
      BY <2>1, <2>2, <1>8 DEF Apart, Segments
    <2>3. CASE x \in FreeSet(s) \ {o} /\ y = o + r
      <3>1. x < o \/ o < x
        BY <2>1, <2>3, <1>1
      <3>2. o < x => o + s[o].len <= x
        BY <2>1, <2>3, <1>1 DEF Segments, Tiled
      <3>3. x < o => x + s[x].len <= o
        BY <2>1, <2>3, <1>1 DEF Segments, Tiled
      <3> QED BY <3>1, <3>2, <3>3, <2>1, <2>3, <1>1, <1>3, <1>8
    <2>4. CASE x = o + r /\ y \in FreeSet(s) \ {o}
      <3>1. o < y /\ y \in DOMAIN s
        BY <2>1, <2>4, <1>1, <1>3
      <3>2. o + s[o].len < y
        BY <3>1, <2>4 DEF Segments, Apart
      <3> QED BY <3>1, <3>2, <2>4, <1>1, <1>3, <1>8
    <2> QED BY <2>2, <2>3, <2>4, <1>3, <1>7
  <1>11. MarkedGC(t)
    BY <1>1, <1>5 DEF MarkedGC, Segments, AllocDescr, FreeDescr
  <1>12. \A x \in UsedSet(s) \cup (FreeSet(s) \ {o}) : x # o /\ x \in DOMAIN s
    BY DEF FreeSet, UsedSet
  <1> QED BY <1>4, <1>5, <1>6, <1>7, <1>9, <1>10, <1>11, <1>12 DEF Segments, Split

\* prev and next are the free segments before and after o.
Neighbours(s, o, prev, next) ==
    /\ prev # None => prev \in FreeSet(s) /\ prev < o
    /\ next # None => next \in FreeSet(s) /\ o < next
    /\ \A x \in FreeSet(s) : \/ prev # None /\ x <= prev
                             \/ next # None /\ next <= x

JoinAt(b, o, prev) == IF JoinsPrev(b, o, prev) THEN prev ELSE o
JoinGone(b, o, prev, next) ==
    (IF JoinsNext(b, o, next) THEN {next} ELSE {}) \cup (IF JoinsPrev(b, o, prev) THEN {o} ELSE {})

LinkMap(b, o, prev, next) ==
    [x \in DOMAIN b.seg \ JoinGone(b, o, prev, next) |->
       IF x = JoinAt(b, o, prev) THEN FreeDescr(JoinedLen(b, o, prev, next)) ELSE b.seg[x]]

LinkedSegs(b, t, d, o, prev, next) ==
    /\ Segments(t, d)
    /\ FreeSet(t) = (FreeSet(b.seg) \ JoinGone(b, o, prev, next)) \cup {JoinAt(b, o, prev)}
    /\ UsedSet(t) = UsedSet(b.seg) \ {o}
    /\ \A x \in UsedSet(t) : t[x] = b.seg[x]
    /\ JoinedLen(b, o, prev, next) \in 1 .. d
    /\ JoinAt(b, o, prev) \in DOMAIN t
    /\ t[JoinAt(b, o, prev)].len = JoinedLen(b, o, prev, next)

\* A segment in use is released and joined with its neighbours.
LEMMA LinkSegment ==
    ASSUME NEW b, NEW d \in Nat, Segments(b.seg, d), NEW o \in UsedSet(b.seg),
           NEW prev, NEW next, Neighbours(b.seg, o, prev, next), NEW t,
           t = LinkMap(b, o, prev, next)
    PROVE  LinkedSegs(b, t, d, o, prev, next)
  <1> DEFINE s == b.seg
             at == JoinAt(b, o, prev)
             gone == JoinGone(b, o, prev, next)
             new == JoinedLen(b, o, prev, next)
             hi == at + new
             jn == JoinsNext(b, o, next)
             jp == JoinsPrev(b, o, prev)
  <1>1. /\ DOMAIN s \subseteq Nat /\ s \in [DOMAIN s -> SegDescr] /\ o \in DOMAIN s
        /\ \A x \in DOMAIN s : s[x].len \in Nat
    BY SegMapElim DEF Segments, UsedSet
  <1>2. Tiled(s, d) /\ Apart(s) /\ MarkedGC(s) /\ s[o].len > 0
    BY DEF Segments, Tiled
  <1>3. jn => next \in FreeSet(s) /\ next \in DOMAIN s /\ next \in Nat /\ o + s[o].len = next /\ o < next
    BY <1>1 DEF JoinsNext, Neighbours, FreeSet
  <1>4. jp => prev \in FreeSet(s) /\ prev \in DOMAIN s /\ prev \in Nat /\ prev + s[prev].len = o /\ prev < o
    BY <1>1 DEF JoinsPrev, Neighbours, FreeSet
  <1>5. /\ at = IF jp THEN prev ELSE o
        /\ \A x : x \in gone <=> (jn /\ x = next) \/ (jp /\ x = o)
        /\ new = s[o].len + (IF jn THEN s[next].len ELSE 0) + (IF jp THEN s[prev].len ELSE 0)
    BY DEF JoinAt, JoinGone, JoinedLen
  <1>6. at \in DOMAIN s /\ at \notin gone /\ at <= o /\ new \in Nat /\ new > 0 /\ at \in Nat
    BY <1>1, <1>2, <1>3, <1>4, <1>5
  <1>7. /\ hi = IF jn THEN next + s[next].len ELSE o + s[o].len
        /\ hi \in Nat /\ o + s[o].len <= hi
    BY <1>1, <1>3, <1>4, <1>5
  <1>8. hi \in DOMAIN s \cup {d} /\ hi <= d /\ at < hi /\ o < hi
    BY <1>1, <1>2, <1>3, <1>6, <1>7 DEF Tiled
  <1>9. hi \notin gone /\ \A x \in DOMAIN s : s[x].len > 0
    <2>1. d > 0
      BY <1>1, <1>8
    <2>2. \A x \in DOMAIN s : s[x].len > 0
      BY <2>1, <1>1, <1>2 DEF Tiled
    <2> QED BY <2>2, <1>1, <1>3, <1>5, <1>7, <1>8
  <1> HIDE DEF s, at, gone, new, jn, jp
  <1>10. ASSUME NEW x \in DOMAIN s \ gone
         PROVE  /\ x < at => x + s[x].len <= at
                /\ at < x => hi <= x
                /\ x # at => x + s[x].len \notin gone
    <2>1. x \in Nat /\ s[x].len \in Nat
      BY <1>1
    <2>2. x < at => x + s[x].len <= at
      BY <1>2, <1>6, <2>1 DEF Tiled
    <2>3. ASSUME at < x PROVE hi <= x
      <3>1. o < x /\ o + s[o].len <= x
        <4>1. CASE jp
          <5>1. o <= x
            BY <4>1, <1>2, <1>4, <1>5, <2>3 DEF Tiled
          <5>2. x # o
            BY <4>1, <1>5
          <5> QED BY <5>1, <5>2, <1>1, <1>2, <2>1 DEF Tiled
        <4>2. CASE ~jp
          BY <4>2, <1>1, <1>2, <1>5, <2>3 DEF Tiled
        <4> QED BY <4>1, <4>2
      <3>2. CASE jn
        <4>1. next <= x /\ next # x
          BY <3>1, <3>2, <1>3, <1>5
        <4>2. next < x
          BY <4>1, <3>2, <1>3, <2>1
        <4> QED BY <4>2, <3>2, <1>2, <1>3, <1>7 DEF Tiled
      <3>3. CASE ~jn
        BY <3>1, <3>3, <1>7
      <3> QED BY <3>2, <3>3
    <2>4. ASSUME x # at PROVE x + s[x].len \notin gone
      <3>1. x # o
        BY <2>4, <1>5
      <3>2. ASSUME jp PROVE x + s[x].len # o
        <4>1. x # prev
          BY <2>4, <3>2, <1>5
        <4>2. x < prev => x + s[x].len <= prev
          BY <3>2, <1>2, <1>4 DEF Tiled
        <4>3. prev < x => o <= x
          BY <3>2, <1>2, <1>4 DEF Tiled
        <4> QED BY <4>1, <4>2, <4>3, <3>1, <3>2, <1>1, <1>4, <2>1
      <3>3. ASSUME jn PROVE x + s[x].len # next
        <4>1. x # next
          BY <3>3, <1>5
        <4>2. x < o => x + s[x].len <= o
          BY <1>1, <1>2 DEF Tiled
        <4>3. o < x => next <= x
          BY <3>3, <1>1, <1>2, <1>3 DEF Tiled
        <4> QED BY <4>1, <4>2, <4>3, <3>1, <3>3, <1>1, <1>3, <2>1
      <3> QED BY <3>2, <3>3, <1>5
    <2> QED BY <2>2, <2>3, <2>4
  <1>11. /\ DOMAIN t = DOMAIN s \ gone
         /\ t[at] = FreeDescr(new)
         /\ \A x \in DOMAIN t : x # at => t[x] = s[x]
    BY <1>6 DEF s, at, gone, new, LinkMap
  <1>12. t \in SegMaps
    <2>1. FreeDescr(new) \in SegDescr
      BY <1>6 DEF FreeDescr, SegDescr
    <2>2. \A x \in DOMAIN t : t[x] \in SegDescr
      BY <1>1, <1>11, <2>1
    <2>3. t \in [DOMAIN t -> SegDescr] /\ DOMAIN t \in SUBSET Nat
      BY <2>2, <1>1, <1>11 DEF LinkMap
    <2> QED BY <2>3, SegMapIntro
  <1>13. /\ t[at].len = new
         /\ \A x \in DOMAIN t : x # at => t[x].len = s[x].len
    BY <1>11 DEF FreeDescr
  <1>14. FreeSet(t) = (FreeSet(s) \ gone) \cup {at} /\ UsedSet(t) = UsedSet(s) \ {o}
    <2>1. o \in UsedSet(s) /\ (jn => next \in FreeSet(s)) /\ (jp => prev \in FreeSet(s))
      BY <1>3, <1>4 DEF s
    <2>2. t[at].st = "free" /\ \A x \in DOMAIN t : x # at => t[x].st = s[x].st
      BY <1>11 DEF FreeDescr
    <2>3. at # o => s[at].st = "free" /\ o \in gone
      BY <2>1, <1>5 DEF FreeSet
    <2>4. \A x \in gone : x # o => s[x].st = "free"
      BY <2>1, <1>5 DEF FreeSet
    <2> QED BY <2>1, <2>2, <2>3, <2>4, <1>6, <1>11 DEF FreeSet, UsedSet
  <1>15. Tiled(t, d)
    <2>1. 0 \in DOMAIN t
      <3>1. 0 \in DOMAIN s
        BY <1>2 DEF Tiled
      <3>2. 0 \notin gone
        BY <1>1, <1>3, <1>4, <1>5
      <3> QED BY <3>1, <3>2, <1>11
    <2>2. ASSUME NEW x \in DOMAIN t
          PROVE  x + t[x].len \in DOMAIN t \cup {d} /\ x + t[x].len <= d
      <3>1. CASE x # at
        BY <3>1, <1>2, <1>10, <1>11, <1>13 DEF Tiled
      <3>2. CASE x = at
        BY <3>2, <1>8, <1>9, <1>11, <1>13
      <3> QED BY <3>1, <3>2
    <2>3. ASSUME NEW x \in DOMAIN t, NEW y \in DOMAIN t, x < y PROVE x + t[x].len <= y
      <3>1. CASE x # at
        BY <3>1, <2>3, <1>2, <1>11, <1>13 DEF Tiled
      <3>2. CASE x = at
        BY <3>2, <2>3, <1>10, <1>11, <1>13
      <3> QED BY <3>1, <3>2
    <2>4. \A x \in UsedSet(t) : t[x].len > 0
      <3>1. \A x \in UsedSet(s) : x \in DOMAIN s /\ s[x].len > 0
        BY <1>2 DEF Tiled, UsedSet
      <3>2. \A x \in UsedSet(t) : x \in DOMAIN t
        BY DEF UsedSet
      <3> QED BY <3>1, <3>2, <1>6, <1>13, <1>14
    <2>5. ASSUME NEW x \in DOMAIN t PROVE t[x].len # 0
      <3>1. ASSUME x # at PROVE t[x].len # 0
        <4>1. t[x].len = s[x].len
          BY <3>1, <1>13
        <4>2. x \in DOMAIN s
          BY <1>11
        <4>3. s[x].len \in Nat /\ s[x].len > 0
          BY ONLY <4>2, <1>1, <1>9
        <4> QED BY ONLY <4>1, <4>3
      <3>2. x = at => t[x].len = new /\ new # 0
        BY <1>6, <1>13
      <3> QED BY <3>1, <3>2
    <2> QED BY <2>1, <2>2, <2>3, <2>4, <2>5 DEF Tiled
  <1>16. Apart(t)
    <2> SUFFICES ASSUME NEW x \in FreeSet(t), NEW y \in FreeSet(t), x < y
                 PROVE  x + t[x].len < y
      BY DEF Apart
    <2>1. x \in DOMAIN t /\ y \in DOMAIN t /\ x \in Nat /\ y \in Nat
      BY <1>1, <1>11 DEF FreeSet
    <2>2. CASE x # at /\ y # at
      BY <2>2, <2>1, <1>2, <1>13, <1>14 DEF Apart
    <2>3. CASE x # at /\ y = at
      <3>1. CASE jp
        <4>1. at = prev /\ prev \in FreeSet(s) /\ x \in FreeSet(s) /\ t[x].len = s[x].len
          BY <3>1, <2>3, <2>1, <1>4, <1>5, <1>13, <1>14
        <4> QED BY <4>1, <2>3, <1>2 DEF Apart
      <3>2. CASE ~jp
        <4>1. at = o /\ x \in FreeSet(s) /\ x < o /\ t[x].len = s[x].len /\ x + s[x].len <= o
          BY <3>2, <2>3, <2>1, <1>1, <1>2, <1>5, <1>11, <1>13, <1>14 DEF Tiled
        <4>2. prev # None /\ x <= prev /\ prev \in FreeSet(s) /\ prev < o
          <5>1. next # None => o < next /\ next \in Nat
            BY <1>1 DEF Neighbours, FreeSet, s
          <5> QED BY <4>1, <5>1, <1>1, <2>1 DEF Neighbours, s
        <4>3. prev \in DOMAIN s /\ prev \in Nat
          BY <4>2, <1>1 DEF FreeSet
        <4>4. x < prev => x + s[x].len < prev
          BY <4>1, <4>2, <1>2 DEF Apart
        <4>5. x = prev => x + s[x].len # o
          BY <3>2, <4>2 DEF JoinsPrev, jp, s
        <4> QED BY <4>1, <4>2, <4>3, <4>4, <4>5, <2>1, <2>3, <1>1, <1>11
      <3> QED BY <3>1, <3>2
    <2>4. CASE x = at
      <3>0. y # at /\ at < y /\ t[x].len = new
        BY <2>1, <2>4, <1>6, <1>13
      <3>1. y \in FreeSet(s) /\ y \notin gone /\ y \in DOMAIN s /\ hi <= y
        BY <2>1, <3>0, <1>10, <1>11, <1>14
      <3>2. CASE jn
        <4>1. next < y
          BY <3>1, <3>2, <2>1, <1>3, <1>5, <1>7, <1>1
        <4> QED BY <4>1, <3>0, <3>1, <3>2, <2>4, <1>2, <1>3, <1>7 DEF Apart
      <3>3. CASE ~jn
        <4>1. o + s[o].len <= y /\ o < y /\ hi = o + s[o].len
          BY <3>1, <3>3, <1>7, <1>8, <1>1, <2>1
        <4>2. next # None /\ next <= y /\ next \in FreeSet(s) /\ o < next
          <5>1. prev # None => prev < o /\ prev \in Nat
            BY <1>1 DEF Neighbours, FreeSet, s
          <5> QED BY <4>1, <5>1, <3>1, <1>1, <2>1 DEF Neighbours, s
        <4>3. next \in DOMAIN s /\ next \in Nat
          BY <4>2, <1>1 DEF FreeSet
        <4>4. o + s[o].len <= next
          BY <4>2, <4>3, <1>1, <1>2 DEF Tiled
        <4>5. o + s[o].len # next
          BY <3>3, <4>2 DEF JoinsNext, jn, s
        <4> QED BY <4>1, <4>2, <4>3, <4>4, <4>5, <3>0, <3>1, <2>1, <2>4, <1>1
      <3> QED BY <3>2, <3>3
    <2> QED BY <2>2, <2>3, <2>4
  <1>17. MarkedGC(t)
    <2>1. t[at].mark = FALSE
      BY <1>11 DEF FreeDescr
    <2> QED BY <2>1, <1>2, <1>11 DEF MarkedGC
  <1>18. \A x \in UsedSet(t) : t[x] = s[x]
    <2>1. at \notin UsedSet(t) /\ \A x \in UsedSet(t) : x \in DOMAIN t
      BY <1>11 DEF FreeDescr, UsedSet
    <2> QED BY <2>1, <1>11
  <1>19. new \in 1 .. d
    BY <1>6, <1>8
  <1> QED BY <1>6, <1>11, <1>12, <1>13, <1>14, <1>15, <1>16, <1>17, <1>18, <1>19
          DEF Segments, LinkedSegs, s, at, gone, new

-----------------------------------------------------------------------------
(* The free list around a segment.                                         *)

\* Positions up to m of the list l are before o, those after m beyond it, and
\* prev and next are the elements on the two sides.
PrevAt(l, m) == IF m = 0 THEN None ELSE l[m]
NextAt(l, m) == IF m = Len(l) THEN None ELSE l[m + 1]

Around(l, m, o) ==
    /\ m \in 0 .. Len(l)
    /\ \A k \in 1 .. m : l[k] < o
    /\ \A k \in (m + 1) .. Len(l) : o < l[k]

\* The free list up to the segment before is its first part,
LEMMA UptoIs ==
    ASSUME NEW F, NEW l, Lists(l, F), NEW m \in 0 .. Len(l)
    PROVE  Upto(l, PrevAt(l, m)) = SubSeq(l, 1, m)
  <1>1. l \in Seq(Nat) /\ Len(l) \in Nat /\ DOMAIN l = 1 .. Len(l)
    BY DEF Lists
  <1>2. CASE m = 0
    <2>1. SubSeq(l, 1, m) = <<>>
      BY <1>2, SubSeqEmpty
    <2> QED BY <2>1, <1>2 DEF Upto, PrevAt
  <1>3. CASE m # 0
    <2>1. m \in DOMAIN l /\ l[m] \in Nat
      BY <1>1, <1>3
    <2>2. \A k \in DOMAIN l : l[k] = l[m] => k = m
      <3> SUFFICES ASSUME NEW k \in DOMAIN l, k # m PROVE l[k] # l[m]
        OBVIOUS
      <3>1. l[k] \in Nat /\ (k < m \/ m < k)
        BY <1>1, <2>1
      <3>2. (k < m => l[k] < l[m]) /\ (m < k => l[m] < l[k])
        BY <1>1, <2>1 DEF Lists
      <3> QED BY <3>1, <3>2, <2>1
    <2>3. (CHOOSE k \in DOMAIN l : l[k] = l[m]) = m
      BY <2>1, <2>2
    <2>4. PrevAt(l, m) = l[m] /\ l[m] # None
      BY <2>1, <1>3 DEF PrevAt, None
    <2> QED BY <2>3, <2>4 DEF Upto
  <1> QED BY <1>2, <1>3

\* and from the segment after on its last.
LEMMA FromIs ==
    ASSUME NEW F, NEW l, Lists(l, F), NEW m \in 0 .. Len(l)
    PROVE  /\ From(l, NextAt(l, m)) = SubSeq(l, m + 1, Len(l))
           /\ m < Len(l) => Tail(From(l, NextAt(l, m))) = SubSeq(l, m + 2, Len(l))
  <1>1. l \in Seq(Nat) /\ Len(l) \in Nat /\ DOMAIN l = 1 .. Len(l)
    BY DEF Lists
  <1>2. CASE m = Len(l)
    <2>1. SubSeq(l, m + 1, Len(l)) = <<>>
      BY <1>1, <1>2, SubSeqEmpty
    <2> QED BY <2>1, <1>1, <1>2 DEF From, NextAt
  <1>3. CASE m # Len(l)
    <2>0. m + 1 \in 1 .. Len(l)
      <3>1. ASSUME NEW n \in Nat, m \in 0 .. n, m # n PROVE m < n
        BY <3>1
      <3>2. m < Len(l)
        BY ONLY <3>1, <1>1, <1>3
      <3> QED BY <3>2, <1>1
    <2>1. m + 1 \in DOMAIN l /\ l[m + 1] \in Nat
      BY <1>1, <2>0
    <2>2. \A k \in DOMAIN l : l[k] = l[m + 1] => k = m + 1
      <3> SUFFICES ASSUME NEW k \in DOMAIN l, k # m + 1 PROVE l[k] # l[m + 1]
        OBVIOUS
      <3>1. l[k] \in Nat /\ (k < m + 1 \/ m + 1 < k)
        BY <1>1, <2>1
      <3>2. (k < m + 1 => l[k] < l[m + 1]) /\ (m + 1 < k => l[m + 1] < l[k])
        BY <1>1, <2>1 DEF Lists
      <3> QED BY <3>1, <3>2, <2>1
    <2>3. (CHOOSE k \in DOMAIN l : l[k] = l[m + 1]) = m + 1
      BY <2>1, <2>2
    <2>4. NextAt(l, m) = l[m + 1] /\ l[m + 1] # None
      BY <2>1, <1>3 DEF NextAt, None
    <2>5. From(l, NextAt(l, m)) = SubSeq(l, m + 1, Len(l))
      BY <2>3, <2>4 DEF From
    <2>6. m + 1 \in 1 .. Len(l) /\ Len(l) \in (m + 1) .. Len(l) /\ m + 1 + 1 = m + 2
      BY <1>1, <2>1
    <2>7. Tail(SubSeq(l, m + 1, Len(l))) = SubSeq(l, m + 2, Len(l))
      BY <1>1, <2>6, HeadTailOfSubSeq
    <2> QED BY <2>5, <2>7
  <1> QED BY <1>2, <1>3

\* The free segments on the two sides of a segment in use are its neighbours.
LEMMA AroundNeighbours ==
    ASSUME NEW s, NEW l, Lists(l, FreeSet(s)), NEW o \in Nat, NEW m, Around(l, m, o)
    PROVE  Neighbours(s, o, PrevAt(l, m), NextAt(l, m))
  <1>1. Len(l) \in Nat /\ m \in 0 .. Len(l) /\ l \in Seq(Nat)
    BY DEF Lists, Around
  <1>2. m # 0 => PrevAt(l, m) \in FreeSet(s) /\ PrevAt(l, m) < o /\ PrevAt(l, m) # None
    <2>1. m # 0 => m \in 1 .. Len(l) /\ m \in 1 .. m /\ l[m] \in Nat
      BY <1>1
    <2> QED BY <2>1 DEF PrevAt, Lists, Around, None
  <1>3. m # Len(l) => NextAt(l, m) \in FreeSet(s) /\ o < NextAt(l, m) /\ NextAt(l, m) # None
    <2>1. m # Len(l) => m + 1 \in 1 .. Len(l) /\ m + 1 \in (m + 1) .. Len(l) /\ l[m + 1] \in Nat
      BY <1>1
    <2> QED BY <2>1 DEF NextAt, Lists, Around, None
  <1>4. ASSUME NEW x \in FreeSet(s)
        PROVE  \/ m # 0 /\ x <= PrevAt(l, m)
               \/ m # Len(l) /\ NextAt(l, m) <= x
    <2>1. PICK k \in 1 .. Len(l) : l[k] = x
      BY DEF Lists
    <2>2. x \in Nat
      BY <2>1, <1>1
    <2>3. CASE k <= m
      <3>1. m # 0 /\ m \in 1 .. Len(l) /\ l[m] \in Nat
        BY <2>3, <1>1
      <3>2. k = m \/ l[k] < l[m]
        BY <2>3, <3>1 DEF Lists
      <3> QED BY <3>1, <3>2, <2>1, <2>2 DEF PrevAt
    <2>4. CASE k > m
      <3>1. m # Len(l) /\ m + 1 \in 1 .. Len(l) /\ l[m + 1] \in Nat /\ (k = m + 1 \/ m + 1 < k)
        BY <2>4, <1>1
      <3>2. k = m + 1 \/ l[m + 1] < l[k]
        BY <3>1 DEF Lists
      <3> QED BY <3>1, <3>2, <2>1, <2>2 DEF NextAt
    <2> QED BY <2>3, <2>4, <1>1
  <1>5. (m = 0 => PrevAt(l, m) = None) /\ (m = Len(l) => NextAt(l, m) = None)
    BY DEF PrevAt, NextAt
  <1> QED BY <1>2, <1>3, <1>4, <1>5 DEF Neighbours

-----------------------------------------------------------------------------
(* Blocks.                                                                 *)

Blk == [id : Nat, len : Nat, seg : SegMaps, free : Seq(Nat),
        maxFree : Nat, nAlloc : Nat, nFree : Nat]

BlkInv(b) ==
    /\ b \in Blk
    /\ Segments(b.seg, DataLen(b))
    /\ Lists(b.free, FreeSet(b.seg))
    /\ b.nFree = Len(b.free)
    /\ b.nAlloc >= Cardinality(UsedSet(b.seg))

\* What a block has besides its header.
LEMMA DataType == ASSUME NEW len \in Nat PROVE Data(len) \in Nat /\ Data(len) < SizeRange
  BY LengthAssumption DEF Data

\* Segments start within the block, so finitely many are in use.
LEMMA UsedFinite ==
    ASSUME NEW s, NEW d \in Nat, Segments(s, d)
    PROVE  /\ DOMAIN s \subseteq 0 .. d
           /\ IsFiniteSet(UsedSet(s)) /\ Cardinality(UsedSet(s)) \in Nat
  <1>1. \A o \in DOMAIN s : o \in Nat /\ s[o].len \in Nat /\ o + s[o].len <= d
    BY SegMapElim DEF Segments, Tiled
  <1>2. DOMAIN s \subseteq 0 .. d
    BY <1>1
  <1>3. UsedSet(s) \in SUBSET Nat /\ \A o \in UsedSet(s) : o <= d
    BY <1>2 DEF UsedSet
  <1>4. IsFiniteSet(UsedSet(s))
    BY <1>3, FS_BoundedSetOfNaturals
  <1> QED BY <1>2, <1>4, FS_CardinalityType

\* A new block is well formed, and nothing in it is in use.
LEMMA NewBlkInv ==
    ASSUME NEW id \in Nat, NEW len \in Nat
    PROVE  BlkInv(NewBlk(id, len)) /\ UsedSet(NewBlk(id, len).seg) = {}
  <1> DEFINE b == NewBlk(id, len)
             d == Data(len)
             s == [o \in {0} |-> FreeDescr(d)]
  <1>1. d \in Nat
    BY DataType
  <1>2. b = [id |-> id, len |-> len, seg |-> s, free |-> <<0>>, maxFree |-> d, nAlloc |-> 0, nFree |-> 1]
    BY DEF NewBlk
  <1>3. /\ b.id = id /\ b.len = len /\ b.seg = s /\ b.free = <<0>> /\ b.maxFree = d
        /\ b.nAlloc = 0 /\ b.nFree = 1
    BY <1>2
  <1>4. s \in SegMaps
    <2>1. FreeDescr(d) \in SegDescr
      BY <1>1 DEF FreeDescr, SegDescr
    <2>2. s \in [{0} -> SegDescr]
      BY <2>1
    <2> QED BY <2>2, SegMapIntro
  <1> HIDE DEF d
  <1>5. DOMAIN s = {0} /\ s[0].len = d /\ s[0].st = "free" /\ s[0].mark = FALSE
    BY DEF FreeDescr
  <1>6. <<0>> \in Seq(Nat)
    OBVIOUS
  <1> HIDE DEF s, b
  <1>7. b \in Blk
    BY <1>1, <1>2, <1>4, <1>6 DEF Blk
  <1>8. UsedSet(s) = {} /\ FreeSet(s) = {0}
    BY <1>5 DEF UsedSet, FreeSet
  <1>9. Segments(s, d)
    <2>1. Tiled(s, d)
      BY <1>1, <1>5, <1>8 DEF Tiled
    <2>2. Apart(s) /\ MarkedGC(s)
      BY <1>5, <1>8 DEF Apart, MarkedGC
    <2> QED BY <1>4, <2>1, <2>2 DEF Segments
  <1>10. DataLen(b) = d
    BY <1>3 DEF DataLen, d
  <1>11. Lists(b.free, FreeSet(b.seg))
    BY <1>3, <1>8, ListOne
  <1>12. b.nAlloc >= Cardinality(UsedSet(b.seg)) /\ b.nFree = Len(b.free)
    BY <1>3, <1>8, FS_EmptySet
  <1>13. BlkInv(b)
    BY <1>3, <1>7, <1>9, <1>10, <1>11, <1>12 DEF BlkInv
  <1> QED BY <1>3, <1>8, <1>13 DEF b

\* The fields of a block that is changed in all but its identity and length.
LEMMA BlkFields ==
    ASSUME NEW b \in Blk
    PROVE  /\ b.id \in Nat /\ b.len \in Nat /\ b.seg \in SegMaps /\ b.free \in Seq(Nat)
           /\ b.maxFree \in Nat /\ b.nAlloc \in Nat /\ b.nFree \in Nat
           /\ DataLen(b) \in Nat
           /\ \A m : [b EXCEPT !.maxFree = m] =
                [id |-> b.id, len |-> b.len, seg |-> b.seg, free |-> b.free,
                 maxFree |-> m, nAlloc |-> b.nAlloc, nFree |-> b.nFree]
  BY DataType DEF Blk, DataLen

\* The bound of a search on the free lengths changes nothing else of a block.
LEMMA NewMaxInv ==
    ASSUME NEW b, BlkInv(b), NEW m \in Nat, NEW c, c = [b EXCEPT !.maxFree = m]
    PROVE  /\ BlkInv(c) /\ c.id = b.id /\ c.len = b.len /\ c.seg = b.seg
           /\ c.free = b.free /\ c.nAlloc = b.nAlloc
  <1>1. b \in Blk
    BY DEF BlkInv
  <1>2. c = [id |-> b.id, len |-> b.len, seg |-> b.seg, free |-> b.free,
             maxFree |-> m, nAlloc |-> b.nAlloc, nFree |-> b.nFree]
    BY <1>1, BlkFields
  <1>3. c \in Blk
    BY <1>1, <1>2, BlkFields DEF Blk
  <1>4. /\ c.id = b.id /\ c.len = b.len /\ c.seg = b.seg
        /\ c.free = b.free /\ c.nAlloc = b.nAlloc /\ c.nFree = b.nFree
    BY <1>2
  <1> QED BY <1>3, <1>4 DEF BlkInv, DataLen

\* The bound that is put right is a length of a free segment.
LEMMA CorrectedInv ==
    ASSUME NEW b, BlkInv(b), b.free # <<>>
    PROVE  /\ BlkInv(Corrected(b)) /\ Corrected(b).id = b.id /\ Corrected(b).len = b.len
           /\ Corrected(b).seg = b.seg
  <1>1. b \in Blk /\ Segments(b.seg, DataLen(b)) /\ Lists(b.free, FreeSet(b.seg)) /\ DataLen(b) \in Nat
    BY BlkFields DEF BlkInv
  <1>2. b.free \in Seq(Nat) /\ DOMAIN b.free = 1 .. Len(b.free) /\ Len(b.free) \in Nat
    BY <1>1, ListedSet DEF Lists
  <1>3. \A k \in DOMAIN b.free : b.seg[b.free[k]].len \in 0 .. DataLen(b)
    <2> SUFFICES ASSUME NEW k \in DOMAIN b.free PROVE b.seg[b.free[k]].len \in 0 .. DataLen(b)
      OBVIOUS
    <2>1. b.free[k] \in DOMAIN b.seg
      BY <1>1, <1>2 DEF Lists, FreeSet
    <2>2. /\ b.free[k] \in Nat /\ b.seg[b.free[k]].len \in Nat
          /\ b.free[k] + b.seg[b.free[k]].len <= DataLen(b)
      BY <1>1, <2>1, SegMapElim DEF Segments, Tiled
    <2> QED BY <2>2, <1>1
  <1>4. FreeLens(b) \subseteq 0 .. DataLen(b)
    BY <1>3 DEF FreeLens
  <1>5. FreeLens(b) # {}
    <2>1. 1 \in DOMAIN b.free
      BY <1>2
    <2> QED BY <2>1 DEF FreeLens
  <1>6. Max(FreeLens(b)) \in Nat
    BY <1>1, <1>4, <1>5, GreatestExists
  <1> QED BY <1>6, NewMaxInv DEF Corrected

\* c is block b after its segment at o was taken for r bytes.
Took(b, c, o, r) ==
    /\ BlkInv(c) /\ c.id = b.id /\ c.len = b.len
    /\ UsedSet(c.seg) = UsedSet(b.seg) \cup {o}
    /\ o \notin UsedSet(b.seg)
    /\ \A x \in UsedSet(b.seg) : c.seg[x] = b.seg[x]
    /\ c.seg[o] = AllocDescr(r)

\* A segment leaves the free list: it was taken whole.
LEMMA ListRemove ==
    ASSUME NEW F, NEW l, Lists(l, F), NEW k \in 1 .. Len(l)
    PROVE  Lists(RemoveAt(l, k), F \ {l[k]}) /\ Len(RemoveAt(l, k)) = Len(l) - 1
  <1>1. Len(l) \in Nat /\ k - 1 \in 0 .. Len(l) /\ k + 1 \in 1 .. (Len(l) + 1) /\ k \in Nat
    BY DEF Lists
  <1>2. \E m \in 0 .. Len(l) : m = k - 1
    BY <1>1
  <1>3. PICK m \in 0 .. Len(l) : m = k - 1
    BY <1>2
  <1>4. m < k /\ k <= Len(l) /\ m < Len(l) /\ m + 1 = k /\ m + 2 = k + 1
    BY <1>1, <1>3
  <1>5. Part(l, 1, k - 1) \cup Part(l, k + 1, Len(l)) = F \ {l[k]}
    BY <1>3, <1>4, PartsOf
  <1>6. /\ Lists(SubSeq(l, 1, k - 1), Part(l, 1, k - 1))
        /\ Len(SubSeq(l, 1, k - 1)) = k - 1
    <2>1. 1 \in 1 .. (Len(l) + 1)
      BY <1>1
    <2>2. /\ Lists(SubSeq(l, 1, k - 1), Part(l, 1, k - 1))
          /\ Len(SubSeq(l, 1, k - 1)) = IF 1 <= k - 1 THEN k - 1 - 1 + 1 ELSE 0
      BY <1>1, <2>1, ListPart
    <2> QED BY <2>2, <1>1
  <1>7. /\ Lists(SubSeq(l, k + 1, Len(l)), Part(l, k + 1, Len(l)))
        /\ Len(SubSeq(l, k + 1, Len(l))) = Len(l) - k
    <2>1. Len(l) \in 0 .. Len(l)
      BY <1>1
    <2>2. /\ Lists(SubSeq(l, k + 1, Len(l)), Part(l, k + 1, Len(l)))
          /\ Len(SubSeq(l, k + 1, Len(l))) = IF k + 1 <= Len(l) THEN Len(l) - (k + 1) + 1 ELSE 0
      BY <1>1, <2>1, ListPart
    <2>3. (k + 1 <= Len(l) /\ Len(l) - (k + 1) + 1 = Len(l) - k) \/ (~(k + 1 <= Len(l)) /\ Len(l) - k = 0)
      BY <1>1
    <2> QED BY ONLY <2>2, <2>3
  <1>8. Below(Part(l, 1, k - 1), Part(l, k + 1, Len(l)))
    <2>1. ASSUME NEW i \in 1 .. k - 1, NEW j \in (k + 1) .. Len(l) PROVE l[i] < l[j]
      <3>1. i \in 1 .. Len(l) /\ j \in 1 .. Len(l) /\ i < j
        BY <1>1
      <3> QED BY <3>1 DEF Lists
    <2> QED BY <2>1 DEF Part, Below
  <1>9. /\ Lists(RemoveAt(l, k), Part(l, 1, k - 1) \cup Part(l, k + 1, Len(l)))
        /\ Joined(RemoveAt(l, k), SubSeq(l, 1, k - 1), SubSeq(l, k + 1, Len(l)))
    BY ONLY <1>6, <1>7, <1>8, ListJoin DEF RemoveAt
  <1>10. Len(RemoveAt(l, k)) = Len(l) - 1
    <2>1. Len(RemoveAt(l, k)) = (k - 1) + (Len(l) - k)
      BY ONLY <1>6, <1>7, <1>9 DEF Joined
    <2> QED BY <2>1, <1>1
  <1> QED BY <1>5, <1>9, <1>10

\* A segment of the free list is replaced by the rest of it.
LEMMA ListReplace ==
    ASSUME NEW F, NEW l, Lists(l, F), NEW k \in 1 .. Len(l), NEW x \in Nat, x \notin F,
           l[k] < x, \A y \in F : l[k] < y => x < y
    PROVE  /\ Lists([l EXCEPT ![k] = x], (F \ {l[k]}) \cup {x})
           /\ Len([l EXCEPT ![k] = x]) = Len(l)
  <1> DEFINE n == [l EXCEPT ![k] = x]
  <1>1. l \in Seq(Nat) /\ Len(l) \in Nat
    BY DEF Lists
  <1>2. n \in Seq(Nat) /\ Len(n) = Len(l) /\ \A j \in 1 .. Len(l) : n[j] = IF j = k THEN x ELSE l[j]
    BY <1>1, ExceptSeq
  <1> HIDE DEF n
  <1>3. ASSUME NEW j \in 1 .. Len(l), j # k PROVE l[j] \in F \ {l[k]} /\ l[j] \in Nat
    <2>1. l[j] \in F /\ l[j] \in Nat /\ l[k] \in Nat /\ (j < k \/ k < j)
      BY <1>1, <1>3 DEF Lists
    <2>2. (j < k => l[j] < l[k]) /\ (k < j => l[k] < l[j])
      BY DEF Lists
    <2> QED BY <2>1, <2>2
  <1>4. \A j \in 1 .. Len(n) : n[j] \in (F \ {l[k]}) \cup {x}
    BY <1>2, <1>3
  <1>5. ASSUME NEW y \in (F \ {l[k]}) \cup {x} PROVE \E j \in 1 .. Len(n) : n[j] = y
    <2>1. CASE y = x
      BY <2>1, <1>2
    <2>2. CASE y \in F \ {l[k]}
      <3>1. PICK j \in 1 .. Len(l) : l[j] = y
        BY <2>2 DEF Lists
      <3>2. j # k
        BY <2>2, <3>1
      <3> QED BY <3>1, <3>2, <1>2
    <2> QED BY <2>1, <2>2
  <1>6. ASSUME NEW i \in 1 .. Len(l), NEW j \in 1 .. Len(l), i < j PROVE n[i] < n[j]
    <2>0. \A m \in 1 .. Len(l) : l[m] \in F /\ l[m] \in Nat
      BY <1>1 DEF Lists
    <2>0a. l[i] < l[j]
      BY <1>6 DEF Lists
    <2>1. l[i] < l[j] /\ l[i] \in Nat /\ l[j] \in Nat /\ l[k] \in Nat /\ l[j] \in F
      BY <2>0, <2>0a
    <2>2. i # j
      BY <1>6
    <2>3. CASE j = k
      BY <2>1, <2>2, <2>3, <1>2
    <2>4. CASE i = k
      BY <2>1, <2>2, <2>4, <1>2
    <2>5. CASE i # k /\ j # k
      BY <2>1, <2>5, <1>2
    <2> QED BY <2>3, <2>4, <2>5
  <1> QED BY <1>2, <1>4, <1>5, <1>6 DEF Lists, n

\* fstFit keeps a block well formed and takes what it was asked for.
LEMMA FstFitInv ==
    ASSUME NEW b, BlkInv(b), NEW req \in Nat \ {0}, Fits(b, req) # {}
    PROVE  /\ Took(b, FstFit(b, req), FitOffset(b, req), req)
           /\ FitOffset(b, req) \in Nat
  <1> DEFINE k == Min(Fits(b, req))
             o == b.free[k]
             left == b.seg[o].len - req
             c == FstFit(b, req)
  <1>1. /\ b \in Blk /\ Segments(b.seg, DataLen(b)) /\ Lists(b.free, FreeSet(b.seg))
        /\ DataLen(b) \in Nat /\ b.nFree = Len(b.free)
        /\ b.nAlloc >= Cardinality(UsedSet(b.seg))
    BY BlkFields DEF BlkInv
  <1>2. /\ b.free \in Seq(Nat) /\ DOMAIN b.free = 1 .. Len(b.free) /\ Len(b.free) \in Nat
        /\ b.id \in Nat /\ b.len \in Nat /\ b.maxFree \in Nat /\ b.nAlloc \in Nat /\ b.nFree \in Nat
    BY <1>1, ListedSet, BlkFields DEF Lists
  <1>3. k \in DOMAIN b.free /\ b.seg[o].len >= req
    <2>1. Fits(b, req) \subseteq Nat
      BY <1>2 DEF Fits
    <2>2. k \in Fits(b, req)
      BY <2>1, LeastExists
    <2> QED BY <2>2 DEF Fits
  <1>4. o = FitOffset(b, req)
    BY DEF FitOffset
  <1> HIDE DEF k
  <1>5. o \in FreeSet(b.seg) /\ o \in DOMAIN b.seg /\ o \in Nat /\ b.seg[o].len \in Nat
    <2>0. k \in 1 .. Len(b.free)
      BY <1>2, <1>3
    <2>1. o \in FreeSet(b.seg) /\ o \in Nat
      BY <2>0, <1>1, ListItem
    <2> QED BY <2>1, <1>1, SegMapElim DEF FreeSet, Segments
  <1>6. o \notin UsedSet(b.seg)
    BY <1>5 DEF FreeSet, UsedSet
  <1>7. left \in Nat /\ b.seg[o].len > 0 /\ b.seg[o].len = left + req
    BY <1>3, <1>5
  <1>8. /\ IsFiniteSet(UsedSet(b.seg)) /\ Cardinality(UsedSet(b.seg)) \in Nat
        /\ Cardinality(UsedSet(b.seg) \cup {o}) = Cardinality(UsedSet(b.seg)) + 1
    BY <1>1, <1>6, UsedFinite, FS_AddElement
  <1>8a. c = IF left = 0
             THEN [b EXCEPT !.seg[o] = AllocDescr(req), !.free = RemoveAt(@, k), !.nFree = @ - 1,
                            !.maxFree = IF b.nFree = 1 THEN 0 ELSE @, !.nAlloc = @ + 1]
             ELSE [b EXCEPT !.seg = [x \in DOMAIN @ \cup {o + req} |->
                                      CASE x = o       -> AllocDescr(req)
                                        [] x = o + req -> FreeDescr(left)
                                        [] OTHER       -> @[x]],
                            !.free[k] = o + req, !.maxFree = IF b.nFree = 1 THEN left ELSE @,
                            !.nAlloc = @ + 1]
    BY DEF FstFit, k
  <1>8b. o = b.free[k] /\ left = b.seg[o].len - req /\ k \in 1 .. Len(b.free)
    BY <1>2, <1>3
  <1> HIDE DEF c, o, left
  <1>9. CASE left = 0
    <2> DEFINE s == [b.seg EXCEPT ![o] = AllocDescr(b.seg[o].len)]
               l == RemoveAt(b.free, k)
               m == IF b.nFree = 1 THEN 0 ELSE b.maxFree
    <2>1. c = [b EXCEPT !.seg[o] = AllocDescr(req), !.free = RemoveAt(@, k), !.nFree = @ - 1,
                        !.maxFree = IF b.nFree = 1 THEN 0 ELSE @, !.nAlloc = @ + 1]
      BY <1>8a, <1>9
    <2>2. c = [id |-> b.id, len |-> b.len, seg |-> [b.seg EXCEPT ![o] = AllocDescr(req)], free |-> l,
               maxFree |-> m, nAlloc |-> b.nAlloc + 1, nFree |-> b.nFree - 1]
      BY <1>1, <2>1 DEF Blk
    <2>3. /\ c.id = b.id /\ c.len = b.len /\ c.seg = s /\ c.free = l /\ c.maxFree = m
          /\ c.nAlloc = b.nAlloc + 1 /\ c.nFree = b.nFree - 1
      BY <2>2, <1>7, <1>9
    <2>4. /\ Segments(s, DataLen(b))
          /\ FreeSet(s) = FreeSet(b.seg) \ {o} /\ UsedSet(s) = UsedSet(b.seg) \cup {o}
          /\ \A x \in UsedSet(b.seg) : s[x] = b.seg[x]
          /\ s[o] = AllocDescr(b.seg[o].len)
      <3>1. s = [b.seg EXCEPT ![o] = AllocDescr(b.seg[o].len)]
        OBVIOUS
      <3> HIDE DEF s
      <3> QED BY ONLY <3>1, <1>1, <1>5, <1>7, TakeWhole
    <2>5. Lists(l, FreeSet(b.seg) \ {o}) /\ Len(l) = Len(b.free) - 1
      BY <1>1, <1>8b, ListRemove
    <2>6. b.nFree - 1 \in Nat
      BY <1>1, <1>2, <1>3
    <2>7. c \in Blk
      <3>1. s \in SegMaps /\ l \in Seq(Nat) /\ m \in Nat
        BY <2>4, <2>5, <1>2 DEF Segments, Lists
      <3> HIDE DEF s, l, m
      <3>2. b.nAlloc + 1 \in Nat
        BY <1>2
      <3> QED BY ONLY <3>1, <3>2, <2>2, <2>3, <2>6, <1>2 DEF Blk
    <2> HIDE DEF s, l, m
    <2>8. BlkInv(c)
      <3>1. DataLen(c) = DataLen(b)
        BY <2>3 DEF DataLen
      <3>2. c.nAlloc >= Cardinality(UsedSet(c.seg)) /\ c.nFree = Len(c.free)
        BY <2>3, <2>4, <2>5, <1>1, <1>2, <1>8
      <3> QED BY <2>3, <2>4, <2>5, <2>7, <3>1, <3>2 DEF BlkInv
    <2>9. b.seg[o].len = req
      BY <1>7, <1>9
    <2>10. /\ UsedSet(c.seg) = UsedSet(b.seg) \cup {o}
           /\ \A x \in UsedSet(b.seg) : c.seg[x] = b.seg[x]
           /\ c.seg[o] = AllocDescr(req)
      BY ONLY <2>3, <2>4, <2>9
    <2> QED BY ONLY <2>3, <2>8, <2>10, <1>4, <1>5, <1>6 DEF Took, c
  <1>10. CASE left # 0
    <2> DEFINE s == [x \in DOMAIN b.seg \cup {o + req} |->
                       CASE x = o       -> AllocDescr(req)
                         [] x = o + req -> FreeDescr(left)
                         [] OTHER       -> b.seg[x]]
               l == [b.free EXCEPT ![k] = o + req]
               m == IF b.nFree = 1 THEN left ELSE b.maxFree
    <2>1. c = [b EXCEPT !.seg = [x \in DOMAIN @ \cup {o + req} |->
                                  CASE x = o       -> AllocDescr(req)
                                    [] x = o + req -> FreeDescr(left)
                                    [] OTHER       -> @[x]],
                        !.free[k] = o + req, !.maxFree = IF b.nFree = 1 THEN left ELSE @,
                        !.nAlloc = @ + 1]
      BY <1>8a, <1>10
    <2>2. c = [id |-> b.id, len |-> b.len, seg |-> s, free |-> l,
               maxFree |-> m, nAlloc |-> b.nAlloc + 1, nFree |-> b.nFree]
      BY <1>1, <2>1 DEF Blk
    <2>3. /\ c.id = b.id /\ c.len = b.len /\ c.seg = s /\ c.free = l /\ c.maxFree = m
          /\ c.nAlloc = b.nAlloc + 1 /\ c.nFree = b.nFree
      BY <2>2
    <2>4. left \in Nat \ {0} /\ left = b.seg[o].len - req
      BY <1>7, <1>10
    <2>5. /\ Segments(s, DataLen(b))
          /\ FreeSet(s) = (FreeSet(b.seg) \ {o}) \cup {o + req} /\ UsedSet(s) = UsedSet(b.seg) \cup {o}
          /\ \A x \in UsedSet(b.seg) : s[x] = b.seg[x]
          /\ s[o] = AllocDescr(req) /\ o + req \notin DOMAIN b.seg
      <3>1. s = SplitMap(b.seg, o, req, left)
        BY DEF SplitMap
      <3> HIDE DEF s
      <3>2. req \in Nat \ {0} /\ left \in Nat \ {0} /\ left = b.seg[o].len - req
        BY <2>4
      <3>3. o \in FreeSet(b.seg) /\ DataLen(b) \in Nat /\ Segments(b.seg, DataLen(b))
        BY <1>1, <1>5
      <3>4. Split(b.seg, s, DataLen(b), o, req)
        BY ONLY <3>1, <3>2, <3>3, TakeSplit
      <3> QED BY ONLY <3>4 DEF Split
    <2>6. Lists(l, (FreeSet(b.seg) \ {o}) \cup {o + req}) /\ Len(l) = Len(b.free)
      <3>1. o + req \notin FreeSet(b.seg) /\ o + req \in Nat /\ o < o + req
        BY <2>5, <1>5 DEF FreeSet
      <3>2. \A y \in FreeSet(b.seg) : o < y => o + req < y
        <4>1. \A y \in FreeSet(b.seg) : y \in Nat /\ (o < y => o + b.seg[o].len < y)
          BY <1>1, <1>5, SegMapElim DEF Segments, Apart, FreeSet
        <4>2. o + req <= o + b.seg[o].len
          BY <1>3, <1>5
        <4> QED BY <4>1, <4>2, <1>5
      <3> QED BY <3>1, <3>2, <1>1, <1>8b, ListReplace
    <2>7. c \in Blk
      <3>1. s \in SegMaps /\ l \in Seq(Nat) /\ m \in Nat
        BY <2>4, <2>5, <2>6, <1>2 DEF Segments, Lists
      <3> HIDE DEF s, l, m
      <3> QED BY <3>1, <2>2, <2>3, <1>2 DEF Blk
    <2> HIDE DEF s, l, m
    <2>8. BlkInv(c)
      <3>1. DataLen(c) = DataLen(b)
        BY <2>3 DEF DataLen
      <3>2. c.nAlloc >= Cardinality(UsedSet(c.seg)) /\ c.nFree = Len(c.free)
        BY <2>3, <2>5, <2>6, <1>1, <1>2, <1>8
      <3> QED BY <2>3, <2>5, <2>6, <2>7, <3>1, <3>2 DEF BlkInv
    <2>9. /\ UsedSet(c.seg) = UsedSet(b.seg) \cup {o}
          /\ \A x \in UsedSet(b.seg) : c.seg[x] = b.seg[x]
          /\ c.seg[o] = AllocDescr(req)
      BY ONLY <2>3, <2>5
    <2> QED BY ONLY <2>3, <2>8, <2>9, <1>4, <1>5, <1>6 DEF Took, c
  <1> QED BY <1>4, <1>5, <1>9, <1>10 DEF c

\* c is block b after its segment at o was linked in behind position m of the
\* free list: the new free segment is at position n of the list that results.
LinkedBlk(b, c, m, o) ==
    LET prev == PrevAt(b.free, m)
        next == NextAt(b.free, m)
        n    == IF JoinsPrev(b, o, prev) THEN m ELSE m + 1
    IN  /\ c \in Blk /\ Segments(c.seg, DataLen(c)) /\ Lists(c.free, FreeSet(c.seg))
        /\ c.nFree = Len(c.free)
        /\ c.id = b.id /\ c.len = b.len /\ c.maxFree = b.maxFree /\ c.nAlloc = b.nAlloc
        /\ UsedSet(c.seg) = UsedSet(b.seg) \ {o}
        /\ \A x \in UsedSet(c.seg) : c.seg[x] = b.seg[x]
        /\ JoinedLen(b, o, prev, next) \in 1 .. DataLen(b)
        /\ JoinAt(b, o, prev) \in DOMAIN c.seg
        /\ c.seg[JoinAt(b, o, prev)].len = JoinedLen(b, o, prev, next)
        /\ n \in 1 .. Len(c.free) /\ c.free[n] = JoinAt(b, o, prev)
        /\ NextAt(c.free, n) = NextAt(b.free, IF JoinsNext(b, o, next) THEN m + 1 ELSE m)

\* Linking a segment into the free list, joined with its neighbours or not, keeps
\* the block covered and its list complete: what free and sweep have in common.
LEMMA LinkedInv ==
    ASSUME NEW b, BlkInv(b), NEW o \in UsedSet(b.seg), NEW m, Around(b.free, m, o)
    PROVE  LinkedBlk(b, Linked(b, o, PrevAt(b.free, m), NextAt(b.free, m)), m, o)
  <1> DEFINE l == b.free
             prev == PrevAt(l, m)
             next == NextAt(l, m)
             F == FreeSet(b.seg)
             jn == JoinsNext(b, o, next)
             jp == JoinsPrev(b, o, prev)
             at == JoinAt(b, o, prev)
             gone == JoinGone(b, o, prev, next)
             new == JoinedLen(b, o, prev, next)
             t == LinkMap(b, o, prev, next)
             c == Linked(b, o, prev, next)
             mid == IF jp THEN <<>> ELSE <<o>>
             M == IF jp THEN {} ELSE {o}
             e == IF jn THEN m + 2 ELSE m + 1
             r == SubSeq(l, 1, m) \o mid \o SubSeq(l, e, Len(l))
  <1>1. /\ b \in Blk /\ Segments(b.seg, DataLen(b)) /\ Lists(l, F)
        /\ DataLen(b) \in Nat /\ b.nFree = Len(l)
    BY BlkFields DEF BlkInv
  <1>2. /\ l \in Seq(Nat) /\ DOMAIN l = 1 .. Len(l) /\ Len(l) \in Nat
        /\ b.id \in Nat /\ b.len \in Nat /\ b.maxFree \in Nat /\ b.nAlloc \in Nat
    BY <1>1, ListedSet, BlkFields DEF Lists
  <1>3. o \in DOMAIN b.seg /\ o \in Nat /\ o \notin F
    BY <1>1, SegMapElim DEF UsedSet, FreeSet, Segments
  <1>4. m \in 0 .. Len(l) /\ m \in Nat
    BY <1>2 DEF Around
  <1>5. Neighbours(b.seg, o, prev, next)
    BY <1>1, <1>3, AroundNeighbours
  <1>6. LinkedSegs(b, t, DataLen(b), o, prev, next)
    <2> HIDE DEF t, prev, next
    <2> QED BY <1>1, <1>5, LinkSegment DEF t
  <1>7. jn => m < Len(l) /\ next = l[m + 1]
    BY <1>2, <1>4 DEF JoinsNext, NextAt
  <1>8. jp => m > 0 /\ prev = l[m] /\ prev \in F
    <2>1. jp => m # 0
      BY DEF JoinsPrev, PrevAt
    <2>2. jp => m \in 1 .. Len(l)
      BY <2>1, <1>4
    <2>3. jp => l[m] \in F
      BY <2>2, <1>1, ListItem
    <2> QED BY <2>2, <2>3 DEF PrevAt
  <1> HIDE DEF prev, next, jn, jp, t
  <1>9. /\ c = [b EXCEPT !.seg = [x \in DOMAIN @ \ gone |->
                             IF x = at THEN FreeDescr(new) ELSE @[x]],
                  !.free = Upto(@, prev) \o (IF jp THEN <<>> ELSE <<o>>)
                             \o (IF jn THEN Tail(From(@, next)) ELSE From(@, next)),
                  !.nFree = @ + (IF jn THEN 0 ELSE 1) - (IF jp THEN 1 ELSE 0)]
    BY DEF Linked, JoinGone, JoinAt, jn, jp
  <1>10. Upto(l, prev) = SubSeq(l, 1, m)
    BY <1>1, <1>4, UptoIs DEF prev
  <1>11. (IF jn THEN Tail(From(l, next)) ELSE From(l, next)) = SubSeq(l, e, Len(l))
    BY <1>1, <1>4, <1>7, FromIs DEF next
  <1> HIDE DEF c, l
  <1>12. c = [id |-> b.id, len |-> b.len, seg |-> t, free |-> r, maxFree |-> b.maxFree,
              nAlloc |-> b.nAlloc, nFree |-> b.nFree + (IF jn THEN 0 ELSE 1) - (IF jp THEN 1 ELSE 0)]
    BY <1>1, <1>9, <1>10, <1>11 DEF Blk, LinkMap, l, t
  <1>13. /\ c.id = b.id /\ c.len = b.len /\ c.seg = t /\ c.free = r /\ c.maxFree = b.maxFree
         /\ c.nAlloc = b.nAlloc
         /\ c.nFree = Len(l) + (IF jn THEN 0 ELSE 1) - (IF jp THEN 1 ELSE 0)
    BY <1>1, <1>12
  <1>14. Lists(mid, M) /\ Len(mid) = IF jp THEN 0 ELSE 1
    BY <1>3, ListOne
  <1>15. e \in 1 .. (Len(l) + 1) /\ m < e /\ e \in Nat
    BY <1>2, <1>4, <1>7
  <1>16. \A x \in M : (\A k \in 1 .. m : l[k] < x) /\ (\A k \in e .. Len(l) : x < l[k])
    <2>1. \A k \in e .. Len(l) : k \in (m + 1) .. Len(l)
      BY <1>2, <1>4
    <2>2. (\A k \in 1 .. m : l[k] < o) /\ (\A k \in (m + 1) .. Len(l) : o < l[k])
      BY DEF Around, l
    <2> QED BY <2>1, <2>2
  <1> HIDE DEF mid, M, e
  <1>17. Lists(r, Part(l, 1, m) \cup M \cup Part(l, e, Len(l))) /\ Spliced(r, l, m, mid, e)
    BY <1>1, <1>4, <1>14, <1>15, <1>16, ListSplice
  <1>18. Part(l, 1, m) \cup M \cup Part(l, e, Len(l)) = FreeSet(t)
    <2>1. Part(l, 1, m) \cup Part(l, e, Len(l)) = IF jn THEN F \ {next} ELSE F
      BY <1>1, <1>4, <1>7, PartsOf DEF e
    <2>2. at = IF jp THEN prev ELSE o
      BY DEF JoinAt, jp
    <2>3. gone = (IF jn THEN {next} ELSE {}) \cup (IF jp THEN {o} ELSE {})
      BY DEF JoinGone, jn, jp
    <2>4. FreeSet(t) = (F \ gone) \cup {at} /\ at \notin gone
      <3>1. at \notin gone
        BY <1>6 DEF LinkedSegs, LinkMap, t
      <3> QED BY <3>1, <1>6 DEF LinkedSegs
    <2> QED BY <2>1, <2>2, <2>3, <2>4, <1>3, <1>8 DEF M
  <1> DEFINE n == IF jp THEN m ELSE m + 1
  <1>18a. n = IF jp THEN m ELSE m + 1
    OBVIOUS
  <1> HIDE DEF r, n
  <1>19. /\ Len(r) \in Nat /\ n \in Nat /\ n >= 1 /\ Len(r) = n + (Len(l) - e + 1)
         /\ n = m + Len(mid) /\ e - 1 \in 0 .. Len(l)
    <2>1. Len(r) = m + Len(mid) + (Len(l) - e + 1)
      BY <1>17 DEF Spliced
    <2>2. (jp => m > 0) /\ n = IF jp THEN m ELSE m + 1
      BY <1>8, <1>18a
    <2> QED BY ONLY <2>1, <2>2, <1>14, <1>15, <1>2, <1>4
  <1>20. c.nFree = Len(r)
    <2>1. e = (IF jn THEN m + 2 ELSE m + 1) /\ n = IF jp THEN m ELSE m + 1
      BY <1>18a DEF e
    <2>2. c.nFree = Len(l) + (m + 1 - e) + 1 + (n - m - 1)
      <3>1. (IF jn THEN 0 ELSE 1) = m + 2 - e /\ (IF jp THEN 1 ELSE 0) = m + 1 - n
        BY ONLY <2>1, <1>4
      <3>2. c.nFree = Len(l) + (IF jn THEN 0 ELSE 1) - (IF jp THEN 1 ELSE 0)
        BY <1>13
      <3>3. m \in Nat /\ n \in Nat /\ e \in Nat /\ Len(l) \in Nat
        BY <1>2, <1>4, <1>15, <1>19
      <3> QED BY ONLY <3>1, <3>2, <3>3
    <2>3. Len(r) = n + (Len(l) - e + 1)
      BY <1>19
    <2>4. m \in Nat /\ n \in Nat /\ e \in Nat /\ Len(l) \in Nat
      BY <1>2, <1>4, <1>15, <1>19
    <2> QED BY ONLY <2>2, <2>3, <2>4
  <1>21. n \in 1 .. Len(r)
    BY ONLY <1>2, <1>15, <1>19
  <1>22. r[n] = at
    <2> USE <1>18a
    <2>1. CASE jp
      <3>1. m \in 1 .. m
        BY <2>1, <1>4, <1>8
      <3> QED BY <3>1, <2>1, <1>8, <1>17 DEF Spliced, JoinAt, jp
    <2>2. CASE ~jp
      <3>1. mid = <<o>> /\ 1 \in 1 .. Len(mid) /\ mid[1] = o
        BY <2>2 DEF mid
      <3>2. r[m + 1] = mid[1]
        BY <3>1, <1>17 DEF Spliced
      <3> QED BY <3>1, <3>2, <2>2 DEF JoinAt, jp
    <2> QED BY <2>1, <2>2
  <1>23. NextAt(r, n) = NextAt(l, e - 1)
    <2>1. CASE e - 1 = Len(l)
      <3>1. n = Len(r)
        BY <2>1, <1>2, <1>15, <1>19
      <3> QED BY <3>1, <2>1 DEF NextAt
    <2>2. CASE e - 1 # Len(l)
      <3>1. n # Len(r) /\ 1 \in 1 .. Len(l) - e + 1 /\ e + 1 - 1 = e /\ e - 1 + 1 = e
        <4>1. e \in Nat /\ Len(l) \in Nat /\ e <= Len(l) + 1 /\ n \in Nat
          BY <1>2, <1>15, <1>19
        <4>2. e - 1 < Len(l)
          BY ONLY <2>2, <4>1
        <4>3. Len(r) = n + (Len(l) - e + 1)
          BY <1>19
        <4> QED BY ONLY <4>1, <4>2, <4>3
      <3>2. r[m + Len(mid) + 1] = l[e + 1 - 1]
        BY <3>1, <1>17 DEF Spliced
      <3>3. r[n + 1] = l[e]
        BY <3>1, <3>2, <1>19
      <3> QED BY <3>1, <3>3, <2>2 DEF NextAt
    <2> QED BY <2>1, <2>2
  <1>24. e - 1 = IF jn THEN m + 1 ELSE m
    BY <1>4 DEF e
  <1>25. DataLen(c) = DataLen(b)
    BY <1>13 DEF DataLen
  <1>26. /\ Segments(c.seg, DataLen(c)) /\ Lists(c.free, FreeSet(c.seg)) /\ c.nFree = Len(c.free)
    BY <1>6, <1>13, <1>17, <1>18, <1>20, <1>25 DEF LinkedSegs
  <1>27. c \in Blk
    <2>1. t \in SegMaps /\ r \in Seq(Nat) /\ c.nFree \in Nat
      BY <1>6, <1>17, <1>19, <1>20 DEF LinkedSegs, Segments, Lists
    <2> QED BY ONLY <2>1, <1>2, <1>12, <1>13 DEF Blk
  <1>28. /\ UsedSet(c.seg) = UsedSet(b.seg) \ {o}
         /\ \A x \in UsedSet(c.seg) : c.seg[x] = b.seg[x]
         /\ new \in 1 .. DataLen(b)
         /\ at \in DOMAIN c.seg
         /\ c.seg[at].len = new
    BY ONLY <1>6, <1>13 DEF LinkedSegs
  <1> QED BY ONLY <1>13, <1>21, <1>22, <1>23, <1>24, <1>26, <1>27, <1>28
          DEF LinkedBlk, l, n, prev, next, jn, jp, c

-----------------------------------------------------------------------------
(* Totals: the sum of the values of a function on a finite set.            *)

Chosen(s) == CHOOSE x \in s : TRUE

\* g has the sums of f over the finite sets it is for.
Sums(f, g) ==
    \A s \in SUBSET DOMAIN f : g[s] = IF s = {} THEN 0 ELSE f[Chosen(s)] + g[s \ {Chosen(s)}]

\* The equations for the sets of at most n elements.
SumsTo(f, g, n) ==
    \A s \in SUBSET DOMAIN f : Cardinality(s) <= n =>
        g[s] = IF s = {} THEN 0 ELSE f[Chosen(s)] + g[s \ {Chosen(s)}]

\* Without the chosen element a set has one less.
LEMMA SmallerSet ==
    ASSUME NEW s, IsFiniteSet(s), s # {}
    PROVE  /\ Chosen(s) \in s
           /\ Cardinality(s) \in Nat \ {0} /\ Cardinality(s \ {Chosen(s)}) = Cardinality(s) - 1
  <1>1. Chosen(s) \in s
    BY DEF Chosen
  <1> QED BY <1>1, FS_CardinalityType, FS_EmptySet, FS_RemoveElement

\* A function with the equations for a bounded number of elements: the least
\* bound for which there were none would follow one for which there is.
LEMMA SumsExist ==
    ASSUME NEW f, IsFiniteSet(DOMAIN f), NEW n \in Nat
    PROVE  \E g : g = [s \in SUBSET DOMAIN f |-> g[s]] /\ SumsTo(f, g, n)
  <1> DEFINE D == DOMAIN f
             Bad == {m \in Nat : ~\E g : g = [s \in SUBSET D |-> g[s]] /\ SumsTo(f, g, m)}
  <1> SUFFICES ASSUME Bad # {} PROVE FALSE
    OBVIOUS
  <1>1. PICK m \in Bad : \A k \in Bad : m <= k
    BY LeastExists
  <1>0. \A s \in SUBSET D : IsFiniteSet(s) /\ Cardinality(s) \in Nat
    BY FS_Subset, FS_CardinalityType
  <1>2. m # 0
    <2> DEFINE g == [s \in SUBSET D |-> 0]
    <2>1. ASSUME NEW s \in SUBSET D, Cardinality(s) <= 0 PROVE s = {}
      <3>1. Cardinality(s) = 0
        BY <1>0, <2>1
      <3> QED BY <3>1, <1>0, FS_EmptySet
    <2>2. SumsTo(f, g, 0)
      BY <2>1 DEF SumsTo
    <2> QED BY <2>2
  <1>3. m - 1 \in Nat /\ ~(m <= m - 1)
    BY <1>2
  <1>4. PICK g : g = [s \in SUBSET D |-> g[s]] /\ SumsTo(f, g, m - 1)
    BY <1>1, <1>3
  <1> DEFINE h == [s \in SUBSET D |-> IF s = {} THEN 0 ELSE f[Chosen(s)] + g[s \ {Chosen(s)}]]
  <1>5. ASSUME NEW s \in SUBSET D, Cardinality(s) <= m - 1 PROVE h[s] = g[s]
    BY <1>4, <1>5 DEF SumsTo
  <1>6. SumsTo(f, h, m)
    <2>1. ASSUME NEW s \in SUBSET D, Cardinality(s) <= m, s # {}
          PROVE  h[s] = f[Chosen(s)] + h[s \ {Chosen(s)}]
      <3>1. Cardinality(s \ {Chosen(s)}) <= m - 1 /\ s \ {Chosen(s)} \in SUBSET D
        BY <2>1, <1>0, SmallerSet
      <3>2. h[s \ {Chosen(s)}] = g[s \ {Chosen(s)}]
        BY <3>1, <1>5
      <3> QED BY <3>2, <2>1
    <2>2. h[{}] = 0
      OBVIOUS
    <2> HIDE DEF h
    <2> QED BY <2>1, <2>2 DEF SumsTo
  <1>7. h = [s \in SUBSET D |-> h[s]]
    OBVIOUS
  <1> QED BY <1>6, <1>7, <1>1

\* A total satisfies its equations.
LEMMA TotalIs ==
    ASSUME NEW f, IsFiniteSet(DOMAIN f)
    PROVE  \E g : Sums(f, g) /\ Total(f) = g[DOMAIN f]
  <1> DEFINE S == DOMAIN f
             C == CHOOSE G : G = [s \in SUBSET S |-> IF s = {} THEN 0
                     ELSE LET x == CHOOSE x \in s : TRUE IN f[x] + G[s \ {x}]]
             E(G) == [s \in SUBSET S |-> IF s = {} THEN 0 ELSE f[Chosen(s)] + G[s \ {Chosen(s)}]]
  <1>1. C = CHOOSE G : G = E(G)
    BY DEF Chosen
  <1>2. \E G : G = E(G)
    <2>1. Cardinality(S) \in Nat
      BY FS_CardinalityType
    <2>2. PICK g : g = [s \in SUBSET S |-> g[s]] /\ SumsTo(f, g, Cardinality(S))
      BY <2>1, SumsExist
    <2>3. \A s \in SUBSET S : Cardinality(s) <= Cardinality(S)
      BY FS_Subset
    <2>4. \A s \in SUBSET S : g[s] = E(g)[s]
      BY <2>2, <2>3 DEF SumsTo
    <2>5. DOMAIN E(g) = SUBSET S /\ E(g) = [s \in SUBSET S |-> E(g)[s]]
      OBVIOUS
    <2> QED BY <2>2, <2>4, <2>5
  <1>3. C = E(C)
    BY ONLY <1>1, <1>2
  <1>4. Sums(f, C)
    <2> HIDE DEF C
    <2> QED BY <1>3 DEF Sums
  <1>5. Total(f) = C[S]
    BY DEF Total, FoldFunction, FoldFunctionOnSet, MapThenFoldSet
  <1> QED BY <1>4, <1>5

\* The values of f are numbers.
Sized(f) == IsFiniteSet(DOMAIN f) /\ \A x \in DOMAIN f : f[x] \in Int

\* In which order the values are added makes no difference.
LEMMA SumsAny ==
    ASSUME NEW f, Sized(f), NEW g, Sums(f, g), NEW s \in SUBSET DOMAIN f
    PROVE  g[s] \in Int /\ \A x \in s : g[s] = f[x] + g[s \ {x}]
  <1> DEFINE Good(t) == g[t] \in Int /\ \A x \in t : g[t] = f[x] + g[t \ {x}]
             Bad == {n \in Nat : \E t \in SUBSET DOMAIN f : Cardinality(t) = n /\ ~Good(t)}
  <1>0. \A t \in SUBSET DOMAIN f : IsFiniteSet(t) /\ Cardinality(t) \in Nat
    BY FS_Subset, FS_CardinalityType DEF Sized
  <1>1. Bad = {}
    <2> SUFFICES ASSUME Bad # {} PROVE FALSE
      OBVIOUS
    <2>1. PICK n \in Bad : \A k \in Bad : n <= k
      BY LeastExists
    <2>2. PICK t \in SUBSET DOMAIN f : Cardinality(t) = n /\ ~Good(t)
      BY <2>1
    <2>3. ASSUME NEW v \in SUBSET DOMAIN f, Cardinality(v) = n - 1 PROVE Good(v)
      <3>1. n - 1 \in Nat
        BY <2>3, <1>0
      <3>2. n - 1 \notin Bad
        BY <2>1
      <3> HIDE DEF Good
      <3> QED BY <3>1, <3>2, <2>3
    <2>4. t # {}
      <3>1. g[{}] = 0
        BY DEF Sums
      <3>2. Good({})
        BY <3>1
      <3> HIDE DEF Good
      <3> QED BY <3>2, <2>2
    <2> DEFINE c == Chosen(t)
    <2>5. c \in t /\ g[t] = f[c] + g[t \ {c}] /\ f[c] \in Int
      BY <2>4, <1>0, SmallerSet DEF Sums, Sized
    <2> HIDE DEF c
    <2>6. \A x \in t : Cardinality(t \ {x}) = n - 1 /\ t \ {x} \in SUBSET DOMAIN f
      BY <2>2, <1>0, FS_RemoveElement
    <2>7. \A x \in t : Good(t \ {x})
      BY <2>3, <2>6
    <2>8. g[t] \in Int
      <3>1. g[t \ {c}] \in Int
        BY <2>5, <2>7
      <3> QED BY ONLY <3>1, <2>5
    <2>9. ASSUME NEW x \in t PROVE g[t] = f[x] + g[t \ {x}]
      <3>1. CASE x = c
        BY <3>1, <2>5
      <3>2. CASE x # c
        <4>1. g[t \ {c}] = f[x] + g[(t \ {c}) \ {x}]
          BY <3>2, <2>5, <2>7
        <4>2. g[t \ {x}] = f[c] + g[(t \ {x}) \ {c}]
          BY <3>2, <2>5, <2>7
        <4>3. (t \ {x}) \ {c} = (t \ {c}) \ {x}
          OBVIOUS
        <4>4. g[(t \ {c}) \ {x}] \in Int
          <5>1. x \in t \ {c} /\ t \ {c} \in SUBSET DOMAIN f /\ IsFiniteSet(t \ {c})
                /\ Cardinality(t \ {c}) = n - 1
            BY <3>2, <2>5, <2>6, <1>0
          <5> DEFINE w == (t \ {c}) \ {x}
          <5>2. w \in SUBSET DOMAIN f /\ Cardinality(w) = n - 1 - 1 /\ Cardinality(w) \in Nat
            <6> HIDE DEF Bad, Good
            <6>1. w \in SUBSET DOMAIN f
              OBVIOUS
            <6>2. Cardinality(w) = Cardinality(t \ {c}) - 1
              BY ONLY <5>1, FS_RemoveElement
            <6> QED BY <6>1, <6>2, <5>1, <1>0
          <5>3. n - 1 - 1 \notin Bad
            BY <5>2, <2>1
          <5> HIDE DEF w, Good
          <5>4. Good(w)
            BY <5>2, <5>3
          <5> QED BY <5>4 DEF w, Good
        <4>5. f[x] \in Int
          BY DEF Sized
        <4>6. g[(t \ {x}) \ {c}] = g[(t \ {c}) \ {x}]
          BY ONLY <4>3
        <4>7. g[t] = f[c] + (f[x] + g[(t \ {c}) \ {x}]) /\ g[t \ {x}] = f[c] + g[(t \ {c}) \ {x}]
          BY ONLY <4>1, <4>2, <4>6, <2>5
        <4> QED BY ONLY <4>7, <4>4, <4>5, <2>5
      <3> QED BY <3>1, <3>2
    <2> QED BY <2>2, <2>8, <2>9
  <1> HIDE DEF Good
  <1>2. Good(s)
    BY <1>0, <1>1
  <1> QED BY <1>2 DEF Good

\* Two functions that agree have the same sums,
LEMMA SumsAgree ==
    ASSUME NEW f, NEW h, Sized(h), DOMAIN f \subseteq DOMAIN h, \A x \in DOMAIN f : f[x] = h[x],
           NEW g, Sums(f, g), NEW k, Sums(h, k), NEW s \in SUBSET DOMAIN f
    PROVE  g[s] = k[s]
  <1> DEFINE Bad == {n \in Nat : \E t \in SUBSET DOMAIN f : Cardinality(t) = n /\ g[t] # k[t]}
  <1>0. \A t \in SUBSET DOMAIN f : IsFiniteSet(t) /\ Cardinality(t) \in Nat
    BY FS_Subset, FS_CardinalityType DEF Sized
  <1>1. Bad = {}
    <2> SUFFICES ASSUME Bad # {} PROVE FALSE
      OBVIOUS
    <2>1. PICK n \in Bad : \A i \in Bad : n <= i
      BY LeastExists
    <2>2. PICK t \in SUBSET DOMAIN f : Cardinality(t) = n /\ g[t] # k[t]
      BY <2>1
    <2>3. t # {}
      BY <2>2 DEF Sums
    <2> DEFINE c == Chosen(t)
               w == t \ {c}
    <2>4. /\ c \in t /\ g[t] = f[c] + g[w] /\ k[t] = h[c] + k[w] /\ f[c] = h[c]
          /\ w \in SUBSET DOMAIN f /\ Cardinality(w) = n - 1 /\ n # 0
      BY <2>2, <2>3, <1>0, SmallerSet DEF Sums
    <2>5. Cardinality(w) \notin Bad /\ Cardinality(w) \in Nat
      <3>1. Cardinality(w) \in Nat /\ n \in Nat /\ Cardinality(w) = n - 1
        BY <2>4, <1>0
      <3> HIDE DEF Bad, w
      <3> QED BY <3>1, <2>1
    <2> HIDE DEF w
    <2>6. g[w] = k[w]
      BY <2>4, <2>5
    <2> QED BY <2>2, <2>4, <2>6
  <1> QED BY <1>0, <1>1

\* A value more adds itself,
LEMMA TotalMore ==
    ASSUME NEW f, Sized(f), NEW h, NEW x \in DOMAIN f, DOMAIN h = DOMAIN f \ {x},
           \A y \in DOMAIN h : h[y] = f[y]
    PROVE  Total(f) = Total(h) + f[x] /\ Total(h) \in Int /\ f[x] \in Int
  <1>1. PICK g : Sums(f, g) /\ Total(f) = g[DOMAIN f]
    BY TotalIs DEF Sized
  <1>2. Sized(h)
    BY FS_Subset DEF Sized
  <1>3. PICK k : Sums(h, k) /\ Total(h) = k[DOMAIN h]
    BY <1>2, TotalIs DEF Sized
  <1>4. k[DOMAIN h] = g[DOMAIN f \ {x}]
    BY <1>1, <1>3, SumsAgree
  <1>5. g[DOMAIN f] = f[x] + g[DOMAIN f \ {x}] /\ f[x] \in Int
    BY <1>1, SumsAny DEF Sized
  <1>6. g[DOMAIN f \ {x}] \in Int
    BY <1>1, SumsAny
  <1> QED BY <1>1, <1>3, <1>4, <1>5, <1>6

\* no value is no use,
LEMMA TotalNone == ASSUME NEW f, DOMAIN f = {} PROVE Total(f) = 0
  <1>1. IsFiniteSet(DOMAIN f)
    BY FS_EmptySet
  <1> QED BY <1>1, TotalIs DEF Sums

\* and where the values are makes no difference.
LEMMA TotalMoved ==
    ASSUME NEW f, Sized(f), NEW h, NEW m, DOMAIN h \subseteq DOMAIN m,
           \A y \in DOMAIN h : m[y] \in DOMAIN f /\ h[y] = f[m[y]],
           \A x \in DOMAIN f : \E y \in DOMAIN h : m[y] = x,
           \A x, y \in DOMAIN h : m[x] = m[y] => x = y
    PROVE  Total(h) = Total(f)
  <1> DEFINE Img(s) == {m[y] : y \in s}
  <1>0. IsFiniteSet(DOMAIN h)
    <2> DEFINE inv == [x \in DOMAIN f |-> CHOOSE y \in DOMAIN h : m[y] = x]
    <2>1. \A x \in DOMAIN f : inv[x] \in DOMAIN h /\ m[inv[x]] = x
      OBVIOUS
    <2>2. \A y \in DOMAIN h : inv[m[y]] = y
      BY <2>1
    <2>3. inv \in Surjection(DOMAIN f, DOMAIN h)
      BY <2>1, <2>2 DEF Surjection
    <2> QED BY <2>3, FS_Surjection DEF Sized
  <1>1. Sized(h)
    BY <1>0 DEF Sized
  <1>2. PICK g : Sums(f, g) /\ Total(f) = g[DOMAIN f]
    BY TotalIs DEF Sized
  <1>3. PICK k : Sums(h, k) /\ Total(h) = k[DOMAIN h]
    BY <1>1, TotalIs DEF Sized
  <1> DEFINE Bad == {n \in Nat : \E t \in SUBSET DOMAIN h : Cardinality(t) = n /\ k[t] # g[Img(t)]}
  <1>4. \A t \in SUBSET DOMAIN h : IsFiniteSet(t) /\ Cardinality(t) \in Nat
    BY <1>0, FS_Subset, FS_CardinalityType
  <1>5. Bad = {}
    <2> SUFFICES ASSUME Bad # {} PROVE FALSE
      OBVIOUS
    <2>1. PICK n \in Bad : \A i \in Bad : n <= i
      BY LeastExists
    <2>2. PICK t \in SUBSET DOMAIN h : Cardinality(t) = n /\ k[t] # g[Img(t)]
      BY <2>1
    <2>3. t # {}
      <3>1. Img({}) = {}
        OBVIOUS
      <3>2. k[{}] = 0 /\ g[{}] = 0
        BY <1>2, <1>3 DEF Sums
      <3> QED BY <3>1, <3>2, <2>2
    <2> DEFINE c == Chosen(t)
               w == t \ {c}
    <2>4. /\ c \in t /\ k[t] = h[c] + k[w]
          /\ w \in SUBSET DOMAIN h /\ Cardinality(w) = n - 1 /\ n # 0
      BY <2>2, <2>3, <1>3, <1>4, SmallerSet DEF Sums
    <2>5. Cardinality(w) \notin Bad /\ Cardinality(w) \in Nat
      <3>1. Cardinality(w) \in Nat /\ n \in Nat /\ Cardinality(w) = n - 1
        BY <2>4, <1>4
      <3> HIDE DEF Bad, w
      <3> QED BY <3>1, <2>1
    <2>6. Img(t) \in SUBSET DOMAIN f /\ m[c] \in Img(t)
      BY <2>4
    <2>7. Img(w) = Img(t) \ {m[c]}
      BY <2>4
    <2> HIDE DEF w, Img
    <2>8. k[w] = g[Img(w)]
      BY <2>4, <2>5
    <2>9. g[Img(t)] = f[m[c]] + g[Img(w)]
      BY <2>6, <2>7, <1>2, SumsAny
    <2>10. h[c] = f[m[c]]
      BY <2>4
    <2> QED BY ONLY <2>2, <2>4, <2>8, <2>9, <2>10
  <1>6. Img(DOMAIN h) = DOMAIN f
    OBVIOUS
  <1> HIDE DEF Img
  <1>7. k[DOMAIN h] = g[Img(DOMAIN h)]
    BY <1>4, <1>5
  <1> QED BY <1>2, <1>3, <1>6, <1>7

-----------------------------------------------------------------------------
(* Heaps.                                                                  *)

Heap == [blks : Seq(Blk), curr : Int, nSeg : Int, currUse : Int, totUse : Int]

HeapInv(h) ==
    /\ h \in Heap
    /\ \A j \in 1 .. Len(h.blks) : BlkInv(h.blks[j])
    /\ \A j, k \in 1 .. Len(h.blks) : h.blks[j].id = h.blks[k].id => j = k
    /\ h.curr \in Ids(h) \cup {None}
    /\ Limit # 0 => h.totUse <= Limit

\* The members of a heap that is well typed.
LEMMA HeapFields ==
    ASSUME NEW h \in Heap
    PROVE  /\ h.blks \in Seq(Blk) /\ DOMAIN h.blks = 1 .. Len(h.blks) /\ Len(h.blks) \in Nat
           /\ h.curr \in Int /\ h.nSeg \in Int /\ h.currUse \in Int /\ h.totUse \in Int
           /\ h = [blks |-> h.blks, curr |-> h.curr, nSeg |-> h.nSeg,
                   currUse |-> h.currUse, totUse |-> h.totUse]
           /\ Ids(h) = {h.blks[j].id : j \in 1 .. Len(h.blks)}
           /\ Ids(h) \subseteq Nat
  <1>1. /\ h.blks \in Seq(Blk) /\ DOMAIN h.blks = 1 .. Len(h.blks) /\ Len(h.blks) \in Nat
        /\ h.curr \in Int /\ h.nSeg \in Int /\ h.currUse \in Int /\ h.totUse \in Int
        /\ h = [blks |-> h.blks, curr |-> h.curr, nSeg |-> h.nSeg,
                currUse |-> h.currUse, totUse |-> h.totUse]
    BY DEF Heap
  <1>2. \A j \in 1 .. Len(h.blks) : h.blks[j] \in Blk
    BY <1>1
  <1>3. \A j \in 1 .. Len(h.blks) : h.blks[j].id \in Nat
    BY <1>2, BlkFields
  <1> QED BY <1>1, <1>3 DEF Ids

\* Blocks are found by their address.
LEMMA PosOf ==
    ASSUME NEW h, HeapInv(h)
    PROVE  /\ \A j \in 1 .. Len(h.blks) : Pos(h, h.blks[j].id) = j /\ h.blks[j].id \in Ids(h)
           /\ \A id \in Ids(h) : Pos(h, id) \in 1 .. Len(h.blks) /\ h.blks[Pos(h, id)].id = id
  <1>1. DOMAIN h.blks = 1 .. Len(h.blks) /\ Ids(h) = {h.blks[j].id : j \in 1 .. Len(h.blks)}
    BY HeapFields DEF HeapInv
  <1>2. \A j, k \in 1 .. Len(h.blks) : h.blks[j].id = h.blks[k].id => j = k
    BY DEF HeapInv
  <1>3. ASSUME NEW j \in 1 .. Len(h.blks) PROVE Pos(h, h.blks[j].id) = j
    BY <1>1, <1>2 DEF Pos
  <1>4. ASSUME NEW id \in Ids(h)
        PROVE  Pos(h, id) \in 1 .. Len(h.blks) /\ h.blks[Pos(h, id)].id = id
    <2>1. \E j \in DOMAIN h.blks : h.blks[j].id = id
      BY <1>1
    <2> QED BY <2>1, <1>1 DEF Pos
  <1> QED BY <1>1, <1>3, <1>4

\* Blocks may change as long as they keep their ids.
LEMMA HeapIntro ==
    ASSUME NEW h, HeapInv(h), NEW g \in Heap, Len(g.blks) = Len(h.blks),
           \A j \in 1 .. Len(h.blks) : BlkInv(g.blks[j]) /\ g.blks[j].id = h.blks[j].id,
           g.curr \in Ids(h) \cup {None}, g.totUse = h.totUse
    PROVE  HeapInv(g) /\ Ids(g) = Ids(h)
  <1>1. Ids(g) = Ids(h)
    <2>1. /\ Ids(h) = {h.blks[j].id : j \in 1 .. Len(h.blks)}
          /\ Ids(g) = {g.blks[j].id : j \in 1 .. Len(g.blks)}
      BY HeapFields DEF HeapInv
    <2> QED BY <2>1
  <1> QED BY <1>1 DEF HeapInv

\* The offsets in use in the block at position i, if there is one.
Used(h, i) == IF i \in 1 .. Len(h.blks) THEN UsedSet(h.blks[i].seg) ELSE {}

\* The blocks of h and the segments in use there are as they are in g.
Kept(h, g) ==
    /\ Len(h.blks) <= Len(g.blks)
    /\ \A i \in 1 .. Len(h.blks) :
         /\ g.blks[i].id = h.blks[i].id /\ g.blks[i].len = h.blks[i].len
         /\ \A x \in Used(h, i) : g.blks[i].seg[x] = h.blks[i].seg[x]

\* No other segment is in use in g; or one, at o of the block at j, of length r.
Same(h, g) == Kept(h, g) /\ \A i \in Nat : Used(g, i) = Used(h, i)

More(h, g, j, o, r) ==
    /\ Kept(h, g)
    /\ j \in 1 .. Len(g.blks) /\ o \notin Used(h, j)
    /\ g.blks[j].seg[o] = AllocDescr(r)
    /\ \A i \in Nat : Used(g, i) = Used(h, i) \cup (IF i = j THEN {o} ELSE {})

\* What is kept by two steps is kept by both together,
LEMMA KeptTrans ==
    ASSUME NEW h, h \in Heap, NEW g, g \in Heap, NEW f, f \in Heap, Same(h, g), Kept(g, f)
    PROVE  Kept(h, f)
  <1>1. Len(h.blks) \in Nat /\ Len(g.blks) \in Nat /\ Len(f.blks) \in Nat
    BY HeapFields
  <1>2. Len(h.blks) <= Len(g.blks) /\ Len(g.blks) <= Len(f.blks)
    BY DEF Same, Kept
  <1>3. ASSUME NEW i \in 1 .. Len(h.blks)
        PROVE  /\ f.blks[i].id = h.blks[i].id /\ f.blks[i].len = h.blks[i].len
               /\ \A x \in Used(h, i) : f.blks[i].seg[x] = h.blks[i].seg[x]
    <2>1. i \in 1 .. Len(g.blks) /\ i \in Nat
      BY <1>1, <1>2
    <2>2. Used(g, i) = Used(h, i)
      BY <2>1 DEF Same
    <2> QED BY <2>1, <2>2 DEF Same, Kept
  <1> QED BY <1>1, <1>2, <1>3 DEF Kept

\* and so is what they take.
LEMMA SameMore ==
    ASSUME NEW h, h \in Heap, NEW g, g \in Heap, NEW f, f \in Heap, Same(h, g)
    PROVE  /\ Same(g, f) => Same(h, f)
           /\ \A j, o, r : More(g, f, j, o, r) /\ j \in Nat => More(h, f, j, o, r)
  BY KeptTrans DEF Same, More

-----------------------------------------------------------------------------
(* The counters of a heap.                                                 *)

\* The segments in use, as pairs of position and offset, and their lengths; the
\* lengths of the blocks.
Uses(h) == {x \in Nat \X Nat : x[2] \in Used(h, x[1])}
UseLens(h) == [x \in Uses(h) |-> h.blks[x[1]].seg[x[2]].len]
BlkLens(h) == [i \in 1 .. Len(h.blks) |-> h.blks[i].len]

\* n segments of together u units are in use.
Booked(h, n, u) == n = Cardinality(Uses(h)) /\ u = Total(UseLens(h))

Balanced(h) == Booked(h, h.nSeg, h.currUse) /\ h.totUse = Total(BlkLens(h))

\* What is added up is finite.
LEMMA BookSized ==
    ASSUME NEW h, HeapInv(h)
    PROVE  IsFiniteSet(Uses(h)) /\ Sized(UseLens(h)) /\ Sized(BlkLens(h))
  <1>1. /\ Len(h.blks) \in Nat /\ SizeRange \in Nat
        /\ \A i \in 1 .. Len(h.blks) : BlkInv(h.blks[i]) /\ h.blks[i] \in Blk
    BY HeapFields, LengthAssumption DEF HeapInv, BlkInv
  <1>2. ASSUME NEW x \in Uses(h)
        PROVE  x \in (1 .. Len(h.blks)) \X (0 .. SizeRange) /\ h.blks[x[1]].seg[x[2]].len \in Nat
    <2>1. x[1] \in 1 .. Len(h.blks) /\ x[2] \in UsedSet(h.blks[x[1]].seg) /\ x \in Nat \X Nat
      BY DEF Uses, Used
    <2> DEFINE b == h.blks[x[1]]
    <2>2. /\ Segments(b.seg, DataLen(b)) /\ DataLen(b) \in Nat /\ b.len \in Nat
          /\ x[2] \in DOMAIN b.seg
      BY <2>1, <1>1, BlkFields DEF BlkInv, UsedSet
    <2>3. DataLen(b) < SizeRange
      BY <2>2, DataType DEF DataLen
    <2>4. x[2] \in 0 .. DataLen(b) /\ b.seg[x[2]].len \in Nat
      <3> HIDE DEF b
      <3> QED BY <2>2, UsedFinite, SegMapElim DEF Segments
    <2> QED BY <2>1, <2>2, <2>3, <2>4, <1>1
  <1>3. IsFiniteSet((1 .. Len(h.blks)) \X (0 .. SizeRange))
    <2>1. IsFiniteSet(1 .. Len(h.blks))
      BY <1>1, FS_Interval
    <2>2. IsFiniteSet(0 .. SizeRange)
      <3>1. 0 .. SizeRange \in SUBSET Nat /\ SizeRange \in Nat /\ \A x \in 0 .. SizeRange : x <= SizeRange
        BY <1>1
      <3> QED BY ONLY <3>1, FS_BoundedSetOfNaturals
    <2> QED BY <2>1, <2>2, FS_Product
  <1>4. IsFiniteSet(Uses(h))
    <2>1. Uses(h) \subseteq (1 .. Len(h.blks)) \X (0 .. SizeRange)
      BY <1>2
    <2> QED BY <2>1, <1>3, FS_Subset
  <1>5. Sized(UseLens(h))
    BY <1>2, <1>4 DEF Sized, UseLens
  <1>6. Sized(BlkLens(h))
    <2>1. IsFiniteSet(1 .. Len(h.blks))
      BY <1>1, FS_Interval
    <2> QED BY <2>1, <1>1, BlkFields DEF Sized, BlkLens
  <1> QED BY <1>4, <1>5, <1>6

\* The pairs are what they look like.
LEMMA UseIs == ASSUME NEW h, NEW i, NEW o, i \in Nat, o \in Nat
               PROVE <<i, o>> \in Uses(h) <=> o \in Used(h, i)
  BY DEF Uses

\* Every pair in use is such a pair.
LEMMA UsePair ==
    ASSUME NEW h, NEW x \in Uses(h)
    PROVE  x[1] \in Nat /\ x[2] \in Nat /\ x = <<x[1], x[2]>> /\ x[2] \in Used(h, x[1])
  BY DEF Uses

\* The same segments in use are the same counters,
LEMMA SameBook ==
    ASSUME NEW h, NEW g, Same(h, g), NEW n, NEW u, Booked(h, n, u)
    PROVE  Booked(g, n, u)
  <1>1. Uses(g) = Uses(h)
    BY DEF Same, Uses
  <1>2. ASSUME NEW x \in Uses(h)
        PROVE  g.blks[x[1]].seg[x[2]].len = h.blks[x[1]].seg[x[2]].len
    BY DEF Same, Kept, Uses, Used
  <1>3. UseLens(g) = UseLens(h)
    BY <1>1, <1>2 DEF UseLens
  <1> QED BY ONLY <1>1, <1>3, Booked(h, n, u) DEF Booked

\* a segment more counts as one, with its length,
LEMMA MoreBook ==
    ASSUME NEW h, HeapInv(h), NEW g, HeapInv(g), NEW j, NEW o \in Nat, NEW r, More(h, g, j, o, r),
           NEW n, NEW u, Booked(h, n, u)
    PROVE  Booked(g, n + 1, u + r)
  <1>1. j \in Nat /\ g.blks[j].seg[o] = AllocDescr(r) /\ o \notin Used(h, j)
        /\ \A i \in Nat : Used(g, i) = Used(h, i) \cup (IF i = j THEN {o} ELSE {})
    BY DEF More
  <1>2. Uses(g) = Uses(h) \cup {<<j, o>>} /\ <<j, o>> \notin Uses(h)
    BY <1>1 DEF Uses
  <1>3. ASSUME NEW x \in Uses(h)
        PROVE  g.blks[x[1]].seg[x[2]].len = h.blks[x[1]].seg[x[2]].len
    BY DEF More, Kept, Uses, Used
  <1>4. UseLens(g)[<<j, o>>] = r
    BY <1>1, <1>2 DEF UseLens, AllocDescr
  <1>5. Total(UseLens(g)) = Total(UseLens(h)) + r
    <2>1. \A x \in Uses(h) : UseLens(h)[x] = UseLens(g)[x]
      BY <1>2, <1>3 DEF UseLens
    <2>2. DOMAIN UseLens(h) = Uses(h) /\ DOMAIN UseLens(g) = Uses(g)
      BY DEF UseLens
    <2>3. Uses(h) = Uses(g) \ {<<j, o>>} /\ <<j, o>> \in Uses(g)
      BY <1>2
    <2>4. Sized(UseLens(g))
      BY BookSized
    <2> QED BY ONLY <2>1, <2>2, <2>3, <2>4, <1>4, TotalMore
  <1>6. Cardinality(Uses(g)) = Cardinality(Uses(h)) + 1
    BY <1>2, BookSized, FS_AddElement
  <1> QED BY ONLY <1>5, <1>6, Booked(h, n, u) DEF Booked

\* and the blocks with the same lengths the same in all.
LEMMA KeptLens ==
    ASSUME NEW h, NEW g, Kept(h, g), Len(g.blks) = Len(h.blks)
    PROVE  BlkLens(g) = BlkLens(h)
  BY DEF Kept, BlkLens

\* Nothing changes.
LEMMA SameBalanced ==
    ASSUME NEW h, NEW g, Same(h, g), Len(g.blks) = Len(h.blks), Balanced(h),
           g.nSeg = h.nSeg, g.currUse = h.currUse, g.totUse = h.totUse
    PROVE  Balanced(g)
  <1>1. Booked(g, h.nSeg, h.currUse) /\ BlkLens(g) = BlkLens(h)
    BY SameBook, KeptLens DEF Same, Balanced
  <1> QED BY <1>1 DEF Balanced

\* The block at position j changes.
LEMMA PutBlk ==
    ASSUME NEW bs \in Seq(Blk), NEW j \in 1 .. Len(bs), NEW x \in Blk, NEW cs, cs = [bs EXCEPT ![j] = x]
    PROVE  /\ cs \in Seq(Blk) /\ Len(cs) = Len(bs) /\ cs[j] = x
           /\ \A i \in 1 .. Len(bs) : i # j => cs[i] = bs[i]
  BY ExceptSeq

\* A search starts at a block of the heap, if there is one.
LEMMA StartIn ==
    ASSUME NEW h, HeapInv(h)
    PROVE  StartBlk(h) \in Ids(h) \cup {None} /\ StartBlk(h) \in Int
  <1>1. h \in Heap /\ h.curr \in Ids(h) \cup {None}
    BY DEF HeapInv
  <1>2. HdBlk(h.blks) \in Ids(h) \cup {None}
    <2>1. h.blks # <<>> => 1 \in 1 .. Len(h.blks)
      BY <1>1, HeapFields
    <2> QED BY <2>1, PosOf DEF HdBlk
  <1>3. Ids(h) \subseteq Nat /\ None \in Int
    BY <1>1, HeapFields DEF None
  <1> QED BY <1>1, <1>2, <1>3 DEF StartBlk

\* The heap after a search, with the bounds that were put right.
SearchedHeap(h, req) == [h EXCEPT !.blks = Searched(h, req), !.curr = StartBlk(h)]

\* A search puts right the bounds of the blocks it has looked through, and no more.
LEMMA SearchedInv ==
    ASSUME NEW h, HeapInv(h), NEW req
    PROVE  LET g == SearchedHeap(h, req)
           IN  /\ HeapInv(g) /\ Same(h, g) /\ Len(g.blks) = Len(h.blks)
               /\ Balanced(h) => Balanced(g)
               /\ \A j \in Found(h, req) : j \in 1 .. Len(g.blks) /\ g.blks[j] = h.blks[j]
                                           /\ Fits(h.blks[j], req) # {}
  <1> DEFINE g == SearchedHeap(h, req)
  <1>0. g = [h EXCEPT !.blks = Searched(h, req), !.curr = StartBlk(h)]
    BY DEF SearchedHeap
  <1> HIDE DEF g
  <1>1. h \in Heap /\ \A j \in 1 .. Len(h.blks) : BlkInv(h.blks[j])
    BY DEF HeapInv
  <1>2. /\ h.blks \in Seq(Blk) /\ DOMAIN h.blks = 1 .. Len(h.blks) /\ Len(h.blks) \in Nat
        /\ h.nSeg \in Int /\ h.currUse \in Int /\ h.totUse \in Int
    BY <1>1, HeapFields
  <1> DEFINE bs == Searched(h, req)
  <1>3. g = [blks |-> bs, curr |-> StartBlk(h), nSeg |-> h.nSeg,
             currUse |-> h.currUse, totUse |-> h.totUse]
    BY <1>0, <1>1 DEF Heap
  <1>4. ASSUME NEW j \in 1 .. Len(h.blks)
        PROVE  /\ BlkInv(bs[j]) /\ bs[j] \in Blk /\ bs[j].id = h.blks[j].id /\ bs[j].len = h.blks[j].len /\ bs[j].seg = h.blks[j].seg
               /\ j \in Found(h, req) => bs[j] = h.blks[j]
    <2>1. bs[j] = h.blks[j] \/ (j \in Promising(h, req) /\ j \notin Found(h, req) /\ bs[j] = Corrected(h.blks[j]))
      BY <1>2 DEF Searched, Found
    <2>2. j \in Promising(h, req) => h.blks[j].free # <<>>
      BY DEF Promising
    <2>3. BlkInv(h.blks[j])
      BY <1>1
    <2>4. j \in Promising(h, req) =>
            /\ BlkInv(Corrected(h.blks[j])) /\ Corrected(h.blks[j]).id = h.blks[j].id
            /\ Corrected(h.blks[j]).len = h.blks[j].len
            /\ Corrected(h.blks[j]).seg = h.blks[j].seg
      BY <2>2, <2>3, CorrectedInv
    <2>5. BlkInv(bs[j]) /\ bs[j].id = h.blks[j].id /\ bs[j].len = h.blks[j].len /\ bs[j].seg = h.blks[j].seg
          /\ (j \in Found(h, req) => bs[j] = h.blks[j])
      BY ONLY <2>1, <2>3, <2>4
    <2> QED BY <2>5 DEF BlkInv
  <1>5. bs \in Seq(Blk) /\ Len(bs) = Len(h.blks)
    <2>1. DOMAIN bs = 1 .. Len(h.blks) /\ bs = [i \in 1 .. Len(h.blks) |-> bs[i]]
      BY <1>2 DEF Searched
    <2> HIDE DEF bs
    <2>2. bs \in [1 .. Len(h.blks) -> Blk]
      BY <2>1, <1>4
    <2> QED BY <2>1, <2>2, <1>2
  <1> HIDE DEF bs
  <1>6. g.blks = bs /\ g.curr = StartBlk(h) /\ g.totUse = h.totUse
    BY ONLY <1>3
  <1>7. g \in Heap
    BY <1>2, <1>3, <1>5, StartIn DEF Heap
  <1>8. HeapInv(g)
    <2>1. \A j \in 1 .. Len(h.blks) : BlkInv(g.blks[j]) /\ g.blks[j].id = h.blks[j].id
      BY ONLY <1>4, <1>6
    <2>2. g.curr \in Ids(h) \cup {None} /\ Len(g.blks) = Len(h.blks) /\ HeapInv(h)
      BY <1>5, <1>6, StartIn
    <2> QED BY ONLY <1>6, <1>7, <2>1, <2>2, HeapIntro
  <1>9. Same(h, g)
    <2>1. \A i \in Nat : Used(g, i) = Used(h, i)
      BY <1>4, <1>5, <1>6 DEF Used
    <2>2. Kept(h, g)
      BY <1>2, <1>4, <1>5, <1>6 DEF Kept
    <2> QED BY <2>1, <2>2 DEF Same
  <1>10. \A j \in Found(h, req) : j \in 1 .. Len(h.blks) /\ Fits(h.blks[j], req) # {}
    BY <1>2 DEF Found, Hits, Promising
  <1>11. Balanced(h) => Balanced(g)
    <2>1. g.nSeg = h.nSeg /\ g.currUse = h.currUse
      BY ONLY <1>3
    <2> QED BY ONLY <2>1, <1>5, <1>6, <1>9, SameBalanced
  <1> QED BY <1>4, <1>5, <1>6, <1>8, <1>9, <1>10, <1>11 DEF g

\* What alloc returns when it took a segment of the heap h.
Taking(h, g, s, r) ==
    /\ HeapInv(g)
    /\ \E j \in 1 .. Len(g.blks) : \E o \in Nat :
         s = [blk |-> g.blks[j].id, off |-> o] /\ More(h, g, j, o, r)

\* A segment is taken from a block where the request fits.
LEMMA TakenInv ==
    ASSUME NEW h, HeapInv(h), NEW req \in Nat \ {0}, NEW j \in 1 .. Len(h.blks),
           Fits(h.blks[j], req) # {}
    PROVE  /\ Taking(h, Taken(h, j, req), SegmentAt(h, j, req), req)
           /\ Balanced(h) => Balanced(Taken(h, j, req))
  <1> DEFINE g == Taken(h, j, req)
             b == h.blks[j]
             c == FstFit(b, req)
             o == FitOffset(b, req)
             bs == [h.blks EXCEPT ![j] = c]
  <1>1. h \in Heap /\ BlkInv(b)
    BY DEF HeapInv
  <1>2. /\ h.blks \in Seq(Blk) /\ DOMAIN h.blks = 1 .. Len(h.blks) /\ Len(h.blks) \in Nat
        /\ h.nSeg \in Int /\ h.currUse \in Int /\ h.totUse \in Int
    BY <1>1, HeapFields
  <1>3. Took(b, c, o, req) /\ o \in Nat
    BY <1>1, FstFitInv
  <1>4. g = [blks |-> bs, curr |-> b.id, nSeg |-> h.nSeg + 1,
             currUse |-> h.currUse + req, totUse |-> h.totUse]
    <2>1. g = [h EXCEPT !.blks = [h.blks EXCEPT ![j] = FstFit(@, req)], !.curr = h.blks[j].id,
                        !.nSeg = @ + 1, !.currUse = @ + req]
      BY DEF Taken
    <2>2. [h.blks EXCEPT ![j] = FstFit(@, req)] = bs
      BY <1>2
    <2> HIDE DEF g, bs, c
    <2>3. g = [h EXCEPT !.blks = bs, !.curr = h.blks[j].id, !.nSeg = @ + 1, !.currUse = @ + req]
      BY ONLY <2>1, <2>2
    <2> QED BY <1>1, <2>3 DEF Heap
  <1>5. SegmentAt(h, j, req) = [blk |-> b.id, off |-> o]
    BY DEF SegmentAt
  <1> HIDE DEF g, c, o
  <1>6. BlkInv(c) /\ c \in Blk /\ c.id = b.id /\ c.len = b.len
    BY <1>3 DEF Took, BlkInv
  <1>7. /\ bs \in Seq(Blk) /\ Len(bs) = Len(h.blks) /\ bs[j] = c
        /\ \A i \in 1 .. Len(h.blks) : i # j => bs[i] = h.blks[i]
    BY <1>2, <1>6, PutBlk
  <1> HIDE DEF bs
  <1>8. g.blks = bs /\ g.curr = b.id /\ g.totUse = h.totUse
    BY <1>4
  <1>9. b.id \in Ids(h) /\ b.id \in Int
    BY <1>1, PosOf, BlkFields DEF BlkInv
  <1>10. g \in Heap
    BY <1>2, <1>4, <1>7, <1>9 DEF Heap
  <1>11. HeapInv(g)
    <2>1. \A i \in 1 .. Len(h.blks) : BlkInv(g.blks[i]) /\ g.blks[i].id = h.blks[i].id
      BY <1>6, <1>7, <1>8 DEF HeapInv
    <2> QED BY <2>1, <1>7, <1>8, <1>9, <1>10, HeapIntro
  <1>12. More(h, g, j, o, req)
    <2>1. /\ UsedSet(c.seg) = UsedSet(b.seg) \cup {o} /\ o \notin UsedSet(b.seg)
          /\ \A x \in UsedSet(b.seg) : c.seg[x] = b.seg[x]
          /\ c.seg[o] = AllocDescr(req)
      BY <1>3 DEF Took
    <2>2. \A i \in Nat : Used(g, i) = Used(h, i) \cup (IF i = j THEN {o} ELSE {})
      <3> SUFFICES ASSUME NEW i \in Nat
                   PROVE  Used(g, i) = Used(h, i) \cup (IF i = j THEN {o} ELSE {})
        OBVIOUS
      <3>1. CASE i = j
        BY <3>1, <2>1, <1>7, <1>8 DEF Used
      <3>2. CASE i # j
        BY <3>2, <1>7, <1>8 DEF Used
      <3> QED BY <3>1, <3>2
    <2>3. Kept(h, g)
      <3>1. ASSUME NEW i \in 1 .. Len(h.blks)
            PROVE  /\ g.blks[i].id = h.blks[i].id /\ g.blks[i].len = h.blks[i].len
                   /\ \A x \in Used(h, i) : g.blks[i].seg[x] = h.blks[i].seg[x]
        <4>1. CASE i = j
          BY <4>1, <2>1, <1>6, <1>7, <1>8 DEF Used
        <4>2. CASE i # j
          BY <4>2, <1>7, <1>8
        <4> QED BY <4>1, <4>2
      <3> QED BY <3>1, <1>2, <1>7, <1>8 DEF Kept
    <2>4. j \in 1 .. Len(g.blks) /\ o \notin Used(h, j) /\ g.blks[j].seg[o] = AllocDescr(req)
      BY <2>1, <1>7, <1>8 DEF Used
    <2> QED BY <2>2, <2>3, <2>4 DEF More
  <1>13. j \in 1 .. Len(g.blks) /\ g.blks[j].id = b.id
    BY <1>6, <1>7, <1>8
  <1>14. Balanced(h) => Balanced(g)
    <2>1. g.nSeg = h.nSeg + 1 /\ g.currUse = h.currUse + req
      BY ONLY <1>4
    <2>2. Booked(h, h.nSeg, h.currUse) => Booked(g, h.nSeg + 1, h.currUse + req)
      BY ONLY <1>3, <1>11, <1>12, HeapInv(h), MoreBook
    <2>3. BlkLens(g) = BlkLens(h)
      BY <1>7, <1>8, <1>12, KeptLens DEF More
    <2> QED BY ONLY <2>1, <2>2, <2>3, <1>8 DEF Balanced
  <1> QED BY <1>3, <1>5, <1>11, <1>12, <1>13, <1>14 DEF Taking, g

\* The address of a new block is not that of another.
LEMMA NewId ==
    ASSUME NEW h, HeapInv(h)
    PROVE  LET id == Min({n \in 1 .. (Len(h.blks) + 1) : n \notin Ids(h)})
           IN  id \in Nat /\ id \notin Ids(h)
  <1> DEFINE S == {n \in 1 .. (Len(h.blks) + 1) : n \notin Ids(h)}
             L == Len(h.blks)
  <1>1. L \in Nat
    BY HeapFields DEF HeapInv
  <1> HIDE DEF L
  <1>2. S # {}
    <2> SUFFICES ASSUME S = {} PROVE FALSE
      OBVIOUS
    <2>1. \A n \in 1 .. (L + 1) : n \in Ids(h)
      BY DEF L
    <2> DEFINE f == [n \in 1 .. (L + 1) |-> Pos(h, n)]
    <2>2. f \in [1 .. (L + 1) -> 1 .. L]
      BY <2>1, PosOf DEF L
    <2>3. \A n \in 1 .. (L + 1) : f[n] = Pos(h, n)
      OBVIOUS
    <2> HIDE DEF f
    <2>4. /\ IsFiniteSet(1 .. (L + 1)) /\ IsFiniteSet(1 .. L)
          /\ Cardinality(1 .. (L + 1)) = L + 1 /\ Cardinality(1 .. L) = L
      <3>1. \A n \in Nat : IsFiniteSet(1 .. n) /\ Cardinality(1 .. n) = n
        BY FS_Interval
      <3> QED BY <3>1, <1>1
    <2>5. PICK x, y \in 1 .. (L + 1) : x # y /\ f[x] = f[y]
      <3>1. Cardinality(1 .. L) < Cardinality(1 .. (L + 1))
        BY <2>4, <1>1
      <3> QED BY ONLY <3>1, <2>2, <2>4, FS_PigeonHole
    <2>6. Pos(h, x) = Pos(h, y) /\ x \in Ids(h) /\ y \in Ids(h)
      BY <2>1, <2>3, <2>5
    <2>7. h.blks[Pos(h, x)].id = x /\ h.blks[Pos(h, y)].id = y
      BY <2>6, PosOf
    <2> QED BY <2>5, <2>6, <2>7
  <1>3. S \subseteq Nat
    OBVIOUS
  <1>4. Min(S) \in S
    BY <1>2, <1>3, LeastExists
  <1> QED BY <1>4

\* addBlk adds a block with one free segment at the end of the list.
LEMMA AddBlkInv ==
    ASSUME NEW h, HeapInv(h), NEW req \in Nat \ {0}, CanAdd(h, req)
    PROVE  /\ HeapInv(AddBlk(h, req)) /\ Same(h, AddBlk(h, req))
           /\ Balanced(h) => Balanced(AddBlk(h, req))
           /\ AddedLen(h, req) \in Nat
           /\ Len(AddBlk(h, req).blks) = Len(h.blks) + 1
           /\ \E id \in Nat : AddBlk(h, req).blks[Len(h.blks) + 1] = NewBlk(id, AddedLen(h, req))
  <1> DEFINE g == AddBlk(h, req)
             len == AddedLen(h, req)
             id == Min({n \in 1 .. (Len(h.blks) + 1) : n \notin Ids(h)})
             new == NewBlk(id, len)
             bs == Append(h.blks, new)
             L == Len(h.blks)
  <1>1. h \in Heap /\ \A j \in 1 .. L : BlkInv(h.blks[j])
    BY DEF HeapInv
  <1>2. /\ h.blks \in Seq(Blk) /\ DOMAIN h.blks = 1 .. L /\ L \in Nat
        /\ h.curr \in Int /\ h.nSeg \in Int /\ h.currUse \in Int /\ h.totUse \in Int
    BY <1>1, HeapFields
  <1>3. WantedLen(req) \in Nat
    <2>1. BlkLen \in Nat /\ HdrLen \in Nat
      BY LengthAssumption
    <2>2. BlkLen + req + HdrLen \in Nat /\ {BlkLen, req + HdrLen} \subseteq 0 .. (BlkLen + req + HdrLen)
      BY <2>1
    <2>3. Max({BlkLen, req + HdrLen}) \in {BlkLen, req + HdrLen}
      BY <2>2, GreatestExists
    <2> QED BY <2>1, <2>3 DEF WantedLen
  <1>4. len \in Nat /\ (Limit # 0 => h.totUse + len <= Limit)
    <2>1. len >= req
      BY DEF CanAdd
    <2>2. Limit \in Nat
      BY LengthAssumption
    <2> QED BY <2>1, <2>2, <1>2, <1>3 DEF AddedLen
  <1>5. id \in Nat /\ id \notin Ids(h)
    BY NewId
  <1>6. g = [h EXCEPT !.blks = bs, !.totUse = h.totUse + len]
    BY DEF AddBlk
  <1> HIDE DEF g, len, id
  <1>7. BlkInv(new) /\ UsedSet(new.seg) = {} /\ new \in Blk /\ new.id = id
    BY <1>4, <1>5, NewBlkInv DEF NewBlk, BlkInv
  <1> HIDE DEF new
  <1>8. /\ bs \in Seq(Blk) /\ Len(bs) = L + 1 /\ bs[L + 1] = new
        /\ \A i \in 1 .. L : bs[i] = h.blks[i]
    BY <1>2, <1>7, AppendProperties
  <1> HIDE DEF bs
  <1>9. g = [blks |-> bs, curr |-> h.curr, nSeg |-> h.nSeg,
             currUse |-> h.currUse, totUse |-> h.totUse + len]
    BY <1>1, <1>6 DEF Heap
  <1>10. g.blks = bs /\ g.curr = h.curr /\ g.totUse = h.totUse + len
    BY ONLY <1>9
  <1>11. g \in Heap
    <2>1. h.totUse + len \in Int
      BY <1>2, <1>4
    <2> QED BY ONLY <1>2, <1>8, <1>9, <2>1 DEF Heap
  <1>12. \A i \in 1 .. (L + 1) : i \in 1 .. L \/ i = L + 1
    BY <1>2
  <1>13. \A i \in 1 .. L : i \in 1 .. (L + 1)
    BY <1>2
  <1>14. \A i \in 1 .. L : bs[i].id \in Ids(h)
    BY <1>1, <1>8, PosOf
  <1>15. HeapInv(g)
    <2>1. \A j \in 1 .. Len(g.blks) : BlkInv(g.blks[j])
      BY <1>1, <1>7, <1>8, <1>10, <1>12
    <2>2. ASSUME NEW j \in 1 .. (L + 1), NEW k \in 1 .. (L + 1), bs[j].id = bs[k].id PROVE j = k
      <3>1. CASE j \in 1 .. L /\ k \in 1 .. L
        BY <3>1, <2>2, <1>8 DEF HeapInv, L
      <3>2. CASE j = L + 1 \/ k = L + 1
        BY <3>2, <2>2, <1>5, <1>7, <1>8, <1>12, <1>14
      <3> QED BY <3>1, <3>2, <1>12
    <2>3. g.curr \in Ids(g) \cup {None}
      <3>1. Ids(g) = {bs[j].id : j \in 1 .. (L + 1)}
        <4>1. Ids(g) = {g.blks[j].id : j \in 1 .. Len(g.blks)}
          BY <1>11, HeapFields
        <4> QED BY ONLY <4>1, <1>8, <1>10
      <3>2. h.curr \in Ids(h) \cup {None} /\ Ids(h) = {h.blks[j].id : j \in 1 .. L}
        BY HeapFields DEF HeapInv
      <3> QED BY <3>1, <3>2, <1>8, <1>10, <1>13
    <2>4. Limit # 0 => g.totUse <= Limit
      BY <1>4, <1>10
    <2> QED BY <2>1, <2>2, <2>3, <2>4, <1>8, <1>10, <1>11 DEF HeapInv
  <1>16. Same(h, g)
    <2>1. Kept(h, g)
      <3>1. Len(h.blks) <= Len(g.blks)
        BY ONLY <1>2, <1>8, <1>10 DEF L
      <3>2. \A i \in 1 .. Len(h.blks) : g.blks[i] = h.blks[i]
        BY ONLY <1>8, <1>10 DEF L
      <3> QED BY ONLY <3>1, <3>2 DEF Kept
    <2>2. ASSUME NEW i \in Nat PROVE Used(g, i) = Used(h, i)
      <3>1. CASE i \in 1 .. L
        BY <3>1, <1>8, <1>10, <1>13 DEF Used
      <3>2. CASE i = L + 1
        <4>1. i \notin 1 .. L /\ i \in 1 .. (L + 1)
          BY <3>2, <1>2
        <4> QED BY <4>1, <3>2, <1>7, <1>8, <1>10 DEF Used
      <3>3. CASE i \notin 1 .. (L + 1)
        BY <3>3, <1>8, <1>10, <1>13 DEF Used
      <3> QED BY <3>1, <3>2, <3>3, <1>12
    <2> QED BY <2>1, <2>2 DEF Same
  <1>17. Len(g.blks) = L + 1 /\ g.blks[L + 1] = new
    BY <1>8, <1>10
  <1>18. Balanced(h) => Balanced(g)
    <2>1. g.nSeg = h.nSeg /\ g.currUse = h.currUse
      BY ONLY <1>9
    <2>2. Booked(h, h.nSeg, h.currUse) => Booked(g, h.nSeg, h.currUse)
      BY <1>16, SameBook
    <2>3. Total(BlkLens(g)) = Total(BlkLens(h)) + len
      <3>1. DOMAIN BlkLens(g) = 1 .. (L + 1) /\ DOMAIN BlkLens(h) = 1 .. L
        BY <1>8, <1>10 DEF BlkLens
      <3>2. L + 1 \in 1 .. (L + 1) /\ 1 .. L = (1 .. (L + 1)) \ {L + 1}
        BY <1>2
      <3>3. \A i \in 1 .. L : BlkLens(h)[i] = BlkLens(g)[i]
        BY <1>8, <1>10, <1>13 DEF BlkLens
      <3>4. BlkLens(g)[L + 1] = len
        <4>1. new.len = len
          BY DEF new, NewBlk
        <4> QED BY <4>1, <3>2, <1>8, <1>10 DEF BlkLens
      <3>5. Sized(BlkLens(g))
        BY <1>15, BookSized
      <3> HIDE DEF L
      <3> QED BY ONLY <3>1, <3>2, <3>3, <3>4, <3>5, TotalMore
    <2> QED BY ONLY <2>1, <2>2, <2>3, <1>10 DEF Balanced
  <1> QED BY <1>4, <1>5, <1>15, <1>16, <1>17, <1>18 DEF g, len, new

\* g is h with block x in the place of the one at position j.
Replaced(h, g, j, x) ==
    /\ HeapInv(g) /\ Ids(g) = Ids(h)
    /\ Len(g.blks) = Len(h.blks) /\ g.blks[j] = x
    /\ \A i \in 1 .. Len(h.blks) : i # j => g.blks[i] = h.blks[i]

Put(h, j, x, curr, nSeg, currUse) ==
    [blks |-> [h.blks EXCEPT ![j] = x], curr |-> curr, nSeg |-> nSeg,
     currUse |-> currUse, totUse |-> h.totUse]

\* The block at position j changes and keeps its id, whatever else does.
LEMMA ReplacedInv ==
    ASSUME NEW h, HeapInv(h), NEW j \in 1 .. Len(h.blks),
           NEW x, BlkInv(x), x.id = h.blks[j].id,
           NEW curr \in Ids(h) \cup {None}, NEW nSeg \in Int, NEW currUse \in Int
    PROVE  Replaced(h, Put(h, j, x, curr, nSeg, currUse), j, x)
  <1> DEFINE bs == [h.blks EXCEPT ![j] = x]
             g == Put(h, j, x, curr, nSeg, currUse)
  <1>1. h \in Heap /\ x \in Blk
    BY DEF HeapInv, BlkInv
  <1>2. h.blks \in Seq(Blk) /\ h.totUse \in Int /\ Ids(h) \subseteq Nat
    BY <1>1, HeapFields
  <1>3. bs = [h.blks EXCEPT ![j] = x]
    OBVIOUS
  <1> HIDE DEF bs
  <1>4. /\ bs \in Seq(Blk) /\ Len(bs) = Len(h.blks) /\ bs[j] = x
        /\ \A i \in 1 .. Len(h.blks) : i # j => bs[i] = h.blks[i]
    BY ONLY <1>1, <1>2, <1>3, j \in 1 .. Len(h.blks), PutBlk
  <1>5. g = [blks |-> bs, curr |-> curr, nSeg |-> nSeg, currUse |-> currUse, totUse |-> h.totUse]
    BY DEF bs, Put
  <1> HIDE DEF g
  <1>6. g.blks = bs /\ g.curr = curr /\ g.totUse = h.totUse
    BY ONLY <1>5
  <1>7. g \in Heap
    BY <1>2, <1>4, <1>5 DEF Heap, None
  <1>8. \A i \in 1 .. Len(h.blks) : BlkInv(g.blks[i]) /\ g.blks[i].id = h.blks[i].id
    BY <1>4, <1>6 DEF HeapInv
  <1>9. HeapInv(g) /\ Ids(g) = Ids(h)
    <2>1. g.curr \in Ids(h) \cup {None} /\ HeapInv(h)
      BY <1>6
    <2> QED BY ONLY <2>1, <1>4, <1>6, <1>7, <1>8, HeapIntro
  <1> QED BY ONLY <1>4, <1>6, <1>9 DEF Replaced, g

\* The same segments are in use in the new block, as they were.
LEMMA ReplacedSame ==
    ASSUME NEW h, HeapInv(h), NEW j \in 1 .. Len(h.blks), NEW x, NEW g, Replaced(h, g, j, x),
           x.id = h.blks[j].id, x.len = h.blks[j].len, UsedSet(x.seg) = UsedSet(h.blks[j].seg),
           \A o \in UsedSet(x.seg) : x.seg[o] = h.blks[j].seg[o]
    PROVE  Same(h, g)
  <1>1. /\ Len(g.blks) = Len(h.blks) /\ g.blks[j] = x
        /\ \A i \in 1 .. Len(h.blks) : i # j => g.blks[i] = h.blks[i]
    BY DEF Replaced
  <1>2. Len(h.blks) \in Nat
    BY HeapFields DEF HeapInv
  <1>3. ASSUME NEW i \in 1 .. Len(h.blks)
        PROVE  /\ g.blks[i].id = h.blks[i].id /\ g.blks[i].len = h.blks[i].len
               /\ UsedSet(g.blks[i].seg) = UsedSet(h.blks[i].seg)
               /\ \A o \in UsedSet(h.blks[i].seg) : g.blks[i].seg[o] = h.blks[i].seg[o]
    BY <1>1
  <1>4. Kept(h, g)
    BY <1>1, <1>2, <1>3 DEF Kept, Used
  <1>5. \A i \in Nat : Used(g, i) = Used(h, i)
    BY <1>1, <1>3 DEF Used
  <1> QED BY <1>4, <1>5 DEF Same

\* A heap is what it is.
LEMMA SameRefl == ASSUME NEW h, HeapInv(h) PROVE Same(h, h)
  <1>1. Len(h.blks) \in Nat
    BY HeapFields DEF HeapInv
  <1> QED BY <1>1 DEF Same, Kept

\* What is taken after a step that left all segments in use as they were.
LEMMA TakingFrom ==
    ASSUME NEW h, HeapInv(h), NEW g, HeapInv(g), Same(h, g),
           NEW f, NEW s, NEW r, Taking(g, f, s, r)
    PROVE  Taking(h, f, s, r)
  <1>1. h \in Heap /\ g \in Heap /\ f \in Heap /\ HeapInv(f)
    BY DEF HeapInv, Taking
  <1>2. PICK j \in 1 .. Len(f.blks), o \in Nat :
          s = [blk |-> f.blks[j].id, off |-> o] /\ More(g, f, j, o, r)
    BY DEF Taking
  <1>3. j \in Nat
    OBVIOUS
  <1>4. More(h, f, j, o, r)
    BY ONLY <1>1, <1>2, <1>3, Same(h, g), SameMore
  <1> QED BY <1>1, <1>2, <1>4 DEF Taking

\* The bound of one block is put right.
LEMMA CorrectedAt ==
    ASSUME NEW h, HeapInv(h), NEW j \in 1 .. Len(h.blks), h.blks[j].free # <<>>, NEW g,
           g = [h EXCEPT !.blks[j] = Corrected(@)]
    PROVE  HeapInv(g) /\ Same(h, g) /\ (Balanced(h) => Balanced(g))
  <1> DEFINE x == Corrected(h.blks[j])
  <1>1. h \in Heap /\ BlkInv(h.blks[j])
    BY DEF HeapInv
  <1>2. BlkInv(x) /\ x.id = h.blks[j].id /\ x.len = h.blks[j].len /\ x.seg = h.blks[j].seg
    BY <1>1, CorrectedInv
  <1>3. /\ h.curr \in Ids(h) \cup {None} /\ h.nSeg \in Int /\ h.currUse \in Int
        /\ DOMAIN h.blks = 1 .. Len(h.blks)
    BY <1>1, HeapFields DEF HeapInv
  <1> HIDE DEF x
  <1>4. g = Put(h, j, x, h.curr, h.nSeg, h.currUse)
    BY <1>1 DEF Heap, x, Put
  <1>5. Replaced(h, g, j, x)
    BY ONLY <1>2, <1>3, <1>4, HeapInv(h), j \in 1 .. Len(h.blks), ReplacedInv
  <1>6. Same(h, g)
    BY ONLY <1>2, <1>5, HeapInv(h), j \in 1 .. Len(h.blks), ReplacedSame
  <1>7. Balanced(h) => Balanced(g)
    <2>1. g.nSeg = h.nSeg /\ g.currUse = h.currUse /\ g.totUse = h.totUse
      BY ONLY <1>4 DEF Put
    <2>2. Len(g.blks) = Len(h.blks)
      BY <1>5 DEF Replaced
    <2> QED BY ONLY <2>1, <2>2, <1>6, SameBalanced
  <1> QED BY <1>5, <1>6, <1>7 DEF Replaced

\* What alloc returns: no segment, and all segments in use are as they were, or
\* one more.
Allocated(h, a, r) ==
    /\ a.called \in BOOLEAN
    /\ Balanced(h) => Balanced(a.heap)
    /\ \/ a.seg = NoSegment /\ HeapInv(a.heap) /\ Same(h, a.heap)
       \/ Taking(h, a.heap, a.seg, r)

\* alloc returns a segment that was not in use, or none, and keeps the heap well
\* formed, whether or not it may add a block.
LEMMA AllocInv ==
    ASSUME NEW h, HeapInv(h), NEW req \in Nat, NEW mayAdd \in BOOLEAN
    PROVE  Allocated(h, Alloc(h, req, mayAdd), req)
  <1> DEFINE a == Alloc(h, req, mayAdd)
             none(g, called) == [heap |-> g, seg |-> NoSegment, called |-> called]
             some(g, j, called) == [heap |-> Taken(g, j, req), seg |-> SegmentAt(g, j, req), called |-> called]
             g == IF h.curr = None THEN h
                  ELSE [h EXCEPT !.blks = Searched(h, req), !.curr = StartBlk(h)]
             f == AddBlk(g, req)
             L == Len(h.blks)
             v == [f EXCEPT !.blks[L + 1] = Corrected(@)]
  <1>1. a = IF req = 0 THEN none(h, FALSE)
            ELSE IF h.curr # None /\ Found(h, req) # {}
            THEN some(g, CHOOSE j \in Found(h, req) : TRUE, FALSE)
            ELSE IF mayAdd /\ CanAdd(g, req)
            THEN IF Data(AddedLen(g, req)) >= req
                 THEN some(f, L + 1, TRUE)
                 ELSE none(v, TRUE)
            ELSE none(g, mayAdd)
    BY DEF Alloc
  <1>2. /\ HeapInv(g) /\ Same(h, g) /\ Len(g.blks) = L
        /\ Balanced(h) => Balanced(g)
        /\ h.curr # None => \A j \in Found(h, req) : /\ j \in 1 .. Len(g.blks)
                                                     /\ Fits(g.blks[j], req) # {}
    <2>1. CASE h.curr = None
      BY <2>1, SameRefl
    <2>2. CASE h.curr # None
      <3>1. g = SearchedHeap(h, req)
        BY <2>2 DEF SearchedHeap
      <3> HIDE DEF g
      <3>2. /\ HeapInv(g) /\ Same(h, g) /\ Len(g.blks) = Len(h.blks)
            /\ Balanced(h) => Balanced(g)
            /\ \A j \in Found(h, req) : j \in 1 .. Len(g.blks) /\ g.blks[j] = h.blks[j]
                                        /\ Fits(h.blks[j], req) # {}
        BY ONLY <3>1, HeapInv(h), SearchedInv
      <3>3. \A j \in Found(h, req) : j \in 1 .. Len(g.blks) /\ Fits(g.blks[j], req) # {}
        BY <3>2
      <3> QED BY ONLY <3>2, <3>3 DEF L
    <2> QED BY <2>1, <2>2
  <1> HIDE DEF g, a
  <1>3. ASSUME NEW x, NEW c \in BOOLEAN, a = none(x, c), HeapInv(x), Same(h, x), Balanced(h) => Balanced(x)
        PROVE  Allocated(h, a, req)
    <2>1. a.heap = x /\ a.seg = NoSegment /\ a.called = c
      BY ONLY <1>3
    <2> QED BY <2>1, <1>3 DEF Allocated
  <1>4. ASSUME NEW x, NEW j, NEW c \in BOOLEAN, a = some(x, j, c),
               Taking(h, Taken(x, j, req), SegmentAt(x, j, req), req),
               Balanced(h) => Balanced(Taken(x, j, req))
        PROVE  Allocated(h, a, req)
    <2>1. a.heap = Taken(x, j, req) /\ a.seg = SegmentAt(x, j, req) /\ a.called = c
      BY ONLY <1>4
    <2> QED BY <2>1, <1>4 DEF Allocated
  <1> HIDE DEF none, some
  <1>4a. TRUE \in BOOLEAN /\ FALSE \in BOOLEAN
    OBVIOUS
  <1>5. CASE req = 0
    <2>1. a = none(h, FALSE)
      BY ONLY <1>1, <1>5
    <2> QED BY ONLY <2>1, <1>3, <1>4a, SameRefl, HeapInv(h) DEF a
  <1>6. CASE req # 0 /\ h.curr # None /\ Found(h, req) # {}
    <2> DEFINE j == CHOOSE j \in Found(h, req) : TRUE
    <2>1. a = some(g, j, FALSE)
      BY ONLY <1>1, <1>6
    <2>2. j \in Found(h, req)
      BY <1>6
    <2> HIDE DEF j
    <2>3. j \in 1 .. Len(g.blks) /\ Fits(g.blks[j], req) # {} /\ req \in Nat \ {0}
      BY <2>2, <1>2, <1>6
    <2>4. /\ Taking(g, Taken(g, j, req), SegmentAt(g, j, req), req)
          /\ Balanced(g) => Balanced(Taken(g, j, req))
      BY ONLY <2>3, <1>2, TakenInv
    <2>5. Taking(h, Taken(g, j, req), SegmentAt(g, j, req), req)
      BY ONLY <2>4, <1>2, HeapInv(h), TakingFrom
    <2> QED BY ONLY <2>1, <2>4, <2>5, <1>2, <1>4, <1>4a DEF a
  <1>7. CASE req # 0 /\ ~(h.curr # None /\ Found(h, req) # {}) /\ mayAdd /\ CanAdd(g, req)
    <2> DEFINE len == AddedLen(g, req)
    <2>1. /\ HeapInv(f) /\ Same(g, f) /\ (Balanced(g) => Balanced(f)) /\ len \in Nat /\ Len(f.blks) = L + 1
          /\ \E id \in Nat : f.blks[L + 1] = NewBlk(id, len)
      <3>1. req \in Nat \ {0}
        BY <1>7
      <3> QED BY ONLY <3>1, <1>2, <1>7, AddBlkInv
    <2>2. PICK id \in Nat : f.blks[L + 1] = NewBlk(id, len)
      BY <2>1
    <2>3. Same(h, f)
      BY <2>1, <1>2, SameMore DEF HeapInv
    <2>4. L + 1 \in 1 .. Len(f.blks)
      BY <2>1, HeapFields DEF HeapInv
    <2>5. /\ f.blks[L + 1].free = <<0>> /\ f.blks[L + 1].seg = [o \in {0} |-> FreeDescr(Data(len))]
      BY <2>2 DEF NewBlk
    <2> HIDE DEF f
    <2>6. CASE Data(len) >= req
      <3>1. a = some(f, L + 1, TRUE)
        BY ONLY <1>1, <1>7, <2>6
      <3>2. Fits(f.blks[L + 1], req) # {}
        <4>1. f.blks[L + 1].seg[0].len = Data(len)
          BY <2>5 DEF FreeDescr
        <4>2. 1 \in DOMAIN f.blks[L + 1].free /\ f.blks[L + 1].free[1] = 0
          BY <2>5
        <4>3. 1 \in Fits(f.blks[L + 1], req)
          BY <4>1, <4>2, <2>6 DEF Fits
        <4> QED BY <4>3
      <3>3. req \in Nat \ {0}
        BY <1>7
      <3>4. /\ Taking(f, Taken(f, L + 1, req), SegmentAt(f, L + 1, req), req)
            /\ Balanced(f) => Balanced(Taken(f, L + 1, req))
        BY ONLY <3>2, <3>3, <2>1, <2>4, TakenInv
      <3>5. Taking(h, Taken(f, L + 1, req), SegmentAt(f, L + 1, req), req)
        BY ONLY <3>4, <2>1, <2>3, HeapInv(h), TakingFrom
      <3> QED BY ONLY <3>1, <3>4, <3>5, <2>1, <1>2, <1>4, <1>4a DEF a
    <2>7. CASE ~(Data(len) >= req)
      <3>1. a = none(v, TRUE)
        BY ONLY <1>1, <1>7, <2>7
      <3>2. HeapInv(v) /\ Same(f, v) /\ (Balanced(f) => Balanced(v))
        <4>1. f.blks[L + 1].free # <<>>
          BY <2>5
        <4> QED BY ONLY <4>1, <2>1, <2>4, CorrectedAt
      <3>3. Same(h, v)
        BY <3>2, <2>1, <2>3, SameMore DEF HeapInv
      <3> QED BY ONLY <3>1, <3>2, <3>3, <2>1, <1>2, <1>3, <1>4a DEF a
    <2> QED BY <2>6, <2>7
  <1>8. CASE req # 0 /\ ~(h.curr # None /\ Found(h, req) # {}) /\ ~(mayAdd /\ CanAdd(g, req))
    <2>1. a = none(g, mayAdd)
      BY ONLY <1>1, <1>8
    <2> QED BY ONLY <2>1, <1>2, <1>3, mayAdd \in BOOLEAN DEF a
  <1> QED BY <1>5, <1>6, <1>7, <1>8 DEF a

-----------------------------------------------------------------------------
(* Release.                                                                *)

\* A walk along the list stops on the two sides of the segment.
LEMMA WalkStops ==
    ASSUME NEW b, BlkInv(b), NEW o \in UsedSet(b.seg)
    PROVE  \E m \in Nat : /\ Around(b.free, m, o)
                          /\ PrevFree(b, o) = PrevAt(b.free, m)
                          /\ NextFree(b, o) = NextAt(b.free, m)
  <1> DEFINE l == b.free
             L == Len(l)
             I == {i \in 1 .. L : l[i] > o}
             k == SelectInSeq(l, LAMBDA x : x > o)
             n == IF k = 0 THEN L ELSE k - 1
  <1>1. /\ Lists(l, FreeSet(b.seg)) /\ L \in Nat /\ o \in Nat /\ o \notin FreeSet(b.seg)
    BY SegMapElim DEF BlkInv, Lists, Segments, UsedSet, FreeSet
  <1>2. k = IF I # {} THEN Min(I) ELSE 0
    BY DEF SelectInSeq
  <1>3. I # {} => Min(I) \in I /\ \A y \in I : Min(I) <= y
    <2>1. I \subseteq Nat
      OBVIOUS
    <2> HIDE DEF I
    <2> QED BY ONLY <2>1, LeastExists
  <1>4. PrevFree(b, o) = (IF n = 0 THEN None ELSE l[n]) /\ NextFree(b, o) = IF k = 0 THEN None ELSE l[k]
    BY DEF PrevFree, NextFree
  <1>5. \A i \in 1 .. L : l[i] \in Nat /\ l[i] # o
    BY <1>1, ListItem
  <1> HIDE DEF k, l, L
  <1>6. CASE I = {}
    <2>1. n = L /\ k = 0
      BY ONLY <1>2, <1>6
    <2>2. Around(l, n, o)
      <3>1. \A i \in 1 .. L : l[i] < o
        BY <1>1, <1>5, <1>6
      <3> QED BY <3>1, <2>1, <1>1 DEF Around, L
    <2>3. PrevFree(b, o) = PrevAt(l, n) /\ NextFree(b, o) = NextAt(l, n)
      BY <2>1, <1>4 DEF PrevAt, NextAt, L
    <2> QED BY <2>1, <2>2, <2>3, <1>1 DEF l
  <1>7. CASE I # {}
    <2>1. k \in 1 .. L /\ o < l[k] /\ \A i \in 1 .. L : o < l[i] => k <= i
      <3>1. k \in I /\ \A i \in I : k <= i
        BY ONLY <1>2, <1>3, <1>7
      <3> QED BY <3>1, <1>1, <1>5
    <2>2. n = k - 1 /\ n \in 0 .. L /\ n # L /\ n + 1 = k /\ k # 0
      BY ONLY <2>1, <1>1
    <2>3. \A i \in 1 .. n : l[i] < o
      <3> SUFFICES ASSUME NEW i \in 1 .. n PROVE l[i] < o
        OBVIOUS
      <3>1. i \in 1 .. L /\ ~(k <= i)
        BY ONLY <2>1, <2>2, <1>1, i \in 1 .. n
      <3> QED BY <3>1, <2>1, <1>1, <1>5
    <2>4. \A i \in (n + 1) .. L : o < l[i]
      <3> SUFFICES ASSUME NEW i \in k .. L PROVE o < l[i]
        BY <2>2
      <3>1. i \in 1 .. L /\ (i = k \/ k < i)
        BY ONLY <2>1, <1>1, i \in k .. L
      <3>2. k < i => l[k] < l[i]
        BY <3>1, <2>1, <1>1 DEF Lists, L
      <3>3. l[k] \in Nat /\ l[i] \in Nat
        BY <3>1, <2>1, <1>5
      <3> QED BY ONLY <3>1, <3>2, <3>3, <2>1, <1>1
    <2>5. Around(l, n, o)
      BY ONLY <2>2, <2>3, <2>4 DEF Around, L
    <2>6. PrevFree(b, o) = PrevAt(l, n) /\ NextFree(b, o) = NextAt(l, n)
      BY ONLY <2>2, <1>4 DEF PrevAt, NextAt, L
    <2>7. n \in Nat
      BY <2>2
    <2> HIDE DEF n
    <2> QED BY <2>5, <2>6, <2>7 DEF l
  <1> QED BY <1>6, <1>7

\* A block that was linked, with the count and the bound the caller sets.
Counted(c, n, max) ==
    [id |-> c.id, len |-> c.len, seg |-> c.seg, free |-> c.free,
     maxFree |-> max, nAlloc |-> n, nFree |-> c.nFree]

\* A block after a segment was released, if the count stays high enough.
LEMMA ReleasedInv ==
    ASSUME NEW b, BlkInv(b), NEW o \in UsedSet(b.seg), NEW m, NEW c, LinkedBlk(b, c, m, o),
           NEW n \in Nat, n >= b.nAlloc - 1, NEW max \in Nat
    PROVE  LET e == Counted(c, n, max)
           IN  /\ BlkInv(e) /\ e.id = c.id /\ e.len = c.len
               /\ e.seg = c.seg /\ e.free = c.free
  <1> DEFINE e == Counted(c, n, max)
  <1>1. /\ c \in Blk /\ Segments(c.seg, DataLen(c)) /\ Lists(c.free, FreeSet(c.seg))
        /\ c.nFree = Len(c.free) /\ UsedSet(c.seg) = UsedSet(b.seg) \ {o}
    BY DEF LinkedBlk
  <1>1a. e = [id |-> c.id, len |-> c.len, seg |-> c.seg, free |-> c.free,
              maxFree |-> max, nAlloc |-> n, nFree |-> c.nFree]
    BY DEF Counted
  <1> HIDE DEF e
  <1>2. /\ e.id = c.id /\ e.len = c.len /\ e.seg = c.seg /\ e.free = c.free
        /\ e.nAlloc = n /\ e.nFree = c.nFree /\ e.maxFree = max
    BY ONLY <1>1a
  <1>3. e \in Blk
    BY <1>1, <1>1a, BlkFields DEF Blk
  <1>4. DataLen(e) = DataLen(c)
    BY <1>2 DEF DataLen
  <1>5. n >= Cardinality(UsedSet(c.seg))
    <2>1. IsFiniteSet(UsedSet(b.seg)) /\ Cardinality(UsedSet(b.seg)) \in Nat
      BY UsedFinite, BlkFields DEF BlkInv
    <2>2. Cardinality(UsedSet(b.seg) \ {o}) = Cardinality(UsedSet(b.seg)) - 1
      BY <2>1, FS_RemoveElement
    <2>3. b.nAlloc \in Nat /\ b.nAlloc >= Cardinality(UsedSet(b.seg))
      BY BlkFields DEF BlkInv
    <2> QED BY ONLY <2>1, <2>2, <2>3, <1>1, n \in Nat, n >= b.nAlloc - 1
  <1>6. BlkInv(e)
    BY ONLY <1>1, <1>2, <1>3, <1>4, <1>5 DEF BlkInv
  <1> QED BY <1>2, <1>6 DEF e

\* g is h without the segment in use at o of the block at j; or without that
\* block.
Less(h, g, j, o) ==
    /\ HeapInv(g) /\ Len(g.blks) = Len(h.blks)
    /\ \A i \in 1 .. Len(h.blks) :
         /\ g.blks[i].id = h.blks[i].id /\ g.blks[i].len = h.blks[i].len
         /\ Used(g, i) = Used(h, i) \ (IF i = j THEN {o} ELSE {})
         /\ \A x \in Used(g, i) : g.blks[i].seg[x] = h.blks[i].seg[x]

Without(h, g, j) ==
    /\ HeapInv(g)
    /\ Len(g.blks) = Len(h.blks) - 1
    /\ \A i \in 1 .. Len(h.blks) : /\ i < j => g.blks[i] = h.blks[i]
                                   /\ i > j => g.blks[i - 1] = h.blks[i]

\* One segment less is in use in one block.
LEMMA LessBlk ==
    ASSUME NEW h, HeapInv(h), NEW j \in 1 .. Len(h.blks), NEW o, NEW x, NEW g, Replaced(h, g, j, x),
           x.id = h.blks[j].id, x.len = h.blks[j].len,
           UsedSet(x.seg) = UsedSet(h.blks[j].seg) \ {o},
           \A y \in UsedSet(x.seg) : x.seg[y] = h.blks[j].seg[y]
    PROVE  Less(h, g, j, o)
  <1>1. /\ HeapInv(g) /\ Len(g.blks) = Len(h.blks) /\ g.blks[j] = x
        /\ \A i \in 1 .. Len(h.blks) : i # j => g.blks[i] = h.blks[i]
    BY DEF Replaced
  <1>2. ASSUME NEW i \in 1 .. Len(h.blks)
        PROVE  /\ g.blks[i].id = h.blks[i].id /\ g.blks[i].len = h.blks[i].len
               /\ UsedSet(g.blks[i].seg) = UsedSet(h.blks[i].seg) \ (IF i = j THEN {o} ELSE {})
               /\ \A y \in UsedSet(g.blks[i].seg) : g.blks[i].seg[y] = h.blks[i].seg[y]
    <2>1. CASE i = j
      BY <2>1, <1>1
    <2>2. CASE i # j
      BY <2>2, <1>1
    <2> QED BY <2>1, <2>2
  <1> QED BY <1>1, <1>2 DEF Less, Used

\* A block leaves the list: the others keep what they have.
LEMMA WithoutInv ==
    ASSUME NEW h, HeapInv(h), NEW j \in 1 .. Len(h.blks)
    PROVE  LET g == WithoutBlk(h, j)
           IN  /\ Without(h, g, j)
               /\ g.nSeg = h.nSeg /\ g.currUse = h.currUse /\ g.totUse = h.totUse - h.blks[j].len
  <1> DEFINE bs == RemoveAt(h.blks, j)
             L == Len(h.blks)
             g == WithoutBlk(h, j)
             curr == IF h.curr = h.blks[j].id THEN HdBlk(bs) ELSE h.curr
             use == h.totUse - h.blks[j].len
  <1>1. h \in Heap /\ \A i \in 1 .. L : BlkInv(h.blks[i]) /\ h.blks[i] \in Blk
    BY DEF HeapInv, BlkInv
  <1>2. /\ h.blks \in Seq(Blk) /\ L \in Nat /\ h.curr \in Int /\ h.nSeg \in Int
        /\ h.currUse \in Int /\ h.totUse \in Int /\ h.blks[j].len \in Nat /\ j \in Nat
    BY <1>1, HeapFields, BlkFields
  <1>3. /\ bs \in Seq(Blk) /\ Len(bs) = L - 1
        /\ \A i \in 1 .. (L - 1) : bs[i] = IF i < j THEN h.blks[i] ELSE h.blks[i + 1]
    <2> DEFINE p == SubSeq(h.blks, 1, j - 1)
               q == SubSeq(h.blks, j + 1, L)
    <2>1. /\ p \in Seq(Blk) /\ Len(p) = j - 1 /\ \A i \in 1 .. (j - 1) : p[i] = h.blks[i]
      <3>1. /\ p \in Seq(Blk)
            /\ Len(p) = IF 1 <= j - 1 THEN j - 1 - 1 + 1 ELSE 0
            /\ \A i \in 1 .. j - 1 - 1 + 1 : p[i] = h.blks[1 + i - 1]
        <4>1. \A i \in 1 .. (j - 1) : i \in 1 .. L
          BY <1>2
        <4> QED BY <4>1, <1>2, SubSeqProperties
      <3>2. \A i \in 1 .. (j - 1) : i \in 1 .. j - 1 - 1 + 1 /\ 1 + i - 1 = i
        BY <1>2
      <3> HIDE DEF p
      <3> QED BY <3>1, <3>2, <1>2
    <2>2. /\ q \in Seq(Blk) /\ Len(q) = L - j /\ \A i \in 1 .. (L - j) : q[i] = h.blks[j + i]
      <3>1. /\ q \in Seq(Blk)
            /\ Len(q) = IF j + 1 <= L THEN L - (j + 1) + 1 ELSE 0
            /\ \A i \in 1 .. L - (j + 1) + 1 : q[i] = h.blks[j + 1 + i - 1]
        <4>1. \A i \in (j + 1) .. L : i \in 1 .. L
          BY <1>2
        <4> QED BY <4>1, <1>2, SubSeqProperties
      <3>2. \A i \in 1 .. (L - j) : i \in 1 .. L - (j + 1) + 1 /\ j + 1 + i - 1 = j + i
        BY <1>2
      <3> HIDE DEF q
      <3> QED BY <3>1, <3>2, <1>2
    <2>3. bs = p \o q
      BY DEF RemoveAt
    <2> HIDE DEF p, q, bs
    <2>4. /\ bs \in Seq(Blk) /\ Len(bs) = Len(p) + Len(q)
          /\ \A i \in 1 .. Len(p) + Len(q) : bs[i] = IF i <= Len(p) THEN p[i] ELSE q[i - Len(p)]
      BY ONLY <2>1, <2>2, <2>3, ConcatProperties
    <2>5. ASSUME NEW i \in 1 .. (L - 1)
          PROVE  bs[i] = IF i < j THEN h.blks[i] ELSE h.blks[i + 1]
      <3>1. i \in 1 .. Len(p) + Len(q)
        BY <2>1, <2>2, <1>2
      <3>2. CASE i < j
        <4>1. i <= Len(p) /\ i \in 1 .. (j - 1)
          BY <3>2, <2>1, <1>2
        <4> QED BY <4>1, <3>1, <3>2, <2>1, <2>4
      <3>3. CASE ~(i < j)
        <4>1. ~(i <= Len(p)) /\ i - Len(p) \in 1 .. (L - j) /\ j + (i - Len(p)) = i + 1
          BY <3>3, <2>1, <1>2
        <4> QED BY <4>1, <3>1, <3>3, <2>2, <2>4
      <3> QED BY <3>2, <3>3
    <2> QED BY <2>1, <2>2, <2>4, <2>5, <1>2
  <1>4. g = [h EXCEPT !.blks = bs, !.totUse = @ - h.blks[j].len,
                      !.curr = IF @ = h.blks[j].id THEN HdBlk(bs) ELSE @]
    BY DEF WithoutBlk
  <1> HIDE DEF g, bs
  <1>5. g = [blks |-> bs, curr |-> curr, nSeg |-> h.nSeg, currUse |-> h.currUse, totUse |-> use]
    BY <1>1, <1>4 DEF Heap
  <1> HIDE DEF curr, use
  <1>6. g.blks = bs /\ g.curr = curr /\ g.totUse = use
    BY ONLY <1>5
  <1>7. ASSUME NEW i \in 1 .. (L - 1)
        PROVE  \E k \in 1 .. L : k # j /\ bs[i] = h.blks[k] /\ (IF i < j THEN k = i ELSE k = i + 1)
    <2>1. i < j => i \in 1 .. L /\ i # j
      BY <1>2
    <2>2. ~(i < j) => i + 1 \in 1 .. L /\ i + 1 # j
      BY <1>2
    <2> QED BY <2>1, <2>2, <1>3
  <1>8. \A i \in 1 .. L : /\ i < j => i \in 1 .. (L - 1) /\ bs[i] = h.blks[i]
                          /\ i > j => i - 1 \in 1 .. (L - 1) /\ bs[i - 1] = h.blks[i]
    <2> SUFFICES ASSUME NEW i \in 1 .. L
                 PROVE  /\ i < j => i \in 1 .. (L - 1) /\ bs[i] = h.blks[i]
                        /\ i > j => i - 1 \in 1 .. (L - 1) /\ bs[i - 1] = h.blks[i]
      OBVIOUS
    <2>1. i < j => i \in 1 .. (L - 1)
      BY <1>2
    <2>2. i > j => i - 1 \in 1 .. (L - 1) /\ ~(i - 1 < j) /\ i - 1 + 1 = i
      BY <1>2
    <2> QED BY <2>1, <2>2, <1>3
  <1>9. /\ Ids(h) = {h.blks[i].id : i \in 1 .. L} /\ h.curr \in Ids(h) \cup {None}
    BY HeapFields DEF HeapInv
  <1>10. curr \in {bs[i].id : i \in 1 .. (L - 1)} \cup {None} /\ curr \in Int
    <2>1. CASE h.curr = h.blks[j].id
      <3>1. curr = IF bs = <<>> THEN None ELSE bs[1].id
        BY <2>1 DEF curr, HdBlk
      <3>2. bs # <<>> => 1 \in 1 .. (L - 1)
        BY <1>2, <1>3
      <3>3. bs # <<>> => bs[1].id \in Int
        BY <3>2, <1>1, <1>7, BlkFields
      <3> QED BY <3>1, <3>2, <3>3 DEF None
    <2>2. CASE h.curr # h.blks[j].id
      <3>1. curr = h.curr
        BY <2>2 DEF curr
      <3>2. ASSUME h.curr # None PROVE h.curr \in {bs[i].id : i \in 1 .. (L - 1)}
        <4>1. PICK i \in 1 .. L : h.curr = h.blks[i].id
          BY <3>2, <1>9
        <4>2. i < j \/ i > j
          BY <4>1, <2>2, <1>2
        <4> QED BY <4>1, <4>2, <1>8
      <3> QED BY <3>1, <3>2, <1>2
    <2> QED BY <2>1, <2>2
  <1>11. g \in Heap /\ (Limit # 0 => g.totUse <= Limit)
    <2>1. use \in Int /\ use <= h.totUse
      BY <1>2 DEF use
    <2>2. Limit # 0 => h.totUse <= Limit
      BY DEF HeapInv
    <2>3. Limit \in Nat
      BY LengthAssumption
    <2>4. g \in Heap
      BY ONLY <2>1, <1>2, <1>3, <1>5, <1>10 DEF Heap
    <2> QED BY <2>1, <2>2, <2>3, <2>4, <1>2, <1>6
  <1>12. HeapInv(g)
    <2>1. \A i \in 1 .. (L - 1) : BlkInv(bs[i])
      BY <1>1, <1>7
    <2>2. ASSUME NEW i \in 1 .. (L - 1), NEW k \in 1 .. (L - 1), bs[i].id = bs[k].id PROVE i = k
      <3>1. PICK x \in 1 .. L : bs[i] = h.blks[x] /\ (IF i < j THEN x = i ELSE x = i + 1)
        BY <1>7
      <3>2. PICK y \in 1 .. L : bs[k] = h.blks[y] /\ (IF k < j THEN y = k ELSE y = k + 1)
        BY <1>7
      <3>3. x = y
        BY <3>1, <3>2, <2>2 DEF HeapInv
      <3> QED BY ONLY <3>1, <3>2, <3>3, <1>2, i \in 1 .. (L - 1), k \in 1 .. (L - 1)
    <2>3. g.curr \in Ids(g) \cup {None}
      <3>1. Ids(g) = {g.blks[i].id : i \in 1 .. Len(g.blks)}
        BY <1>11, HeapFields
      <3>2. Ids(g) = {bs[i].id : i \in 1 .. (L - 1)}
        BY ONLY <3>1, <1>3, <1>6
      <3> QED BY ONLY <3>2, <1>6, <1>10
    <2> QED BY <2>1, <2>2, <2>3, <1>3, <1>6, <1>11 DEF HeapInv
  <1>13. g.nSeg = h.nSeg /\ g.currUse = h.currUse /\ g.totUse = h.totUse - h.blks[j].len
    <2>1. g.nSeg = h.nSeg /\ g.currUse = h.currUse
      BY ONLY <1>5
    <2> QED BY <2>1, <1>6 DEF use
  <1> QED BY <1>3, <1>6, <1>8, <1>12, <1>13 DEF Without, g

\* A segment less counts as one, with its length.
LEMMA LessBook ==
    ASSUME NEW h, HeapInv(h), NEW g, NEW j \in Nat, NEW o \in Used(h, j), Less(h, g, j, o),
           NEW n, NEW u, Booked(h, n, u)
    PROVE  /\ Booked(g, n - 1, u - h.blks[j].seg[o].len)
           /\ BlkLens(g) = BlkLens(h)
  <1>0. j \in 1 .. Len(h.blks) /\ o \in Nat
    <2>1. j \in 1 .. Len(h.blks) /\ o \in DOMAIN h.blks[j].seg
      BY DEF Used, UsedSet
    <2>2. DOMAIN h.blks[j].seg \subseteq Nat
      BY <2>1, SegMapElim DEF HeapInv, BlkInv, Segments
    <2> QED BY <2>1, <2>2
  <1>1. /\ HeapInv(g) /\ Len(g.blks) = Len(h.blks) /\ Len(h.blks) \in Nat
        /\ \A i \in 1 .. Len(h.blks) :
             /\ g.blks[i].len = h.blks[i].len
             /\ Used(g, i) = Used(h, i) \ (IF i = j THEN {o} ELSE {})
             /\ \A x \in Used(g, i) : g.blks[i].seg[x] = h.blks[i].seg[x]
    BY HeapFields DEF Less, HeapInv
  <1>2. \A i \in Nat : Used(g, i) = Used(h, i) \ (IF i = j THEN {o} ELSE {})
    BY <1>1 DEF Used
  <1>3. Uses(g) = Uses(h) \ {<<j, o>>} /\ <<j, o>> \in Uses(h)
    <2>1. <<j, o>> \in Uses(h)
      BY <1>0, UseIs
    <2> QED BY <2>1, <1>0, <1>2 DEF Uses
  <1>4. ASSUME NEW x \in Uses(g)
        PROVE  UseLens(g)[x] = UseLens(h)[x]
    <2>1. x[1] \in 1 .. Len(h.blks) /\ x[2] \in Used(g, x[1]) /\ x \in Uses(h)
      BY <1>1, <1>3 DEF Uses, Used
    <2> QED BY <2>1, <1>1 DEF UseLens
  <1>5. UseLens(h)[<<j, o>>] = h.blks[j].seg[o].len
    BY <1>3 DEF UseLens
  <1>6. DOMAIN UseLens(h) = Uses(h) /\ DOMAIN UseLens(g) = Uses(g) /\ Sized(UseLens(h))
    BY BookSized DEF UseLens
  <1>7. /\ Total(UseLens(h)) = Total(UseLens(g)) + UseLens(h)[<<j, o>>]
        /\ Total(UseLens(g)) \in Int /\ UseLens(h)[<<j, o>>] \in Int
    BY ONLY <1>3, <1>4, <1>6, TotalMore
  <1>8. Cardinality(Uses(g)) = Cardinality(Uses(h)) - 1
    BY <1>3, BookSized, FS_RemoveElement
  <1>9. BlkLens(g) = BlkLens(h)
    BY <1>1 DEF BlkLens
  <1>10. Total(UseLens(g)) = Total(UseLens(h)) - h.blks[j].seg[o].len
    BY ONLY <1>5, <1>7
  <1> QED BY <1>8, <1>9, <1>10 DEF Booked

\* Where the blocks behind position j were.
WasAt(j, i) == IF i < j THEN i ELSE i + 1

\* Without a block its length, and what was in use there, are not counted.
LEMMA WithoutBook ==
    ASSUME NEW h, HeapInv(h), NEW j \in 1 .. Len(h.blks), NEW g, Without(h, g, j),
           NEW n, NEW u, Booked(h, n, u)
    PROVE  /\ Used(h, j) = {} => Booked(g, n, u)
           /\ \A o : Used(h, j) = {o} => Booked(g, n - 1, u - h.blks[j].seg[o].len)
           /\ Total(BlkLens(g)) = Total(BlkLens(h)) - h.blks[j].len
  <1> DEFINE L == Len(h.blks)
             Rest == {x \in Uses(h) : x[1] # j}
             rest == [x \in Rest |-> UseLens(h)[x]]
             m == [x \in Uses(g) |-> <<WasAt(j, x[1]), x[2]>>]
  <1>1. HeapInv(g) /\ L \in Nat /\ Len(g.blks) = L - 1 /\ j \in 1 .. L /\ j \in Nat
    BY HeapFields DEF Without, HeapInv
  <1>2. \A i \in 1 .. (L - 1) : WasAt(j, i) \in 1 .. L /\ WasAt(j, i) # j /\ g.blks[i] = h.blks[WasAt(j, i)]
    <2> SUFFICES ASSUME NEW i \in 1 .. (L - 1)
                 PROVE  WasAt(j, i) \in 1 .. L /\ WasAt(j, i) # j /\ g.blks[i] = h.blks[WasAt(j, i)]
      OBVIOUS
    <2>1. CASE i < j
      BY <2>1, <1>1 DEF WasAt, Without
    <2>2. CASE ~(i < j)
      <3>1. i + 1 \in 1 .. L /\ i + 1 > j /\ i + 1 - 1 = i
        BY <2>2, <1>1
      <3> QED BY <2>2, <3>1 DEF WasAt, Without
    <2> QED BY <2>1, <2>2
  <1>3. \A i \in 1 .. L : i # j => \E k \in 1 .. (L - 1) : WasAt(j, k) = i
    <2> SUFFICES ASSUME NEW i \in 1 .. L, i # j PROVE \E k \in 1 .. (L - 1) : WasAt(j, k) = i
      OBVIOUS
    <2>1. CASE i < j
      <3>1. i \in 1 .. (L - 1) /\ WasAt(j, i) = i
        BY <2>1, <1>1 DEF WasAt
      <3> QED BY <3>1
    <2>2. CASE i > j
      <3>1. i - 1 \in 1 .. (L - 1) /\ WasAt(j, i - 1) = i
        BY <2>2, <1>1 DEF WasAt
      <3> QED BY <3>1
    <2> QED BY <2>1, <2>2, <1>1
  <1>4. \A i, k \in 1 .. (L - 1) : WasAt(j, i) = WasAt(j, k) => i = k
    BY <1>1 DEF WasAt
  <1>5. \A i \in 1 .. (L - 1) : Used(g, i) = Used(h, WasAt(j, i))
    BY <1>1, <1>2 DEF Used
  <1>6. ASSUME NEW x \in Uses(g)
        PROVE  /\ x[1] \in 1 .. (L - 1) /\ x[2] \in Nat /\ m[x] = <<WasAt(j, x[1]), x[2]>>
               /\ m[x] \in Rest /\ UseLens(g)[x] = rest[m[x]]
    <2>1. x[1] \in 1 .. (L - 1) /\ x[2] \in Nat /\ x[2] \in Used(g, x[1])
      BY <1>1 DEF Uses, Used
    <2>2. m[x] = <<WasAt(j, x[1]), x[2]>>
      OBVIOUS
    <2>3. m[x] \in Rest
      <3>1. x[2] \in Used(h, WasAt(j, x[1])) /\ WasAt(j, x[1]) \in Nat /\ WasAt(j, x[1]) # j
        BY <2>1, <1>2, <1>5
      <3>2. <<WasAt(j, x[1]), x[2]>> \in Uses(h)
        BY <3>1, <2>1, UseIs
      <3> QED BY <3>1, <3>2, <2>2
    <2>4. UseLens(g)[x] = rest[m[x]]
      <3>1. UseLens(g)[x] = g.blks[x[1]].seg[x[2]].len
        BY DEF UseLens
      <3>2. rest[m[x]] = h.blks[WasAt(j, x[1])].seg[x[2]].len
        BY <2>2, <2>3 DEF UseLens
      <3>3. g.blks[x[1]] = h.blks[WasAt(j, x[1])]
        BY <2>1, <1>2
      <3> QED BY ONLY <3>1, <3>2, <3>3
    <2> QED BY <2>1, <2>2, <2>3, <2>4
  <1>7. ASSUME NEW y \in Rest PROVE \E x \in Uses(g) : m[x] = y
    <2>1. y[1] \in 1 .. L /\ y[1] # j /\ y[2] \in Nat /\ y = <<y[1], y[2]>> /\ y[2] \in Used(h, y[1])
      BY UsePair DEF Used
    <2>2. PICK k \in 1 .. (L - 1) : WasAt(j, k) = y[1]
      BY <2>1, <1>3
    <2>3. <<k, y[2]>> \in Uses(g)
      BY <2>1, <2>2, <1>5, UseIs
    <2>4. m[<<k, y[2]>>] = y
      BY <2>1, <2>2, <2>3
    <2> QED BY <2>3, <2>4
  <1>8. ASSUME NEW x \in Uses(g), NEW y \in Uses(g), m[x] = m[y] PROVE x = y
    <2>1. WasAt(j, x[1]) = WasAt(j, y[1]) /\ x[2] = y[2]
      BY <1>6, <1>8
    <2>2. x[1] = y[1]
      BY <2>1, <1>4, <1>6
    <2> QED BY <2>1, <2>2, UsePair
  <1>9. IsFiniteSet(Uses(h)) /\ Sized(UseLens(h)) /\ Sized(BlkLens(h)) /\ IsFiniteSet(Uses(g))
        /\ DOMAIN UseLens(h) = Uses(h) /\ DOMAIN UseLens(g) = Uses(g)
    BY <1>1, BookSized DEF UseLens
  <1>10. DOMAIN m = Uses(g) /\ DOMAIN rest = Rest /\ Sized(rest) /\ Rest \subseteq Uses(h)
    <2>1. IsFiniteSet(Rest)
      BY <1>9, FS_Subset
    <2> QED BY <1>9, <2>1 DEF Sized
  <1> HIDE DEF m, rest
  <1>11. Total(UseLens(g)) = Total(rest)
    <2> HIDE DEF Rest
    <2> QED BY ONLY <1>6, <1>7, <1>8, <1>9, <1>10, TotalMoved
  <1>12. Cardinality(Uses(g)) = Cardinality(Rest)
    <2>1. m \in [Uses(g) -> Rest]
      <3>1. m = [x \in Uses(g) |-> m[x]]
        BY DEF m
      <3> HIDE DEF Rest
      <3> QED BY ONLY <3>1, <1>6
    <2>2. m \in Bijection(Uses(g), Rest)
      <3> HIDE DEF Rest
      <3>1. m \in Injection(Uses(g), Rest)
        <4>1. \A x, y \in Uses(g) : m[x] = m[y] => x = y
          BY ONLY <1>8
        <4> QED BY ONLY <2>1, <4>1, <1>10 DEF Injection, IsInjective
      <3>2. m \in Surjection(Uses(g), Rest)
        BY ONLY <2>1, <1>7 DEF Surjection
      <3> QED BY ONLY <3>1, <3>2 DEF Bijection
    <2> HIDE DEF Rest
    <2>3. ExistsBijection(Uses(g), Rest)
      BY ONLY <2>2 DEF ExistsBijection
    <2> QED BY ONLY <2>3, <1>9, FS_Bijection
  <1>13. ASSUME Used(h, j) = {} PROVE Booked(g, n, u)
    <2>1. Rest = Uses(h)
      BY <1>13 DEF Uses
    <2>2. rest = UseLens(h)
      BY <2>1 DEF rest, UseLens
    <2> QED BY ONLY <2>1, <2>2, <1>11, <1>12, Booked(h, n, u) DEF Booked
  <1>14. ASSUME NEW o, Used(h, j) = {o} PROVE Booked(g, n - 1, u - h.blks[j].seg[o].len)
    <2>1. o \in Nat
      <3>1. o \in DOMAIN h.blks[j].seg
        BY <1>14 DEF Used, UsedSet
      <3> QED BY <3>1, SegMapElim DEF HeapInv, BlkInv, Segments
    <2>2. <<j, o>> \in Uses(h)
      BY <2>1, <1>1, <1>14, UseIs
    <2>3. Rest = Uses(h) \ {<<j, o>>}
      BY <1>14, UsePair
    <2>4. UseLens(h)[<<j, o>>] = h.blks[j].seg[o].len
      BY <2>2 DEF UseLens
    <2>5. \A y \in Rest : rest[y] = UseLens(h)[y]
      BY DEF rest
    <2> HIDE DEF Rest
    <2>6. Total(UseLens(h)) = Total(rest) + UseLens(h)[<<j, o>>] /\ Total(rest) \in Int
          /\ UseLens(h)[<<j, o>>] \in Int
      BY ONLY <2>2, <2>3, <2>5, <1>9, <1>10, TotalMore
    <2>7. Cardinality(Rest) = Cardinality(Uses(h)) - 1
      BY ONLY <2>2, <2>3, <1>9, FS_RemoveElement
    <2>8. Total(rest) = Total(UseLens(h)) - h.blks[j].seg[o].len
      BY ONLY <2>4, <2>6
    <2> QED BY ONLY <2>7, <2>8, <1>11, <1>12, Booked(h, n, u) DEF Booked
  <1>15. Total(BlkLens(g)) = Total(BlkLens(h)) - h.blks[j].len
    <2> DEFINE few == [i \in (1 .. L) \ {j} |-> BlkLens(h)[i]]
               w == [i \in 1 .. (L - 1) |-> WasAt(j, i)]
    <2>1. DOMAIN BlkLens(h) = 1 .. L /\ DOMAIN BlkLens(g) = 1 .. (L - 1)
          /\ BlkLens(h)[j] = h.blks[j].len
      BY <1>1 DEF BlkLens
    <2>2. Sized(few) /\ DOMAIN few = (1 .. L) \ {j} /\ DOMAIN w = 1 .. (L - 1)
      <3>1. IsFiniteSet((1 .. L) \ {j})
        BY <1>9, <2>1, FS_Subset DEF Sized
      <3> QED BY <3>1, <1>9, <2>1 DEF Sized
    <2>3. \A i \in 1 .. (L - 1) : w[i] \in (1 .. L) \ {j} /\ BlkLens(g)[i] = few[w[i]]
      BY <1>1, <1>2 DEF BlkLens
    <2>4. \A i \in (1 .. L) \ {j} : \E k \in 1 .. (L - 1) : w[k] = i
      BY <1>3
    <2>5. \A i, k \in 1 .. (L - 1) : w[i] = w[k] => i = k
      BY <1>4
    <2>6. \A i \in (1 .. L) \ {j} : few[i] = BlkLens(h)[i]
      OBVIOUS
    <2> HIDE DEF few, w, L
    <2>7. Total(BlkLens(g)) = Total(few)
      <3>1. \A i \in DOMAIN BlkLens(g) : w[i] \in DOMAIN few /\ BlkLens(g)[i] = few[w[i]]
        BY ONLY <2>1, <2>2, <2>3
      <3>2. \A i \in DOMAIN few : \E k \in DOMAIN BlkLens(g) : w[k] = i
        BY ONLY <2>1, <2>2, <2>4
      <3>3. \A i, k \in DOMAIN BlkLens(g) : w[i] = w[k] => i = k
        BY ONLY <2>1, <2>5
      <3>4. DOMAIN BlkLens(g) \subseteq DOMAIN w /\ Sized(few)
        BY ONLY <2>1, <2>2
      <3> QED BY ONLY <3>1, <3>2, <3>3, <3>4, TotalMoved
    <2>8. Total(BlkLens(h)) = Total(few) + BlkLens(h)[j] /\ Total(few) \in Int
          /\ BlkLens(h)[j] \in Int
      BY ONLY <2>1, <2>2, <2>6, <1>1, <1>9, TotalMore
    <2> QED BY ONLY <2>1, <2>7, <2>8
  <1> QED BY <1>13, <1>14, <1>15

\* The segment at o of the block at j is linked in, and that is all.
LEMMA ReleasedAt ==
    ASSUME NEW h, HeapInv(h), NEW j \in 1 .. Len(h.blks), NEW o \in UsedSet(h.blks[j].seg),
           NEW m, NEW c, LinkedBlk(h.blks[j], c, m, o),
           NEW n \in Nat, n >= h.blks[j].nAlloc - 1, NEW max \in Nat,
           NEW nSeg \in Int, NEW currUse \in Int
    PROVE  LET e == Counted(c, n, max)
               g == Put(h, j, e, h.curr, nSeg, currUse)
           IN  /\ Replaced(h, g, j, e) /\ Less(h, g, j, o)
               /\ /\ Balanced(h)
                  /\ nSeg = h.nSeg - 1 /\ currUse = h.currUse - h.blks[j].seg[o].len
                  => Balanced(g)
  <1> DEFINE e == Counted(c, n, max)
             g == Put(h, j, e, h.curr, nSeg, currUse)
  <1>1. BlkInv(h.blks[j]) /\ h.curr \in Ids(h) \cup {None}
    BY DEF HeapInv
  <1>2. BlkInv(e) /\ e.id = c.id /\ e.len = c.len /\ e.seg = c.seg
    BY <1>1, ReleasedInv
  <1>4. /\ c.id = h.blks[j].id /\ c.len = h.blks[j].len /\ UsedSet(c.seg) = UsedSet(h.blks[j].seg) \ {o}
        /\ \A y \in UsedSet(c.seg) : c.seg[y] = h.blks[j].seg[y]
    BY DEF LinkedBlk
  <1>5. Replaced(h, g, j, e)
    BY ONLY <1>1, <1>2, <1>4, HeapInv(h), j \in 1 .. Len(h.blks),
            nSeg \in Int, currUse \in Int, ReplacedInv
  <1>6. Less(h, g, j, o)
    BY ONLY <1>2, <1>4, <1>5, HeapInv(h), j \in 1 .. Len(h.blks), LessBlk
  <1>7. g.nSeg = nSeg /\ g.currUse = currUse /\ g.totUse = h.totUse
    BY DEF Put
  <1>8. j \in Nat /\ o \in Used(h, j)
    BY DEF Used
  <1> HIDE DEF g
  <1>9. Balanced(h) => /\ Booked(g, h.nSeg - 1, h.currUse - h.blks[j].seg[o].len)
                       /\ BlkLens(g) = BlkLens(h) /\ h.totUse = Total(BlkLens(h))
    BY ONLY <1>6, <1>8, HeapInv(h), LessBook DEF Balanced
  <1>10. /\ Balanced(h)
         /\ nSeg = h.nSeg - 1 /\ currUse = h.currUse - h.blks[j].seg[o].len
         => Balanced(g)
    BY ONLY <1>7, <1>9 DEF Balanced
  <1> QED BY <1>5, <1>6, <1>10 DEF g

Counters(h, nSeg, currUse) ==
    [blks |-> h.blks, curr |-> h.curr, nSeg |-> nSeg, currUse |-> currUse, totUse |-> h.totUse]

\* The counters of the heap are no part of its blocks.
LEMMA CountersInv ==
    ASSUME NEW h, HeapInv(h), NEW nSeg \in Int, NEW currUse \in Int
    PROVE  LET g == Counters(h, nSeg, currUse) IN HeapInv(g) /\ g.blks = h.blks
  <1> DEFINE g == Counters(h, nSeg, currUse)
  <1>1. h \in Heap
    BY DEF HeapInv
  <1>2. g = [blks |-> h.blks, curr |-> h.curr, nSeg |-> nSeg, currUse |-> currUse, totUse |-> h.totUse]
    BY DEF Counters
  <1> HIDE DEF g
  <1>3. g.blks = h.blks /\ g.curr = h.curr /\ g.totUse = h.totUse
    BY ONLY <1>2
  <1>4. g \in Heap
    BY <1>1, <1>2 DEF Heap
  <1>5. \A i \in 1 .. Len(h.blks) : BlkInv(g.blks[i]) /\ g.blks[i].id = h.blks[i].id
    BY <1>3 DEF HeapInv
  <1> QED BY <1>3, <1>4, <1>5, HeapIntro DEF HeapInv, g

\* What free does: the segment is linked in, or its block goes with it, which
\* had no other in use.
LEMMA FreeInv ==
    ASSUME NEW h, HeapInv(h), NEW s, s.blk \in Ids(h), s.off \in Used(h, Pos(h, s.blk))
    PROVE  LET j == Pos(h, s.blk)
               g == FreeSegment(h, s)
           IN  /\ \/ Less(h, g, j, s.off)
                  \/ Used(h, j) = {s.off} /\ Without(h, g, j)
               /\ Balanced(h) => Balanced(g)
  <1> DEFINE j == Pos(h, s.blk)
             b == h.blks[j]
             o == s.off
             len == b.seg[o].len
             prev == PrevFree(b, o)
             next == NextFree(b, o)
             new == JoinedLen(b, o, prev, next)
             f == [h EXCEPT !.nSeg = @ - 1, !.currUse = @ - len]
             c == Linked(b, o, prev, next)
             max == IF new > c.maxFree THEN new ELSE c.maxFree
             e == [c EXCEPT !.nAlloc = @ - 1, !.maxFree = IF new > @ THEN new ELSE @]
             g == FreeSegment(h, s)
  <1>1. j \in 1 .. Len(h.blks) /\ o \in UsedSet(b.seg)
    BY PosOf DEF Used
  <1>2. /\ h \in Heap /\ BlkInv(b) /\ b \in Blk /\ h.curr \in Ids(h) \cup {None}
        /\ DOMAIN h.blks = 1 .. Len(h.blks) /\ h.nSeg \in Int /\ h.currUse \in Int /\ h.totUse \in Int
    BY <1>1, HeapFields DEF HeapInv, BlkInv
  <1>3. len \in Nat /\ b.nAlloc \in Nat
    BY <1>1, <1>2, BlkFields, SegMapElim DEF UsedSet
  <1>4. g = IF b.nAlloc = 1 THEN WithoutBlk(f, j)
            ELSE [f EXCEPT !.blks[j] = e]
    BY <1>2 DEF FreeSegment
  <1>5. HeapInv(f) /\ f.blks = h.blks
    <2>1. h.nSeg - 1 \in Int /\ h.currUse - len \in Int
      BY <1>2, <1>3
    <2>1a. f = [h EXCEPT !.nSeg = @ - 1, !.currUse = @ - len]
      OBVIOUS
    <2> HIDE DEF f, len
    <2>2. f = Counters(h, h.nSeg - 1, h.currUse - len)
      BY ONLY <2>1a, <1>2 DEF Heap, Counters
    <2> QED BY ONLY <2>1, <2>2, HeapInv(h), CountersInv
  <1>6. b.nAlloc >= Cardinality(UsedSet(b.seg)) /\ IsFiniteSet(UsedSet(b.seg))
    BY <1>2, UsedFinite, BlkFields DEF BlkInv
  <1> HIDE DEF g
  <1>7. CASE b.nAlloc = 1
    <2>1. g = WithoutBlk(f, j)
      BY ONLY <1>4, <1>7
    <2> HIDE DEF f, j
    <2>2. /\ Without(f, g, j)
          /\ g.nSeg = f.nSeg /\ g.currUse = f.currUse /\ g.totUse = f.totUse - f.blks[j].len
      BY ONLY <2>1, <1>1, <1>5, WithoutInv
    <2>3. Without(h, g, j)
      BY ONLY <2>2, <1>5 DEF Without
    <2>4. UsedSet(b.seg) = {o}
      <3>1. Cardinality(UsedSet(b.seg)) \in Nat /\ Cardinality(UsedSet(b.seg)) <= 1
        BY <1>6, <1>7, FS_CardinalityType
      <3>2. Cardinality(UsedSet(b.seg) \ {o}) = Cardinality(UsedSet(b.seg)) - 1
            /\ IsFiniteSet(UsedSet(b.seg) \ {o})
        BY <1>1, <1>6, FS_RemoveElement
      <3>3. Cardinality(UsedSet(b.seg) \ {o}) \in Nat
        BY <3>2, FS_CardinalityType
      <3>4. Cardinality(UsedSet(b.seg) \ {o}) = 0
        BY <3>1, <3>2, <3>3
      <3>5. UsedSet(b.seg) \ {o} = {}
        BY <3>2, <3>4, FS_EmptySet
      <3> QED BY <3>5, <1>1
    <2>5. f.nSeg = h.nSeg - 1 /\ f.currUse = h.currUse - len /\ f.totUse = h.totUse
      BY <1>2 DEF f, Heap
    <2>6. Balanced(h) => Balanced(g)
      <3> SUFFICES ASSUME Balanced(h) PROVE Balanced(g)
        OBVIOUS
      <3>1. Used(h, j) = {o} /\ j \in 1 .. Len(h.blks)
        BY <2>4, <1>1 DEF Used, j
      <3> HIDE DEF o
      <3>2. /\ Booked(g, h.nSeg - 1, h.currUse - h.blks[j].seg[o].len)
            /\ Total(BlkLens(g)) = Total(BlkLens(h)) - h.blks[j].len
        BY ONLY <3>1, <2>3, HeapInv(h), Balanced(h), WithoutBook DEF Balanced
      <3> QED BY ONLY <3>2, <2>2, <2>5, <1>5, Balanced(h) DEF Balanced, len, b
    <2> QED BY <2>3, <2>4, <2>6, <1>1 DEF Used, g, j
  <1>8. CASE b.nAlloc # 1
    <2>1. PICK m \in Nat : /\ Around(b.free, m, o)
                           /\ prev = PrevAt(b.free, m) /\ next = NextAt(b.free, m)
      BY <1>1, <1>2, WalkStops
    <2>2. LinkedBlk(b, c, m, o)
      BY <2>1, <1>1, <1>2, LinkedInv
    <2>3. c \in Blk /\ new \in Nat /\ c.maxFree \in Nat /\ c.nAlloc = b.nAlloc
      <3>1. c \in Blk /\ c.nAlloc = b.nAlloc
        BY ONLY <2>2 DEF LinkedBlk
      <3>2. new \in 1 .. DataLen(b)
        <4>1. JoinedLen(b, o, PrevAt(b.free, m), NextAt(b.free, m)) \in 1 .. DataLen(b)
          BY ONLY <2>2 DEF LinkedBlk
        <4> QED BY ONLY <4>1, <2>1
      <3> HIDE DEF c, new
      <3> QED BY <3>1, <3>2, BlkFields
    <2>4. Cardinality(UsedSet(b.seg)) \in Nat /\ Cardinality(UsedSet(b.seg)) # 0
      BY <1>1, <1>6, FS_CardinalityType, FS_EmptySet
    <2>5. b.nAlloc - 1 \in Nat
      BY <2>4, <1>3, <1>6
    <2> HIDE DEF c, new
    <2>6. e = Counted(c, b.nAlloc - 1, max)
      <3>1. c = [id |-> c.id, len |-> c.len, seg |-> c.seg, free |-> c.free,
                 maxFree |-> c.maxFree, nAlloc |-> c.nAlloc, nFree |-> c.nFree]
        BY <2>3 DEF Blk
      <3>2. e = [c EXCEPT !.nAlloc = @ - 1, !.maxFree = IF new > @ THEN new ELSE @]
        OBVIOUS
      <3> HIDE DEF e
      <3> QED BY ONLY <3>1, <3>2, <2>3 DEF Counted, max
    <2>7. max \in Nat
      BY <2>3
    <2> HIDE DEF e, max
    <2>8. g = [f EXCEPT !.blks[j] = e]
      BY ONLY <1>4, <1>8
    <2>9. g = Put(h, j, e, h.curr, h.nSeg - 1, h.currUse - len)
      BY <2>8, <1>2 DEF Heap, Put
    <2>10. h.nSeg - 1 \in Int /\ h.currUse - len \in Int
      BY <1>2, <1>3
    <2> HIDE DEF j, o, len, f
    <2>11. LinkedBlk(h.blks[j], c, m, o) /\ b.nAlloc - 1 >= h.blks[j].nAlloc - 1
      BY <2>2, <2>5
    <2> HIDE DEF b
    <2>12. Less(h, g, j, o) /\ (Balanced(h) => Balanced(g))
      <3>1. o \in UsedSet(h.blks[j].seg)
        BY <1>1 DEF b
      <3>2. h.currUse - len = h.currUse - h.blks[j].seg[o].len
        BY DEF len, b
      <3> QED BY ONLY <2>5, <2>6, <2>7, <2>9, <2>10, <2>11, <3>1, <3>2, <1>1, HeapInv(h), ReleasedAt
    <2> QED BY <2>12 DEF g, j, o
  <1> QED BY <1>7, <1>8
==============================================================================
