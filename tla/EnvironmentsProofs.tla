-------------------------- MODULE EnvironmentsProofs --------------------------
(***************************************************************************)
(* The invariants of Environments, and that its tables implement Registry, *)
(* for every script, table of built-in names, hash function and number of  *)
(* chains.  A constant Says a key if it is the number of a built-in one or *)
(* of an entry with that key and without alternate; it is Kept if the      *)
(* environment has an entry for the key besides.  What a table, a segment  *)
(* or an archive says stays said while tables grow, so that each step has  *)
(* to be looked at in the one environment it changes.  A step that goes    *)
(* through a sequence (useName, copySegment, store, load) is an instance   *)
(* of ThroughProofs, with what one turn of the loop keeps.                 *)
(***************************************************************************)
EXTENDS Environments, SequenceTheorems, FiniteSetTheorems, WellFoundedInduction, TLAPS

-----------------------------------------------------------------------------
(* Tables.                                                                 *)

\* A set of numbers that is not empty has a least one.
LEMMA LeastId ==
    ASSUME NEW S, S \subseteq Nat, S # {}
    PROVE  \E x \in S : \A y \in S : x <= y
  <1>1. PICK x \in S : \A y \in S : ~(<<y, x>> \in OpToRel(<, Nat))
    BY NatLessThanWellFounded, WFMin
  <1>2. \A y \in S : ~(y < x)
    BY <1>1 DEF OpToRel
  <1> QED BY <1>2

\* Tables whose entries are in E.
Tables(E) == [vec : Seq(E \cup {Vacant}), chain : [0 .. (NSlots - 1) -> Seq(Nat)], minFree : Nat]

\* What an entry of any table is.
Entries(E) == \A e \in E : e.hash \in Nat /\ e # Vacant

\* The fields of a table, and the entries of the integers in use.
LEMMA TableFields ==
    ASSUME NEW E, NEW t \in Tables(E)
    PROVE  /\ t.vec \in Seq(E \cup {Vacant}) /\ Len(t.vec) \in Nat /\ DOMAIN t.vec = 1 .. Len(t.vec)
           /\ t.chain \in [0 .. (NSlots - 1) -> Seq(Nat)] /\ t.minFree \in Nat
           /\ \A id \in Ids(t) : id \in Nat /\ id + 1 \in 1 .. Len(t.vec) /\ EntryOf(t, id) \in E
           /\ \A id : InUse(t, id) <=> id \in Ids(t)
  <1>1. t.vec \in Seq(E \cup {Vacant}) /\ t.chain \in [0 .. (NSlots - 1) -> Seq(Nat)] /\ t.minFree \in Nat
    BY DEF Tables
  <1>2. Len(t.vec) \in Nat /\ DOMAIN t.vec = 1 .. Len(t.vec)
    BY <1>1
  <1>3. \A id \in Ids(t) : id \in Nat /\ id + 1 \in 1 .. Len(t.vec) /\ EntryOf(t, id) \in E
    <2>1. ASSUME NEW id \in Ids(t) PROVE id \in Nat /\ id + 1 \in 1 .. Len(t.vec) /\ t.vec[id + 1] # Vacant
      BY <1>2 DEF Ids
    <2>2. \A id \in Ids(t) : t.vec[id + 1] \in E \cup {Vacant}
      BY <2>1, <1>1
    <2> QED BY <2>1, <2>2 DEF EntryOf
  <1>4. \A id : InUse(t, id) <=> id \in Ids(t)
    BY DEF InUse, Ids
  <1> QED BY <1>1, <1>2, <1>3, <1>4

\* The integers in use are never NULL_NAME, NULL_TYPE or NULL_SEGMENT_ID.
LEMMA IdsAreNat ==
    ASSUME NEW E, NEW t \in Tables(E) PROVE Ids(t) \subseteq Nat /\ NoId \notin Ids(t)
  <1>1. \A id \in Ids(t) : id \in Nat
    BY TableFields
  <1>2. NoId \notin Nat
    BY DEF NoId
  <1> QED BY <1>1, <1>2

\* A key is looked up in the chain of its hash value.
LEMMA ChainOf ==
    ASSUME NEW h \in Nat PROVE h % NSlots \in 0 .. (NSlots - 1)
  BY NSlotsAssumption

\* The first integer of A in the chain.
FirstOf(t, h, A) ==
    LET chain == t.chain[h % NSlots]
        hits  == {p \in 1..Len(chain) : chain[p] \in A}
    IN  IF hits = {} THEN NoId
        ELSE chain[CHOOSE p \in hits : \A q \in hits : p <= q]

\* The search of a chain ends at an entry of A, if there is one in it.
LEMMA FirstOfIs ==
    ASSUME NEW E, NEW t \in Tables(E), ChainsSound(t), NEW h \in Nat, NEW A, NEW id, id = FirstOf(t, h, A)
    PROVE  \/ id \in Ids(t) /\ id \in A /\ EntryOf(t, id).hash % NSlots = h % NSlots
           \/ id = NoId /\ \A i \in Ids(t) : i \in A => EntryOf(t, i).hash % NSlots # h % NSlots
  <1> DEFINE s == h % NSlots
             chain == t.chain[s]
             hits == {p \in 1..Len(chain) : chain[p] \in A}
             first == CHOOSE p \in hits : \A q \in hits : p <= q
  <1>0. s \in 0 .. (NSlots - 1)
    BY ChainOf
  <1>1. chain \in Seq(Nat) /\ Len(chain) \in Nat /\ DOMAIN chain = 1 .. Len(chain)
    <2>1. t.chain \in [0 .. (NSlots - 1) -> Seq(Nat)]
      BY TableFields
    <2>2. chain \in Seq(Nat)
      <3> HIDE DEF s
      <3> QED BY <1>0, <2>1
    <2> HIDE DEF chain
    <2> QED BY <2>2
  <1>2. ToSet(chain) = {i \in Ids(t) : EntryOf(t, i).hash % NSlots = s}
    <2> HIDE DEF s
    <2> QED BY <1>0 DEF ChainsSound
  <1>5. id = IF hits = {} THEN NoId ELSE chain[first]
    BY DEF FirstOf
  <1> HIDE DEF chain
  <1>3. \A p \in 1 .. Len(chain) : chain[p] \in Ids(t) /\ EntryOf(t, chain[p]).hash % NSlots = s
    BY <1>1, <1>2 DEF ToSet
  <1>4. ASSUME NEW i \in Ids(t), EntryOf(t, i).hash % NSlots = s
        PROVE  \E p \in 1 .. Len(chain) : chain[p] = i
    BY <1>4, <1>1, <1>2 DEF ToSet
  <1>6. CASE hits = {}
    <2>1. \A p \in 1 .. Len(chain) : chain[p] \notin A
      BY <1>6
    <2> QED BY <2>1, <1>4, <1>5, <1>6
  <1>7. CASE hits # {}
    <2>1. \E p \in hits : \A q \in hits : p <= q
      <3>1. hits \subseteq Nat
        OBVIOUS
      <3> HIDE DEF hits
      <3> QED BY <3>1, <1>7, LeastId
    <2>2. first \in hits
      BY <2>1
    <2>3. first \in 1 .. Len(chain) /\ chain[first] \in A
      BY <2>2
    <2> HIDE DEF first
    <2> QED BY <2>3, <1>3, <1>5, <1>7
  <1> QED BY <1>6, <1>7

\* lookUp, for a table in which a key has the hash value h.
LEMMA LookUpIs ==
    ASSUME NEW E, NEW t \in Tables(E), ChainsSound(t), NEW key, NEW h \in Nat,
           \A i \in Ids(t) : KeyOf(t, i) = key => EntryOf(t, i).hash = h
    PROVE  LET id == LookUp(t, key, h)
           IN  \/ id \in Ids(t) /\ KeyOf(t, id) = key
               \/ id = NoId /\ \A i \in Ids(t) : KeyOf(t, i) # key
  <1> DEFINE A == {i \in Ids(t) : KeyOf(t, i) = key}
             chain == t.chain[h % NSlots]
             hits == {p \in 1..Len(chain) : EntryOf(t, chain[p]).key = key}
             id == LookUp(t, key, h)
  <1>1. h % NSlots \in 0 .. (NSlots - 1)
    BY ChainOf
  <1>2. \A p \in 1 .. Len(chain) : chain[p] \in Ids(t)
    <2>1. chain \in Seq(Nat)
      BY <1>1, TableFields
    <2>2. ToSet(chain) \subseteq Ids(t)
      BY <1>1 DEF ChainsSound
    <2> QED BY <2>1, <2>2 DEF ToSet
  <1>3. hits = {p \in 1..Len(chain) : chain[p] \in A}
    BY <1>2 DEF KeyOf
  <1>4. id = IF hits = {} THEN NoId ELSE chain[CHOOSE p \in hits : \A q \in hits : p <= q]
    BY DEF LookUp, FirstInChain
  <1> HIDE DEF hits
  <1>5. id = FirstOf(t, h, A)
    BY <1>3, <1>4 DEF FirstOf
  <1> HIDE DEF id
  <1>6. \/ id \in Ids(t) /\ id \in A
        \/ id = NoId /\ \A i \in Ids(t) : i \in A => EntryOf(t, i).hash % NSlots # h % NSlots
    BY <1>5, FirstOfIs
  <1> QED BY <1>6 DEF id

\* lookUpByAlt, in the same way.
LEMMA LookUpByAltIs ==
    ASSUME NEW E, NEW t \in Tables(E), ChainsSound(t), NEW alt, NEW h \in Nat,
           \A i \in Ids(t) : EntryOf(t, i).alt = alt => EntryOf(t, i).hash = h
    PROVE  LET id == LookUpByAlt(t, alt, h)
           IN  \/ id \in Ids(t) /\ EntryOf(t, id).alt = alt
               \/ id = NoId /\ \A i \in Ids(t) : EntryOf(t, i).alt # alt
  <1> DEFINE A == {i \in Ids(t) : EntryOf(t, i).alt = alt}
             chain == t.chain[h % NSlots]
             hits == {p \in 1..Len(chain) : EntryOf(t, chain[p]).alt = alt}
             id == LookUpByAlt(t, alt, h)
  <1>1. h % NSlots \in 0 .. (NSlots - 1)
    BY ChainOf
  <1>2. \A p \in 1 .. Len(chain) : chain[p] \in Ids(t)
    <2>1. chain \in Seq(Nat)
      BY <1>1, TableFields
    <2>2. ToSet(chain) \subseteq Ids(t)
      BY <1>1 DEF ChainsSound
    <2> QED BY <2>1, <2>2 DEF ToSet
  <1>3. hits = {p \in 1..Len(chain) : chain[p] \in A}
    BY <1>2
  <1>4. id = IF hits = {} THEN NoId ELSE chain[CHOOSE p \in hits : \A q \in hits : p <= q]
    BY DEF LookUpByAlt, FirstInChain
  <1> HIDE DEF hits
  <1>5. id = FirstOf(t, h, A)
    BY <1>3, <1>4 DEF FirstOf
  <1> HIDE DEF id
  <1>6. \/ id \in Ids(t) /\ id \in A
        \/ id = NoId /\ \A i \in Ids(t) : i \in A => EntryOf(t, i).hash % NSlots # h % NSlots
    BY <1>5, FirstOfIs
  <1> QED BY <1>6 DEF id

\* The vector with entry e at id.
HasPut(S, v, id, e, w) ==
    /\ w \in Seq(S) /\ Len(v) <= Len(w) /\ id + 1 \in 1 .. Len(w) /\ w[id + 1] = e
    /\ \A n \in 1 .. Len(w) : n # id + 1 => w[n] = IF n <= Len(v) THEN v[n] ELSE Vacant

\* The vector after an entry has been put at an integer, in it or past its end.
LEMMA PutIs ==
    ASSUME NEW S, Vacant \in S, NEW v \in Seq(S), NEW id \in Nat, NEW e \in S
    PROVE  HasPut(S, v, id, e, Put(v, id, e))
  <1> DEFINE w == Put(v, id, e)
  <1>a. w = Put(v, id, e)
    OBVIOUS
  <1> HIDE DEF w
  <1> SUFFICES HasPut(S, v, id, e, w)
    BY <1>a
  <1> SUFFICES
        /\ w \in Seq(S) /\ Len(v) <= Len(w) /\ id + 1 \in 1 .. Len(w) /\ w[id + 1] = e
        /\ \A n \in 1 .. Len(w) : n # id + 1 => w[n] = IF n <= Len(v) THEN v[n] ELSE Vacant
    BY DEF HasPut
  <1>1. CASE id < Len(v)
    <2>1. id + 1 \in 1 .. Len(v) /\ w = [v EXCEPT ![id + 1] = e]
      BY <1>1, <1>a DEF Put
    <2>2. w \in Seq(S) /\ Len(w) = Len(v) /\ \A n \in 1 .. Len(v) : w[n] = IF n = id + 1 THEN e ELSE v[n]
      BY <2>1, ExceptSeq
    <2> QED BY <2>1, <2>2
  <1>2. CASE ~(id < Len(v))
    <2> DEFINE k == id - Len(v)
               gap == [n \in 1 .. k |-> Vacant]
    <2>1. k \in Nat
      BY <1>2
    <2>2. gap \in Seq(S) /\ Len(gap) = k /\ \A n \in 1 .. k : gap[n] = Vacant
      <3> HIDE DEF k
      <3> QED BY <2>1
    <2>3. <<e>> \in Seq(S) /\ Len(<<e>>) = 1 /\ <<e>>[1] = e
      OBVIOUS
    <2>4. w = (v \o gap) \o <<e>>
      BY <1>2, <1>a DEF Put
    <2> HIDE DEF gap
    <2>5. /\ v \o gap \in Seq(S) /\ Len(v \o gap) = id
          /\ \A n \in 1 .. id : (v \o gap)[n] = IF n <= Len(v) THEN v[n] ELSE Vacant
      <3>1. /\ v \o gap \in Seq(S) /\ Len(v \o gap) = Len(v) + Len(gap)
            /\ \A n \in 1 .. Len(v) + Len(gap) :
                  (v \o gap)[n] = IF n <= Len(v) THEN v[n] ELSE gap[n - Len(v)]
        BY ONLY v \in Seq(S), <2>2, ConcatProperties
      <3>2. Len(v) + Len(gap) = id
        BY <2>2, <2>1
      <3>3. \A n \in 1 .. id : ~(n <= Len(v)) => n - Len(v) \in 1 .. k
        BY <2>1
      <3> QED BY <3>1, <3>2, <3>3, <2>2
    <2>6. /\ w \in Seq(S) /\ Len(w) = id + 1
          /\ \A n \in 1 .. id + 1 : w[n] = IF n <= id THEN (v \o gap)[n] ELSE <<e>>[n - id]
      <3> DEFINE u == v \o gap
      <3> HIDE DEF u
      <3>1. u \in Seq(S) /\ Len(u) = id
        BY <2>5 DEF u
      <3>2. w = u \o <<e>>
        BY <2>4 DEF u
      <3>3. /\ u \o <<e>> \in Seq(S) /\ Len(u \o <<e>>) = Len(u) + Len(<<e>>)
            /\ \A n \in 1 .. Len(u) + Len(<<e>>) :
                  (u \o <<e>>)[n] = IF n <= Len(u) THEN u[n] ELSE <<e>>[n - Len(u)]
        BY ONLY <3>1, <2>3, ConcatProperties
      <3> QED BY <3>1, <3>2, <3>3, <2>3 DEF u
    <2>7. Len(v) <= Len(w) /\ id + 1 \in 1 .. Len(w)
      BY <2>6, <1>2
    <2>8. w[id + 1] = e
      BY <2>6, <2>3, <2>7
    <2>9. ASSUME NEW n \in 1 .. Len(w), n # id + 1 PROVE w[n] = IF n <= Len(v) THEN v[n] ELSE Vacant
      <3>1. n \in 1 .. id /\ n <= id
        BY <2>6, <2>9
      <3> QED BY <3>1, <2>5, <2>6
    <2> QED BY ONLY <2>6, <2>7, <2>8, <2>9
  <1> QED BY <1>1, <1>2

\* u is t with entry e at id.
Added(E, t, u, id, e) ==
    /\ u \in Tables(E) /\ ChainsSound(u)
    /\ Ids(u) = Ids(t) \cup {id} /\ EntryOf(u, id) = e
    /\ \A i \in Ids(t) : EntryOf(u, i) = EntryOf(t, i)

\* The record that addEntry makes.
LEMMA TableUpdate ==
    ASSUME NEW V, NEW C, NEW M, NEW t \in [vec : V, chain : C, minFree : M], NEW w, NEW k, NEW y
    PROVE  [t EXCEPT !.vec = w, !.chain[k] = y]
             = [vec |-> w, chain |-> [t.chain EXCEPT ![k] = y], minFree |-> t.minFree]
  <1> DEFINE d == [t.chain EXCEPT ![k] = y]
  <1>1. [t EXCEPT !.vec = w, !.chain[k] = y] = [t EXCEPT !.vec = w, !.chain = d]
    OBVIOUS
  <1> HIDE DEF d
  <1> DEFINE u == [t EXCEPT !.vec = w, !.chain = d]
  <1>2. u = [t EXCEPT !.vec = w, !.chain = d]
    OBVIOUS
  <1> HIDE DEF u
  <1>3. u = [vec |-> w, chain |-> d, minFree |-> t.minFree]
    BY <1>2
  <1> QED BY <1>1, <1>2, <1>3 DEF d

\* addEntry at an integer that is not in use.
LEMMA AddEntryIs ==
    ASSUME NEW E, Entries(E), NEW t \in Tables(E), ChainsSound(t),
           NEW id \in Nat, id \notin Ids(t), NEW e \in E
    PROVE  Added(E, t, AddEntry(t, id, e), id, e) /\ AddEntry(t, id, e).minFree = t.minFree
  <1> DEFINE s == e.hash % NSlots
             w == Put(t.vec, id, e)
             c == [t.chain EXCEPT ![s] = <<id>> \o @]
             u == AddEntry(t, id, e)
             S == E \cup {Vacant}
  <1>1. /\ t.vec \in Seq(S) /\ Len(t.vec) \in Nat /\ t.chain \in [0 .. (NSlots - 1) -> Seq(Nat)]
        /\ t.minFree \in Nat /\ t = [vec |-> t.vec, chain |-> t.chain, minFree |-> t.minFree]
    BY TableFields DEF Tables
  <1>2. e.hash \in Nat /\ e # Vacant
    BY DEF Entries
  <1>3. s \in 0 .. (NSlots - 1)
    BY <1>2, ChainOf
  <1>4. u = [vec |-> w, chain |-> c, minFree |-> t.minFree]
    <2>1. t \in [vec : Seq(S), chain : [0 .. (NSlots - 1) -> Seq(Nat)], minFree : Nat]
      BY DEF Tables
    <2> DEFINE y == <<id>> \o t.chain[s]
    <2>2. u = [t EXCEPT !.vec = w, !.chain[s] = y]
      BY DEF AddEntry
    <2>3. c = [t.chain EXCEPT ![s] = y]
      OBVIOUS
    <2> HIDE DEF y, w, c, s, u
    <2> QED BY ONLY <2>1, <2>2, <2>3, TableUpdate
  <1>5. /\ w \in Seq(S) /\ Len(t.vec) <= Len(w) /\ id + 1 \in 1 .. Len(w) /\ w[id + 1] = e
        /\ \A n \in 1 .. Len(w) : n # id + 1 => w[n] = IF n <= Len(t.vec) THEN t.vec[n] ELSE Vacant
    <2>1. Vacant \in S /\ e \in S
      OBVIOUS
    <2> DEFINE v == t.vec
    <2>2. v \in Seq(S) /\ id \in Nat /\ w = Put(v, id, e)
      BY <1>1
    <2> HIDE DEF S, v
    <2>3. HasPut(S, v, id, e, w)
      BY ONLY <2>1, <2>2, PutIs
    <2> HIDE DEF w
    <2> QED BY <2>3 DEF v, HasPut
  <1> HIDE DEF w, s
  <1>6. u.vec = w /\ u.chain = c /\ u.minFree = t.minFree /\ Len(w) \in Nat
    BY <1>4, <1>5
  <1>7. t.chain[s] \in Seq(Nat) /\ c[s] = <<id>> \o t.chain[s]
    BY <1>1, <1>3
  <1>8. /\ c[s] \in Seq(Nat) /\ Len(c[s]) = 1 + Len(t.chain[s])
        /\ \A p \in 1 .. Len(c[s]) : c[s][p] = IF p = 1 THEN id ELSE t.chain[s][p - 1]
    <2>1. <<id>> \in Seq(Nat) /\ Len(<<id>>) = 1 /\ <<id>>[1] = id
      OBVIOUS
    <2> DEFINE b == t.chain[s]
    <2>2. b \in Seq(Nat) /\ Len(b) \in Nat
      BY <1>7
    <2> HIDE DEF b
    <2>3. /\ <<id>> \o b \in Seq(Nat) /\ Len(<<id>> \o b) = Len(<<id>>) + Len(b)
          /\ \A p \in 1 .. Len(<<id>>) + Len(b) :
                (<<id>> \o b)[p] = IF p <= Len(<<id>>) THEN <<id>>[p] ELSE b[p - Len(<<id>>)]
      BY ONLY <2>1, <2>2, ConcatProperties
    <2>4. c[s] = <<id>> \o b
      BY <1>7 DEF b
    <2> HIDE DEF c
    <2>5. Len(c[s]) = 1 + Len(b) /\ \A p \in 1 .. 1 + Len(b) : c[s][p] = IF p = 1 THEN id ELSE b[p - 1]
      BY ONLY <2>1, <2>2, <2>3, <2>4
    <2> QED BY <2>3, <2>4, <2>5 DEF b
  <1>9. \A r \in 0 .. (NSlots - 1) : r # s => c[r] = t.chain[r]
    BY <1>1
  <1>10. c \in [0 .. (NSlots - 1) -> Seq(Nat)]
    <2>1. DOMAIN c = 0 .. (NSlots - 1) /\ c = [r \in 0 .. (NSlots - 1) |-> c[r]]
      BY <1>1
    <2> HIDE DEF c
    <2>2. \A r \in 0 .. (NSlots - 1) : c[r] \in Seq(Nat)
      BY <1>1, <1>8, <1>9
    <2> QED BY <2>1, <2>2
  <1> HIDE DEF c
  <1>11. u \in Tables(E)
    BY <1>4, <1>5, <1>10, <1>1 DEF Tables
  <1> HIDE DEF u
  <1>12. Ids(u) = Ids(t) \cup {id}
    <2>1. ASSUME NEW i PROVE i \in Ids(u) <=> i \in Ids(t) \/ i = id
      <3>1. i \in Ids(u) <=> i \in 0 .. (Len(w) - 1) /\ w[i + 1] # Vacant
        BY <1>6 DEF Ids
      <3>2. i \in Ids(t) <=> i \in 0 .. (Len(t.vec) - 1) /\ t.vec[i + 1] # Vacant
        BY DEF Ids
      <3>3. CASE i = id
        BY <3>3, <3>1, <1>5, <1>2
      <3>4. CASE i # id
        <4>1. i \in 0 .. (Len(w) - 1) => i + 1 \in 1 .. Len(w) /\ i + 1 # id + 1
          BY <3>4, <1>6
        <4>2. i \in 0 .. (Len(w) - 1) => w[i + 1] = IF i + 1 <= Len(t.vec) THEN t.vec[i + 1] ELSE Vacant
          BY <4>1, <1>5
        <4>3. i \in 0 .. (Len(w) - 1) => (i + 1 <= Len(t.vec) <=> i \in 0 .. (Len(t.vec) - 1))
          BY <1>1, <1>6
        <4>4. i \in 0 .. (Len(t.vec) - 1) => i \in 0 .. (Len(w) - 1)
          BY <1>1, <1>5, <1>6
        <4> QED BY <3>1, <3>2, <3>4, <4>2, <4>3, <4>4
      <3> QED BY <3>3, <3>4
    <2> QED BY <2>1
  <1>13. EntryOf(u, id) = e
    BY <1>6, <1>5 DEF EntryOf
  <1>14. ASSUME NEW i \in Ids(t) PROVE EntryOf(u, i) = EntryOf(t, i)
    <2>1. i + 1 \in 1 .. Len(t.vec) /\ i \in Nat /\ i # id
      BY TableFields
    <2>2. i + 1 \in 1 .. Len(w) /\ i + 1 # id + 1 /\ i + 1 <= Len(t.vec)
      BY <2>1, <1>1, <1>5, <1>6
    <2> QED BY <2>2, <1>5, <1>6 DEF EntryOf
  <1>15. ChainsSound(u)
    <2> SUFFICES ASSUME NEW r \in 0 .. (NSlots - 1)
                 PROVE  /\ IsInjective(c[r])
                        /\ ToSet(c[r]) = {i \in Ids(u) : EntryOf(u, i).hash % NSlots = r}
      BY <1>6 DEF ChainsSound
    <2>1. /\ IsInjective(t.chain[r])
          /\ ToSet(t.chain[r]) = {i \in Ids(t) : EntryOf(t, i).hash % NSlots = r}
      BY DEF ChainsSound
    <2>2. {i \in Ids(u) : EntryOf(u, i).hash % NSlots = r}
            = {i \in Ids(t) : EntryOf(t, i).hash % NSlots = r} \cup (IF r = s THEN {id} ELSE {})
      BY <1>12, <1>13, <1>14 DEF s
    <2>3. CASE r # s
      BY <2>1, <2>2, <2>3, <1>9
    <2>4. CASE r = s
      <3> DEFINE a == t.chain[s]
                 b == c[s]
      <3>1. /\ a \in Seq(Nat) /\ DOMAIN a = 1 .. Len(a) /\ Len(a) \in Nat
            /\ b \in Seq(Nat) /\ DOMAIN b = 1 .. Len(b) /\ Len(b) = 1 + Len(a)
            /\ \A p \in 1 .. Len(b) : b[p] = IF p = 1 THEN id ELSE a[p - 1]
        BY <1>7, <1>8
      <3>2. IsInjective(a) /\ id \notin ToSet(a)
        BY <2>1, <2>4
      <3> HIDE DEF a, b
      <3>2a. \A p \in 1 .. Len(a) : a[p] \in ToSet(a)
        BY ONLY <3>1 DEF ToSet
      <3>2b. \A p \in 1 .. Len(b) : b[p] \in ToSet(b)
        BY ONLY <3>1 DEF ToSet
      <3>2c. \A p \in 1 .. Len(a) : p + 1 \in 1 .. Len(b) /\ p + 1 # 1 /\ (p + 1) - 1 = p
        BY ONLY <3>1
      <3>3. \A p \in 1 .. Len(a) : a[p] # id /\ p + 1 \in 1 .. Len(b) /\ b[p + 1] = a[p]
        BY ONLY <3>1, <3>2, <3>2a, <3>2c
      <3>4. \A p \in 1 .. Len(b) : p # 1 => p - 1 \in 1 .. Len(a) /\ b[p] = a[p - 1]
        BY <3>1
      <3>5. 1 \in 1 .. Len(b) /\ b[1] = id
        BY <3>1
      <3>6. IsInjective(b)
        <4> SUFFICES ASSUME NEW p \in 1 .. Len(b), NEW q \in 1 .. Len(b), b[p] = b[q] PROVE p = q
          BY <3>1 DEF IsInjective
        <4>1. CASE p = 1 \/ q = 1
          <5>1. \A n \in 1 .. Len(b) : n # 1 => b[n] # id
            BY ONLY <3>3, <3>4
          <5>2. b[p] = b[q] /\ p \in 1 .. Len(b) /\ q \in 1 .. Len(b)
            OBVIOUS
          <5> QED BY ONLY <5>1, <5>2, <4>1, <3>5
        <4>2. CASE p # 1 /\ q # 1
          <5>1. a[p - 1] = a[q - 1] /\ p - 1 \in DOMAIN a /\ q - 1 \in DOMAIN a
            BY <4>2, <3>4, <3>1
          <5>2. p - 1 = q - 1
            BY <5>1, <3>2 DEF IsInjective
          <5> QED BY <5>2
        <4> QED BY <4>1, <4>2
      <3>7. ToSet(b) = ToSet(a) \cup {id}
        <4>1. ASSUME NEW x, x \in ToSet(b) PROVE x \in ToSet(a) \cup {id}
          <5>1. PICK p \in 1 .. Len(b) : x = b[p]
            BY ONLY <3>1, <4>1 DEF ToSet
          <5> QED BY ONLY <5>1, <3>4, <3>5, <3>2a
        <4>2. ASSUME NEW x, x \in ToSet(a) PROVE x \in ToSet(b)
          <5>1. PICK p \in 1 .. Len(a) : x = a[p]
            BY ONLY <3>1, <4>2 DEF ToSet
          <5> QED BY ONLY <5>1, <3>3, <3>2b
        <4>3. id \in ToSet(b)
          BY ONLY <3>5, <3>2b
        <4> QED BY <4>1, <4>2, <4>3
      <3> QED BY <3>6, <3>7, <2>1, <2>2, <2>4 DEF a, b
    <2> QED BY <2>3, <2>4
  <1> QED BY <1>6, <1>11, <1>12, <1>13, <1>14, <1>15 DEF Added, u

\* nextName, nextType, nextSegmentId: an integer that is not in use.
LEMMA NextIdIs ==
    ASSUME NEW E, NEW t \in Tables(E), VacantAboveMinFree(t)
    PROVE  /\ NextId(t) \in Nat /\ NextId(t) \notin Ids(t)
           /\ \A i \in 0 .. (NextId(t) - 1) : i \in Ids(t)
  <1> DEFINE free == {id \in t.minFree .. (Len(t.vec) - 1) : t.vec[id + 1] = Vacant}
             next == NextId(t)
  <1>1. Len(t.vec) \in Nat /\ t.minFree \in Nat /\ \A id : InUse(t, id) <=> id \in Ids(t)
    BY TableFields
  <1>2. next = IF free = {} THEN Len(t.vec) ELSE CHOOSE id \in free : \A other \in free : id <= other
    BY DEF NextId
  <1>3. \A i \in Ids(t) : i \in 0 .. (Len(t.vec) - 1) /\ t.vec[i + 1] # Vacant
    BY DEF Ids
  <1>4. \A i \in 0 .. (t.minFree - 1) : i \in Ids(t)
    BY <1>1 DEF VacantAboveMinFree
  <1>5. \A i \in 0 .. (Len(t.vec) - 1) : i \in Ids(t) \/ i \in free
    <2> SUFFICES ASSUME NEW i \in 0 .. (Len(t.vec) - 1), i \notin Ids(t) PROVE i \in free
      OBVIOUS
    <2>1. t.vec[i + 1] = Vacant
      BY DEF Ids
    <2>2. i \notin 0 .. (t.minFree - 1)
      BY <1>4
    <2> QED BY <2>1, <2>2, <1>1
  <1>6. free \subseteq Nat /\ \A i \in free : i \in 0 .. (Len(t.vec) - 1) /\ t.vec[i + 1] = Vacant
    BY <1>1
  <1> HIDE DEF free, next
  <1>7. CASE free = {}
    <2>1. next = Len(t.vec)
      BY <1>2, <1>7
    <2>2. Len(t.vec) \notin Ids(t)
      BY <1>1, <1>3
    <2> QED BY <2>1, <2>2, <1>1, <1>5, <1>7 DEF next
  <1>8. CASE free # {}
    <2>1. \E x \in free : \A other \in free : x <= other
      BY <1>6, <1>8, LeastId
    <2>2. next \in free /\ \A other \in free : next <= other
      BY <2>1, <1>2, <1>8
    <2>3. next \in Nat /\ next \notin Ids(t) /\ next \in 0 .. (Len(t.vec) - 1)
      BY <2>2, <1>3, <1>6
    <2>4. \A i \in 0 .. (next - 1) : i \in 0 .. (Len(t.vec) - 1) /\ i \notin free
      BY <2>2, <2>3, <1>1, <1>6
    <2> QED BY <2>3, <2>4, <1>5 DEF next
  <1> QED BY <1>7, <1>8

\* addName, addType, addSegment.
LEMMA AddIs ==
    ASSUME NEW E, Entries(E), NEW t \in Tables(E), TableSound(t), NEW e \in E
    PROVE  Added(E, t, Add(t, e), NextId(t), e) /\ TableSound(Add(t, e))
  <1> DEFINE id == NextId(t)
             a == AddEntry(t, id, e)
             u == Add(t, e)
  <1>1. id \in Nat /\ id \notin Ids(t) /\ \A i \in 0 .. (id - 1) : i \in Ids(t)
    BY NextIdIs DEF TableSound
  <1>2. Added(E, t, a, id, e)
    BY <1>1, AddEntryIs DEF TableSound
  <1>3. u = [a EXCEPT !.minFree = id + 1]
    BY DEF Add
  <1> HIDE DEF id, a, u
  <1>4. a = [vec |-> a.vec, chain |-> a.chain, minFree |-> a.minFree] /\ a \in Tables(E)
    BY <1>2 DEF Added, Tables
  <1>5. u = [vec |-> a.vec, chain |-> a.chain, minFree |-> id + 1]
    BY <1>3, <1>4
  <1>6. u \in Tables(E)
    BY <1>4, <1>5, <1>1 DEF Tables
  <1>7. u.vec = a.vec /\ u.chain = a.chain /\ u.minFree = id + 1
    BY <1>5
  <1>8. Ids(u) = Ids(a) /\ \A i : EntryOf(u, i) = EntryOf(a, i)
    BY <1>7 DEF Ids, EntryOf
  <1>9. ChainsSound(u)
    BY <1>2, <1>7, <1>8 DEF ChainsSound, Added
  <1>10. Added(E, t, u, id, e)
    BY <1>2, <1>6, <1>8, <1>9 DEF Added
  <1>11. VacantAboveMinFree(u)
    <2> SUFFICES ASSUME NEW i \in 0 .. ((id + 1) - 1) PROVE i \in Ids(u)
      BY <1>6, <1>7, TableFields DEF VacantAboveMinFree
    <2>1. i = id \/ i \in 0 .. (id - 1)
      BY <1>1
    <2> QED BY <2>1, <1>1, <1>10 DEF Added
  <1> QED BY <1>9, <1>10, <1>11 DEF TableSound, id, u

\* A table with no entry.
LEMMA EmptyTableIs ==
    ASSUME NEW E
    PROVE  EmptyTable \in Tables(E) /\ TableSound(EmptyTable) /\ Ids(EmptyTable) = {}
  <1>1. EmptyTable.vec = <<>> /\ EmptyTable.minFree = 0 /\ \A s \in 0 .. (NSlots - 1) : EmptyTable.chain[s] = <<>>
    BY DEF EmptyTable
  <1>2. EmptyTable \in Tables(E)
    BY DEF EmptyTable, Tables
  <1>3. Ids(EmptyTable) = {}
    BY <1>1 DEF Ids
  <1>4. IsInjective(<<>>) /\ ToSet(<<>>) = {}
    BY DEF IsInjective, ToSet
  <1>5. ChainsSound(EmptyTable)
    BY <1>1, <1>3, <1>4 DEF ChainsSound
  <1>6. VacantAboveMinFree(EmptyTable)
    BY <1>1 DEF VacantAboveMinFree
  <1> QED BY <1>2, <1>3, <1>5, <1>6 DEF TableSound

-----------------------------------------------------------------------------
(* The inductive invariant.                                                *)

\* Entries of the three tables.
NameEntry == [key : Idents, hash : Nat, ref : Nat, alt : Int]
TypeEntry == [key : Sigs, hash : Nat, ref : Nat, fn : Int, alt : Int]
Segs == [names : Seq(Nat), types : Seq(Nat), hash : Nat]
SegEntry == [key : Segs, hash : Nat, ref : Nat]

Keyed(E, H, B, t) ==
    /\ t \in Tables(E) /\ TableSound(t)
    /\ \A i \in Ids(t) : EntryOf(t, i).hash = H[KeyOf(t, i)] /\ EntryOf(t, i).alt = PosIn(B, KeyOf(t, i))
    /\ \A i, j \in Ids(t) : KeyOf(t, i) = KeyOf(t, j) => i = j
NameTable(b, t) == Keyed(NameEntry, HashName, b.names, t)
TypeTable(b, t) == Keyed(TypeEntry, HashSig, b.sigs, t)

Has(t, key) == \E i \in Ids(t) : KeyOf(t, i) = key

\* The constant x of an environment with table t stands for key.
Says(B, t, x, key) ==
    \/ x \in 0 .. (Len(B) - 1) /\ B[x + 1] = key
    \/ /\ x \in Nat /\ x - Len(B) \in Ids(t)
       /\ KeyOf(t, x - Len(B)) = key /\ EntryOf(t, x - Len(B)).alt = NoId
Kept(B, t, x, key) == Says(B, t, x, key) /\ Has(t, key)

TypeConsNamed(names, types) ==
    \A i \in Ids(types) : \A n \in DOMAIN KeyOf(types, i) : Has(names, KeyOf(types, i)[n])
Environment ==
    [live : BOOLEAN, names : Tables(NameEntry), types : Tables(TypeEntry), segs : Tables(SegEntry)]
TablesOK(b, e) ==
    /\ e \in Environment
    /\ NameTable(b, e.names)
    /\ TypeTable(b, e.types)
    /\ TypeConsNamed(e.names, e.types)
    /\ TableSound(e.segs)
FnsIn(e) == \A i \in Ids(e.types) : EntryOf(e.types, i).fn \in Ids(e.segs) \cup {NoId}
EnvOK(b, e) == TablesOK(b, e) /\ FnsIn(e)

\* The hash value of the segment of a code, which moves with its header.
HashOf(c) == HashCode[CodeMeaning(c)]

\* seg has the header and the constants of c, in an environment e.
CodeIn(b, e, seg, c) ==
    /\ seg \in Segs /\ seg.hash = HashOf(c)
    /\ DOMAIN seg.names = DOMAIN CodeNames[c] /\ DOMAIN seg.types = DOMAIN CodeSigs[c]
    /\ \A n \in DOMAIN seg.names : Says(b.names, e.names, seg.names[n], CodeNames[c][n])
    /\ \A n \in DOMAIN seg.types : Says(b.sigs, e.types, seg.types[n], CodeSigs[c][n])

\* seg is being copied to e from src: its types before next are e's.
Copying(b, e, src, seg, next, c) ==
    /\ seg.hash = HashOf(c)
    /\ DOMAIN seg.names = DOMAIN CodeNames[c] /\ DOMAIN seg.types = DOMAIN CodeSigs[c]
    /\ \A n \in DOMAIN seg.names : Kept(b.names, e.names, seg.names[n], CodeNames[c][n])
    /\ \A n \in DOMAIN seg.types :
          IF n < next THEN Kept(b.sigs, e.types, seg.types[n], CodeSigs[c][n])
          ELSE Says(b.sigs, src.types, seg.types[n], CodeSigs[c][n])
Done(b, e, seg, c) == Copying(b, e, e, seg, Len(seg.types) + 1, c)

EnvsOK ==
    /\ program \in 1 .. Len(Builds)
    /\ DOMAIN env = Envs
    /\ \A e \in Envs : EnvOK(built, env[e])
    /\ \A s \in Sources : env[s].segs = EmptyTable
    /\ \A d \in Targets : ~env[d].live =>
          env[d].names = EmptyTable /\ env[d].types = EmptyTable /\ env[d].segs = EmptyTable
CodeOK ==
    /\ DOMAIN code = Codes
    /\ \A c \in Codes : code[c] # NoCode => CodeIn(built, env[CodeEnv[c]], code[c], c)
LiveOK == \A d \in Targets : env[d].live => Compiled
HeldName(b, ev, h) ==
    /\ h.env \in Targets /\ ev[h.env].live /\ h.name \in Nat
    /\ Kept(b.names, ev[h.env].names, h.name, h.ident)
HeldOK == \A h \in held : HeldName(built, env, h)
Frames == [env : Targets, src : Envs, seg : Nat, next : Nat \ {0}]
FrameOK(b, ev, frame) ==
    /\ frame \in Frames
    /\ frame.src # frame.env
    /\ ev[frame.env].live
    /\ frame.seg \in Ids(ev[frame.env].segs)
    /\ \E c \in Codes : Copying(b, ev[frame.env], ev[frame.src],
                               KeyOf(ev[frame.env].segs, frame.seg), frame.next, c)
WorkOK ==
    /\ work \in Seq(Frames)
    /\ Len(work) <= WorkBound
    /\ ~Idle => Compiled
    /\ \A n \in DOMAIN work : work[n].env = work[1].env /\ FrameOK(built, env, work[n])
    /\ \A m, n \in DOMAIN work : work[m].seg = work[n].seg => m = n
InWork(d, id) == \E n \in DOMAIN work : work[n].env = d /\ work[n].seg = id
HasDone(b, e, id) == \E c \in Codes : Done(b, e, KeyOf(e.segs, id), c)
SegsOK == \A d \in Targets : \A id \in Ids(env[d].segs) : InWork(d, id) \/ HasDone(built, env[d], id)

SavedName == [id : Nat, entry : NameEntry]
SavedType == [id : Nat, entry : [key : Seq(Nat), hash : Nat, ref : Nat, fn : Int, alt : Int]]
SavedSeg == [id : Nat, entry : SegEntry]
SavedIds(records) == {records[n].id : n \in DOMAIN records}
SavedKey(records, id) == records[CHOOSE n \in DOMAIN records : records[n].id = id].entry.key
OneRecordEach(records) == \A m, n \in DOMAIN records : records[m].id = records[n].id => m = n
SigFrom(names, key) == [n \in DOMAIN key |-> SavedKey(names, key[n])]
SavedNamesOK(names) ==
    /\ names \in Seq(SavedName) /\ OneRecordEach(names)
    /\ \A n \in DOMAIN names : names[n].entry.hash = HashName[names[n].entry.key]
    /\ \A m, n \in DOMAIN names : names[m].entry.key = names[n].entry.key => m = n
SavedTypesOK(names, types, segs) ==
    /\ types \in Seq(SavedType) /\ OneRecordEach(types)
    /\ \A n \in DOMAIN types :
          LET entry == types[n].entry
          IN  /\ \A k \in DOMAIN entry.key : entry.key[k] \in SavedIds(names)
              /\ SigFrom(names, entry.key) \in Sigs
              /\ entry.hash = HashSig[SigFrom(names, entry.key)]
              /\ entry.fn \in SavedIds(segs) \cup {NoId}
    /\ \A m, n \in DOMAIN types :
          SigFrom(names, types[m].entry.key) = SigFrom(names, types[n].entry.key) => m = n
\* seg has the constants of c, in an archive with these names and types.
SegSays(names, types, seg, c) ==
    /\ seg \in Segs /\ seg.hash = HashOf(c)
    /\ DOMAIN seg.names = DOMAIN CodeNames[c] /\ DOMAIN seg.types = DOMAIN CodeSigs[c]
    /\ \A k \in DOMAIN seg.names : seg.names[k] \in SavedIds(names) /\ SavedKey(names, seg.names[k]) = CodeNames[c][k]
    /\ \A k \in DOMAIN seg.types : /\ seg.types[k] \in SavedIds(types)
                                   /\ SigFrom(names, SavedKey(types, seg.types[k])) = CodeSigs[c][k]
SavedSegsOK(names, types, segs) ==
    /\ segs \in Seq(SavedSeg) /\ OneRecordEach(segs)
    /\ \A n \in DOMAIN segs : \E c \in Codes : SegSays(names, types, segs[n].entry.key, c)
SavedHeldOK(names, h) ==
    \A r \in h : r.id \in SavedIds(names) /\ SavedKey(names, r.id) = r.ident
ArchiveOK ==
    archive # NoArchive =>
        /\ SavedNamesOK(archive.names)
        /\ SavedTypesOK(archive.names, archive.types, archive.segs)
        /\ SavedSegsOK(archive.names, archive.types, archive.segs)
        /\ SavedHeldOK(archive.names, archive.held)

EInv == EnvsOK /\ CodeOK /\ LiveOK /\ HeldOK /\ WorkOK /\ SegsOK /\ ArchiveOK

-----------------------------------------------------------------------------
(* Tables of names and types.                                              *)

Grows(t, u) == Ids(t) \subseteq Ids(u) /\ \A i \in Ids(t) : EntryOf(u, i) = EntryOf(t, i)

\* What the entries of a keyed table are.
KeyedEntries(E, H) == Entries(E) /\ \A e \in E : H[e.key] \in Nat

\* Entries of names and of types are entries of keyed tables.
LEMMA EntriesAre ==
    KeyedEntries(NameEntry, HashName) /\ KeyedEntries(TypeEntry, HashSig) /\ Entries(SegEntry)
  <1>1. Vacant \notin NameEntry /\ Vacant \notin TypeEntry /\ Vacant \notin SegEntry
    <2>1. DOMAIN Vacant = {"ref"}
      BY DEF Vacant
    <2>2. \A e \in NameEntry : "key" \in DOMAIN e
      BY DEF NameEntry
    <2>3. \A e \in TypeEntry : "key" \in DOMAIN e
      BY DEF TypeEntry
    <2>4. \A e \in SegEntry : "key" \in DOMAIN e
      BY DEF SegEntry
    <2> QED BY <2>1, <2>2, <2>3, <2>4
  <1>2. \A e \in NameEntry : e.key \in Idents /\ e.hash \in Nat
    BY DEF NameEntry
  <1>3. \A e \in TypeEntry : e.key \in Sigs /\ e.hash \in Nat
    BY DEF TypeEntry
  <1>4. \A e \in SegEntry : e.hash \in Nat
    BY DEF SegEntry
  <1>5. HashName \in [Idents -> Nat] /\ HashSig \in [Sigs -> Nat]
    BY EnvironmentsAssumption
  <1> QED BY <1>1, <1>2, <1>3, <1>4, <1>5 DEF KeyedEntries, Entries

Found(t, key, id) == \/ id \in Ids(t) /\ KeyOf(t, id) = key
                     \/ id = NoId /\ ~Has(t, key)

\* lookUp finds the one entry of a key, if the table has it.
LEMMA KeyedLookUp ==
    ASSUME NEW E, NEW H, NEW B, NEW t, Keyed(E, H, B, t), NEW key, H[key] \in Nat
    PROVE  Found(t, key, LookUp(t, key, H[key]))
  <1>1. t \in Tables(E) /\ ChainsSound(t)
    BY DEF Keyed, TableSound
  <1>2. \A i \in Ids(t) : KeyOf(t, i) = key => EntryOf(t, i).hash = H[key]
    BY DEF Keyed
  <1> DEFINE id == LookUp(t, key, H[key])
  <1>3. \/ id \in Ids(t) /\ KeyOf(t, id) = key
        \/ id = NoId /\ \A i \in Ids(t) : KeyOf(t, i) # key
    <2> DEFINE h == H[key]
    <2>1. h \in Nat /\ \A i \in Ids(t) : KeyOf(t, i) = key => EntryOf(t, i).hash = h
      BY <1>2
    <2> HIDE DEF h
    <2>2. \/ LookUp(t, key, h) \in Ids(t) /\ KeyOf(t, LookUp(t, key, h)) = key
          \/ LookUp(t, key, h) = NoId /\ \A i \in Ids(t) : KeyOf(t, i) # key
      BY <1>1, <2>1, LookUpIs
    <2> QED BY <2>2 DEF h
  <1> QED BY <1>3 DEF Found, Has

\* A key that has no entry is entered.
LEMMA KeyedLookUpByHash ==
    ASSUME NEW E, NEW H, NEW B, NEW t, Keyed(E, H, B, t), NEW key, NEW h \in Nat, h = H[key]
    PROVE  Found(t, key, LookUp(t, key, h))
  BY KeyedLookUp

\* addName and addType of a key that is not there keep one entry for each key.
LEMMA KeyedAdd ==
    ASSUME NEW E, NEW H, NEW B, NEW t, Keyed(E, H, B, t), KeyedEntries(E, H),
           NEW e \in E, e.hash = H[e.key], e.alt = PosIn(B, e.key), ~Has(t, e.key)
    PROVE  /\ Keyed(E, H, B, Add(t, e)) /\ Grows(t, Add(t, e)) /\ Has(Add(t, e), e.key)
           /\ Ids(Add(t, e)) = Ids(t) \cup {NextId(t)} /\ EntryOf(Add(t, e), NextId(t)) = e
  <1> DEFINE u == Add(t, e)
             id == NextId(t)
  <1>1. Added(E, t, u, id, e) /\ TableSound(u)
    BY AddIs DEF Keyed, KeyedEntries
  <1> HIDE DEF u, id
  <1>2. /\ u \in Tables(E) /\ Ids(u) = Ids(t) \cup {id} /\ EntryOf(u, id) = e
        /\ \A i \in Ids(t) : EntryOf(u, i) = EntryOf(t, i)
    BY <1>1 DEF Added
  <1>3. \A i \in Ids(t) : KeyOf(u, i) = KeyOf(t, i) /\ KeyOf(t, i) # e.key
    BY <1>2 DEF KeyOf, Has
  <1>4. KeyOf(u, id) = e.key
    BY <1>2 DEF KeyOf
  <1>5. \A i \in Ids(u) : EntryOf(u, i).hash = H[KeyOf(u, i)] /\ EntryOf(u, i).alt = PosIn(B, KeyOf(u, i))
    <2> SUFFICES ASSUME NEW i \in Ids(u)
                 PROVE  EntryOf(u, i).hash = H[KeyOf(u, i)] /\ EntryOf(u, i).alt = PosIn(B, KeyOf(u, i))
      OBVIOUS
    <2>1. CASE i = id
      BY <2>1, <1>2, <1>4
    <2>2. CASE i \in Ids(t)
      BY <2>2, <1>2, <1>3 DEF Keyed
    <2> QED BY <2>1, <2>2, <1>2
  <1>6. \A i, j \in Ids(u) : KeyOf(u, i) = KeyOf(u, j) => i = j
    BY <1>2, <1>3, <1>4 DEF Keyed
  <1>7. Keyed(E, H, B, u)
    BY <1>1, <1>2, <1>5, <1>6 DEF Keyed
  <1>8. Grows(t, u) /\ Has(u, e.key)
    BY <1>2, <1>4 DEF Grows, Has
  <1> QED BY <1>2, <1>7, <1>8 DEF u, id

\* Growth, step by step.
LEMMA GrowsTransitive ==
    ASSUME NEW t, NEW u, NEW v, Grows(t, u), Grows(u, v) PROVE Grows(t, v)
  BY DEF Grows

\* A table that stays as it is grows.
LEMMA GrowsReflexive == \A t : Grows(t, t)
  BY DEF Grows

\* What a constant stands for does not change when tables grow.
LEMMA GrowthKeeps ==
    ASSUME NEW t, NEW u, Grows(t, u), NEW B, NEW x, NEW key
    PROVE  /\ Says(B, t, x, key) => Says(B, u, x, key)
           /\ Has(t, key) => Has(u, key)
           /\ Kept(B, t, x, key) => Kept(B, u, x, key)
  <1>1. \A i \in Ids(t) : i \in Ids(u) /\ EntryOf(u, i) = EntryOf(t, i) /\ KeyOf(u, i) = KeyOf(t, i)
    BY DEF Grows, KeyOf
  <1>2. Says(B, t, x, key) => Says(B, u, x, key)
    BY <1>1 DEF Says
  <1>3. Has(t, key) => Has(u, key)
    BY <1>1 DEF Has
  <1> QED BY <1>2, <1>3 DEF Kept

\* The position of a key that is built in, and of one that is not.
LEMMA PosInIs ==
    ASSUME NEW S, NEW B \in Seq(S), IsInjective(B), NEW key
    PROVE  /\ PosIn(B, key) # NoId => PosIn(B, key) \in 0 .. (Len(B) - 1) /\ B[PosIn(B, key) + 1] = key
           /\ \A x \in 0 .. (Len(B) - 1) : B[x + 1] = key => PosIn(B, key) = x
           /\ PosIn(B, key) \in Int
  <1>1. Len(B) \in Nat /\ DOMAIN B = 1 .. Len(B)
    OBVIOUS
  <1>2. CASE \E n \in 1 .. Len(B) : B[n] = key
    <2> DEFINE m == CHOOSE n \in 1 .. Len(B) : B[n] = key
    <2>1. m \in 1 .. Len(B) /\ B[m] = key
      BY <1>2
    <2>2. PosIn(B, key) = m - 1
      BY <1>2 DEF PosIn
    <2> HIDE DEF m
    <2>3. m - 1 \in 0 .. (Len(B) - 1) /\ (m - 1) + 1 = m /\ m - 1 \in Int
      BY <2>1, <1>1
    <2>4. ASSUME NEW x \in 0 .. (Len(B) - 1), B[x + 1] = key PROVE x = m - 1
      <3>1. x + 1 \in DOMAIN B /\ m \in DOMAIN B /\ B[x + 1] = B[m]
        BY <2>1, <2>4, <1>1
      <3>2. x + 1 = m
        BY <3>1 DEF IsInjective
      <3> QED BY <3>2, <2>1, <1>1
    <2> QED BY <2>1, <2>2, <2>3, <2>4
  <1>3. CASE ~\E n \in 1 .. Len(B) : B[n] = key
    <2>1. PosIn(B, key) = NoId /\ NoId \in Int
      BY <1>3 DEF PosIn, NoId
    <2>2. \A x \in 0 .. (Len(B) - 1) : x + 1 \in 1 .. Len(B)
      BY <1>1
    <2> QED BY <2>1, <2>2, <1>3
  <1> QED BY <1>2, <1>3

\* The built-in names and types.
BuiltOK(b) ==
    /\ b.names \in Seq(Idents) /\ IsInjective(b.names)
    /\ b.sigs \in Seq(Sigs) /\ IsInjective(b.sigs)

\* The built-in names and types of a run differ.
LEMMA BuiltIs ==
    ASSUME program \in 1 .. Len(Builds) PROVE BuiltOK(built)
  <1>1. Builds \in Seq([names : Seq(Idents), sigs : Seq(Sigs)])
    BY EnvironmentsAssumption
  <1>2. built \in [names : Seq(Idents), sigs : Seq(Sigs)]
    <2> DEFINE S == [names : Seq(Idents), sigs : Seq(Sigs)]
    <2>1. Builds \in Seq(S)
      BY <1>1
    <2> HIDE DEF S
    <2>2. Builds[program] \in S
      BY <2>1
    <2> QED BY <2>2 DEF built, S
  <1>3. built \in ToSet(Builds)
    <2>1. DOMAIN Builds = 1 .. Len(Builds)
      BY <1>1
    <2> QED BY <2>1 DEF built, ToSet
  <1> QED BY <1>2, <1>3, EnvironmentsAssumption DEF BuiltOK

\* The constant by which an entry is known in its environment.
FromId(B, t, id) == IF EntryOf(t, id).alt # NoId THEN EntryOf(t, id).alt ELSE Len(B) + id

\* An entry's alternate, if it has one, or its own number stands for its key.
LEMMA FromIdIs ==
    ASSUME NEW E, NEW H, NEW S, NEW B \in Seq(S), IsInjective(B), NEW t, Keyed(E, H, B, t), NEW id \in Ids(t)
    PROVE  Kept(B, t, FromId(B, t, id), KeyOf(t, id)) /\ FromId(B, t, id) \in Nat
  <1> DEFINE e == EntryOf(t, id)
             x == FromId(B, t, id)
  <1>0. t \in Tables(E)
    BY DEF Keyed
  <1>1. Len(B) \in Nat /\ id \in Nat
    BY <1>0, IdsAreNat
  <1>2. e.alt = PosIn(B, KeyOf(t, id)) /\ Has(t, KeyOf(t, id))
    BY DEF Keyed, Has
  <1>3. CASE e.alt # NoId
    <2>1. e.alt \in 0 .. (Len(B) - 1) /\ B[e.alt + 1] = KeyOf(t, id)
      BY <1>2, <1>3, PosInIs
    <2>2. x = e.alt
      BY <1>3 DEF FromId
    <2> QED BY <2>1, <2>2, <1>1, <1>2 DEF Kept, Says
  <1>4. CASE e.alt = NoId
    <2>1. x = Len(B) + id
      BY <1>4 DEF FromId
    <2>2. x - Len(B) = id /\ x \in Nat
      BY <2>1, <1>1
    <2> QED BY <2>2, <1>2, <1>4 DEF Kept, Says
  <1> QED BY <1>3, <1>4

\* useName leaves an entry for the identifier, and every other entry as it was.
LEMMA UseNameIs ==
    ASSUME BuiltOK(built), NEW t, NameTable(built, t), NEW ident \in Idents
    PROVE  NameTable(built, UseName(t, ident)) /\ Grows(t, UseName(t, ident)) /\ Has(UseName(t, ident), ident)
  <1> DEFINE u == UseName(t, ident)
             e == [key |-> ident, hash |-> HashName[ident], ref |-> 1, alt |-> PosIn(built.names, ident)]
             id == LookUp(t, ident, HashName[ident])
  <1>1. HashName[ident] \in Nat
    BY EnvironmentsAssumption
  <1>2. Keyed(NameEntry, HashName, built.names, t)
    BY DEF NameTable
  <1>3. Found(t, ident, id)
    BY <1>1, <1>2, KeyedLookUp
  <1>4. CASE id # NoId
    <2>1. u = t
      BY <1>4 DEF UseName
    <2> QED BY <2>1, <1>3, <1>4, GrowsReflexive DEF Found, Has
  <1>5. CASE id = NoId
    <2>1. u = Add(t, e)
      BY <1>5 DEF UseName
    <2>2. ~Has(t, ident)
      <3>1. NoId \notin Ids(t)
        <4>1. t \in Tables(NameEntry)
          BY <1>2 DEF Keyed
        <4> QED BY <4>1, IdsAreNat
      <3> QED BY <3>1, <1>3, <1>5 DEF Found
    <2>3. e \in NameEntry
      BY <1>1, PosInIs DEF NameEntry, BuiltOK
    <2>4. e.key = ident /\ e.hash = HashName[ident] /\ e.alt = PosIn(built.names, ident)
      OBVIOUS
    <2> HIDE DEF e
    <2>5. Keyed(NameEntry, HashName, built.names, Add(t, e)) /\ Grows(t, Add(t, e)) /\ Has(Add(t, e), e.key)
      BY <1>2, <2>2, <2>3, <2>4, KeyedAdd, EntriesAre
    <2> QED BY <2>1, <2>4, <2>5 DEF NameTable
  <1> QED BY <1>4, <1>5

\* The name that the compiler writes into a segment stands for the identifier.
LEMMA NameInIs ==
    ASSUME BuiltOK(built), NEW t, NameTable(built, t), NEW ident \in Idents, Has(t, ident)
    PROVE  Kept(built.names, t, NameIn(t, ident), ident) /\ NameIn(t, ident) \in Nat
  <1> DEFINE id == LookUp(t, ident, HashName[ident])
  <1>1. HashName[ident] \in Nat
    BY EnvironmentsAssumption
  <1>2. Keyed(NameEntry, HashName, built.names, t)
    BY DEF NameTable
  <1>3. id \in Ids(t) /\ KeyOf(t, id) = ident
    BY <1>1, <1>2, KeyedLookUp DEF Found
  <1>4. NameIn(t, ident) = FromId(built.names, t, id)
    BY DEF NameIn, FromId, BNames
  <1> QED BY <1>2, <1>3, <1>4, FromIdIs DEF BuiltOK

\* The type that the compiler writes into a segment stands for the signature.
LEMMA TypeInIs ==
    ASSUME BuiltOK(built), NEW t, TypeTable(built, t), NEW sig \in Sigs, Has(t, sig)
    PROVE  Kept(built.sigs, t, TypeIn(t, sig), sig) /\ TypeIn(t, sig) \in Nat
  <1> DEFINE id == LookUp(t, sig, HashSig[sig])
  <1>1. HashSig[sig] \in Nat
    BY EnvironmentsAssumption
  <1>2. Keyed(TypeEntry, HashSig, built.sigs, t)
    BY DEF TypeTable
  <1>3. id \in Ids(t) /\ KeyOf(t, id) = sig
    BY <1>1, <1>2, KeyedLookUp DEF Found
  <1>4. TypeIn(t, sig) = FromId(built.sigs, t, id)
    BY DEF TypeIn, FromId, BTypes
  <1> QED BY <1>2, <1>3, <1>4, FromIdIs DEF BuiltOK

\* A constant that is not built in, as an entry of its environment.
LEMMA OwnConstant ==
    ASSUME NEW S, NEW B \in Seq(S), NEW E, NEW t \in Tables(E), NEW x, NEW key, Says(B, t, x, key)
    PROVE  /\ x \in Nat
           /\ x < Len(B) => B[x + 1] = key /\ x + 1 \in 1 .. Len(B)
           /\ ~(x < Len(B)) => /\ x - Len(B) \in Ids(t) /\ KeyOf(t, x - Len(B)) = key
                               /\ EntryOf(t, x - Len(B)).alt = NoId
  <1>1. Len(B) \in Nat
    OBVIOUS
  <1>2. CASE x \in 0 .. (Len(B) - 1) /\ B[x + 1] = key
    BY <1>1, <1>2
  <1>3. CASE /\ x \in Nat /\ x - Len(B) \in Ids(t) /\ KeyOf(t, x - Len(B)) = key
             /\ EntryOf(t, x - Len(B)).alt = NoId
    <2>1. x - Len(B) \in Nat
      BY <1>3, TableFields
    <2> QED BY <1>1, <1>3, <2>1
  <1> QED BY <1>2, <1>3 DEF Says

\* The entry that mapName makes of another environment's entry.
LEMMA EntryMapped ==
    ASSUME NEW K, NEW e \in [key : K, hash : Nat, ref : Nat, alt : Int], NEW a,
           a = [e EXCEPT !.ref = 1, !.alt = NoId]
    PROVE  a = [key |-> e.key, hash |-> e.hash, ref |-> 1, alt |-> NoId]
  OBVIOUS

\* mapName leaves an entry for the identifier of the source's name.
LEMMA MapNameIs ==
    ASSUME BuiltOK(built), NEW t, NameTable(built, t), NEW src, NameTable(built, src),
           NEW name, NEW ident \in Idents, Says(built.names, src, name, ident)
    PROVE  /\ NameTable(built, MapName(t, src, name)) /\ Grows(t, MapName(t, src, name))
           /\ Has(MapName(t, src, name), ident)
  <1> DEFINE x == name - BNames
             e == EntryOf(src, x)
             a == [e EXCEPT !.ref = 1, !.alt = NoId]
             u == MapName(t, src, name)
  <1>1. Keyed(NameEntry, HashName, built.names, t) /\ Keyed(NameEntry, HashName, built.names, src)
    BY DEF NameTable
  <1>2. src \in Tables(NameEntry) /\ t \in Tables(NameEntry) /\ built.names \in Seq(Idents)
    BY <1>1 DEF Keyed, BuiltOK
  <1>3. /\ name < BNames => built.names[name + 1] = ident
        /\ ~(name < BNames) => x \in Ids(src) /\ KeyOf(src, x) = ident /\ EntryOf(src, x).alt = NoId
    BY <1>2, OwnConstant DEF BNames
  <1>4. CASE name < BNames
    <2>1. u = UseName(t, ident)
      BY <1>3, <1>4 DEF MapName
    <2> QED BY <2>1, UseNameIs
  <1>5. CASE ~(name < BNames)
    <2>1. x \in Ids(src) /\ KeyOf(src, x) = ident /\ e.alt = NoId
      BY <1>3, <1>5
    <2>2. e \in NameEntry
      BY <1>2, <2>1, TableFields
    <2>3. e.key = ident /\ e.hash = HashName[ident] /\ PosIn(built.names, ident) = NoId
      BY <1>1, <2>1 DEF Keyed, KeyOf
    <2>4. a \in NameEntry /\ a.key = ident /\ a.hash = HashName[ident] /\ a.alt = NoId
      <3>1. a = [e EXCEPT !.ref = 1, !.alt = NoId]
        OBVIOUS
      <3> HIDE DEF e, a
      <3>2. e \in [key : Idents, hash : Nat, ref : Nat, alt : Int]
        BY <2>2 DEF NameEntry
      <3>3. a = [key |-> e.key, hash |-> e.hash, ref |-> 1, alt |-> NoId]
        BY <3>1, <3>2, EntryMapped
      <3>4. e.key \in Idents /\ e.hash \in Nat /\ NoId \in Int
        BY <3>2 DEF NoId
      <3> QED BY <3>3, <3>4, <2>3 DEF NameEntry
    <2>5. u = IF LookUp(t, ident, HashName[ident]) # NoId THEN t ELSE Add(t, a)
      BY <1>5, <2>3 DEF MapName
    <2> HIDE DEF a, e, x, u
    <2>6. HashName[ident] \in Nat
      BY EnvironmentsAssumption
    <2>7. Found(t, ident, LookUp(t, ident, HashName[ident]))
      BY <1>1, <2>6, KeyedLookUp
    <2>8. CASE LookUp(t, ident, HashName[ident]) # NoId
      BY <2>5, <2>7, <2>8, GrowsReflexive DEF Found, Has, u
    <2>9. CASE LookUp(t, ident, HashName[ident]) = NoId
      <3>1. ~Has(t, a.key)
        BY <2>4, <2>7, <2>9, <1>2, IdsAreNat DEF Found
      <3>2. Keyed(NameEntry, HashName, built.names, Add(t, a)) /\ Grows(t, Add(t, a)) /\ Has(Add(t, a), a.key)
        BY <1>1, <2>3, <2>4, <3>1, KeyedAdd, EntriesAre
      <3>3. u = Add(t, a)
        BY <2>5, <2>9
      <3> QED BY <3>2, <3>3, <2>4 DEF NameTable, u
    <2> QED BY <2>8, <2>9
  <1> QED BY <1>4, <1>5

\* The name that MapName's result has for it.
LEMMA MappedNameIs ==
    ASSUME BuiltOK(built), NEW t, NameTable(built, t), NEW src, NameTable(built, src),
           NEW name, NEW ident \in Idents, Says(built.names, src, name, ident), Has(t, ident)
    PROVE  Kept(built.names, t, MappedName(t, src, name), ident) /\ MappedName(t, src, name) \in Nat
  <1> DEFINE x == name - BNames
             id == LookUp(t, ident, HashName[ident])
             m == MappedName(t, src, name)
  <1>1. Keyed(NameEntry, HashName, built.names, t) /\ Keyed(NameEntry, HashName, built.names, src)
    BY DEF NameTable
  <1>2. src \in Tables(NameEntry) /\ t \in Tables(NameEntry) /\ built.names \in Seq(Idents) /\ BNames \in Nat
    BY <1>1 DEF Keyed, BuiltOK, BNames
  <1>3. /\ name \in Nat
        /\ name < BNames => built.names[name + 1] = ident
        /\ ~(name < BNames) => x \in Ids(src) /\ KeyOf(src, x) = ident /\ EntryOf(src, x).alt = NoId
    BY <1>2, OwnConstant DEF BNames
  <1>4. CASE name < BNames
    <2>1. m = name
      BY <1>4 DEF MappedName
    <2>2. Says(built.names, t, name, ident)
      BY <1>2, <1>3, <1>4 DEF Says, BNames
    <2> QED BY <2>1, <2>2, <1>3 DEF Kept
  <1>5. CASE ~(name < BNames)
    <2>1. x \in Ids(src) /\ KeyOf(src, x) = ident /\ EntryOf(src, x).alt = NoId
      BY <1>3, <1>5
    <2>2. EntryOf(src, x).hash = HashName[ident] /\ PosIn(built.names, ident) = NoId
      BY <1>1, <2>1 DEF Keyed
    <2>3. m = BNames + id
      BY <1>5, <2>1, <2>2 DEF MappedName
    <2>4. HashName[ident] \in Nat
      BY EnvironmentsAssumption
    <2>5. id \in Ids(t) /\ KeyOf(t, id) = ident
      BY <1>1, <2>4, KeyedLookUp DEF Found
    <2>6. EntryOf(t, id).alt = NoId
      BY <1>1, <2>2, <2>5 DEF Keyed
    <2> HIDE DEF id, m
    <2>7. id \in Nat /\ m \in Nat /\ m - Len(built.names) = id
      BY <2>3, <2>5, <1>2, IdsAreNat DEF BNames
    <2> QED BY <2>5, <2>6, <2>7 DEF Kept, Says, m
  <1> QED BY <1>4, <1>5

-----------------------------------------------------------------------------
(* What is done once for each element of a sequence.                       *)

UseNameOp(p, t, ident) == UseName(t, ident)
UseNameHolds(p, t, n) ==
    NameTable(built, t) /\ Grows(p.base, t) /\ \A k \in 1 .. n : Has(t, p.idents[k])
UseNamesFold == INSTANCE ThroughProofs WITH Op <- UseNameOp, Holds <- UseNameHolds

\* addTypeConNames enters every identifier of a signature.
LEMMA UseNamesIs ==
    ASSUME BuiltOK(built), NEW t, NameTable(built, t), NEW idents \in Seq(Idents)
    PROVE  /\ NameTable(built, UseNames(t, idents)) /\ Grows(t, UseNames(t, idents))
           /\ \A n \in DOMAIN idents : Has(UseNames(t, idents), idents[n])
  <1> DEFINE p == [base |-> t, idents |-> idents]
  <1>1. p.base = t /\ p.idents = idents /\ Len(idents) \in Nat /\ DOMAIN idents = 1 .. Len(idents)
    OBVIOUS
  <1> HIDE DEF p
  <1>2. UseNameHolds(p, t, 0)
    BY <1>1, GrowsReflexive DEF UseNameHolds
  <1>3. ASSUME NEW n \in 1 .. Len(idents), NEW u, UseNameHolds(p, u, n - 1)
        PROVE  UseNameHolds(p, UseNameOp(p, u, idents[n]), n)
    <2> DEFINE v == UseName(u, idents[n])
    <2>1. idents[n] \in Idents
      OBVIOUS
    <2>2. NameTable(built, u) /\ Grows(t, u) /\ \A k \in 1 .. (n - 1) : Has(u, idents[k])
      BY <1>1, <1>3 DEF UseNameHolds
    <2>3. NameTable(built, v) /\ Grows(u, v) /\ Has(v, idents[n])
      BY <2>1, <2>2, UseNameIs
    <2> HIDE DEF v
    <2>4. Grows(t, v)
      BY <2>2, <2>3, GrowsTransitive
    <2>5. \A k \in 1 .. n : Has(v, idents[k])
      <3> SUFFICES ASSUME NEW k \in 1 .. n PROVE Has(v, idents[k])
        OBVIOUS
      <3>1. k = n \/ k \in 1 .. (n - 1)
        OBVIOUS
      <3> QED BY <3>1, <2>2, <2>3, GrowthKeeps
    <2> QED BY <1>1, <2>3, <2>4, <2>5 DEF UseNameHolds, UseNameOp, v
  <1>4. UseNameHolds(p, UseNamesFold!Folded(p, t, idents), Len(idents))
    BY <1>1, <1>2, <1>3, UseNamesFold!ThroughHolds, NSlotsAssumption
  <1>5. UseNamesFold!Folded(p, t, idents) = UseNames(t, idents)
    BY DEF UseNamesFold!Folded, UseNamesFold!Through, Through, UseNames, UseNameOp
  <1> QED BY <1>1, <1>4, <1>5 DEF UseNameHolds

MapNameOp(p, t, name) == MapName(t, p.src, name)
MapNameHolds(p, t, n) ==
    NameTable(built, t) /\ Grows(p.base, t) /\ \A k \in 1 .. n : Has(t, p.idents[k])
MapNamesFold == INSTANCE ThroughProofs WITH Op <- MapNameOp, Holds <- MapNameHolds

\* copySegment maps every name of the segment.
LEMMA NamesMappedIs ==
    ASSUME BuiltOK(built), NEW t, NameTable(built, t), NEW src, NameTable(built, src),
           NEW names \in Seq(Nat), NEW idents \in Seq(Idents), DOMAIN names = DOMAIN idents,
           \A n \in DOMAIN names : Says(built.names, src, names[n], idents[n])
    PROVE  /\ NameTable(built, NamesMapped(t, src, names)) /\ Grows(t, NamesMapped(t, src, names))
           /\ \A n \in DOMAIN names : Has(NamesMapped(t, src, names), idents[n])
  <1> DEFINE p == [base |-> t, src |-> src, idents |-> idents]
  <1>1. /\ p.base = t /\ p.idents = idents /\ p.src = src
        /\ Len(names) \in Nat /\ DOMAIN names = 1 .. Len(names)
    OBVIOUS
  <1> HIDE DEF p
  <1>2. MapNameHolds(p, t, 0)
    BY <1>1, GrowsReflexive DEF MapNameHolds
  <1>3. ASSUME NEW n \in 1 .. Len(names), NEW u, MapNameHolds(p, u, n - 1)
        PROVE  MapNameHolds(p, MapNameOp(p, u, names[n]), n)
    <2> DEFINE v == MapName(u, src, names[n])
    <2>1. idents[n] \in Idents /\ Says(built.names, src, names[n], idents[n])
      <3>1. n \in DOMAIN names /\ n \in DOMAIN idents
        BY <1>1
      <3> QED BY <3>1
    <2>2. NameTable(built, u) /\ Grows(t, u) /\ \A k \in 1 .. (n - 1) : Has(u, idents[k])
      BY <1>1, <1>3 DEF MapNameHolds
    <2>3. NameTable(built, v) /\ Grows(u, v) /\ Has(v, idents[n])
      BY <2>1, <2>2, MapNameIs
    <2> HIDE DEF v
    <2>4. Grows(t, v)
      BY <2>2, <2>3, GrowsTransitive
    <2>5. \A k \in 1 .. n : Has(v, idents[k])
      <3> SUFFICES ASSUME NEW k \in 1 .. n PROVE Has(v, idents[k])
        OBVIOUS
      <3>1. k = n \/ k \in 1 .. (n - 1)
        OBVIOUS
      <3> QED BY <3>1, <2>2, <2>3, GrowthKeeps
    <2> QED BY <1>1, <2>3, <2>4, <2>5 DEF MapNameHolds, MapNameOp, v
  <1>4. MapNameHolds(p, MapNamesFold!Folded(p, t, names), Len(names))
    BY <1>1, <1>2, <1>3, MapNamesFold!ThroughHolds, NSlotsAssumption
  <1>5. MapNamesFold!Folded(p, t, names) = NamesMapped(t, src, names)
    BY <1>1 DEF MapNamesFold!Folded, MapNamesFold!Through, Through, NamesMapped, MapNameOp
  <1> QED BY <1>1, <1>4, <1>5 DEF MapNameHolds

-----------------------------------------------------------------------------
(* Types.                                                                  *)

GrowsEnv(e, f) == Grows(e.names, f.names) /\ Grows(e.types, f.types) /\ (e.live => f.live)

\* Growth of environments, step by step.
LEMMA GrowsEnvTransitive ==
    ASSUME NEW e, NEW f, NEW g, GrowsEnv(e, f), GrowsEnv(f, g) PROVE GrowsEnv(e, g)
  BY GrowsTransitive DEF GrowsEnv

\* An environment that stays as it is grows.
LEMMA GrowsEnvReflexive == \A e : GrowsEnv(e, e)
  BY GrowsReflexive DEF GrowsEnv

\* An environment with another table of segments.
LEMMA SegsUpdate ==
    ASSUME NEW L, NEW N, NEW T, NEW S, NEW e \in [live : L, names : N, types : T, segs : S], NEW x, NEW u,
           u = [e EXCEPT !.segs = x]
    PROVE  u = [live |-> e.live, names |-> e.names, types |-> e.types, segs |-> x]
  OBVIOUS

\* A type that has no entry is entered, with the names of its type constructors.
LEMMA EnterIs ==
    ASSUME BuiltOK(built), NEW e, TablesOK(built, e), NEW x \in TypeEntry,
           x.hash = HashSig[x.key], x.alt = PosIn(built.sigs, x.key), ~Has(e.types, x.key), NEW f,
           f = [live |-> e.live, names |-> UseNames(e.names, x.key), types |-> Add(e.types, x), segs |-> e.segs]
    PROVE  /\ TablesOK(built, f) /\ GrowsEnv(e, f) /\ Has(f.types, x.key) /\ f.segs = e.segs
           /\ \A i \in Ids(f.types) :
                 \/ i \in Ids(e.types) /\ EntryOf(f.types, i) = EntryOf(e.types, i)
                 \/ EntryOf(f.types, i) = x
  <1> DEFINE names == UseNames(e.names, x.key)
             types == Add(e.types, x)
             id == NextId(e.types)
  <1>1. /\ NameTable(built, e.names) /\ Keyed(TypeEntry, HashSig, built.sigs, e.types)
        /\ TypeConsNamed(e.names, e.types) /\ TableSound(e.segs) /\ e \in Environment
    BY DEF TablesOK, TypeTable
  <1>2. x.key \in Seq(Idents) /\ DOMAIN x.key = 1 .. Len(x.key)
    <2>1. x.key \in Sigs
      BY DEF TypeEntry
    <2> QED BY <2>1, EnvironmentsAssumption
  <1>3. /\ NameTable(built, names) /\ Grows(e.names, names)
        /\ \A n \in DOMAIN x.key : Has(names, x.key[n])
    BY <1>1, <1>2, UseNamesIs
  <1>4. /\ Keyed(TypeEntry, HashSig, built.sigs, types) /\ Grows(e.types, types) /\ Has(types, x.key)
        /\ Ids(types) = Ids(e.types) \cup {id} /\ EntryOf(types, id) = x
    BY <1>1, KeyedAdd, EntriesAre
  <1> HIDE DEF names, types, id
  <1>5. f = [live |-> e.live, names |-> names, types |-> types, segs |-> e.segs]
    BY DEF names, types
  <1>6. f.live = e.live /\ f.names = names /\ f.types = types /\ f.segs = e.segs
    BY <1>5
  <1>7. \A i \in Ids(types) : (i \in Ids(e.types) /\ EntryOf(types, i) = EntryOf(e.types, i)) \/ EntryOf(types, i) = x
    BY <1>4 DEF Grows
  <1>8. TypeConsNamed(names, types)
    <2> SUFFICES ASSUME NEW i \in Ids(types), NEW n \in DOMAIN KeyOf(types, i)
                 PROVE  Has(names, KeyOf(types, i)[n])
      BY DEF TypeConsNamed
    <2>1. CASE EntryOf(types, i) = x
      BY <2>1, <1>3 DEF KeyOf
    <2>2. CASE i \in Ids(e.types) /\ EntryOf(types, i) = EntryOf(e.types, i)
      <3>1. KeyOf(types, i) = KeyOf(e.types, i)
        BY <2>2 DEF KeyOf
      <3>2. Has(e.names, KeyOf(types, i)[n])
        BY <2>2, <3>1, <1>1 DEF TypeConsNamed
      <3> QED BY <3>2, <1>3, GrowthKeeps
    <2> QED BY <2>1, <2>2, <1>7
  <1>9. f \in Environment
    <2>1. names \in Tables(NameEntry) /\ types \in Tables(TypeEntry)
      BY <1>3, <1>4 DEF NameTable, Keyed
    <2> QED BY <2>1, <1>1, <1>5 DEF Environment
  <1>10. TablesOK(built, f)
    BY <1>1, <1>3, <1>4, <1>6, <1>8, <1>9 DEF TablesOK, TypeTable
  <1> QED BY <1>3, <1>4, <1>6, <1>7, <1>10 DEF GrowsEnv

\* The types of f are those of e, and perhaps sig with the methods fn.
TypeEntered(e, f, sig, fn) ==
    \A i \in Ids(f.types) : \/ i \in Ids(e.types) /\ EntryOf(f.types, i) = EntryOf(e.types, i)
                            \/ KeyOf(f.types, i) = sig /\ EntryOf(f.types, i).fn = fn

\* useType leaves an entry for the signature, and names for its type constructors.
LEMMA UseTypeInIs ==
    ASSUME BuiltOK(built), NEW e, EnvOK(built, e), NEW sig \in Sigs
    PROVE  /\ EnvOK(built, UseTypeIn(e, sig)) /\ GrowsEnv(e, UseTypeIn(e, sig))
           /\ UseTypeIn(e, sig).segs = e.segs /\ Has(UseTypeIn(e, sig).types, sig)
           /\ TypeEntered(e, UseTypeIn(e, sig), sig, NoId)
  <1> DEFINE id == LookUp(e.types, sig, HashSig[sig])
             x == [key |-> sig, hash |-> HashSig[sig], ref |-> 1, fn |-> NoId, alt |-> PosIn(built.sigs, sig)]
             f == UseTypeIn(e, sig)
  <1>1. /\ Keyed(TypeEntry, HashSig, built.sigs, e.types) /\ e \in Environment /\ TablesOK(built, e)
        /\ e.types \in Tables(TypeEntry)
    BY DEF EnvOK, TablesOK, TypeTable, Keyed
  <1>2. HashSig[sig] \in Nat
    BY EnvironmentsAssumption
  <1>3. Found(e.types, sig, id)
    BY <1>1, <1>2, KeyedLookUp
  <1>4. CASE id # NoId
    <2>1. f = e
      BY <1>4 DEF UseTypeIn
    <2>2. TypeEntered(e, f, sig, NoId)
      BY <2>1 DEF TypeEntered
    <2> QED BY <2>1, <2>2, <1>3, <1>4, GrowsEnvReflexive DEF Found, Has
  <1>5. CASE id = NoId
    <2>1. ~Has(e.types, sig)
      BY <1>1, <1>3, <1>5, IdsAreNat DEF Found
    <2>2. x \in TypeEntry
      BY <1>2, PosInIs DEF TypeEntry, NoId, BuiltOK
    <2>3. x.key = sig /\ x.hash = HashSig[sig] /\ x.alt = PosIn(built.sigs, sig) /\ x.fn = NoId
      OBVIOUS
    <2>4. UseType(e.types, sig) = Add(e.types, x)
      BY <1>5 DEF UseType
    <2> HIDE DEF x
    <2>5. f = [live |-> e.live, names |-> UseNames(e.names, sig), types |-> Add(e.types, x), segs |-> e.segs]
      <3> DEFINE n == UseNames(e.names, sig)
                 t == Add(e.types, x)
      <3>1. f = [e EXCEPT !.types = t, !.names = n]
        BY <1>5, <2>4 DEF UseTypeIn, AddTypeConNames
      <3> HIDE DEF n, t, f
      <3>2. e \in [live : BOOLEAN, names : Tables(NameEntry), types : Tables(TypeEntry), segs : Tables(SegEntry)]
        BY <1>1 DEF Environment
      <3>3. f = [live |-> e.live, names |-> n, types |-> t, segs |-> e.segs]
        BY ONLY <3>1, <3>2
      <3> QED BY <3>3 DEF n, t
    <2> HIDE DEF f
    <2>6. /\ TablesOK(built, f) /\ GrowsEnv(e, f) /\ Has(f.types, sig) /\ f.segs = e.segs
          /\ \A i \in Ids(f.types) :
                (i \in Ids(e.types) /\ EntryOf(f.types, i) = EntryOf(e.types, i)) \/ EntryOf(f.types, i) = x
      BY <1>1, <2>1, <2>2, <2>3, <2>5, EnterIs
    <2>7. FnsIn(f)
      BY <2>3, <2>6 DEF FnsIn, EnvOK
    <2>8. TypeEntered(e, f, sig, NoId)
      BY <2>3, <2>6 DEF TypeEntered, KeyOf
    <2> QED BY <2>6, <2>7, <2>8 DEF EnvOK, f
  <1> QED BY <1>4, <1>5

\* An environment with more names.
LEMMA NamesGrow ==
    ASSUME NEW b, NEW e, EnvOK(b, e), NEW names, NameTable(b, names), Grows(e.names, names),
           NEW f, f = [e EXCEPT !.names = names]
    PROVE  EnvOK(b, f) /\ GrowsEnv(e, f) /\ f.names = names /\ f.segs = e.segs /\ f.types = e.types
  <1>1. e \in Environment /\ names \in Tables(NameEntry)
    BY DEF EnvOK, TablesOK, NameTable, Keyed
  <1>2. f = [live |-> e.live, names |-> names, types |-> e.types, segs |-> e.segs]
    <2>1. e \in [live : BOOLEAN, names : Tables(NameEntry), types : Tables(TypeEntry), segs : Tables(SegEntry)]
      BY <1>1 DEF Environment
    <2>2. f = [e EXCEPT !.names = names]
      OBVIOUS
    <2> QED BY ONLY <2>1, <2>2
  <1>3. f.live = e.live /\ f.names = names /\ f.types = e.types /\ f.segs = e.segs
    BY <1>2
  <1>4. f \in Environment
    BY <1>1, <1>2 DEF Environment
  <1>5. TypeConsNamed(names, e.types)
    BY GrowthKeeps DEF EnvOK, TablesOK, TypeConsNamed
  <1>6. EnvOK(b, f)
    BY <1>3, <1>4, <1>5 DEF EnvOK, TablesOK, FnsIn
  <1> QED BY <1>3, <1>6, GrowsReflexive DEF GrowsEnv

UseTypeOp(p, e, sig) == UseTypeIn(e, sig)
UseTypeHolds(p, e, n) ==
    /\ EnvOK(built, e) /\ GrowsEnv(p.base, e) /\ e.segs = p.base.segs
    /\ \A k \in 1 .. n : Has(e.types, p.sigs[k])
UseTypesFold == INSTANCE ThroughProofs WITH Op <- UseTypeOp, Holds <- UseTypeHolds

\* The compiler enters the types of a segment one after another.
LEMMA UseTypesIs ==
    ASSUME BuiltOK(built), NEW e, EnvOK(built, e), NEW sigs \in Seq(Sigs), NEW f, f = Through(UseTypeIn, e, sigs)
    PROVE  /\ EnvOK(built, f) /\ GrowsEnv(e, f) /\ f.segs = e.segs
           /\ \A n \in DOMAIN sigs : Has(f.types, sigs[n])
  <1> DEFINE p == [base |-> e, sigs |-> sigs]
  <1>1. p.base = e /\ p.sigs = sigs /\ Len(sigs) \in Nat /\ DOMAIN sigs = 1 .. Len(sigs)
    OBVIOUS
  <1> HIDE DEF p
  <1>2. UseTypeHolds(p, e, 0)
    BY <1>1, GrowsEnvReflexive DEF UseTypeHolds
  <1>3. ASSUME NEW n \in 1 .. Len(sigs), NEW u, UseTypeHolds(p, u, n - 1)
        PROVE  UseTypeHolds(p, UseTypeOp(p, u, sigs[n]), n)
    <2> DEFINE v == UseTypeIn(u, sigs[n])
    <2>1. sigs[n] \in Sigs
      OBVIOUS
    <2>2. EnvOK(built, u) /\ GrowsEnv(e, u) /\ u.segs = e.segs /\ \A k \in 1 .. (n - 1) : Has(u.types, sigs[k])
      BY <1>1, <1>3 DEF UseTypeHolds
    <2>3. EnvOK(built, v) /\ GrowsEnv(u, v) /\ v.segs = u.segs /\ Has(v.types, sigs[n])
      BY <2>1, <2>2, UseTypeInIs
    <2> HIDE DEF v
    <2>4. GrowsEnv(e, v) /\ v.segs = e.segs
      BY <2>2, <2>3, GrowsEnvTransitive
    <2>5. \A k \in 1 .. n : Has(v.types, sigs[k])
      <3> SUFFICES ASSUME NEW k \in 1 .. n PROVE Has(v.types, sigs[k])
        OBVIOUS
      <3>1. k = n \/ k \in 1 .. (n - 1)
        OBVIOUS
      <3> QED BY <3>1, <2>2, <2>3, GrowthKeeps DEF GrowsEnv
    <2> QED BY <1>1, <2>3, <2>4, <2>5 DEF UseTypeHolds, UseTypeOp, v
  <1>4. UseTypeHolds(p, UseTypesFold!Folded(p, e, sigs), Len(sigs))
    BY <1>1, <1>2, <1>3, UseTypesFold!ThroughHolds, NSlotsAssumption
  <1>5. UseTypesFold!Folded(p, e, sigs) = f
    BY DEF UseTypesFold!Folded, UseTypesFold!Through, Through, UseTypeOp
  <1> QED BY <1>1, <1>4, <1>5 DEF UseTypeHolds

\* The environment has entries for the constants of c.
HasCode(e, c) ==
    /\ \A n \in DOMAIN CodeNames[c] : Has(e.names, CodeNames[c][n])
    /\ \A n \in DOMAIN CodeSigs[c] : Has(e.types, CodeSigs[c][n])

\* What has been entered for a segment stays.
LEMMA GrowthKeepsCode ==
    ASSUME NEW e, NEW f, GrowsEnv(e, f), NEW c, HasCode(e, c) PROVE HasCode(f, c)
  BY GrowthKeeps DEF GrowsEnv, HasCode

\* A segment's names and types are entered by compiling it.
LEMMA CompiledInIs ==
    ASSUME BuiltOK(built), NEW e, EnvOK(built, e), NEW c \in Codes
    PROVE  /\ EnvOK(built, CompiledIn(e, c)) /\ GrowsEnv(e, CompiledIn(e, c))
           /\ CompiledIn(e, c).segs = e.segs /\ HasCode(CompiledIn(e, c), c)
  <1> DEFINE names == UseNames(e.names, CodeNames[c])
             f == [e EXCEPT !.names = names]
             g == CompiledIn(e, c)
  <1>1. CodeNames[c] \in Seq(Idents) /\ CodeSigs[c] \in Seq(Sigs)
    BY EnvironmentsAssumption
  <1>2. /\ NameTable(built, names) /\ Grows(e.names, names)
        /\ \A n \in DOMAIN CodeNames[c] : Has(names, CodeNames[c][n])
    BY <1>1, UseNamesIs DEF EnvOK, TablesOK
  <1> HIDE DEF names
  <1>3. EnvOK(built, f) /\ GrowsEnv(e, f) /\ f.names = names /\ f.segs = e.segs
    BY <1>2, NamesGrow
  <1>4. g = Through(UseTypeIn, f, CodeSigs[c])
    BY DEF CompiledIn, names
  <1> HIDE DEF f, g
  <1>5. /\ EnvOK(built, g) /\ GrowsEnv(f, g) /\ g.segs = f.segs
        /\ \A n \in DOMAIN CodeSigs[c] : Has(g.types, CodeSigs[c][n])
    BY <1>1, <1>3, <1>4, UseTypesIs
  <1>6. \A n \in DOMAIN CodeNames[c] : Has(g.names, CodeNames[c][n])
    BY <1>2, <1>3, <1>5, GrowthKeeps DEF GrowsEnv
  <1>7. GrowsEnv(e, g)
    BY <1>3, <1>5, GrowsEnvTransitive
  <1> QED BY <1>3, <1>5, <1>6, <1>7 DEF HasCode, g

CompileOp(p, e, c) == CompiledIn(e, c)
CompileHolds(p, e, n) ==
    /\ EnvOK(built, e) /\ GrowsEnv(p.base, e) /\ e.segs = p.base.segs
    /\ \A k \in 1 .. n : HasCode(e, p.script[k])
CompileFold == INSTANCE ThroughProofs WITH Op <- CompileOp, Holds <- CompileHolds

\* So are those of all segments of a script.
LEMMA ScriptCompiledIs ==
    ASSUME BuiltOK(built), NEW e, EnvOK(built, e), NEW script \in Seq(Codes), NEW f, f = Through(CompiledIn, e, script)
    PROVE  /\ EnvOK(built, f) /\ GrowsEnv(e, f) /\ f.segs = e.segs
           /\ \A n \in DOMAIN script : HasCode(f, script[n])
  <1> DEFINE p == [base |-> e, script |-> script]
  <1>1. p.base = e /\ p.script = script /\ Len(script) \in Nat /\ DOMAIN script = 1 .. Len(script)
    OBVIOUS
  <1> HIDE DEF p
  <1>2. CompileHolds(p, e, 0)
    BY <1>1, GrowsEnvReflexive DEF CompileHolds
  <1>3. ASSUME NEW n \in 1 .. Len(script), NEW u, CompileHolds(p, u, n - 1)
        PROVE  CompileHolds(p, CompileOp(p, u, script[n]), n)
    <2> DEFINE v == CompiledIn(u, script[n])
    <2>1. script[n] \in Codes
      OBVIOUS
    <2>2. EnvOK(built, u) /\ GrowsEnv(e, u) /\ u.segs = e.segs /\ \A k \in 1 .. (n - 1) : HasCode(u, script[k])
      BY <1>1, <1>3 DEF CompileHolds
    <2>3. EnvOK(built, v) /\ GrowsEnv(u, v) /\ v.segs = u.segs /\ HasCode(v, script[n])
      BY <2>1, <2>2, CompiledInIs
    <2> HIDE DEF v
    <2>4. GrowsEnv(e, v) /\ v.segs = e.segs
      BY <2>2, <2>3, GrowsEnvTransitive
    <2>5. \A k \in 1 .. n : HasCode(v, script[k])
      <3> SUFFICES ASSUME NEW k \in 1 .. n PROVE HasCode(v, script[k])
        OBVIOUS
      <3>1. k = n \/ k \in 1 .. (n - 1)
        OBVIOUS
      <3> QED BY <3>1, <2>2, <2>3, GrowthKeepsCode
    <2> QED BY <1>1, <2>3, <2>4, <2>5 DEF CompileHolds, CompileOp, v
  <1>4. CompileHolds(p, CompileFold!Folded(p, e, script), Len(script))
    BY <1>1, <1>2, <1>3, CompileFold!ThroughHolds, NSlotsAssumption
  <1>5. CompileFold!Folded(p, e, script) = f
    BY DEF CompileFold!Folded, CompileFold!Through, Through, CompileOp
  <1> QED BY <1>1, <1>4, <1>5 DEF CompileHolds

\* A function on the domain of a sequence is a sequence.
LEMMA LikeSequence ==
    ASSUME NEW S, NEW s \in Seq(S), NEW T, NEW f, f = [n \in DOMAIN s |-> f[n]], \A n \in DOMAIN s : f[n] \in T
    PROVE  f \in Seq(T) /\ DOMAIN f = DOMAIN s /\ Len(f) = Len(s)
  <1>1. DOMAIN s = 1 .. Len(s) /\ Len(s) \in Nat
    OBVIOUS
  <1>2. f \in [1 .. Len(s) -> T]
    BY <1>1
  <1>3. f \in Seq(T)
    BY <1>1, <1>2
  <1> QED BY <1>1, <1>2, <1>3

\* The segment made of a code has its constants.
LEMMA SegmentIs ==
    ASSUME BuiltOK(built), NEW e, EnvOK(built, e), NEW c \in Codes, HasCode(e, c)
    PROVE  CodeIn(built, e, Segment(e, c), c)
  <1> DEFINE names == [n \in DOMAIN CodeNames[c] |-> NameIn(e.names, CodeNames[c][n])]
             types == [n \in DOMAIN CodeSigs[c] |-> TypeIn(e.types, CodeSigs[c][n])]
             hash == HashCode[CodeMeaning(c)]
             seg == Segment(e, c)
  <1>1. CodeNames[c] \in Seq(Idents) /\ CodeSigs[c] \in Seq(Sigs) /\ hash \in Nat
    BY EnvironmentsAssumption DEF CodeMeaning
  <1>2. seg = [names |-> names, types |-> types, hash |-> hash]
    BY DEF Segment
  <1>3. ASSUME NEW n \in DOMAIN CodeNames[c]
        PROVE  names[n] \in Nat /\ Says(built.names, e.names, names[n], CodeNames[c][n])
    <2>1. CodeNames[c][n] \in Idents /\ Has(e.names, CodeNames[c][n])
      BY <1>1 DEF HasCode
    <2> QED BY <2>1, NameInIs DEF Kept, EnvOK, TablesOK
  <1>4. ASSUME NEW n \in DOMAIN CodeSigs[c]
        PROVE  types[n] \in Nat /\ Says(built.sigs, e.types, types[n], CodeSigs[c][n])
    <2>1. CodeSigs[c][n] \in Sigs /\ Has(e.types, CodeSigs[c][n])
      BY <1>1 DEF HasCode
    <2> QED BY <2>1, TypeInIs DEF Kept, EnvOK, TablesOK
  <1>5. names \in Seq(Nat) /\ types \in Seq(Nat) /\ DOMAIN names = DOMAIN CodeNames[c] /\ DOMAIN types = DOMAIN CodeSigs[c]
    <2>1. \A n \in DOMAIN CodeNames[c] : names[n] \in Nat
      BY ONLY <1>3
    <2>2. \A n \in DOMAIN CodeSigs[c] : types[n] \in Nat
      BY ONLY <1>4
    <2>3. names = [n \in DOMAIN CodeNames[c] |-> names[n]] /\ types = [n \in DOMAIN CodeSigs[c] |-> types[n]]
      OBVIOUS
    <2> HIDE DEF names, types
    <2> QED BY <1>1, <2>1, <2>2, <2>3, LikeSequence
  <1> HIDE DEF names, types, hash, seg
  <1>6. seg.names = names /\ seg.types = types /\ seg.hash = hash /\ seg \in Segs
    BY <1>1, <1>2, <1>5 DEF Segs
  <1>7. seg.hash = HashOf(c)
    BY <1>6 DEF HashOf, hash
  <1> QED BY <1>3, <1>4, <1>5, <1>6, <1>7 DEF CodeIn, seg

-----------------------------------------------------------------------------
(* Segments.                                                               *)

\* What becomes of the segments when one is added.
SegAdded(e, f, id) ==
    /\ Ids(f.segs) = Ids(e.segs) \cup {id} /\ id \notin Ids(e.segs) /\ id \in Nat
    /\ \A i \in Ids(e.segs) : EntryOf(f.segs, i) = EntryOf(e.segs, i)

\* The record of a segment with other names, and with other types.
LEMMA SegUpdate ==
    ASSUME NEW seg \in Segs, NEW x, NEW u
    PROVE  /\ u = [seg EXCEPT !.names = x] => u = [names |-> x, types |-> seg.types, hash |-> seg.hash]
           /\ u = [seg EXCEPT !.types = x] => u = [names |-> seg.names, types |-> x, hash |-> seg.hash]
  <1>1. seg \in [names : Seq(Nat), types : Seq(Nat), hash : Nat]
    BY DEF Segs
  <1>2. ASSUME u = [seg EXCEPT !.names = x] PROVE u = [names |-> x, types |-> seg.types, hash |-> seg.hash]
    BY <1>1, <1>2
  <1>3. ASSUME u = [seg EXCEPT !.types = x] PROVE u = [names |-> seg.names, types |-> x, hash |-> seg.hash]
    BY <1>1, <1>3
  <1> QED BY <1>2, <1>3

\* copySegment adds one segment; its names are the destination's, its types still the source's.
LEMMA CopiedIs ==
    ASSUME BuiltOK(built), NEW e, TablesOK(built, e), NEW src, NameTable(built, env[src].names),
           NEW seg, NEW c \in Codes, CodeIn(built, env[src], seg, c), NEW f, f = Copied(e, src, seg)
    PROVE  /\ TablesOK(built, f) /\ GrowsEnv(e, f) /\ f.types = e.types
           /\ SegAdded(e, f, NextId(e.segs))
           /\ Copying(built, f, env[src], KeyOf(f.segs, NextId(e.segs)), 1, c)
  <1> DEFINE from == env[src].names
             names == NamesMapped(e.names, from, seg.names)
             mapped == [n \in DOMAIN seg.names |-> MappedName(names, from, seg.names[n])]
             copy == [seg EXCEPT !.names = mapped]
             entry == [key |-> copy, hash |-> seg.hash, ref |-> 1]
             segs == Add(e.segs, entry)
             id == NextId(e.segs)
  <1>1. /\ seg \in Segs /\ seg.hash = HashOf(c)
        /\ DOMAIN seg.names = DOMAIN CodeNames[c] /\ DOMAIN seg.types = DOMAIN CodeSigs[c]
        /\ \A n \in DOMAIN seg.names : Says(built.names, from, seg.names[n], CodeNames[c][n])
        /\ \A n \in DOMAIN seg.types : Says(built.sigs, env[src].types, seg.types[n], CodeSigs[c][n])
    BY DEF CodeIn
  <1>2. CodeNames[c] \in Seq(Idents) /\ seg.names \in Seq(Nat) /\ seg.types \in Seq(Nat) /\ seg.hash \in Nat
    BY <1>1, EnvironmentsAssumption DEF Segs
  <1>3. e \in Environment /\ NameTable(built, e.names) /\ TableSound(e.segs) /\ e.segs \in Tables(SegEntry)
    BY DEF TablesOK, Environment
  <1>4. /\ NameTable(built, names) /\ Grows(e.names, names)
        /\ \A n \in DOMAIN seg.names : Has(names, CodeNames[c][n])
    BY <1>1, <1>2, <1>3, NamesMappedIs
  <1>5. f = [e EXCEPT !.names = names, !.segs = segs]
    BY DEF Copied
  <1> HIDE DEF names, from
  <1>6. ASSUME NEW n \in DOMAIN seg.names
        PROVE  mapped[n] \in Nat /\ Kept(built.names, names, mapped[n], CodeNames[c][n])
    <2>1. CodeNames[c][n] \in Idents
      BY <1>1, <1>2
    <2>2. mapped[n] = MappedName(names, from, seg.names[n])
      OBVIOUS
    <2> HIDE DEF mapped
    <2> QED BY <2>1, <2>2, <1>1, <1>4, MappedNameIs DEF from
  <1>7. mapped \in Seq(Nat) /\ DOMAIN mapped = DOMAIN seg.names
    <2>1. mapped = [n \in DOMAIN seg.names |-> mapped[n]] /\ \A n \in DOMAIN seg.names : mapped[n] \in Nat
      BY <1>6
    <2> HIDE DEF mapped
    <2> QED BY <2>1, <1>2, LikeSequence
  <1> HIDE DEF mapped
  <1>8. copy = [names |-> mapped, types |-> seg.types, hash |-> seg.hash]
    BY <1>1, SegUpdate
  <1> HIDE DEF copy
  <1>9. copy \in Segs /\ copy.names = mapped /\ copy.types = seg.types /\ copy.hash = seg.hash
    BY <1>2, <1>7, <1>8 DEF Segs
  <1>10. entry \in SegEntry /\ entry.key = copy
    BY <1>2, <1>9 DEF SegEntry
  <1> HIDE DEF entry
  <1>11. Added(SegEntry, e.segs, segs, id, entry) /\ TableSound(segs)
    BY <1>3, <1>10, AddIs, EntriesAre
  <1>12. id \in Nat /\ id \notin Ids(e.segs)
    BY <1>3, NextIdIs DEF TableSound
  <1> HIDE DEF segs, id
  <1>13. f = [live |-> e.live, names |-> names, types |-> e.types, segs |-> segs]
    <2>1. e \in [live : BOOLEAN, names : Tables(NameEntry), types : Tables(TypeEntry), segs : Tables(SegEntry)]
      BY <1>3 DEF Environment
    <2> QED BY ONLY <2>1, <1>5
  <1>14. f.live = e.live /\ f.names = names /\ f.types = e.types /\ f.segs = segs
    BY <1>13
  <1>15. /\ segs \in Tables(SegEntry) /\ Ids(segs) = Ids(e.segs) \cup {id} /\ EntryOf(segs, id) = entry
         /\ \A i \in Ids(e.segs) : EntryOf(segs, i) = EntryOf(e.segs, i)
    BY <1>11 DEF Added
  <1>16. TablesOK(built, f)
    <2>1. names \in Tables(NameEntry)
      BY <1>4 DEF NameTable, Keyed
    <2>2. f \in Environment
      BY <2>1, <1>3, <1>13, <1>15 DEF Environment
    <2>3. TypeConsNamed(names, e.types)
      BY <1>4, GrowthKeeps DEF TablesOK, TypeConsNamed
    <2> QED BY <2>2, <2>3, <1>4, <1>11, <1>14 DEF TablesOK
  <1>17. GrowsEnv(e, f)
    BY <1>4, <1>14, GrowsReflexive DEF GrowsEnv
  <1>18. KeyOf(segs, id) = copy
    BY <1>10, <1>15 DEF KeyOf
  <1>19. Copying(built, f, env[src], copy, 1, c)
    <2>1. \A n \in DOMAIN copy.types : ~(n < 1)
      BY <1>2, <1>9
    <2> QED BY <2>1, <1>1, <1>6, <1>7, <1>9, <1>14 DEF Copying
  <1>20. SegAdded(e, f, id)
    BY <1>12, <1>14, <1>15 DEF SegAdded
  <1> QED BY <1>14, <1>16, <1>17, <1>18, <1>19, <1>20 DEF id

\* A segment found by its header and its constants is in the table.
LEMMA LookUpSegmentIs ==
    ASSUME NEW e, TablesOK(built, e), NEW src, NEW seg, seg.hash \in Nat
    PROVE  \/ LookUpSegment(e, src, seg) = NoId
           \/ /\ LookUpSegment(e, src, seg) \in Ids(e.segs)
              /\ EqSegment(e, KeyOf(e.segs, LookUpSegment(e, src, seg)), env[src], seg)
  <1> DEFINE chain == e.segs.chain[seg.hash % NSlots]
             hits == {p \in 1..Len(chain) : EqSegment(e, EntryOf(e.segs, chain[p]).key, env[src], seg)}
             first == CHOOSE p \in hits : \A q \in hits : p <= q
             id == LookUpSegment(e, src, seg)
  <1>1. seg.hash % NSlots \in 0 .. (NSlots - 1)
    BY ChainOf
  <1>2. e.segs \in Tables(SegEntry) /\ ChainsSound(e.segs)
    BY DEF TablesOK, Environment, TableSound
  <1>3. \A p \in 1 .. Len(chain) : chain[p] \in Ids(e.segs)
    <2>1. chain \in Seq(Nat)
      BY <1>1, <1>2, TableFields
    <2>2. ToSet(chain) \subseteq Ids(e.segs)
      BY <1>1, <1>2 DEF ChainsSound
    <2> QED BY <2>1, <2>2 DEF ToSet
  <1>4. id = IF hits = {} THEN NoId ELSE chain[first]
    BY DEF LookUpSegment, FirstInChain
  <1>5. hits \subseteq 1 .. Len(chain) /\ \A p \in hits : EqSegment(e, KeyOf(e.segs, chain[p]), env[src], seg)
    BY DEF KeyOf
  <1> HIDE DEF hits, id, chain
  <1>6. CASE hits = {}
    BY <1>4, <1>6 DEF id
  <1>7. CASE hits # {}
    <2>1. \E x \in hits : \A y \in hits : x <= y
      <3>1. hits \subseteq Nat
        BY <1>5
      <3> QED BY <3>1, <1>7, LeastId
    <2>2. first \in hits
      BY <2>1
    <2> HIDE DEF first
    <2>3. id \in Ids(e.segs) /\ EqSegment(e, KeyOf(e.segs, id), env[src], seg)
      BY <2>2, <1>3, <1>4, <1>5, <1>7
    <2> QED BY <2>3 DEF id
  <1> QED BY <1>6, <1>7

\* What has been copied stays right when the environment grows.
LEMMA GrowthKeepsCopies ==
    ASSUME NEW b, NEW e, NEW f, GrowsEnv(e, f), NEW seg, NEW c
    PROVE  /\ \A src, s, next : Copying(b, e, src, seg, next, c) /\ GrowsEnv(src, s) => Copying(b, f, s, seg, next, c)
           /\ Done(b, e, seg, c) /\ seg \in Segs => Done(b, f, seg, c)
           /\ CodeIn(b, e, seg, c) => CodeIn(b, f, seg, c)
  <1>1. ASSUME NEW src, NEW s, NEW next, Copying(b, e, src, seg, next, c), GrowsEnv(src, s)
        PROVE  Copying(b, f, s, seg, next, c)
    <2>1. \A n \in DOMAIN seg.names : Kept(b.names, f.names, seg.names[n], CodeNames[c][n])
      BY <1>1, GrowthKeeps DEF Copying, GrowsEnv
    <2>2. \A n \in DOMAIN seg.types :
             Kept(b.sigs, e.types, seg.types[n], CodeSigs[c][n]) => Kept(b.sigs, f.types, seg.types[n], CodeSigs[c][n])
      BY GrowthKeeps DEF GrowsEnv
    <2>3. \A n \in DOMAIN seg.types :
             Says(b.sigs, src.types, seg.types[n], CodeSigs[c][n]) => Says(b.sigs, s.types, seg.types[n], CodeSigs[c][n])
      BY <1>1, GrowthKeeps DEF GrowsEnv
    <2> QED BY <1>1, <2>1, <2>2, <2>3 DEF Copying
  <1>2. ASSUME Done(b, e, seg, c), seg \in Segs PROVE Done(b, f, seg, c)
    <2>1. seg.types \in Seq(Nat)
      BY <1>2 DEF Segs
    <2>2. \A n \in DOMAIN seg.types : n < Len(seg.types) + 1
      BY <2>1
    <2>3. Copying(b, f, e, seg, Len(seg.types) + 1, c)
      BY <1>1, <1>2, GrowsEnvReflexive DEF Done
    <2> QED BY <2>2, <2>3 DEF Done, Copying
  <1>3. ASSUME CodeIn(b, e, seg, c) PROVE CodeIn(b, f, seg, c)
    BY <1>3, GrowthKeeps DEF CodeIn, GrowsEnv
  <1> QED BY <1>1, <1>2, <1>3

\* A segment that has been copied has the constants of a code.
LEMMA DoneIs ==
    ASSUME NEW b, NEW e, NEW seg \in Segs, NEW c, Done(b, e, seg, c)
    PROVE  /\ CodeIn(b, e, seg, c)
           /\ \A n \in DOMAIN seg.names : Kept(b.names, e.names, seg.names[n], CodeNames[c][n])
           /\ \A n \in DOMAIN seg.types : Kept(b.sigs, e.types, seg.types[n], CodeSigs[c][n])
  <1>1. seg.types \in Seq(Nat)
    BY DEF Segs
  <1>2. \A n \in DOMAIN seg.types : n < Len(seg.types) + 1
    BY <1>1
  <1> QED BY <1>2 DEF Done, Copying, CodeIn, Kept

-----------------------------------------------------------------------------
(* Steps that change the tables of one environment.                        *)

\* A code belongs to the source of the script it is in.
LEMMA CodeEnvIs ==
    ASSUME NEW c \in Codes PROVE CodeEnv[c] \in Sources /\ c \in ToSet(Script[CodeEnv[c]])
  <1>1. \E s \in Sources : c \in ToSet(Script[s])
    BY EnvironmentsAssumption
  <1> QED BY <1>1 DEF CodeEnv

\* Every environment is as the invariant says.
LEMMA EnvsAre ==
    ASSUME EnvsOK
    PROVE  /\ BuiltOK(built) /\ DOMAIN env = Envs
           /\ \A e \in Envs : EnvOK(built, env[e]) /\ TablesOK(built, env[e]) /\ FnsIn(env[e]) /\ env[e] \in Environment
           /\ \A d \in Targets : d \in Envs /\ d \notin Sources
           /\ \A s \in Sources : s \in Envs
  BY BuiltIs, EnvironmentsAssumption DEF EnvsOK, EnvOK, TablesOK, Envs

\* Environment d becomes f; the others are as they were.
Becomes(d, f) ==
    /\ program' = program /\ env' = [env EXCEPT ![d] = f]
    /\ EnvOK(built, f) /\ GrowsEnv(env[d], f)
    /\ d \in Sources => f.segs = EmptyTable
    /\ d \in Targets => f.live

\* A step that grows one environment keeps the environments sound.
LEMMA EnvStep ==
    ASSUME EnvsOK, NEW d \in Envs, NEW f, Becomes(d, f)
    PROVE  /\ EnvsOK' /\ built' = built
           /\ \A e \in Envs : env'[e] = IF e = d THEN f ELSE env[e]
           /\ \A e \in Envs : GrowsEnv(env[e], env'[e])
  <1>1. built' = built
    BY DEF built, Becomes
  <1>2. \A e \in Envs : env'[e] = IF e = d THEN f ELSE env[e]
    BY DEF EnvsOK, Becomes
  <1>3. \A e \in Envs : GrowsEnv(env[e], env'[e])
    BY <1>2, GrowsEnvReflexive DEF Becomes
  <1>4. EnvsOK'
    <2>1. program' \in 1 .. Len(Builds) /\ DOMAIN env' = Envs
      BY DEF EnvsOK, Becomes
    <2>2. \A e \in Envs : EnvOK(built', env'[e])
      BY <1>1, <1>2 DEF EnvsOK, Becomes
    <2>3. \A s \in Sources : env'[s].segs = EmptyTable
      BY <1>2 DEF EnvsOK, Envs, Becomes
    <2>4. \A t \in Targets : ~env'[t].live =>
              env'[t].names = EmptyTable /\ env'[t].types = EmptyTable /\ env'[t].segs = EmptyTable
      BY <1>2 DEF EnvsOK, Envs, Becomes
    <2> QED BY <2>1, <2>2, <2>3, <2>4 DEF EnvsOK
  <1> QED BY <1>1, <1>2, <1>3, <1>4

\* The tables of one environment grow, and the archive is as it was.
GrownOnly(d) == /\ \A e \in Envs : e # d => env'[e] = env[e]
                /\ GrowsEnv(env[d], env'[d])
                /\ archive' = archive
Growth == \E d \in Envs : GrownOnly(d)

\* Such is a step that replaces environment d.
LEMMA GrownIs ==
    ASSUME EnvsOK, NEW d \in Envs, NEW f, Becomes(d, f), archive' = archive PROVE Growth
  <1>1. \A e \in Envs : env'[e] = IF e = d THEN f ELSE env[e]
    BY EnvStep
  <1> QED BY <1>1 DEF Growth, GrownOnly, Becomes

\* Compiled segments go on saying what they said when tables grow.
LEMMA CodeKept ==
    ASSUME EnvsOK, CodeOK, built' = built, \A e \in Envs : GrowsEnv(env[e], env'[e]), code' = code
    PROVE  CodeOK'
  <1> SUFFICES ASSUME NEW c \in Codes, code[c] # NoCode
               PROVE  CodeIn(built, env'[CodeEnv[c]], code[c], c)
    BY DEF CodeOK, CodeEnv
  <1>1. CodeEnv[c] \in Envs
    BY CodeEnvIs DEF Envs
  <1> QED BY <1>1, GrowthKeepsCopies DEF CodeOK

\* Names the program holds go on standing for their identifiers when tables grow.
LEMMA HeldKept ==
    ASSUME HeldOK, built' = built, \A e \in Envs : GrowsEnv(env[e], env'[e])
    PROVE  \A h \in held : HeldName(built', env', h)
  <1> SUFFICES ASSUME NEW h \in held PROVE HeldName(built, env', h)
    OBVIOUS
  <1>1. h.env \in Targets /\ h.env \in Envs /\ env[h.env].live /\ h.name \in Nat
    BY DEF HeldOK, HeldName, Envs
  <1>2. Kept(built.names, env[h.env].names, h.name, h.ident)
    BY DEF HeldOK, HeldName
  <1>3. Grows(env[h.env].names, env'[h.env].names) /\ env'[h.env].live
    BY <1>1 DEF GrowsEnv
  <1> QED BY <1>1, <1>2, <1>3, GrowthKeeps DEF HeldName

\* A segment that keeps its place keeps what has been copied of it.
SameSeg(e, f, id) == id \in Ids(f.segs) /\ EntryOf(f.segs, id) = EntryOf(e.segs, id)

\* A call of copySegment goes on when other segments and the tables change.
LEMMA FrameGrows ==
    ASSUME NEW b, NEW ev, NEW ew, \A e \in Envs : GrowsEnv(ev[e], ew[e]),
           NEW frame, FrameOK(b, ev, frame), SameSeg(ev[frame.env], ew[frame.env], frame.seg)
    PROVE  FrameOK(b, ew, frame)
  <1>1. frame \in Frames /\ frame.src # frame.env /\ ev[frame.env].live
    BY DEF FrameOK
  <1>2. frame.env \in Envs /\ frame.src \in Envs
    BY <1>1 DEF Frames, Envs
  <1>3. GrowsEnv(ev[frame.env], ew[frame.env]) /\ GrowsEnv(ev[frame.src], ew[frame.src])
    BY <1>2
  <1>4. PICK c \in Codes : Copying(b, ev[frame.env], ev[frame.src],
                               KeyOf(ev[frame.env].segs, frame.seg), frame.next, c)
    BY DEF FrameOK
  <1>5. Copying(b, ew[frame.env], ew[frame.src], KeyOf(ev[frame.env].segs, frame.seg), frame.next, c)
    BY <1>3, <1>4, GrowthKeepsCopies
  <1>6. KeyOf(ew[frame.env].segs, frame.seg) = KeyOf(ev[frame.env].segs, frame.seg)
    BY DEF KeyOf, SameSeg
  <1> QED BY <1>1, <1>3, <1>5, <1>6 DEF FrameOK, SameSeg, GrowsEnv

\* A segment that has been copied stays as it is when tables grow.
LEMMA DoneGrows ==
    ASSUME NEW b, NEW e \in Environment, NEW f, GrowsEnv(e, f), NEW id \in Ids(e.segs),
           HasDone(b, e, id), SameSeg(e, f, id)
    PROVE  HasDone(b, f, id)
  <1>1. PICK c \in Codes : Done(b, e, KeyOf(e.segs, id), c)
    BY DEF HasDone
  <1>2. KeyOf(f.segs, id) = KeyOf(e.segs, id)
    BY DEF KeyOf, SameSeg
  <1>3. KeyOf(e.segs, id) \in Segs
    <2>1. e.segs \in Tables(SegEntry)
      BY DEF Environment
    <2>2. EntryOf(e.segs, id) \in SegEntry
      BY <2>1, TableFields
    <2> QED BY <2>2 DEF SegEntry, KeyOf
  <1> QED BY <1>1, <1>2, <1>3, GrowthKeepsCopies DEF HasDone

\* No segment is added or changed, and no copy goes on.
LEMMA WorkKept ==
    ASSUME EnvsOK, WorkOK, SegsOK, built' = built, \A e \in Envs : GrowsEnv(env[e], env'[e]),
           \A e \in Envs : env'[e].segs = env[e].segs, work' = work, Compiled => Compiled'
    PROVE  WorkOK' /\ SegsOK'
  <1>1. \A e \in Envs : \A id \in Ids(env[e].segs) : SameSeg(env[e], env'[e], id)
    BY DEF SameSeg
  <1>2. ASSUME NEW n \in DOMAIN work PROVE FrameOK(built', env', work[n])
    <2>1. FrameOK(built, env, work[n])
      BY DEF WorkOK
    <2>2. SameSeg(env[work[n].env], env'[work[n].env], work[n].seg)
      BY <2>1, <1>1 DEF FrameOK, Frames, Envs
    <2> QED BY <2>1, <2>2, FrameGrows
  <1>3. WorkOK'
    BY <1>2 DEF WorkOK, Idle
  <1>4. SegsOK'
    <2> SUFFICES ASSUME NEW d \in Targets, NEW id \in Ids(env'[d].segs), ~InWork(d, id)
                 PROVE  HasDone(built', env'[d], id)
      BY DEF SegsOK, InWork
    <2>1. d \in Envs /\ env[d] \in Environment
      BY EnvsAre
    <2>2. id \in Ids(env[d].segs)
      BY <2>1
    <2>3. HasDone(built, env[d], id)
      BY <2>2 DEF SegsOK
    <2> QED BY <2>1, <2>2, <2>3, <1>1, DoneGrows
  <1> QED BY <1>3, <1>4

-----------------------------------------------------------------------------
(* Every step keeps the invariant.                                         *)

\* An archive that is left alone stays sound.
LEMMA ArchiveKept ==
    ASSUME ArchiveOK, archive' = archive PROVE ArchiveOK'
  BY DEF ArchiveOK

\* The compiler enters a script's constants in the script's environment.
LEMMA CompileKeeps ==
    ASSUME EInv, NEW s \in Sources, Compile(s) PROVE EInv' /\ Growth
  <1> DEFINE f == Through(CompiledIn, env[s], Script[s])
  <1> USE DEF EInv
  <1>1. /\ BuiltOK(built) /\ s \in Envs /\ s \notin Targets /\ EnvOK(built, env[s])
        /\ env[s].segs = EmptyTable /\ Script[s] \in Seq(Codes)
    BY EnvsAre, EnvironmentsAssumption DEF EnvsOK
  <1>2. /\ EnvOK(built, f) /\ GrowsEnv(env[s], f) /\ f.segs = env[s].segs
        /\ \A n \in DOMAIN Script[s] : HasCode(f, Script[s][n])
    BY <1>1, ScriptCompiledIs
  <1>3. /\ \A c \in ToSet(Script[s]) : code[c] = NoCode
        /\ env' = [env EXCEPT ![s] = f]
        /\ code' = [c \in Codes |-> IF CodeEnv[c] = s THEN Segment(f, c) ELSE code[c]]
        /\ UNCHANGED <<program, held, work, archive>>
    BY DEF Compile
  <1> HIDE DEF f
  <1>4. Becomes(s, f)
    BY <1>1, <1>2, <1>3 DEF Becomes
  <1>5. /\ EnvsOK' /\ built' = built
        /\ \A e \in Envs : env'[e] = IF e = s THEN f ELSE env[e]
        /\ \A e \in Envs : GrowsEnv(env[e], env'[e])
    BY <1>1, <1>4, EnvStep
  <1>6. CodeOK'
    <2>1. DOMAIN code' = Codes
      BY <1>3
    <2>2. ASSUME NEW c \in Codes, code'[c] # NoCode PROVE CodeIn(built', env'[CodeEnv[c]], code'[c], c)
      <3>1. CodeEnv[c] \in Envs /\ c \in ToSet(Script[CodeEnv[c]])
        BY CodeEnvIs DEF Envs
      <3>2. CASE CodeEnv[c] = s
        <4>1. HasCode(f, c)
          BY <3>1, <3>2, <1>2 DEF ToSet
        <4>2. CodeIn(built, f, Segment(f, c), c)
          BY <4>1, <1>1, <1>2, SegmentIs
        <4> QED BY <4>2, <3>1, <3>2, <1>3, <1>5
      <3>3. CASE CodeEnv[c] # s
        <4>1. code'[c] = code[c]
          BY <3>3, <1>3
        <4>2. CodeIn(built, env[CodeEnv[c]], code[c], c)
          BY <4>1, <2>2 DEF CodeOK
        <4> QED BY <4>1, <4>2, <3>1, <1>5, GrowthKeepsCopies
      <3> QED BY <3>2, <3>3
    <2> QED BY <2>1, <2>2 DEF CodeOK, CodeEnv
  <1>7. HeldOK'
    BY <1>3, <1>5, HeldKept DEF HeldOK
  <1>8. Compiled => Compiled'
    <2> SUFFICES ASSUME Compiled, NEW c \in Codes PROVE code'[c] # NoCode
      BY DEF Compiled
    <2>1. CodeEnv[c] # s
      BY <1>3, CodeEnvIs DEF Compiled
    <2> QED BY <2>1, <1>3 DEF Compiled
  <1>9. WorkOK' /\ SegsOK'
    <2>1. \A e \in Envs : env'[e].segs = env[e].segs
      BY <1>1, <1>2, <1>5
    <2> QED BY <2>1, <1>3, <1>5, <1>8, WorkKept
  <1>10. LiveOK'
    BY <1>1, <1>5, <1>8, EnvsAre DEF LiveOK
  <1>11. ArchiveOK'
    BY <1>3, ArchiveKept
  <1>12. Growth
    BY <1>1, <1>3, <1>4, GrownIs
  <1> QED BY <1>5, <1>6, <1>7, <1>9, <1>10, <1>11, <1>12

\* An environment without entries.
LEMMA FreshEnvIs ==
    ASSUME NEW b
    PROVE  /\ EnvOK(b, FreshEnv) /\ EnvOK(b, DeadEnv) /\ FreshEnv.live /\ ~DeadEnv.live
           /\ \A e \in {FreshEnv, DeadEnv} :
                 e.names = EmptyTable /\ e.types = EmptyTable /\ e.segs = EmptyTable
  <1>1. FreshEnv = [live |-> TRUE, names |-> EmptyTable, types |-> EmptyTable, segs |-> EmptyTable]
    BY DEF FreshEnv, NoSegs
  <1>2. DeadEnv = [live |-> FALSE, names |-> EmptyTable, types |-> EmptyTable, segs |-> EmptyTable]
    <2>1. ASSUME NEW a, NEW u, u = [[live |-> TRUE, names |-> a, types |-> a, segs |-> a] EXCEPT !.live = FALSE]
          PROVE  u = [live |-> FALSE, names |-> a, types |-> a, segs |-> a]
      BY <2>1
    <2>2. DeadEnv = [FreshEnv EXCEPT !.live = FALSE]
      BY DEF DeadEnv
    <2> HIDE DEF DeadEnv, EmptyTable
    <2> QED BY <1>1, <2>1, <2>2
  <1>3. NameTable(b, EmptyTable) /\ TypeTable(b, EmptyTable) /\ TableSound(EmptyTable)
    BY EmptyTableIs DEF NameTable, TypeTable, Keyed
  <1>4. TypeConsNamed(EmptyTable, EmptyTable)
    BY EmptyTableIs DEF TypeConsNamed
  <1>5. ASSUME NEW l \in BOOLEAN, NEW e, e = [live |-> l, names |-> EmptyTable, types |-> EmptyTable, segs |-> EmptyTable]
        PROVE  EnvOK(b, e) /\ e.live = l /\ e.names = EmptyTable /\ e.types = EmptyTable /\ e.segs = EmptyTable
    <2>1. e.live = l /\ e.names = EmptyTable /\ e.types = EmptyTable /\ e.segs = EmptyTable
      BY <1>5
    <2>2. e \in Environment
      BY <1>5, EmptyTableIs DEF Environment
    <2>3. FnsIn(e)
      BY <2>1, EmptyTableIs DEF FnsIn
    <2> QED BY <2>1, <2>2, <2>3, <1>3, <1>4 DEF EnvOK, TablesOK
  <1> QED BY <1>1, <1>2, <1>5

\* mkEnv makes an environment without entries.
LEMMA MkEnvKeeps ==
    ASSUME EInv, NEW d \in Targets, MkEnv(d) PROVE EInv' /\ Growth
  <1> USE DEF EInv
  <1>1. BuiltOK(built) /\ d \in Envs /\ d \notin Sources /\ ~env[d].live
    BY EnvsAre DEF MkEnv, NextTarget
  <1>2. /\ env[d].names = EmptyTable /\ env[d].types = EmptyTable /\ env[d].segs = EmptyTable
        /\ EnvOK(built, FreshEnv) /\ FreshEnv.live /\ FreshEnv.names = EmptyTable
        /\ FreshEnv.types = EmptyTable /\ FreshEnv.segs = EmptyTable
    BY <1>1, FreshEnvIs DEF EnvsOK
  <1>3. env' = [env EXCEPT ![d] = FreshEnv] /\ UNCHANGED <<program, code, held, work, archive>>
    BY DEF MkEnv
  <1>4. Becomes(d, FreshEnv)
    BY <1>1, <1>2, <1>3, GrowsReflexive DEF Becomes, GrowsEnv
  <1>5. /\ EnvsOK' /\ built' = built
        /\ \A e \in Envs : env'[e] = IF e = d THEN FreshEnv ELSE env[e]
        /\ \A e \in Envs : GrowsEnv(env[e], env'[e])
    BY <1>1, <1>4, EnvStep
  <1>6. CodeOK' /\ HeldOK' /\ ArchiveOK'
    BY <1>3, <1>5, CodeKept, HeldKept, ArchiveKept DEF HeldOK
  <1>7. WorkOK' /\ SegsOK'
    <2>1. \A e \in Envs : env'[e].segs = env[e].segs
      BY <1>2, <1>5
    <2> QED BY <2>1, <1>3, <1>5, WorkKept DEF Compiled
  <1>8. LiveOK'
    BY <1>3 DEF LiveOK, MkEnv, Compiled
  <1>9. Growth
    BY <1>1, <1>3, <1>4, GrownIs
  <1> QED BY <1>5, <1>6, <1>7, <1>8, <1>9

\* A literal name that is mapped to d stands there for its identifier.
LEMMA MapHeldNameKeeps ==
    ASSUME EInv, NEW d \in Targets, NEW c \in Codes, NEW n \in DOMAIN CodeNames[c], MapHeldName(d, c, n)
    PROVE  EInv' /\ Growth
  <1> DEFINE s == CodeEnv[c]
             name == code[c].names[n]
             ident == CodeNames[c][n]
             dst == MapName(env[d].names, env[s].names, name)
             f == [env[d] EXCEPT !.names = dst]
             h == [env |-> d, name |-> MappedName(dst, env[s].names, name), ident |-> ident]
  <1> USE DEF EInv
  <1>1. /\ BuiltOK(built) /\ d \in Envs /\ d \notin Sources /\ s \in Envs
        /\ EnvOK(built, env[d]) /\ NameTable(built, env[d].names) /\ NameTable(built, env[s].names)
    BY EnvsAre, CodeEnvIs DEF EnvOK, TablesOK
  <1>2. /\ Compiled /\ env[d].live
        /\ env' = [env EXCEPT ![d].names = dst] /\ held' = held \cup {h}
        /\ UNCHANGED <<program, code, work, archive>>
    BY DEF MapHeldName
  <1>3. Says(built.names, env[s].names, name, ident) /\ ident \in Idents
    <2>1. CodeIn(built, env[s], code[c], c)
      BY <1>2 DEF Compiled, CodeOK
    <2>2. CodeNames[c] \in Seq(Idents)
      BY EnvironmentsAssumption
    <2> QED BY <2>1, <2>2 DEF CodeIn
  <1> HIDE DEF name, ident, s
  <1>4. NameTable(built, dst) /\ Grows(env[d].names, dst) /\ Has(dst, ident)
    BY <1>1, <1>3, MapNameIs
  <1>5. Kept(built.names, dst, h.name, ident) /\ h.name \in Nat /\ h.env = d /\ h.ident = ident
    BY <1>1, <1>3, <1>4, MappedNameIs
  <1> HIDE DEF dst, h
  <1>6. EnvOK(built, f) /\ GrowsEnv(env[d], f) /\ f.names = dst /\ f.segs = env[d].segs
    BY <1>1, <1>4, NamesGrow
  <1>7. env' = [env EXCEPT ![d] = f]
    BY <1>2
  <1> HIDE DEF f
  <1>8. Becomes(d, f)
    BY <1>1, <1>2, <1>6, <1>7 DEF Becomes, GrowsEnv
  <1>9. /\ EnvsOK' /\ built' = built
        /\ \A e \in Envs : env'[e] = IF e = d THEN f ELSE env[e]
        /\ \A e \in Envs : GrowsEnv(env[e], env'[e])
    BY <1>1, <1>8, EnvStep
  <1>10. CodeOK' /\ ArchiveOK'
    BY <1>2, <1>9, CodeKept, ArchiveKept
  <1>11. HeldOK'
    <2>1. HeldName(built', env', h)
      BY <1>1, <1>2, <1>5, <1>6, <1>9 DEF HeldName, GrowsEnv
    <2>2. \A g \in held : HeldName(built', env', g)
      BY <1>9, HeldKept
    <2> QED BY <2>1, <2>2, <1>2 DEF HeldOK
  <1>12. WorkOK' /\ SegsOK'
    <2>1. \A e \in Envs : env'[e].segs = env[e].segs
      BY <1>6, <1>9
    <2> QED BY <2>1, <1>2, <1>9, WorkKept DEF Compiled
  <1>13. LiveOK'
    BY <1>2 DEF LiveOK, Compiled
  <1>14. Growth
    BY <1>1, <1>2, <1>8, GrownIs
  <1> QED BY <1>9, <1>10, <1>11, <1>12, <1>13, <1>14

\* A segment is added and its copy starts.
LEMMA CopyStarts ==
    ASSUME EnvsOK, WorkOK, SegsOK, NEW d \in Targets, NEW f, Becomes(d, f), NEW id, SegAdded(env[d], f, id),
           NEW frame, frame.env = d, frame.seg = id, FrameOK(built, env', frame),
           Compiled, code' = code, work' = Append(work, frame), Len(work) < WorkBound,
           ~Idle => work[1].env = d
    PROVE  WorkOK' /\ SegsOK'
  <1> DEFINE k == Len(work)
  <1>1. d \in Envs /\ env[d] \in Environment
    BY EnvsAre
  <1>2. /\ built' = built
        /\ \A e \in Envs : env'[e] = IF e = d THEN f ELSE env[e]
        /\ \A e \in Envs : GrowsEnv(env[e], env'[e])
    BY <1>1, EnvStep
  <1>3. /\ work \in Seq(Frames) /\ k \in Nat /\ DOMAIN work = 1 .. k /\ frame \in Frames
        /\ WorkBound \in Nat
    BY EnvironmentsAssumption DEF WorkOK, FrameOK
  <1>4. /\ work' \in Seq(Frames) /\ Len(work') = k + 1 /\ DOMAIN work' = 1 .. k + 1
        /\ work'[k + 1] = frame /\ \A n \in 1 .. k : work'[n] = work[n]
    BY <1>3
  <1>5. Len(work') <= WorkBound /\ Compiled' /\ 1 \in DOMAIN work'
    BY <1>3, <1>4 DEF Compiled
  <1>6. \A n \in DOMAIN work' : n \in 1 .. k \/ n = k + 1
    BY <1>3, <1>4
  <1>7. work'[1].env = d /\ \A n \in 1 .. k : work[n].env = d
    <2>1. CASE k = 0
      BY <2>1, <1>4
    <2>2. CASE k # 0
      <3>1. 1 \in DOMAIN work /\ ~Idle
        BY <2>2, <1>3 DEF Idle
      <3>2. work[1].env = d /\ \A n \in DOMAIN work : work[n].env = work[1].env
        BY <3>1 DEF WorkOK
      <3> QED BY <3>1, <3>2, <1>3, <1>4
    <2> QED BY <2>1, <2>2
  <1>8. \A e \in Envs : \A i \in Ids(env[e].segs) : SameSeg(env[e], env'[e], i)
    BY <1>2 DEF SameSeg, SegAdded
  <1>9. ASSUME NEW n \in 1 .. k PROVE FrameOK(built, env', work[n]) /\ work[n].seg # id
    <2>1. FrameOK(built, env, work[n]) /\ work[n].env = d
      BY <1>3, <1>7 DEF WorkOK
    <2>2. work[n].seg \in Ids(env[d].segs)
      BY <2>1 DEF FrameOK
    <2> QED BY <2>1, <2>2, <1>1, <1>2, <1>8, FrameGrows DEF SegAdded
  <1>10. \A n \in DOMAIN work' : work'[n].env = work'[1].env /\ FrameOK(built', env', work'[n])
    BY <1>2, <1>4, <1>6, <1>7, <1>9
  <1>11. \A m, n \in DOMAIN work' : work'[m].seg = work'[n].seg => m = n
    <2> SUFFICES ASSUME NEW m \in DOMAIN work', NEW n \in DOMAIN work', work'[m].seg = work'[n].seg PROVE m = n
      OBVIOUS
    <2>1. CASE m \in 1 .. k /\ n \in 1 .. k
      BY <2>1, <1>3, <1>4 DEF WorkOK
    <2>2. CASE m = k + 1 \/ n = k + 1
      BY <2>2, <1>4, <1>6, <1>9
    <2> QED BY <2>1, <2>2, <1>6
  <1>12. WorkOK'
    BY <1>4, <1>5, <1>10, <1>11 DEF WorkOK
  <1>13. SegsOK'
    <2> SUFFICES ASSUME NEW t \in Targets, NEW i \in Ids(env'[t].segs), ~InWork(t, i)'
                 PROVE  HasDone(built', env'[t], i)
      BY DEF SegsOK
    <2>1. t \in Envs /\ env[t] \in Environment
      BY EnvsAre
    <2>2. ~InWork(t, i)
      BY <1>3, <1>4 DEF InWork
    <2>3. ~(t = d /\ i = id)
      BY <1>4, <1>3 DEF InWork
    <2>4. i \in Ids(env[t].segs)
      BY <2>1, <2>3, <1>2 DEF SegAdded
    <2> QED BY <2>1, <2>2, <2>4, <1>2, <1>8, DoneGrows DEF SegsOK
  <1> QED BY <1>12, <1>13

\* copySegment of a segment that d has not got: the copy is in d's table, half mapped.
LEMMA CopySegmentKeeps ==
    ASSUME EInv, Idle, Compiled, NEW d \in Targets, env[d].live, NEW src \in Envs, src # d, NEW seg,
           NEW c \in Codes, CodeIn(built, env[src], seg, c), CopySegment(d, src, seg)
    PROVE  EInv' /\ Growth
  <1> DEFINE e == env[d]
             f == Copied(e, src, seg)
             id == NextId(e.segs)
             frame == Frame(d, src, id)
  <1> USE DEF EInv
  <1>1. /\ BuiltOK(built) /\ d \in Envs /\ d \notin Sources /\ TablesOK(built, e) /\ FnsIn(e)
        /\ NameTable(built, env[src].names)
    BY EnvsAre DEF TablesOK
  <1>2. /\ env' = [env EXCEPT ![d] = f] /\ work' = <<frame>>
        /\ UNCHANGED <<program, code, held, archive>>
    BY DEF CopySegment
  <1>3. /\ TablesOK(built, f) /\ GrowsEnv(e, f) /\ f.types = e.types /\ SegAdded(e, f, id)
        /\ Copying(built, f, env[src], KeyOf(f.segs, id), 1, c)
    BY <1>1, CopiedIs
  <1> HIDE DEF f, id
  <1>4. EnvOK(built, f)
    BY <1>1, <1>3 DEF EnvOK, FnsIn, SegAdded
  <1>5. Becomes(d, f)
    BY <1>1, <1>2, <1>3, <1>4 DEF Becomes, GrowsEnv
  <1>6. /\ EnvsOK' /\ built' = built
        /\ \A t \in Envs : env'[t] = IF t = d THEN f ELSE env[t]
        /\ \A t \in Envs : GrowsEnv(env[t], env'[t])
    BY <1>1, <1>5, EnvStep
  <1>7. frame.env = d /\ frame.src = src /\ frame.seg = id /\ frame.next = 1 /\ frame \in Frames
    BY <1>3 DEF Frame, Frames, SegAdded
  <1> HIDE DEF frame
  <1>8. FrameOK(built, env', frame)
    BY <1>1, <1>3, <1>5, <1>6, <1>7 DEF FrameOK, SegAdded, Becomes
  <1>9. work' = Append(work, frame) /\ Len(work) < WorkBound
    BY <1>2, EnvironmentsAssumption DEF Idle
  <1>10. WorkOK' /\ SegsOK'
    BY <1>2, <1>3, <1>5, <1>7, <1>8, <1>9, CopyStarts
  <1>11. LiveOK'
    BY <1>2 DEF LiveOK, Compiled
  <1>12. Growth
    BY <1>1, <1>2, <1>5, GrownIs
  <1> QED BY <1>2, <1>6, <1>10, <1>11, <1>12, CodeKept, HeldKept, ArchiveKept DEF HeldOK

\* The segments of a table.
LEMMA SegKeyIs ==
    ASSUME NEW e \in Environment, NEW id \in Ids(e.segs)
    PROVE  EntryOf(e.segs, id) \in SegEntry /\ KeyOf(e.segs, id) \in Segs
  <1>1. e.segs \in Tables(SegEntry)
    BY DEF Environment
  <1>2. EntryOf(e.segs, id) \in SegEntry
    BY <1>1, TableFields
  <1> QED BY <1>2 DEF SegEntry, KeyOf

\* A closure of a script is copied.
LEMMA CopyCodeKeeps ==
    ASSUME EInv, NEW d \in Targets, NEW c \in Codes, CopyCode(d, c) PROVE EInv' /\ Growth
  <1>1. CodeEnv[c] \in Envs /\ CodeEnv[c] # d
    BY CodeEnvIs, EnvsAre DEF EInv, Envs
  <1>2. Idle /\ Compiled /\ env[d].live /\ CopySegment(d, CodeEnv[c], code[c])
    BY DEF CopyCode
  <1>3. CodeIn(built, env[CodeEnv[c]], code[c], c)
    BY <1>2 DEF EInv, CodeOK, Compiled
  <1> QED BY <1>1, <1>2, <1>3, CopySegmentKeeps

\* A closure of one environment is copied to another.
LEMMA CopyBetweenKeeps ==
    ASSUME EInv, NEW d \in Targets, NEW e \in Targets, NEW id \in Ids(env[e].segs), CopyBetween(d, e, id)
    PROVE  EInv' /\ Growth
  <1>1. e \in Envs /\ env[e] \in Environment
    BY EnvsAre DEF EInv
  <1>2. Idle /\ env[d].live /\ e # d /\ CopySegment(d, e, KeyOf(env[e].segs, id)) /\ Compiled
    BY DEF CopyBetween, EInv, LiveOK
  <1>3. KeyOf(env[e].segs, id) \in Segs
    BY <1>1, SegKeyIs
  <1>4. HasDone(built, env[e], id)
    BY <1>2 DEF EInv, SegsOK, InWork, Idle
  <1>5. PICK c \in Codes : CodeIn(built, env[e], KeyOf(env[e].segs, id), c)
    BY <1>3, <1>4, DoneIs DEF HasDone
  <1> QED BY <1>1, <1>2, <1>5, CopySegmentKeeps

\* The segment whose types mapData goes through.
LEMMA TopIs ==
    ASSUME EInv, ~Idle
    PROVE  /\ work \in Seq(Frames) /\ Len(work) \in Nat \ {0} /\ DOMAIN work = 1 .. Len(work) /\ Top = work[Len(work)]
           /\ Top \in Frames /\ Top.env \in Targets /\ Top.env \in Envs /\ Top.env \notin Sources
           /\ Top.src \in Envs /\ Top.src # Top.env /\ Top.next \in Nat \ {0}
           /\ work[1].env = Top.env /\ \A n \in DOMAIN work : work[n].env = Top.env
           /\ env[Top.env].live /\ Compiled
           /\ Top.seg \in Ids(env[Top.env].segs) /\ SegOfTop \in Segs
  <1> USE DEF EInv
  <1>1. work \in Seq(Frames) /\ Len(work) \in Nat \ {0} /\ DOMAIN work = 1 .. Len(work)
    BY DEF WorkOK, Idle
  <1>2. Len(work) \in DOMAIN work /\ 1 \in DOMAIN work
    BY <1>1
  <1>3. Top = work[Len(work)]
    BY DEF Top
  <1>4. FrameOK(built, env, Top)
    BY <1>2, <1>3 DEF WorkOK
  <1>5. \A n \in DOMAIN work : work[n].env = Top.env
    <2>1. \A n \in DOMAIN work : work[n].env = work[1].env
      BY DEF WorkOK
    <2> QED BY <2>1, <1>2, <1>3
  <1>6. /\ Top \in Frames /\ Top.env \in Targets /\ Top.src \in Envs /\ Top.src # Top.env /\ Top.next \in Nat \ {0}
        /\ env[Top.env].live /\ Top.seg \in Ids(env[Top.env].segs)
    BY <1>4 DEF FrameOK, Frames
  <1>7. SegOfTop \in Segs
    BY <1>6, EnvsAre, SegKeyIs DEF SegOfTop
  <1> QED BY <1>1, <1>2, <1>3, <1>5, <1>6, <1>7, EnvsAre DEF WorkOK

\* The innermost call of copySegment.
LEMMA TopCopying ==
    ASSUME EInv, ~Idle
    PROVE  \E c \in Codes : Copying(built, env[Top.env], env[Top.src], SegOfTop, Top.next, c)
  <1>1. Len(work) \in DOMAIN work /\ Top = work[Len(work)]
    BY TopIs
  <1>2. FrameOK(built, env, Top)
    BY <1>1 DEF EInv, WorkOK
  <1> QED BY <1>2 DEF FrameOK, SegOfTop

\* mapData goes on to the next type: seg has become s.
LEMMA CopyAdvances ==
    ASSUME NEW b, NEW e, NEW f, GrowsEnv(e, f), NEW src, NEW seg \in Segs, NEW next \in Nat, NEW c,
           Copying(b, e, src, seg, next, c), NEW s, s.names = seg.names, s.hash = seg.hash, DOMAIN s.types = DOMAIN seg.types,
           \A n \in DOMAIN seg.types : n # next => s.types[n] = seg.types[n],
           next \in DOMAIN seg.types, Kept(b.sigs, f.types, s.types[next], CodeSigs[c][next])
    PROVE  Copying(b, f, src, s, next + 1, c)
  <1>1. Copying(b, f, src, seg, next, c)
    BY GrowthKeepsCopies, GrowsEnvReflexive
  <1>2. seg.types \in Seq(Nat)
    BY DEF Segs
  <1>3. \A n \in DOMAIN seg.types : n \in Nat
    BY <1>2
  <1>4. ASSUME NEW n \in DOMAIN s.types
        PROVE  IF n < next + 1 THEN Kept(b.sigs, f.types, s.types[n], CodeSigs[c][n])
               ELSE Says(b.sigs, src.types, s.types[n], CodeSigs[c][n])
    <2>1. CASE n = next
      BY <2>1
    <2>2. CASE n # next
      <3>1. n \in DOMAIN seg.types /\ s.types[n] = seg.types[n] /\ (n < next + 1 <=> n < next)
        BY <2>2, <1>3
      <3> QED BY <3>1, <1>1 DEF Copying
    <2> QED BY <2>1, <2>2
  <1> QED BY <1>1, <1>4 DEF Copying

\* The top frame goes on to the next type; the frames below are left.
LEMMA TopAdvances ==
    ASSUME NEW w \in Seq(Frames), w # <<>>
    PROVE  LET k == Len(w)
               x == [w[k] EXCEPT !.next = @ + 1]
               v == [w EXCEPT ![k] = x]
           IN  /\ x \in Frames
               /\ x.env = w[k].env /\ x.src = w[k].src /\ x.seg = w[k].seg /\ x.next = w[k].next + 1
               /\ v \in Seq(Frames) /\ v[k] = x
               /\ DOMAIN v = 1 .. k /\ Len(v) = k
               /\ \A n \in 1 .. k : n # k => v[n] = w[n]
               /\ \A n \in 1 .. k : v[n].env = w[n].env /\ v[n].seg = w[n].seg
  <1> DEFINE k == Len(w)
             y == w[k]
             x == [y EXCEPT !.next = @ + 1]
             v == [w EXCEPT ![k] = x]
  <1>1. y \in Frames /\ k \in Nat \ {0} /\ k = Len(w) /\ w \in Seq(Frames)
    OBVIOUS
  <1>2. v = [w EXCEPT ![k] = x]
    OBVIOUS
  <1> HIDE DEF k, y, v
  <1>3. x \in Frames /\ x.env = y.env /\ x.src = y.src /\ x.seg = y.seg /\ x.next = y.next + 1
    BY ONLY <1>1 DEF Frames, x
  <1> HIDE DEF x
  <1>4. /\ v \in Seq(Frames) /\ v[k] = x
        /\ DOMAIN v = 1 .. k /\ Len(v) = k /\ DOMAIN w = 1 .. k
        /\ \A n \in 1 .. k : n # k => v[n] = w[n]
    BY ONLY <1>1, <1>2, <1>3
  <1>5. \A n \in 1 .. k : v[n].env = w[n].env /\ v[n].seg = w[n].seg
    BY ONLY <1>3, <1>4 DEF y
  <1> QED BY ONLY <1>3, <1>4, <1>5, Zenon DEF k, y, x, v

\* The next type of the segment has been mapped: environment Top.env is f.
LEMMA MappedTypeKeeps ==
    ASSUME EInv, MoreTypes, NEW f, Becomes(Top.env, f), UNCHANGED <<code, held, archive>>, work' = Advanced,
           \A i \in Ids(env[Top.env].segs) \ {Top.seg} : SameSeg(env[Top.env], f, i),
           Ids(f.segs) = Ids(env[Top.env].segs),
           LET s == KeyOf(f.segs, Top.seg)
           IN  /\ s.names = SegOfTop.names /\ s.hash = SegOfTop.hash /\ DOMAIN s.types = DOMAIN SegOfTop.types
               /\ \A n \in DOMAIN SegOfTop.types : n # Top.next => s.types[n] = SegOfTop.types[n]
               /\ \A sig : Says(built.sigs, env[Top.src].types, NextType, sig)
                              => Kept(built.sigs, f.types, s.types[Top.next], sig)
    PROVE  EInv' /\ Growth
  <1> DEFINE d == Top.env
             id == Top.seg
             k == Len(work)
             s == KeyOf(f.segs, id)
             top == work'[k]
  <1> USE DEF EInv
  <1>1. /\ ~Idle /\ work \in Seq(Frames) /\ k \in Nat \ {0} /\ DOMAIN work = 1 .. k /\ Top = work[k]
        /\ d \in Targets /\ d \in Envs /\ d \notin Sources
        /\ Top.src \in Envs /\ Top.src # d /\ Top.next \in Nat \ {0}
        /\ work[1].env = d /\ \A n \in DOMAIN work : work[n].env = d
        /\ env[d].live /\ Compiled /\ id \in Ids(env[d].segs) /\ SegOfTop \in Segs
        /\ Top \in Frames /\ id \in Nat
    BY TopIs DEF MoreTypes, Frames
  <1>2. /\ EnvsOK' /\ built' = built
        /\ \A e \in Envs : env'[e] = IF e = d THEN f ELSE env[e]
        /\ \A e \in Envs : GrowsEnv(env[e], env'[e])
    BY <1>1, EnvStep
  <1>3. Compiled'
    BY <1>1 DEF Compiled
  <1>4. Top.next \in DOMAIN SegOfTop.types
    <2>1. SegOfTop.types \in Seq(Nat)
      BY <1>1 DEF Segs
    <2> QED BY <2>1, <1>1 DEF MoreTypes
  <1>5. PICK c \in Codes : Copying(built, env[d], env[Top.src], SegOfTop, Top.next, c)
    BY <1>1, TopCopying
  <1>6. Copying(built, f, env[Top.src], s, Top.next + 1, c)
    <2>1. Says(built.sigs, env[Top.src].types, NextType, CodeSigs[c][Top.next])
      BY <1>1, <1>4, <1>5 DEF Copying, NextType
    <2>2. Kept(built.sigs, f.types, s.types[Top.next], CodeSigs[c][Top.next])
      BY <2>1
    <2>3. /\ s.names = SegOfTop.names /\ s.hash = SegOfTop.hash /\ DOMAIN s.types = DOMAIN SegOfTop.types
          /\ \A n \in DOMAIN SegOfTop.types : n # Top.next => s.types[n] = SegOfTop.types[n]
      OBVIOUS
    <2> HIDE DEF s
    <2> QED BY <2>2, <2>3, <1>1, <1>4, <1>5, CopyAdvances DEF Becomes
  <1>7. /\ top = [Top EXCEPT !.next = @ + 1] /\ work' = [work EXCEPT ![k] = top]
        /\ \A n \in 1 .. k : n # k => work'[n] = work[n]
        /\ \A n \in 1 .. k : work'[n].env = work[n].env /\ work'[n].seg = work[n].seg
        /\ DOMAIN work' = 1 .. k /\ Len(work') = k
        /\ work' \in Seq(Frames)
        /\ top \in Frames
        /\ top.env = d /\ top.src = Top.src /\ top.seg = id /\ top.next = Top.next + 1
    <2>1. work \in Seq(Frames) /\ work # <<>>
      BY <1>1 DEF Idle
    <2>2. work' = [work EXCEPT ![Len(work)] = [work[Len(work)] EXCEPT !.next = @ + 1]]
      BY ONLY work' = Advanced DEF Advanced
    <2> DEFINE x == [work[Len(work)] EXCEPT !.next = @ + 1]
               v == [work EXCEPT ![Len(work)] = x]
               w == work[Len(work)]
    <2>3. /\ x \in Frames
          /\ x.env = w.env /\ x.src = w.src /\ x.seg = w.seg /\ x.next = w.next + 1
          /\ v \in Seq(Frames) /\ v[Len(work)] = x
          /\ DOMAIN v = 1 .. Len(work) /\ Len(v) = Len(work)
          /\ \A n \in 1 .. Len(work) : n # Len(work) => v[n] = work[n]
          /\ \A n \in 1 .. Len(work) : v[n].env = work[n].env /\ v[n].seg = work[n].seg
      BY ONLY <2>1, TopAdvances, Zenon
    <2>4. work' = v /\ w = Top /\ x = [Top EXCEPT !.next = @ + 1]
      BY ONLY <2>2, Zenon DEF Top
    <2>5. v = [work EXCEPT ![Len(work)] = x]
      OBVIOUS
    <2> HIDE DEF x, v, w
    <2>6. top = x
      BY ONLY <2>3, <2>4
    <2> HIDE DEF top
    <2> QED BY ONLY <2>3, <2>4, <2>5, <2>6, Zenon
  <1> HIDE DEF top
  <1>9. FrameOK(built', env', top)
    <2>1. env'[d] = f /\ env'[Top.src] = env[Top.src] /\ f.live
      BY <1>1, <1>2 DEF Becomes
    <2> QED BY <2>1, <1>1, <1>2, <1>5, <1>6, <1>7 DEF FrameOK
  <1>11. \A n \in 1 .. k : work'[n].env = d /\ work'[n].seg = work[n].seg
    BY ONLY <1>1, <1>7
  <1>12. ASSUME NEW n \in 1 .. k PROVE FrameOK(built', env', work'[n])
    <2>1. CASE n = k
      BY <2>1, <1>9 DEF top
    <2>2. CASE n # k
      <3>1. FrameOK(built, env, work[n]) /\ work[n].env = d /\ work'[n] = work[n]
        BY <2>2, <1>1, <1>7 DEF WorkOK
      <3>2. work[n].seg # id
        <4>1. \A m, j \in DOMAIN work : work[m].seg = work[j].seg => m = j
          BY DEF WorkOK
        <4>2. n \in DOMAIN work /\ k \in DOMAIN work /\ id = work[k].seg
          BY <1>1
        <4> HIDE DEF k, id
        <4> QED BY <4>1, <4>2, <2>2
      <3>3. SameSeg(env[d], env'[d], work[n].seg)
        BY <3>1, <3>2, <1>1, <1>2 DEF FrameOK
      <3> QED BY <3>1, <3>3, <1>2, FrameGrows
    <2> QED BY <2>1, <2>2
  <1>13. WorkOK'
    <2>1. 1 \in 1 .. k
      BY <1>1
    <2>2. Len(work') <= WorkBound
      BY <1>7 DEF WorkOK
    <2>3. \A m, n \in DOMAIN work' : work'[m].seg = work'[n].seg => m = n
      <3>1. \A m, n \in DOMAIN work : work[m].seg = work[n].seg => m = n
        BY DEF WorkOK
      <3>2. DOMAIN work' = DOMAIN work /\ \A n \in DOMAIN work : work'[n].seg = work[n].seg
        BY <1>1, <1>7, <1>11
      <3> QED BY ONLY <3>1, <3>2
    <2>4. \A n \in DOMAIN work' : work'[n].env = work'[1].env /\ FrameOK(built', env', work'[n])
      BY <2>1, <1>7, <1>11, <1>12
    <2> QED BY <2>2, <2>3, <2>4, <1>3, <1>7 DEF WorkOK
  <1>14. SegsOK'
    <2> SUFFICES ASSUME NEW t \in Targets, NEW i \in Ids(env'[t].segs), ~InWork(t, i)'
                 PROVE  HasDone(built', env'[t], i)
      BY DEF SegsOK
    <2>1. t \in Envs /\ env[t] \in Environment
      BY EnvsAre
    <2>2. ~InWork(t, i)
      <3>1. DOMAIN work' = DOMAIN work
        BY <1>1, <1>7
      <3>2. \A n \in DOMAIN work : work'[n].env = work[n].env /\ work'[n].seg = work[n].seg
        BY <1>1, <1>11
      <3>3. \A n \in DOMAIN work' : ~(work'[n].env = t /\ work'[n].seg = i)
        BY DEF InWork
      <3> QED BY ONLY <3>1, <3>2, <3>3 DEF InWork
    <2>3. ~(t = d /\ i = id)
      <3>1. k \in DOMAIN work /\ work[k].env = d /\ work[k].seg = id
        BY <1>1
      <3> QED BY ONLY <3>1, <2>2 DEF InWork
    <2>4. i \in Ids(env[t].segs) /\ SameSeg(env[t], env'[t], i)
      BY <2>1, <2>3, <1>2 DEF SameSeg
    <2> QED BY <2>1, <2>2, <2>4, <1>2, DoneGrows DEF SegsOK
  <1>15. LiveOK'
    BY <1>3 DEF LiveOK
  <1>16. Growth
    BY <1>1, GrownIs
  <1> QED BY <1>2, <1>13, <1>14, <1>15, <1>16, CodeKept, HeldKept, ArchiveKept DEF HeldOK

\* What the next type constant stands for.
LEMMA NextTypeIs ==
    ASSUME EInv, MoreTypes
    PROVE  /\ ~Idle /\ Top.next \in DOMAIN SegOfTop.types
           /\ \E sig \in Sigs :
                 /\ Says(built.sigs, env[Top.src].types, NextType, sig)
                 /\ NextType < BTypes => built.sigs[NextType + 1] = sig
                 /\ ~(NextType < BTypes) => /\ NextType - BTypes \in Ids(env[Top.src].types) /\ SrcType \in TypeEntry
                                            /\ SrcType.key = sig /\ SrcType.hash = HashSig[sig]
                                            /\ SrcType.alt = NoId /\ PosIn(built.sigs, sig) = NoId
                                            /\ Has(env[Top.src].types, sig)
           /\ BTypes \in Nat /\ NextType \in Nat
  <1>1. ~Idle /\ SegOfTop \in Segs /\ Top.next \in Nat \ {0} /\ Top.src \in Envs
    BY TopIs DEF MoreTypes
  <1>2. SegOfTop.types \in Seq(Nat)
    BY <1>1 DEF Segs
  <1>3. Top.next \in DOMAIN SegOfTop.types
    BY <1>1, <1>2 DEF MoreTypes
  <1>4. PICK c \in Codes : Copying(built, env[Top.env], env[Top.src], SegOfTop, Top.next, c)
    BY <1>1, TopCopying
  <1> DEFINE sig == CodeSigs[c][Top.next]
             t == env[Top.src].types
             x == NextType - BTypes
  <1>5. Says(built.sigs, t, NextType, sig) /\ Top.next \in DOMAIN CodeSigs[c]
    BY <1>1, <1>3, <1>4 DEF Copying, NextType
  <1>6. sig \in Sigs
    <2>1. CodeSigs[c] \in Seq(Sigs)
      BY EnvironmentsAssumption
    <2> QED BY <2>1, <1>5
  <1>7. /\ built.sigs \in Seq(Sigs) /\ IsInjective(built.sigs)
        /\ Keyed(TypeEntry, HashSig, built.sigs, t) /\ t \in Tables(TypeEntry)
    BY <1>1, EnvsAre DEF EInv, BuiltOK, TablesOK, TypeTable, Keyed
  <1>8. BTypes \in Nat
    BY <1>7 DEF BTypes
  <1> HIDE DEF sig
  <1>9. /\ NextType < BTypes => built.sigs[NextType + 1] = sig
        /\ ~(NextType < BTypes) => x \in Ids(t) /\ KeyOf(t, x) = sig /\ EntryOf(t, x).alt = NoId
        /\ NextType \in Nat
    BY <1>5, <1>7, OwnConstant DEF BTypes
  <1>10. ASSUME ~(NextType < BTypes)
         PROVE  /\ x \in Ids(t) /\ SrcType \in TypeEntry /\ SrcType.key = sig /\ SrcType.hash = HashSig[sig]
                /\ SrcType.alt = NoId /\ PosIn(built.sigs, sig) = NoId /\ Has(t, sig)
    <2>1. x \in Ids(t) /\ KeyOf(t, x) = sig /\ EntryOf(t, x).alt = NoId
      BY <1>9, <1>10
    <2>2. EntryOf(t, x).hash = HashSig[sig] /\ PosIn(built.sigs, sig) = NoId
      BY <2>1, <1>7 DEF Keyed
    <2>3. EntryOf(t, x) \in TypeEntry
      BY <2>1, <1>7, TableFields
    <2>4. SrcType = EntryOf(t, x)
      BY DEF SrcType
    <2> QED BY <2>1, <2>2, <2>3, <2>4 DEF KeyOf, Has
  <1> QED BY <1>1, <1>3, <1>5, <1>6, <1>8, <1>9, <1>10

\* mapType of a built-in type: it keeps its number and gets an entry.
LEMMA MapBuiltInTypeKeeps ==
    ASSUME EInv, MapBuiltInType PROVE EInv' /\ Growth
  <1> DEFINE d == Top.env
             sig == built.sigs[NextType + 1]
             f == UseTypeIn(env[d], sig)
             s == KeyOf(f.segs, Top.seg)
  <1>1. /\ MoreTypes /\ NextType < BTypes /\ env' = [env EXCEPT ![d] = f] /\ work' = Advanced
        /\ UNCHANGED <<program, code, held, archive>>
    BY DEF MapBuiltInType
  <1>2. /\ ~Idle /\ NextType \in Nat /\ BTypes \in Nat /\ sig \in Sigs
        /\ \A other : Says(built.sigs, env[Top.src].types, NextType, other) => other = sig
    <2>1. ASSUME NEW other, Says(built.sigs, env[Top.src].types, NextType, other) PROVE other = sig
      <3>1. built.sigs \in Seq(Sigs) /\ env[Top.src].types \in Tables(TypeEntry)
        BY <1>1, TopIs, EnvsAre DEF EInv, BuiltOK, MoreTypes, Environment
      <3> QED BY <3>1, <2>1, <1>1, OwnConstant DEF BTypes
    <2> QED BY <2>1, <1>1, NextTypeIs
  <1>3. d \in Targets /\ d \in Envs /\ d \notin Sources /\ env[d].live
    BY <1>2, TopIs
  <1>4. EnvOK(built, f) /\ GrowsEnv(env[d], f) /\ f.segs = env[d].segs /\ Has(f.types, sig)
    BY <1>2, <1>3, EnvsAre, UseTypeInIs DEF EInv
  <1> HIDE DEF f
  <1>5. Becomes(d, f)
    BY <1>1, <1>3, <1>4 DEF Becomes, GrowsEnv
  <1>6. s = SegOfTop
    BY <1>4 DEF SegOfTop
  <1>7. Kept(built.sigs, f.types, NextType, sig)
    BY <1>1, <1>2, <1>4 DEF Kept, Says, BTypes
  <1>8. s.types[Top.next] = NextType
    BY <1>6 DEF NextType
  <1>9. \A i \in Ids(env[d].segs) \ {Top.seg} : SameSeg(env[d], f, i)
    BY <1>4 DEF SameSeg
  <1> HIDE DEF s, d
  <1>10. \A other : Says(built.sigs, env[Top.src].types, NextType, other)
                      => Kept(built.sigs, f.types, s.types[Top.next], other)
    BY <1>2, <1>7, <1>8
  <1> QED BY <1>1, <1>4, <1>5, <1>6, <1>9, <1>10, MappedTypeKeeps DEF s, d

\* The table with another type constant in a segment.
LEMMA SetTypeIs ==
    ASSUME NEW t \in Tables(SegEntry), TableSound(t), NEW id \in Ids(t), NEW n, NEW type \in Nat,
           n \in DOMAIN KeyOf(t, id).types, NEW u, u = SetType(t, id, n, type)
    PROVE  /\ u \in Tables(SegEntry) /\ TableSound(u) /\ Ids(u) = Ids(t)
           /\ \A i \in Ids(t) \ {id} : EntryOf(u, i) = EntryOf(t, i)
           /\ KeyOf(u, id).names = KeyOf(t, id).names /\ KeyOf(u, id).hash = KeyOf(t, id).hash
           /\ KeyOf(u, id).types = [KeyOf(t, id).types EXCEPT ![n] = type]
  <1> DEFINE e == EntryOf(t, id)
             seg == e.key
             types == [seg.types EXCEPT ![n] = type]
             s == [seg EXCEPT !.types = types]
             x == [e EXCEPT !.key = s]
             vec == [t.vec EXCEPT ![id + 1] = x]
  <1>1. /\ t.vec \in Seq(SegEntry \cup {Vacant}) /\ Len(t.vec) \in Nat /\ DOMAIN t.vec = 1 .. Len(t.vec)
        /\ id + 1 \in 1 .. Len(t.vec) /\ e \in SegEntry /\ id \in Nat
        /\ t = [vec |-> t.vec, chain |-> t.chain, minFree |-> t.minFree]
    BY TableFields DEF Tables
  <1>2. seg \in Segs /\ seg.types \in Seq(Nat) /\ e = [key |-> seg, hash |-> e.hash, ref |-> e.ref]
    BY <1>1 DEF SegEntry, Segs
  <1>3. u = [t EXCEPT !.vec = vec]
    BY DEF SetType, EntryOf
  <1> HIDE DEF vec
  <1>4. u = [vec |-> vec, chain |-> t.chain, minFree |-> t.minFree]
    BY <1>1, <1>3
  <1>5. types \in Seq(Nat)
    <2>1. n \in 1 .. Len(seg.types)
      BY <1>2 DEF KeyOf
    <2> DEFINE q == seg.types
    <2>2. q \in Seq(Nat) /\ n \in 1 .. Len(q) /\ types = [q EXCEPT ![n] = type]
      BY <1>2, <2>1
    <2> HIDE DEF q, types
    <2> QED BY <2>2, ExceptSeq
  <1> HIDE DEF types
  <1>6. s = [names |-> seg.names, types |-> types, hash |-> seg.hash]
    BY <1>2, SegUpdate
  <1> HIDE DEF s
  <1>7. s \in Segs /\ s.names = seg.names /\ s.types = types /\ s.hash = seg.hash
    BY <1>2, <1>5, <1>6 DEF Segs
  <1>8. x = [key |-> s, hash |-> e.hash, ref |-> e.ref]
    <2>1. x = [e EXCEPT !.key = s]
      OBVIOUS
    <2> HIDE DEF x, e, seg
    <2> QED BY <2>1, <1>2
  <1> HIDE DEF x
  <1>9. x \in SegEntry /\ x.key = s /\ x.hash = e.hash /\ x # Vacant
    <2>1. x \in SegEntry /\ x.key = s /\ x.hash = e.hash
      BY <1>1, <1>7, <1>8 DEF SegEntry
    <2> QED BY <2>1, EntriesAre DEF Entries
  <1>10. /\ vec \in Seq(SegEntry \cup {Vacant}) /\ Len(vec) = Len(t.vec) /\ vec[id + 1] = x
         /\ \A k \in 1 .. Len(t.vec) : k # id + 1 => vec[k] = t.vec[k]
    <2> DEFINE S == SegEntry \cup {Vacant}
               v == t.vec
    <2>1. v \in Seq(S) /\ id + 1 \in 1 .. Len(v) /\ x \in S /\ vec = [v EXCEPT ![id + 1] = x]
      BY <1>1, <1>9 DEF vec
    <2> HIDE DEF S, v
    <2>2. vec \in Seq(S) /\ Len(vec) = Len(v) /\ \A k \in 1 .. Len(v) : vec[k] = IF k = id + 1 THEN x ELSE v[k]
      BY <2>1, ExceptSeq
    <2> QED BY <2>1, <2>2 DEF S, v
  <1>11. u.vec = vec /\ u.chain = t.chain /\ u.minFree = t.minFree
    BY <1>4
  <1>12. u \in Tables(SegEntry)
    BY <1>4, <1>10, TableFields DEF Tables
  <1>13. t.vec[id + 1] # Vacant
    BY DEF Ids
  <1>14. Ids(u) = Ids(t)
    <2>1. ASSUME NEW i PROVE i \in Ids(u) <=> i \in Ids(t)
      <3>1. i \in Ids(u) <=> i \in 0 .. (Len(t.vec) - 1) /\ vec[i + 1] # Vacant
        BY <1>10, <1>11 DEF Ids
      <3>2. i \in Ids(t) <=> i \in 0 .. (Len(t.vec) - 1) /\ t.vec[i + 1] # Vacant
        BY DEF Ids
      <3>3. CASE i + 1 = id + 1
        BY <3>1, <3>2, <3>3, <1>9, <1>10, <1>13
      <3>4. CASE i + 1 # id + 1
        <4>1. i \in 0 .. (Len(t.vec) - 1) => i + 1 \in 1 .. Len(t.vec)
          BY <1>1
        <4>2. i \in 0 .. (Len(t.vec) - 1) => vec[i + 1] = t.vec[i + 1]
          BY <4>1, <3>4, <1>10
        <4> QED BY <3>1, <3>2, <4>2
      <3> QED BY <3>3, <3>4
    <2> QED BY <2>1
  <1>15. EntryOf(u, id) = x
    BY <1>10, <1>11 DEF EntryOf
  <1>16. ASSUME NEW i \in Ids(t) \ {id} PROVE EntryOf(u, i) = EntryOf(t, i)
    <2>1. i + 1 \in 1 .. Len(t.vec) /\ i \in Nat
      BY TableFields
    <2> QED BY <2>1, <1>1, <1>10, <1>11 DEF EntryOf
  <1>17. \A i \in Ids(t) : EntryOf(u, i).hash = EntryOf(t, i).hash
    BY <1>9, <1>15, <1>16
  <1>18. TableSound(u)
    <2>1. \A r : {i \in Ids(u) : EntryOf(u, i).hash % NSlots = r} = {i \in Ids(t) : EntryOf(t, i).hash % NSlots = r}
      BY <1>14, <1>17
    <2>2. ChainsSound(u)
      BY <1>11, <2>1 DEF TableSound, ChainsSound
    <2>3. VacantAboveMinFree(u)
      <3>1. \A i : InUse(u, i) <=> InUse(t, i)
        BY <1>12, <1>14, TableFields
      <3> QED BY <3>1, <1>11 DEF TableSound, VacantAboveMinFree
    <2> QED BY <2>2, <2>3 DEF TableSound
  <1> QED BY <1>7, <1>9, <1>12, <1>14, <1>15, <1>16, <1>18 DEF KeyOf, types

\* mapType of a type that d has: the constant becomes d's.
LEMMA MapKnownTypeKeeps ==
    ASSUME EInv, MapKnownType PROVE EInv' /\ Growth
  <1> DEFINE d == Top.env
             e == env[d]
             id == Top.seg
             n == Top.next
             type == BTypes + DstType
             segs == SetType(e.segs, id, n, type)
             f == [e EXCEPT !.segs = segs]
             s == KeyOf(f.segs, id)
  <1>1. /\ MoreTypes /\ ~(NextType < BTypes) /\ DstType # NoId /\ work' = Advanced
        /\ UNCHANGED <<program, code, held, archive>>
    BY NextTypeIs DEF MapKnownType
  <1>2. env' = [env EXCEPT ![d] = f]
    BY DEF MapKnownType
  <1>3. PICK sig \in Sigs :
           /\ Says(built.sigs, env[Top.src].types, NextType, sig)
           /\ SrcType.key = sig /\ SrcType.hash = HashSig[sig] /\ PosIn(built.sigs, sig) = NoId
    BY <1>1, NextTypeIs
  <1>4. /\ d \in Targets /\ d \in Envs /\ d \notin Sources /\ e.live /\ id \in Ids(e.segs) /\ BTypes \in Nat
        /\ n \in DOMAIN SegOfTop.types /\ Top.src \in Envs /\ SegOfTop = KeyOf(e.segs, id)
    BY <1>1, TopIs, NextTypeIs DEF MoreTypes, SegOfTop
  <1>5. /\ EnvOK(built, e) /\ TablesOK(built, e) /\ FnsIn(e) /\ e \in Environment /\ BuiltOK(built)
        /\ e.segs \in Tables(SegEntry) /\ TableSound(e.segs) /\ env[Top.src].types \in Tables(TypeEntry)
        /\ Keyed(TypeEntry, HashSig, built.sigs, e.types) /\ e.types \in Tables(TypeEntry)
    BY <1>4, EnvsAre DEF EInv, TablesOK, TypeTable, Environment
  <1>6. DstType \in Ids(e.types) /\ KeyOf(e.types, DstType) = sig
    <2>1. DstType = LookUp(e.types, sig, HashSig[sig]) /\ HashSig[sig] \in Nat
      BY <1>3, EnvironmentsAssumption DEF DstType
    <2> QED BY <2>1, <1>1, <1>5, KeyedLookUp DEF Found
  <1>7. EntryOf(e.types, DstType).alt = NoId
    BY <1>3, <1>5, <1>6 DEF Keyed
  <1>8. DstType \in Nat /\ type \in Nat /\ type - BTypes = DstType
    <2>1. DstType \in Nat
      BY <1>5, <1>6, IdsAreNat
    <2> QED BY <2>1, <1>4
  <1>9. Kept(built.sigs, e.types, type, sig)
    BY <1>6, <1>7, <1>8 DEF Kept, Says, Has, BTypes
  <1> HIDE DEF type, e, id, n
  <1>10. /\ segs \in Tables(SegEntry) /\ TableSound(segs) /\ Ids(segs) = Ids(e.segs)
         /\ \A i \in Ids(e.segs) \ {id} : EntryOf(segs, i) = EntryOf(e.segs, i)
         /\ KeyOf(segs, id).names = SegOfTop.names /\ KeyOf(segs, id).hash = SegOfTop.hash
         /\ KeyOf(segs, id).types = [SegOfTop.types EXCEPT ![n] = type]
    BY <1>4, <1>5, <1>8, SetTypeIs
  <1> HIDE DEF segs
  <1>11. f = [live |-> e.live, names |-> e.names, types |-> e.types, segs |-> segs]
    <2>1. e \in [live : BOOLEAN, names : Tables(NameEntry), types : Tables(TypeEntry), segs : Tables(SegEntry)]
      BY <1>5 DEF Environment
    <2>2. f = [e EXCEPT !.segs = segs]
      OBVIOUS
    <2> HIDE DEF f
    <2> QED BY ONLY <2>1, <2>2, SegsUpdate
  <1> HIDE DEF f
  <1>12. f.live = e.live /\ f.names = e.names /\ f.types = e.types /\ f.segs = segs
    BY <1>11
  <1>13. EnvOK(built, f)
    <2>1. f \in Environment
      BY <1>5, <1>10, <1>11 DEF Environment
    <2> QED BY <2>1, <1>5, <1>10, <1>12 DEF EnvOK, TablesOK, FnsIn
  <1>14. Becomes(d, f)
    BY <1>1, <1>2, <1>4, <1>12, <1>13, GrowsReflexive DEF Becomes, GrowsEnv, e
  <1>15. /\ s.names = SegOfTop.names /\ s.hash = SegOfTop.hash /\ DOMAIN s.types = DOMAIN SegOfTop.types
         /\ \A k \in DOMAIN SegOfTop.types : k # n => s.types[k] = SegOfTop.types[k]
         /\ s.types[n] = type
    BY <1>4, <1>10, <1>12
  <1>16. \A i \in Ids(e.segs) \ {id} : SameSeg(e, f, i)
    BY <1>10, <1>12 DEF SameSeg
  <1>17. \A other : Says(built.sigs, env[Top.src].types, NextType, other) => other = sig
    <2> SUFFICES ASSUME NEW other, Says(built.sigs, env[Top.src].types, NextType, other) PROVE other = sig
      OBVIOUS
    <2> DEFINE t == env[Top.src].types
               x == NextType - Len(built.sigs)
    <2>1. built.sigs \in Seq(Sigs) /\ t \in Tables(TypeEntry)
      BY <1>5 DEF BuiltOK
    <2>2. KeyOf(t, x) = other
      BY <2>1, <1>1, OwnConstant DEF BTypes
    <2>3. KeyOf(t, x) = sig
      BY <2>1, <1>1, <1>3, OwnConstant DEF BTypes
    <2> QED BY <2>2, <2>3
  <1> HIDE DEF s, d
  <1>18. \A other : Says(built.sigs, env[Top.src].types, NextType, other)
                       => Kept(built.sigs, f.types, s.types[n], other)
    BY <1>9, <1>12, <1>15, <1>17
  <1> QED BY <1>1, <1>10, <1>12, <1>14, <1>15, <1>16, <1>18, MappedTypeKeeps DEF s, d, e, id, n

\* The entry that mapType makes of another environment's entry.
MappedEntry(x, fn) == [x EXCEPT !.ref = 1, !.alt = NoId, !.fn = fn]

\* The fields of a mapped entry.
LEMMA MappedEntryIs ==
    ASSUME NEW x \in TypeEntry, NEW fn \in Int
    PROVE  LET a == MappedEntry(x, fn)
           IN  a \in TypeEntry /\ a.key = x.key /\ a.hash = x.hash /\ a.alt = NoId /\ a.fn = fn
  <1> DEFINE a == MappedEntry(x, fn)
  <1>1. x \in [key : Sigs, hash : Nat, ref : Nat, fn : Int, alt : Int] /\ NoId \in Int
    BY DEF TypeEntry, NoId
  <1>2. a = [x EXCEPT !.ref = 1, !.alt = NoId, !.fn = fn]
    BY DEF MappedEntry
  <1> HIDE DEF a
  <1>3. a = [key |-> x.key, hash |-> x.hash, ref |-> 1, fn |-> fn, alt |-> NoId]
    BY <1>1, <1>2
  <1> QED BY <1>1, <1>3 DEF TypeEntry, a

\* The environment of the innermost segment with the next type entered.
LEMMA EnteredIs ==
    ASSUME EInv, NextIsNew, NEW fn \in Int, NEW f, f = Entered(env[Top.env], fn)
    PROVE  /\ TablesOK(built, f) /\ GrowsEnv(env[Top.env], f) /\ f.segs = env[Top.env].segs
           /\ \A i \in Ids(f.types) : EntryOf(f.types, i).fn \in Ids(f.segs) \cup {NoId, fn}
           /\ TypeEntered(env[Top.env], f, SrcType.key, fn)
  <1> DEFINE e == env[Top.env]
             sig == SrcType.key
             a == MappedEntry(SrcType, fn)
             names == UseNames(e.names, sig)
             types == Add(e.types, a)
  <1>1. MoreTypes /\ ~(NextType < BTypes) /\ DstType = NoId
    BY NextTypeIs DEF NextIsNew
  <1>2. /\ SrcType \in TypeEntry /\ sig \in Sigs /\ SrcType.hash = HashSig[sig] /\ PosIn(built.sigs, sig) = NoId
    BY <1>1, NextTypeIs
  <1>3. /\ BuiltOK(built) /\ TablesOK(built, e) /\ FnsIn(e) /\ e \in Environment
        /\ Keyed(TypeEntry, HashSig, built.sigs, e.types) /\ e.types \in Tables(TypeEntry)
    BY <1>1, TopIs, EnvsAre DEF EInv, MoreTypes, TablesOK, TypeTable, Environment
  <1>4. ~Has(e.types, sig)
    <2>1. HashSig[sig] \in Nat
      BY <1>2, EnvironmentsAssumption
    <2>2. Found(e.types, sig, LookUp(e.types, sig, SrcType.hash))
      BY <2>1, <1>2, <1>3, KeyedLookUpByHash
    <2>3. Found(e.types, sig, DstType) /\ NoId \notin Ids(e.types)
      BY <2>2, <1>3, IdsAreNat DEF DstType
    <2> QED BY <2>3, <1>1 DEF Found
  <1>5. a \in TypeEntry /\ a.key = sig /\ a.hash = HashSig[sig] /\ a.alt = NoId /\ a.fn = fn
    BY <1>2, MappedEntryIs
  <1>6. f = [e EXCEPT !.names = names, !.types = types]
    BY DEF Entered, AddTypeConNames, MappedEntry
  <1> HIDE DEF a, e, sig
  <1>7. f = [live |-> e.live, names |-> names, types |-> types, segs |-> e.segs]
    <2>1. e \in [live : BOOLEAN, names : Tables(NameEntry), types : Tables(TypeEntry), segs : Tables(SegEntry)]
      BY <1>3 DEF Environment
    <2> HIDE DEF names, types
    <2> QED BY ONLY <2>1, <1>6
  <1>8. /\ TablesOK(built, f) /\ GrowsEnv(e, f) /\ f.segs = e.segs
        /\ \A i \in Ids(f.types) :
              (i \in Ids(e.types) /\ EntryOf(f.types, i) = EntryOf(e.types, i)) \/ EntryOf(f.types, i) = a
    BY <1>2, <1>3, <1>4, <1>5, <1>7, EnterIs
  <1>9. TypeEntered(e, f, sig, fn)
    BY <1>5, <1>8 DEF TypeEntered, KeyOf
  <1> QED BY <1>3, <1>5, <1>8, <1>9 DEF FnsIn, e, sig

\* The segment of the methods of the next type.
LEMMA FnSegmentIs ==
    ASSUME EInv, NextIsNew, HasFn(Top.src, SrcType.key)
    PROVE  LET src == FnEnv(Top.src, SrcType.key)
           IN  /\ src \in Envs /\ src # Top.env
               /\ \E c \in Codes : CodeIn(built, env[src], FnSegment(Top.src, SrcType.key), c)
  <1> DEFINE s == Top.src
             e == env[s]
             sig == SrcType.key
  <1> USE DEF EInv
  <1>1. /\ MoreTypes /\ ~Idle /\ s \in Envs /\ s # Top.env /\ Compiled /\ Top.env \notin Sources
        /\ \A n \in DOMAIN work : work[n].env = Top.env
    BY TopIs DEF NextIsNew, MoreTypes
  <1>2. sig \in Sigs /\ Has(e.types, sig)
    BY NextTypeIs DEF NextIsNew
  <1>3. CASE s \in Sources
    <2> DEFINE c == FnCode[sig]
    <2>1. c # NoCode
      BY <1>3 DEF HasFn
    <2>2. c \in Codes
      BY <2>1, <1>2, EnvironmentsAssumption
    <2>3. FnEnv(s, sig) = CodeEnv[c] /\ FnSegment(s, sig) = code[c]
      BY <1>3 DEF FnEnv, FnSegment
    <2>4. CodeIn(built, env[CodeEnv[c]], code[c], c)
      BY <2>2, <1>1 DEF CodeOK, Compiled
    <2>5. CodeEnv[c] \in Envs /\ CodeEnv[c] # Top.env
      BY <2>2, <1>1, CodeEnvIs DEF Envs
    <2> QED BY <2>2, <2>3, <2>4, <2>5
  <1>4. CASE s \notin Sources
    <2> DEFINE fn == FnId(s, sig)
    <2>1. s \in Targets /\ e \in Environment /\ FnsIn(e) /\ Keyed(TypeEntry, HashSig, built.sigs, e.types)
      BY <1>1, <1>4, EnvsAre DEF Envs, TablesOK, TypeTable
    <2>2. LookUp(e.types, sig, HashSig[sig]) \in Ids(e.types)
      BY <2>1, <1>2, EnvironmentsAssumption, KeyedLookUp DEF Found
    <2>3. fn \in Ids(e.segs) \cup {NoId}
      BY <2>1, <2>2 DEF FnsIn, FnId
    <2>4. fn # NoId
      BY <1>4 DEF HasFn
    <2>5. FnEnv(s, sig) = s /\ FnSegment(s, sig) = KeyOf(e.segs, fn)
      BY <1>4 DEF FnEnv, FnSegment
    <2>6. HasDone(built, e, fn)
      <3>1. ~InWork(s, fn)
        BY <1>1 DEF InWork
      <3> QED BY <3>1, <2>1, <2>3, <2>4 DEF SegsOK
    <2>7. KeyOf(e.segs, fn) \in Segs
      BY <2>1, <2>3, <2>4, SegKeyIs
    <2>8. \E c \in Codes : CodeIn(built, e, KeyOf(e.segs, fn), c)
      BY <2>6, <2>7, DoneIs DEF HasDone
    <2> QED BY <2>5, <2>8, <1>1
  <1> QED BY <1>3, <1>4

\* mapType of a type whose methods are in the table already, or which has none.
LEMMA EnterTypeKeeps ==
    ASSUME EInv, EnterType PROVE EInv' /\ Growth
  <1> DEFINE d == Top.env
             fn == IF HasFn(Top.src, SrcType.key) THEN FnInTop ELSE NoId
             f == Entered(env[d], fn)
  <1> USE DEF EInv
  <1>1. /\ NextIsNew /\ env' = [env EXCEPT ![d] = f] /\ UNCHANGED <<program, code, held, work, archive>>
    BY DEF EnterType
  <1>2. ~Idle /\ d \in Targets /\ d \in Envs /\ d \notin Sources /\ env[d].live /\ Compiled
    BY <1>1, TopIs DEF NextIsNew, MoreTypes
  <1>3. fn \in Ids(env[d].segs) \cup {NoId}
    <2>1. CASE HasFn(Top.src, SrcType.key)
      <3> DEFINE g == Entered(env[d], NoId)
                 seg == FnSegment(Top.src, SrcType.key)
      <3>1. TablesOK(built, g) /\ g.segs = env[d].segs
        BY <1>1, EnteredIs DEF NoId
      <3>2. seg.hash \in Nat
        BY <1>1, <2>1, FnSegmentIs DEF CodeIn, Segs
      <3>3. FnInTop = LookUpSegment(g, FnEnv(Top.src, SrcType.key), seg)
        BY DEF FnInTop
      <3> HIDE DEF g, seg
      <3>4. FnInTop \in Ids(g.segs) \cup {NoId}
        BY <3>1, <3>2, <3>3, LookUpSegmentIs
      <3> QED BY <3>1, <3>4, <2>1
    <2>2. CASE ~HasFn(Top.src, SrcType.key)
      BY <2>2
    <2> QED BY <2>1, <2>2
  <1>4. fn \in Int
    BY <1>2, <1>3, EnvsAre, IdsAreNat DEF NoId, Environment
  <1> HIDE DEF fn
  <1>5. /\ TablesOK(built, f) /\ GrowsEnv(env[d], f) /\ f.segs = env[d].segs
        /\ \A i \in Ids(f.types) : EntryOf(f.types, i).fn \in Ids(f.segs) \cup {NoId, fn}
    BY <1>1, <1>4, EnteredIs
  <1> HIDE DEF f
  <1>6. EnvOK(built, f)
    BY <1>3, <1>5 DEF EnvOK, FnsIn
  <1>7. Becomes(d, f)
    BY <1>1, <1>2, <1>5, <1>6 DEF Becomes, GrowsEnv
  <1> HIDE DEF d
  <1>8. /\ EnvsOK' /\ built' = built
        /\ \A e \in Envs : env'[e] = IF e = d THEN f ELSE env[e]
        /\ \A e \in Envs : GrowsEnv(env[e], env'[e])
    BY <1>2, <1>7, EnvStep
  <1>9. CodeOK' /\ HeldOK' /\ ArchiveOK'
    BY <1>1, <1>8, CodeKept, HeldKept, ArchiveKept DEF HeldOK
  <1>10. WorkOK' /\ SegsOK' /\ LiveOK'
    <2>1. \A e \in Envs : env'[e].segs = env[e].segs
      BY <1>5, <1>8
    <2>2. Compiled'
      BY <1>1, <1>2 DEF Compiled
    <2> QED BY <2>1, <2>2, <1>1, <1>8, WorkKept DEF LiveOK
  <1>11. Growth
    BY <1>1, <1>2, <1>7, GrownIs
  <1> QED BY <1>8, <1>9, <1>10, <1>11

\* mapType of a type whose methods are to be copied: copySegment is called again.
LEMMA EnterTypeAndCopyMethodsKeeps ==
    ASSUME EInv, EnterTypeAndCopyMethods PROVE EInv' /\ Growth
  <1> DEFINE d == Top.env
             src == FnEnv(Top.src, SrcType.key)
             seg == FnSegment(Top.src, SrcType.key)
             id == NextId(env[d].segs)
             g == Entered(env[d], id)
             f == Copied(g, src, seg)
             frame == Frame(d, src, id)
  <1> USE DEF EInv
  <1>1. /\ NextIsNew /\ HasFn(Top.src, SrcType.key) /\ Len(work) < WorkBound
        /\ env' = [env EXCEPT ![d] = f] /\ work' = Append(work, frame)
        /\ UNCHANGED <<program, code, held, archive>>
    BY DEF EnterTypeAndCopyMethods
  <1>2. /\ ~Idle /\ d \in Targets /\ d \in Envs /\ d \notin Sources /\ env[d].live /\ Compiled
        /\ work[1].env = d
    BY <1>1, TopIs DEF NextIsNew, MoreTypes
  <1>3. src \in Envs /\ src # d
    BY <1>1, FnSegmentIs
  <1>4. PICK c \in Codes : CodeIn(built, env[src], seg, c)
    BY <1>1, FnSegmentIs
  <1>5. id \in Nat
    BY <1>2, EnvsAre, NextIdIs DEF TablesOK, Environment, TableSound
  <1> HIDE DEF seg, src, d
  <1>6. /\ TablesOK(built, g) /\ GrowsEnv(env[d], g) /\ g.segs = env[d].segs
        /\ \A i \in Ids(g.types) : EntryOf(g.types, i).fn \in Ids(g.segs) \cup {NoId, id}
    <2>1. id \in Int /\ g = Entered(env[Top.env], id)
      BY <1>5 DEF d
    <2> HIDE DEF id, g
    <2> QED BY <1>1, <2>1, EnteredIs DEF d
  <1> HIDE DEF g
  <1>7. BuiltOK(built) /\ NameTable(built, env[src].names)
    BY <1>3, EnvsAre DEF TablesOK
  <1>8. /\ TablesOK(built, f) /\ GrowsEnv(g, f) /\ f.types = g.types /\ SegAdded(g, f, id)
        /\ Copying(built, f, env[src], KeyOf(f.segs, id), 1, c)
    BY <1>4, <1>6, <1>7, CopiedIs
  <1> HIDE DEF f, id
  <1>9. EnvOK(built, f)
    BY <1>6, <1>8 DEF EnvOK, FnsIn, SegAdded
  <1>10. Becomes(d, f) /\ SegAdded(env[d], f, id)
    BY <1>1, <1>2, <1>6, <1>8, <1>9, GrowsEnvTransitive DEF Becomes, GrowsEnv, SegAdded
  <1>11. /\ EnvsOK' /\ built' = built
         /\ \A e \in Envs : env'[e] = IF e = d THEN f ELSE env[e]
         /\ \A e \in Envs : GrowsEnv(env[e], env'[e])
    BY <1>2, <1>10, EnvStep
  <1>12. frame.env = d /\ frame.src = src /\ frame.seg = id /\ frame.next = 1 /\ frame \in Frames
    BY <1>2, <1>3, <1>5 DEF Frame, Frames
  <1> HIDE DEF frame
  <1>13. FrameOK(built, env', frame)
    BY <1>2, <1>3, <1>8, <1>10, <1>11, <1>12 DEF FrameOK, SegAdded, Becomes
  <1>14. WorkOK' /\ SegsOK'
    BY <1>1, <1>2, <1>10, <1>12, <1>13, CopyStarts
  <1>15. LiveOK'
    BY <1>1, <1>2 DEF LiveOK, Compiled
  <1>16. Growth
    BY <1>1, <1>2, <1>10, GrownIs
  <1> QED BY <1>1, <1>11, <1>14, <1>15, <1>16, CodeKept, HeldKept, ArchiveKept DEF HeldOK

\* copySegment returns: all types of the segment have been mapped.
LEMMA EndCopyKeeps ==
    ASSUME EInv, EndCopy PROVE EInv' /\ Growth
  <1> DEFINE k == Len(work)
             d == Top.env
             id == Top.seg
  <1> USE DEF EInv
  <1>1. ~Idle /\ ~MoreTypes /\ work' = SubSeq(work, 1, k - 1) /\ UNCHANGED <<program, env, code, held, archive>>
    BY DEF EndCopy
  <1>2. /\ work \in Seq(Frames) /\ k \in Nat \ {0} /\ DOMAIN work = 1 .. k /\ Top = work[k]
        /\ Compiled /\ d \in Envs /\ SegOfTop \in Segs /\ Top.next \in Nat \ {0}
    BY <1>1, TopIs
  <1>3. built' = built
    BY <1>1 DEF built
  <1>4. /\ work' \in Seq(Frames) /\ Len(work') = k - 1 /\ DOMAIN work' = 1 .. (k - 1)
        /\ \A n \in 1 .. (k - 1) : work'[n] = work[n]
    BY <1>1, <1>2
  <1>5. HasDone(built, env[d], id)
    <2>1. PICK c \in Codes : Copying(built, env[d], env[Top.src], SegOfTop, Top.next, c)
      BY <1>1, TopCopying
    <2>2. SegOfTop.types \in Seq(Nat)
      BY <1>2 DEF Segs
    <2>3. \A n \in DOMAIN SegOfTop.types : n < Top.next /\ n < Len(SegOfTop.types) + 1
      <3>1. ~(Top.next <= Len(SegOfTop.types))
        BY <1>1 DEF MoreTypes
      <3>2. /\ Len(SegOfTop.types) \in Nat
            /\ DOMAIN SegOfTop.types = 1 .. Len(SegOfTop.types)
        BY <2>2
      <3> QED BY ONLY <3>1, <3>2, <1>2
    <2>4. Done(built, env[d], SegOfTop, c)
      BY <2>1, <2>3 DEF Done, Copying
    <2> QED BY <2>4 DEF HasDone, SegOfTop
  <1>6. WorkOK'
    <2>1. \A n \in DOMAIN work' : n \in DOMAIN work /\ work'[n] = work[n] /\ 1 \in DOMAIN work' /\ work'[1] = work[1]
      BY <1>2, <1>4
    <2>2. Len(work') <= WorkBound
      BY <1>2, <1>4, EnvironmentsAssumption DEF WorkOK
    <2>3. Compiled'
      BY <1>1, <1>2 DEF Compiled
    <2>4. \A n \in DOMAIN work' : work'[n].env = work'[1].env /\ FrameOK(built', env', work'[n])
      BY <2>1, <1>1, <1>3 DEF WorkOK
    <2>5. \A m, n \in DOMAIN work' : work'[m].seg = work'[n].seg => m = n
      BY <2>1 DEF WorkOK
    <2> QED BY <2>2, <2>3, <2>4, <2>5, <1>4 DEF WorkOK
  <1>7. SegsOK'
    <2> SUFFICES ASSUME NEW t \in Targets, NEW i \in Ids(env[t].segs), ~InWork(t, i)'
                 PROVE  HasDone(built, env[t], i)
      BY <1>1, <1>3 DEF SegsOK
    <2>1. CASE InWork(t, i)
      <3>1. PICK n \in 1 .. k : work[n].env = t /\ work[n].seg = i
        BY <2>1, <1>2 DEF InWork
      <3>2. n = k
        <4>1. \A m \in DOMAIN work' : ~(work'[m].env = t /\ work'[m].seg = i)
          BY DEF InWork
        <4>2. n \notin 1 .. (k - 1)
          BY <3>1, <1>4, <4>1
        <4>3. n \in 1 .. k /\ k \in Nat \ {0}
          BY <3>1, <1>2
        <4> QED BY ONLY <4>2, <4>3
      <3> QED BY <3>1, <3>2, <1>2, <1>5
    <2>2. CASE ~InWork(t, i)
      BY <2>2 DEF SegsOK
    <2> QED BY <2>1, <2>2
  <1>8. EnvsOK' /\ CodeOK' /\ LiveOK' /\ HeldOK' /\ ArchiveOK'
    BY <1>1, <1>3 DEF EnvsOK, CodeOK, LiveOK, HeldOK, ArchiveOK, Compiled, CodeEnv
  <1>9. Growth
    <2>1. env' = env /\ GrowsEnv(env[d], env[d])
      BY <1>1, GrowsEnvReflexive
    <2> QED BY <2>1, <1>1, <1>2 DEF Growth, GrownOnly
  <1> QED BY <1>6, <1>7, <1>8, <1>9

-----------------------------------------------------------------------------
(* An environment is stored.                                               *)

\* What has been written when the integers below n have been gone through.
StoredOp(t, saved, id) ==
    IF InUse(t, id) THEN Append(saved, [id |-> id, entry |-> EntryOf(t, id)]) ELSE saved
RecordSet(t) == [id : Nat, entry : {EntryOf(t, i) : i \in Ids(t)}]
StoredHolds(t, saved, n) ==
    /\ saved \in Seq(RecordSet(t))
    /\ \A m \in DOMAIN saved :
          saved[m].id \in Ids(t) /\ saved[m].id < n /\ saved[m] = [id |-> saved[m].id, entry |-> EntryOf(t, saved[m].id)]
    /\ \A i \in Ids(t) : i < n => \E m \in DOMAIN saved : saved[m].id = i
    /\ OneRecordEach(saved)
StoredFold == INSTANCE ThroughProofs WITH Op <- StoredOp, Holds <- StoredHolds

\* The records are the entries in use, each with its integer and once.
RecordsOf(E, t, records) ==
    /\ records \in Seq([id : Nat, entry : E]) /\ SavedIds(records) = Ids(t) /\ OneRecordEach(records)
    /\ \A m \in DOMAIN records : records[m].entry = EntryOf(t, records[m].id)

\* What store writes are the entries in use, each with its integer.
LEMMA StoredIs ==
    ASSUME NEW E, NEW t \in Tables(E)
    PROVE  RecordsOf(E, t, Stored(t))
  <1> DEFINE ids == [n \in 1 .. Len(t.vec) |-> n - 1]
             r == Stored(t)
  <1>1. /\ Len(t.vec) \in Nat /\ \A i \in Ids(t) : i \in Nat /\ i + 1 \in 1 .. Len(t.vec) /\ EntryOf(t, i) \in E
        /\ \A id : InUse(t, id) <=> id \in Ids(t)
    BY TableFields
  <1>2. Len(ids) = Len(t.vec) /\ \A n \in 1 .. Len(ids) : ids[n] = n - 1
    BY <1>1
  <1>3. StoredHolds(t, <<>>, 0)
    <2>1. DOMAIN <<>> = 1 .. 0 /\ <<>> \in Seq(RecordSet(t))
      OBVIOUS
    <2>2. \A i \in Ids(t) : ~(i < 0)
      BY <1>1
    <2> QED BY <2>1, <2>2 DEF StoredHolds, OneRecordEach
  <1> HIDE DEF ids
  <1>4. ASSUME NEW n \in 1 .. Len(ids), NEW u, StoredHolds(t, u, n - 1)
        PROVE  StoredHolds(t, StoredOp(t, u, ids[n]), n)
    <2> DEFINE id == n - 1
               x == [id |-> id, entry |-> EntryOf(t, id)]
               v == StoredOp(t, u, id)
    <2>1. ids[n] = id /\ id \in Nat /\ id < n
      BY <1>1, <1>2
    <2>2. PICK k \in Nat : u \in Seq(RecordSet(t)) /\ DOMAIN u = 1 .. k /\ Len(u) = k
      BY <1>4 DEF StoredHolds
    <2>3. \A m \in DOMAIN u : u[m].id \in Ids(t) /\ u[m].id < id /\ u[m] = [id |-> u[m].id, entry |-> EntryOf(t, u[m].id)]
      BY <1>4 DEF StoredHolds
    <2>4. (\A i \in Ids(t) : i < id => \E m \in DOMAIN u : u[m].id = i) /\ OneRecordEach(u)
      BY <1>4 DEF StoredHolds
    <2>5. CASE ~InUse(t, id)
      <3>1. v = u
        BY <2>5 DEF StoredOp
      <3>2. \A i \in Ids(t) : i < n => i < id
        BY <1>1, <2>5, <2>1
      <3>3. \A m \in DOMAIN u : u[m].id < n
        BY <1>1, <2>1, <2>3
      <3> HIDE DEF id, v
      <3>4. StoredHolds(t, v, n)
        BY <3>1, <3>2, <3>3, <2>2, <2>3, <2>4 DEF StoredHolds
      <3> QED BY <3>4, <2>1 DEF v
    <2>6. CASE InUse(t, id)
      <3>0. id \in Ids(t)
        BY <2>6, <1>1
      <3>1. v = Append(u, x)
        BY <2>6 DEF StoredOp
      <3>2. x.id = id /\ x = [id |-> id, entry |-> EntryOf(t, id)] /\ x \in RecordSet(t)
        BY <3>0, <2>1 DEF RecordSet
      <3> HIDE DEF x, id, v
      <3>3. /\ v \in Seq(RecordSet(t)) /\ DOMAIN v = 1 .. (k + 1) /\ Len(v) = k + 1 /\ v[k + 1] = x
            /\ \A m \in 1 .. k : v[m] = u[m]
        <4> DEFINE S == RecordSet(t)
        <4>1. u \in Seq(S) /\ x \in S /\ v = Append(u, x) /\ DOMAIN u = 1 .. k /\ Len(u) = k
          BY <3>1, <3>2, <2>2
        <4> HIDE DEF S
        <4>2. v \in Seq(S) /\ DOMAIN v = 1 .. (k + 1) /\ Len(v) = k + 1 /\ v[k + 1] = x /\ \A m \in 1 .. k : v[m] = u[m]
          BY ONLY <4>1, k \in Nat
        <4> QED BY <4>2 DEF S
      <3>4. \A m \in DOMAIN v : m = k + 1 \/ m \in DOMAIN u
        BY <3>3, <2>2
      <3>5. \A m \in DOMAIN v : v[m].id \in Ids(t) /\ v[m].id < n /\ v[m] = [id |-> v[m].id, entry |-> EntryOf(t, v[m].id)]
        <4> SUFFICES ASSUME NEW m \in DOMAIN v
                     PROVE  v[m].id \in Ids(t) /\ v[m].id < n /\ v[m] = [id |-> v[m].id, entry |-> EntryOf(t, v[m].id)]
          OBVIOUS
        <4>1. CASE m = k + 1
          BY <4>1, <3>0, <3>2, <3>3, <2>1
        <4>2. CASE m \in DOMAIN u
          <5>1. v[m] = u[m]
            BY <4>2, <2>2, <3>3
          <5>2. u[m].id < n
            BY <4>2, <2>1, <2>3, <1>1
          <5> QED BY <5>1, <5>2, <4>2, <2>3
        <4> QED BY <3>4, <4>1, <4>2
      <3>6. \A i \in Ids(t) : i < n => \E m \in DOMAIN v : v[m].id = i
        <4> SUFFICES ASSUME NEW i \in Ids(t), i < n PROVE \E m \in DOMAIN v : v[m].id = i
          OBVIOUS
        <4>1. i = id \/ i < id
          BY <1>1, <2>1 DEF id
        <4>2. CASE i = id
          BY <4>2, <3>2, <3>3
        <4>3. CASE i < id
          <5>1. PICK m \in DOMAIN u : u[m].id = i
            BY <4>3, <2>4
          <5> QED BY <5>1, <2>2, <3>3
        <4> QED BY <4>1, <4>2, <4>3
      <3>7. OneRecordEach(v)
        <4> SUFFICES ASSUME NEW a \in DOMAIN v, NEW b \in DOMAIN v, v[a].id = v[b].id PROVE a = b
          BY DEF OneRecordEach
        <4>1. \A m \in DOMAIN u : v[m] = u[m] /\ u[m].id # id
          <5> SUFFICES ASSUME NEW m \in DOMAIN u PROVE v[m] = u[m] /\ u[m].id # id
            OBVIOUS
          <5>1. u[m].id \in Nat /\ u[m].id < id
            BY <2>3, <1>1
          <5> QED BY <5>1, <2>1, <2>2, <3>3
        <4> QED BY <4>1, <3>2, <3>3, <3>4, <2>4 DEF OneRecordEach
      <3>8. StoredHolds(t, v, n)
        BY <3>3, <3>5, <3>6, <3>7, <2>2 DEF StoredHolds
      <3> QED BY <3>8, <2>1 DEF v
    <2> QED BY <2>5, <2>6
  <1>5. Len(ids) \in Nat
    BY <1>1, <1>2
  <1>6. StoredHolds(t, StoredFold!Folded(t, <<>>, ids), Len(ids))
    BY <1>3, <1>4, <1>5, StoredFold!ThroughHolds, NSlotsAssumption
  <1>7. StoredFold!Folded(t, <<>>, ids) = r
    BY DEF StoredFold!Folded, StoredFold!Through, Through, Stored, StoredOp, ids
  <1> HIDE DEF r
  <1>8. StoredHolds(t, r, Len(t.vec))
    BY <1>2, <1>6, <1>7
  <1>9. r \in Seq(RecordSet(t)) /\ RecordSet(t) \subseteq [id : Nat, entry : E]
    BY <1>1, <1>8 DEF StoredHolds, RecordSet
  <1>10. r \in Seq([id : Nat, entry : E])
    <2> DEFINE S == RecordSet(t)
               T == [id : Nat, entry : E]
    <2>1. r \in Seq(S) /\ S \subseteq T
      BY <1>9
    <2> HIDE DEF S, T
    <2>2. r \in Seq(T)
      BY ONLY <2>1
    <2> QED BY <2>2 DEF T
  <1>11. \A m \in DOMAIN r : r[m].id \in Ids(t) /\ r[m].entry = EntryOf(t, r[m].id)
    <2> SUFFICES ASSUME NEW m \in DOMAIN r PROVE r[m].id \in Ids(t) /\ r[m].entry = EntryOf(t, r[m].id)
      OBVIOUS
    <2>1. r[m].id \in Ids(t) /\ r[m] = [id |-> r[m].id, entry |-> EntryOf(t, r[m].id)]
      BY <1>8 DEF StoredHolds
    <2> QED BY <2>1
  <1>12. \A i \in Ids(t) : \E m \in DOMAIN r : r[m].id = i
    <2>1. \A i \in Ids(t) : i < Len(t.vec)
      BY <1>1
    <2> QED BY <2>1, <1>8 DEF StoredHolds
  <1>13. SavedIds(r) = Ids(t)
    BY <1>11, <1>12 DEF SavedIds
  <1>14. OneRecordEach(r)
    BY <1>8 DEF StoredHolds
  <1> QED BY <1>10, <1>11, <1>13, <1>14 DEF RecordsOf, r

\* The key of a type's entry is a signature.
LEMMA TypeKeyIs ==
    ASSUME NEW t \in Tables(TypeEntry), NEW id \in Ids(t) PROVE KeyOf(t, id) \in Sigs
  <1>1. EntryOf(t, id) \in TypeEntry
    BY TableFields
  <1> QED BY <1>1 DEF TypeEntry, KeyOf

\* What a record says of its integer.
LEMMA SavedKeyIs ==
    ASSUME NEW records, OneRecordEach(records), NEW n \in DOMAIN records
    PROVE  SavedKey(records, records[n].id) = records[n].entry.key /\ records[n].id \in SavedIds(records)
  <1> DEFINE id == records[n].id
             m == CHOOSE k \in DOMAIN records : records[k].id = id
  <1>1. m \in DOMAIN records /\ records[m].id = id
    OBVIOUS
  <1>2. m = n
    BY <1>1 DEF OneRecordEach
  <1> QED BY <1>2 DEF SavedKey, SavedIds

\* The record of an entry has its key.
LEMMA RecordOfIs ==
    ASSUME NEW E, NEW t, NEW records, RecordsOf(E, t, records), NEW id \in Ids(t)
    PROVE  SavedKey(records, id) = KeyOf(t, id) /\ id \in SavedIds(records)
  <1>1. PICK n \in DOMAIN records : records[n].id = id
    BY DEF RecordsOf, SavedIds
  <1> QED BY <1>1, SavedKeyIs DEF RecordsOf, KeyOf

\* A constant as the integer of an entry of the environment's own table.
LEMMA OwnIdIs ==
    ASSUME NEW E, NEW H, KeyedEntries(E, H), NEW S, NEW B \in Seq(S), IsInjective(B), NEW t, Keyed(E, H, B, t),
           NEW x, NEW key, Kept(B, t, x, key), NEW id,
           id = IF x >= Len(B) THEN x - Len(B) ELSE LookUpByAlt(t, x, H[B[x + 1]])
    PROVE  id \in Ids(t) /\ KeyOf(t, id) = key
  <1>1. t \in Tables(E) /\ ChainsSound(t) /\ Says(B, t, x, key) /\ Len(B) \in Nat
    BY DEF Keyed, TableSound, Kept
  <1>2. PICK i \in Ids(t) : KeyOf(t, i) = key
    BY DEF Kept, Has
  <1>3. /\ x \in Nat
        /\ x < Len(B) => B[x + 1] = key /\ x + 1 \in 1 .. Len(B)
        /\ ~(x < Len(B)) => x - Len(B) \in Ids(t) /\ KeyOf(t, x - Len(B)) = key
    BY <1>1, OwnConstant
  <1>4. CASE x >= Len(B)
    BY <1>1, <1>3, <1>4
  <1>5. CASE ~(x >= Len(B))
    <2> DEFINE h == H[key]
    <2>1. id = LookUpByAlt(t, x, h) /\ B[x + 1] = key /\ x \in 0 .. (Len(B) - 1)
      BY <1>1, <1>3, <1>5
    <2>2. h \in Nat
      <3>1. EntryOf(t, i) \in E
        BY <1>1, TableFields
      <3> QED BY <3>1, <1>2 DEF KeyedEntries, KeyOf
    <2>3. x # NoId
      BY <1>3 DEF NoId
    <2>4. ASSUME NEW j \in Ids(t), EntryOf(t, j).alt = x PROVE KeyOf(t, j) = key /\ EntryOf(t, j).hash = h
      <3>1. PosIn(B, KeyOf(t, j)) = x
        BY <2>4 DEF Keyed
      <3>2. B[x + 1] = KeyOf(t, j)
        BY <3>1, <2>3, PosInIs
      <3> QED BY <3>2, <2>1 DEF Keyed
    <2>5. EntryOf(t, i).alt = x
      <3>1. PosIn(B, key) = x
        BY <2>1, PosInIs
      <3> QED BY <3>1, <1>2 DEF Keyed
    <2> HIDE DEF h
    <2>6. \/ LookUpByAlt(t, x, h) \in Ids(t) /\ EntryOf(t, LookUpByAlt(t, x, h)).alt = x
          \/ \A j \in Ids(t) : EntryOf(t, j).alt # x
      BY <1>1, <2>2, <2>4, LookUpByAltIs
    <2> QED BY <1>2, <2>1, <2>4, <2>5, <2>6
  <1> QED BY <1>4, <1>5

\* insertBinName finds an entry with the name's identifier.
LEMMA NameIdOfIs ==
    ASSUME BuiltOK(built), NEW e, NameTable(built, e.names), NEW name, NEW ident,
           Kept(built.names, e.names, name, ident)
    PROVE  NameIdOf(e, name) \in Ids(e.names) /\ KeyOf(e.names, NameIdOf(e, name)) = ident
  <1> DEFINE id == NameIdOf(e, name)
  <1>1. id = IF name >= Len(built.names) THEN name - Len(built.names)
             ELSE LookUpByAlt(e.names, name, HashName[built.names[name + 1]])
    BY DEF NameIdOf, BNames
  <1> HIDE DEF id
  <1>2. id \in Ids(e.names) /\ KeyOf(e.names, id) = ident
    BY <1>1, EntriesAre, OwnIdIs DEF NameTable, BuiltOK
  <1> QED BY <1>2 DEF id

\* storeSegment finds an entry with the type's signature.
LEMMA TypeIdOfIs ==
    ASSUME BuiltOK(built), NEW e, TypeTable(built, e.types), NEW type, NEW sig,
           Kept(built.sigs, e.types, type, sig)
    PROVE  TypeIdOf(e, type) \in Ids(e.types) /\ KeyOf(e.types, TypeIdOf(e, type)) = sig
  <1> DEFINE id == TypeIdOf(e, type)
  <1>1. id = IF type >= Len(built.sigs) THEN type - Len(built.sigs)
             ELSE LookUpByAlt(e.types, type, HashSig[built.sigs[type + 1]])
    BY DEF TypeIdOf, BTypes
  <1> HIDE DEF id
  <1>2. id \in Ids(e.types) /\ KeyOf(e.types, id) = sig
    BY <1>1, EntriesAre, OwnIdIs DEF TypeTable, BuiltOK
  <1> QED BY <1>2 DEF id

\* storeTypeSig finds a name for a type constructor.
LEMMA ConIdIs ==
    ASSUME NEW e, NameTable(built, e.names), NEW ident \in Idents, Has(e.names, ident)
    PROVE  ConId(e, ident) \in Ids(e.names) /\ KeyOf(e.names, ConId(e, ident)) = ident
  <1>1. HashName[ident] \in Nat
    BY EnvironmentsAssumption
  <1> QED BY <1>1, KeyedLookUp DEF NameTable, ConId, Found

\* A segment of an environment that no copy is under way in.
LEMMA IdleSegment ==
    ASSUME EInv, Idle, NEW d \in Targets, NEW id \in Ids(env[d].segs)
    PROVE  LET seg == KeyOf(env[d].segs, id)
           IN  /\ seg \in Segs
               /\ \E c \in Codes : 
                     /\ CodeIn(built, env[d], seg, c)
                     /\ \A n \in DOMAIN seg.names : Kept(built.names, env[d].names, seg.names[n], CodeNames[c][n])
                     /\ \A n \in DOMAIN seg.types : Kept(built.sigs, env[d].types, seg.types[n], CodeSigs[c][n])
  <1>1. ~InWork(d, id)
    BY DEF InWork, Idle
  <1>2. PICK c \in Codes : Done(built, env[d], KeyOf(env[d].segs, id), c)
    BY <1>1 DEF EInv, SegsOK, HasDone
  <1>3. KeyOf(env[d].segs, id) \in Segs
    BY EnvsAre, SegKeyIs DEF EInv
  <1> QED BY <1>2, <1>3, DoneIs

\* The table t has the keys that these records give their integers.
NamesRead(names, t) == Ids(t) = SavedIds(names) /\ \A i \in Ids(t) : KeyOf(t, i) = SavedKey(names, i)
TypesRead(names, types, t) ==
    Ids(t) = SavedIds(types) /\ \A i \in Ids(t) : KeyOf(t, i) = SigFrom(names, SavedKey(types, i))
\* What the constants of a segment in an environment with these tables are.
KeptIn(names, types, seg, c) ==
    /\ seg \in Segs /\ seg.hash = HashOf(c)
    /\ DOMAIN seg.names = DOMAIN CodeNames[c] /\ DOMAIN seg.types = DOMAIN CodeSigs[c]
    /\ \A n \in DOMAIN seg.names : Kept(built.names, names, seg.names[n], CodeNames[c][n])
    /\ \A n \in DOMAIN seg.types : Kept(built.sigs, types, seg.types[n], CodeSigs[c][n])

\* The methods are those the records give, and the segments say what the records say.
FnsRead(types, t) ==
    \A n \in DOMAIN types : types[n].id \in Ids(t) /\ EntryOf(t, types[n].id).fn = types[n].entry.fn
SegsRead(names, types, segs, e) ==
    /\ Ids(e.segs) = SavedIds(segs)
    /\ \A i \in Ids(e.segs) : \E c \in Codes : /\ KeptIn(e.names, e.types, KeyOf(e.segs, i), c)
                                             /\ SegSays(names, types, SavedKey(segs, i), c)

\* The steps that write and read an archive, and the one that loses the rest.
StoredFrom(d) == /\ env' = env /\ archive = NoArchive
                 /\ NamesRead(archive'.names, env[d].names)
                 /\ TypesRead(archive'.names, archive'.types, env[d].types)
                 /\ FnsRead(archive'.types, env[d].types)
                 /\ SegsRead(archive'.names, archive'.types, archive'.segs, env[d])
LoadedTo(d) == /\ env' = [env EXCEPT ![d] = env'[d]] /\ archive' = archive /\ archive # NoArchive
               /\ Ids(env[d].names) = {} /\ Ids(env[d].types) = {}
               /\ NamesRead(archive.names, env'[d].names)
               /\ TypesRead(archive.names, archive.types, env'[d].types)
               /\ FnsRead(archive.types, env'[d].types)
               /\ SegsRead(archive.names, archive.types, archive.segs, env'[d])
Restarted == /\ archive' = archive
             /\ \A d \in Targets : Ids(env'[d].names) = {} /\ Ids(env'[d].types) = {}

\* So nothing that an idle environment holds is missing when it is stored.
LEMMA StorableIs ==
    ASSUME EInv, Idle, NEW d \in Targets PROVE CanStore(d)
  <1> DEFINE e == env[d]
  <1>1. /\ BuiltOK(built) /\ NameTable(built, e.names) /\ TypeTable(built, e.types) /\ TypeConsNamed(e.names, e.types)
        /\ e.names \in Tables(NameEntry) /\ e.types \in Tables(TypeEntry)
    BY EnvsAre DEF EInv, TablesOK, Environment
  <1>2. (\A i : InUse(e.names, i) <=> i \in Ids(e.names)) /\ \A i : InUse(e.types, i) <=> i \in Ids(e.types)
    BY <1>1, TableFields
  <1>3. ASSUME NEW id \in Ids(e.segs)
        PROVE  /\ \A n \in DOMAIN KeyOf(e.segs, id).names : InUse(e.names, NameIdOf(e, KeyOf(e.segs, id).names[n]))
               /\ \A n \in DOMAIN KeyOf(e.segs, id).types : InUse(e.types, TypeIdOf(e, KeyOf(e.segs, id).types[n]))
    <2> DEFINE seg == KeyOf(e.segs, id)
    <2>1. PICK c \in Codes :
             /\ \A n \in DOMAIN seg.names : Kept(built.names, e.names, seg.names[n], CodeNames[c][n])
             /\ \A n \in DOMAIN seg.types : Kept(built.sigs, e.types, seg.types[n], CodeSigs[c][n])
      BY IdleSegment
    <2> HIDE DEF seg, e
    <2>2. \A n \in DOMAIN seg.names : NameIdOf(e, seg.names[n]) \in Ids(e.names)
      BY <1>1, <2>1, NameIdOfIs
    <2>3. \A n \in DOMAIN seg.types : TypeIdOf(e, seg.types[n]) \in Ids(e.types)
      BY <1>1, <2>1, TypeIdOfIs
    <2> QED BY <1>2, <2>2, <2>3 DEF seg
  <1>4. ASSUME NEW id \in Ids(e.types), NEW n \in DOMAIN KeyOf(e.types, id) PROVE ConId(e, KeyOf(e.types, id)[n]) # NoId
    <2>1. KeyOf(e.types, id) \in Sigs
      BY <1>1, TypeKeyIs
    <2>2. KeyOf(e.types, id)[n] \in Idents
      BY <2>1, EnvironmentsAssumption
    <2>3. Has(e.names, KeyOf(e.types, id)[n])
      BY <1>1 DEF TypeConsNamed
    <2> QED BY <1>1, <2>2, <2>3, ConIdIs, IdsAreNat
  <1>5. ASSUME NEW h \in HeldIn(d) PROVE InUse(e.names, NameIdOf(e, h.name))
    <2>1. Kept(built.names, e.names, h.name, h.ident)
      BY DEF HeldIn, EInv, HeldOK, HeldName
    <2> QED BY <2>1, <1>1, <1>2, NameIdOfIs
  <1> QED BY <1>3, <1>4, <1>5 DEF CanStore

\* A record with another key.
Rekeyed(r, key) == [r EXCEPT !.entry.key = key]

\* The fields of a record with another key.
LEMMA RekeyedIs ==
    /\ \A A, r, key : r \in [id : Nat, entry : [key : A, hash : Nat, ref : Nat, fn : Int, alt : Int]] =>
          Rekeyed(r, key) = [id |-> r.id, entry |-> [key |-> key, hash |-> r.entry.hash, ref |-> r.entry.ref,
                                                     fn |-> r.entry.fn, alt |-> r.entry.alt]]
    /\ \A A, r, key : r \in [id : Nat, entry : [key : A, hash : Nat, ref : Nat]] =>
          Rekeyed(r, key) = [id |-> r.id, entry |-> [key |-> key, hash |-> r.entry.hash, ref |-> r.entry.ref]]
  <1>1. ASSUME NEW A, NEW r \in [id : Nat, entry : [key : A, hash : Nat, ref : Nat, fn : Int, alt : Int]], NEW key, NEW e,
               e = [r.entry EXCEPT !.key = key]
        PROVE  e = [key |-> key, hash |-> r.entry.hash, ref |-> r.entry.ref, fn |-> r.entry.fn, alt |-> r.entry.alt]
    BY <1>1
  <1>2. ASSUME NEW A, NEW r \in [id : Nat, entry : [key : A, hash : Nat, ref : Nat]], NEW key, NEW e,
               e = [r.entry EXCEPT !.key = key]
        PROVE  e = [key |-> key, hash |-> r.entry.hash, ref |-> r.entry.ref]
    BY <1>2
  <1>3. ASSUME NEW B, NEW r \in [id : Nat, entry : B], NEW e, NEW u, u = [r EXCEPT !.entry = e]
        PROVE  u = [id |-> r.id, entry |-> e]
    BY <1>3
  <1>4. ASSUME NEW B, NEW r \in [id : Nat, entry : B], NEW key
        PROVE  Rekeyed(r, key) = [id |-> r.id, entry |-> [r.entry EXCEPT !.key = key]]
    <2> DEFINE e == [r.entry EXCEPT !.key = key]
    <2>1. Rekeyed(r, key) = [r EXCEPT !.entry = e]
      BY DEF Rekeyed
    <2> HIDE DEF e
    <2>2. Rekeyed(r, key) = [id |-> r.id, entry |-> e]
      BY <1>3, <2>1
    <2> QED BY <2>2 DEF e
  <1>5. ASSUME NEW A, NEW r \in [id : Nat, entry : [key : A, hash : Nat, ref : Nat, fn : Int, alt : Int]], NEW key
        PROVE  Rekeyed(r, key) = [id |-> r.id, entry |-> [key |-> key, hash |-> r.entry.hash, ref |-> r.entry.ref,
                                                          fn |-> r.entry.fn, alt |-> r.entry.alt]]
    BY <1>1, <1>4
  <1>6. ASSUME NEW A, NEW r \in [id : Nat, entry : [key : A, hash : Nat, ref : Nat]], NEW key
        PROVE  Rekeyed(r, key) = [id |-> r.id, entry |-> [key |-> key, hash |-> r.entry.hash, ref |-> r.entry.ref]]
    BY <1>2, <1>4
  <1> QED BY <1>5, <1>6

\* The archive has each name once.
LEMMA NamesStored ==
    ASSUME NEW b, NEW t, NameTable(b, t), NEW names, RecordsOf(NameEntry, t, names)
    PROVE  SavedNamesOK(names)
  <1>1. \A m \in DOMAIN names : names[m].id \in Ids(t) /\ names[m].entry = EntryOf(t, names[m].id)
    BY DEF RecordsOf, SavedIds
  <1>2. \A n \in DOMAIN names : names[n].entry.hash = HashName[names[n].entry.key]
    BY <1>1 DEF NameTable, Keyed, KeyOf
  <1>3. \A m, n \in DOMAIN names : names[m].entry.key = names[n].entry.key => m = n
    BY <1>1 DEF NameTable, Keyed, KeyOf, RecordsOf, OneRecordEach
  <1> QED BY <1>2, <1>3 DEF SavedNamesOK, RecordsOf, SavedName

\* The signature of a type, with its type constructors as integers.
SigIds(e, sig) == [n \in DOMAIN sig |-> ConId(e, sig[n])]

\* A signature, written as integers, can be read back.
LEMMA SigIdsIs ==
    ASSUME NEW b, NEW e, TablesOK(b, e), NameTable(built, e.names), NEW names, RecordsOf(NameEntry, e.names, names), NEW i \in Ids(e.types)
    PROVE  LET key == SigIds(e, KeyOf(e.types, i))
           IN  /\ key \in Seq(Nat) /\ \A k \in DOMAIN key : key[k] \in SavedIds(names)
               /\ SigFrom(names, key) = KeyOf(e.types, i)
  <1> DEFINE sig == KeyOf(e.types, i)
             key == SigIds(e, sig)
  <1>1. TypeConsNamed(e.names, e.types) /\ e.types \in Tables(TypeEntry) /\ e.names \in Tables(NameEntry)
    BY DEF TablesOK, Environment
  <1>2. sig \in Seq(Idents)
    BY <1>1, TypeKeyIs, EnvironmentsAssumption
  <1>3. \A k \in DOMAIN sig : Has(e.names, sig[k])
    BY <1>1 DEF TypeConsNamed
  <1> HIDE DEF sig
  <1>4. ASSUME NEW k \in DOMAIN sig PROVE ConId(e, sig[k]) \in Ids(e.names) /\ KeyOf(e.names, ConId(e, sig[k])) = sig[k]
    BY <1>2, <1>3, ConIdIs
  <1>5. key = [k \in DOMAIN sig |-> key[k]] /\ \A k \in DOMAIN sig : key[k] = ConId(e, sig[k])
    BY DEF SigIds
  <1> HIDE DEF key
  <1>6. key \in Seq(Nat)
    <2>1. \A k \in DOMAIN sig : key[k] \in Nat
      BY <1>1, <1>4, <1>5, IdsAreNat
    <2> QED BY <2>1, <1>2, <1>5, LikeSequence
  <1>7. \A k \in DOMAIN key : key[k] \in SavedIds(names) /\ SavedKey(names, key[k]) = sig[k]
    BY <1>4, <1>5, RecordOfIs
  <1>8. SigFrom(names, key) = sig
    <2>1. sig = [k \in DOMAIN sig |-> sig[k]] /\ DOMAIN key = DOMAIN sig
      BY <1>2, <1>5
    <2> QED BY <2>1, <1>7 DEF SigFrom
  <1> QED BY <1>6, <1>7, <1>8 DEF key, sig

\* records with other keys.
LikeRecords(types, stored) ==
    /\ DOMAIN types = DOMAIN stored
    /\ types = [n \in DOMAIN stored |-> types[n]]
    /\ \A n \in DOMAIN stored : types[n].id = stored[n].id

\* Records that differ in their keys have the same integers.
LEMMA LikeRecordsIs ==
    ASSUME NEW E, NEW t, NEW stored, RecordsOf(E, t, stored), NEW types, LikeRecords(types, stored)
    PROVE  /\ SavedIds(types) = Ids(t) /\ OneRecordEach(types)
           /\ \A n \in DOMAIN types : types[n].id \in Ids(t) /\ stored[n].entry = EntryOf(t, types[n].id)
  <1>1. \A n \in DOMAIN types : types[n].id = stored[n].id /\ n \in DOMAIN stored
    BY DEF LikeRecords
  <1>2. OneRecordEach(types)
    BY <1>1 DEF OneRecordEach, RecordsOf
  <1>3. SavedIds(types) = SavedIds(stored)
    BY <1>1 DEF SavedIds, LikeRecords
  <1>4. \A n \in DOMAIN stored : stored[n].id \in SavedIds(stored)
    BY DEF SavedIds
  <1> QED BY <1>1, <1>2, <1>3, <1>4 DEF RecordsOf

\* A type's entry with another key.
WithKey(x, key) == [key |-> key, hash |-> x.hash, ref |-> x.ref, fn |-> x.fn, alt |-> x.alt]

\* The fields of an entry with another key.
LEMMA WithKeyIs ==
    ASSUME NEW x, NEW key
    PROVE  LET y == WithKey(x, key)
           IN  y.key = key /\ y.hash = x.hash /\ y.ref = x.ref /\ y.fn = x.fn /\ y.alt = x.alt
  BY DEF WithKey

\* The archive has each type once, and its signature can be read back.
LEMMA TypesStored ==
    ASSUME NEW e, TablesOK(built, e), FnsIn(e), NEW names, RecordsOf(NameEntry, e.names, names),
           NEW stored, RecordsOf(TypeEntry, e.types, stored),
           NEW types, types = [n \in DOMAIN stored |-> Rekeyed(stored[n], SigIds(e, stored[n].entry.key))],
           NEW segs, SavedIds(segs) = Ids(e.segs)
    PROVE  /\ SavedTypesOK(names, types, segs)
           /\ \A i \in Ids(e.types) : i \in SavedIds(types) /\ SigFrom(names, SavedKey(types, i)) = KeyOf(e.types, i)
           /\ TypesRead(names, types, e.types) /\ FnsRead(types, e.types)
  <1> DEFINE S == [id : Nat, entry : TypeEntry]
  <1>1. /\ TypeTable(built, e.types) /\ NameTable(built, e.names) /\ e.types \in Tables(TypeEntry)
    BY DEF TablesOK, Environment
  <1>2. stored \in Seq(S)
    BY DEF RecordsOf
  <1>3. ASSUME NEW n \in DOMAIN stored
        PROVE  types[n] = [id |-> stored[n].id, entry |-> WithKey(stored[n].entry, SigIds(e, stored[n].entry.key))]
               /\ stored[n] \in S /\ types[n].id = stored[n].id
    <2> DEFINE key == SigIds(e, stored[n].entry.key)
    <2>1. stored[n] \in S
      <3> HIDE DEF S
      <3> QED BY <1>2
    <2>2. types[n] = Rekeyed(stored[n], key)
      OBVIOUS
    <2> HIDE DEF key
    <2>3. types[n] = [id |-> stored[n].id, entry |-> WithKey(stored[n].entry, key)]
      BY <2>1, <2>2, RekeyedIs DEF TypeEntry, WithKey
    <2>4. types[n].id = stored[n].id
      BY ONLY <2>3
    <2> HIDE DEF S
    <2> QED BY <2>1, <2>3, <2>4 DEF key
  <1>4. LikeRecords(types, stored)
    <2>1. \A n \in DOMAIN stored : types[n].id = stored[n].id
      BY <1>3
    <2> QED BY <2>1 DEF LikeRecords
  <1>5. /\ SavedIds(types) = Ids(e.types) /\ OneRecordEach(types)
        /\ \A n \in DOMAIN types : types[n].id \in Ids(e.types) /\ stored[n].entry = EntryOf(e.types, types[n].id)
    BY <1>4, LikeRecordsIs
  <1>6. ASSUME NEW n \in DOMAIN types
        PROVE  LET i == types[n].id
               IN  /\ i \in Ids(e.types) /\ i \in Nat
                   /\ types[n] = [id |-> i, entry |-> WithKey(EntryOf(e.types, i), SigIds(e, KeyOf(e.types, i)))]
                   /\ types[n].entry = WithKey(EntryOf(e.types, i), SigIds(e, KeyOf(e.types, i)))
    <2> DEFINE i == types[n].id
    <2>1. n \in DOMAIN stored /\ i = stored[n].id
      BY <1>4 DEF LikeRecords
    <2>2. i \in Ids(e.types) /\ stored[n].entry = EntryOf(e.types, i)
      BY <1>5
    <2>3. types[n] = [id |-> i, entry |-> WithKey(stored[n].entry, SigIds(e, stored[n].entry.key))]
      BY <1>3, <2>1
    <2>4. i \in Nat
      BY <1>3, <2>1
    <2> HIDE DEF i
    <2>5. types[n] = [id |-> i, entry |-> WithKey(EntryOf(e.types, i), SigIds(e, KeyOf(e.types, i)))]
      BY ONLY <2>2, <2>3 DEF KeyOf
    <2>6. types[n].entry = WithKey(EntryOf(e.types, i), SigIds(e, KeyOf(e.types, i)))
      BY ONLY <2>5
    <2> QED BY <2>2, <2>4, <2>5, <2>6 DEF i
  <1>7. ASSUME NEW n \in DOMAIN types
        PROVE  LET i     == types[n].id
                   entry == types[n].entry
                   x     == EntryOf(e.types, i)
               IN  /\ entry.key = SigIds(e, KeyOf(e.types, i)) /\ entry.hash = x.hash /\ entry.fn = x.fn
                   /\ entry.key \in Seq(Nat) /\ \A k \in DOMAIN entry.key : entry.key[k] \in SavedIds(names)
                   /\ SigFrom(names, entry.key) = KeyOf(e.types, i)
    <2> DEFINE i == types[n].id
               entry == types[n].entry
               x == EntryOf(e.types, i)
               key == SigIds(e, KeyOf(e.types, i))
    <2>1. entry = WithKey(x, key) /\ i \in Ids(e.types)
      BY <1>6
    <2>2. /\ key \in Seq(Nat) /\ \A k \in DOMAIN key : key[k] \in SavedIds(names)
          /\ SigFrom(names, key) = KeyOf(e.types, i)
      BY <2>1, <1>1, SigIdsIs
    <2> HIDE DEF entry, key, x, i
    <2>3. entry.key = key /\ entry.hash = x.hash /\ entry.fn = x.fn
      BY ONLY <2>1, WithKeyIs
    <2> QED BY <2>2, <2>3 DEF entry, key, x, i
  <1>8. \A i \in Ids(e.types) : KeyOf(e.types, i) \in Sigs /\ EntryOf(e.types, i) \in TypeEntry
    BY <1>1, TypeKeyIs, TableFields
  <1>9. types \in Seq(SavedType)
    <2>1. ASSUME NEW n \in DOMAIN types PROVE types[n] \in SavedType
      <3> DEFINE i == types[n].id
                 x == EntryOf(e.types, i)
                 key == SigIds(e, KeyOf(e.types, i))
      <3>1. types[n] = [id |-> i, entry |-> WithKey(x, key)] /\ i \in Nat /\ x \in TypeEntry
        BY <1>6, <1>8
      <3>2. key \in Seq(Nat)
        BY <1>7
      <3> HIDE DEF x, key, i
      <3> QED BY ONLY <3>1, <3>2 DEF TypeEntry, SavedType, WithKey
    <2> QED BY <2>1, <1>2, <1>4, LikeSequence DEF LikeRecords
  <1>10. ASSUME NEW n \in DOMAIN types
         PROVE  LET entry == types[n].entry
                IN  /\ \A k \in DOMAIN entry.key : entry.key[k] \in SavedIds(names)
                    /\ SigFrom(names, entry.key) \in Sigs
                    /\ entry.hash = HashSig[SigFrom(names, entry.key)]
                    /\ entry.fn \in SavedIds(segs) \cup {NoId}
    <2> DEFINE entry == types[n].entry
               i == types[n].id
    <2>1. i \in Ids(e.types) /\ KeyOf(e.types, i) \in Sigs
      BY <1>6, <1>8
    <2>2. /\ entry.hash = EntryOf(e.types, i).hash /\ entry.fn = EntryOf(e.types, i).fn
          /\ \A k \in DOMAIN entry.key : entry.key[k] \in SavedIds(names)
          /\ SigFrom(names, entry.key) = KeyOf(e.types, i)
      BY <1>7
    <2>3. EntryOf(e.types, i).hash = HashSig[KeyOf(e.types, i)] /\ EntryOf(e.types, i).fn \in Ids(e.segs) \cup {NoId}
      BY <2>1, <1>1 DEF TypeTable, Keyed, FnsIn
    <2> HIDE DEF entry, i
    <2> QED BY <2>1, <2>2, <2>3 DEF entry
  <1>11. ASSUME NEW m \in DOMAIN types, NEW n \in DOMAIN types,
                SigFrom(names, types[m].entry.key) = SigFrom(names, types[n].entry.key)
         PROVE  m = n
    <2>1. KeyOf(e.types, types[m].id) = KeyOf(e.types, types[n].id)
      BY <1>7, <1>11
    <2>2. types[m].id = types[n].id
      BY <2>1, <1>1, <1>6 DEF TypeTable, Keyed
    <2> QED BY <2>2, <1>5 DEF OneRecordEach
  <1>12. ASSUME NEW i \in Ids(e.types)
         PROVE  i \in SavedIds(types) /\ SigFrom(names, SavedKey(types, i)) = KeyOf(e.types, i)
    <2>1. PICK n \in DOMAIN types : types[n].id = i
      BY <1>5 DEF SavedIds
    <2>2. SavedKey(types, i) = types[n].entry.key
      BY <2>1, <1>5, SavedKeyIs
    <2> QED BY <2>1, <2>2, <1>5, <1>7
  <1>13. TypesRead(names, types, e.types)
    BY <1>5, <1>12 DEF TypesRead
  <1>14. FnsRead(types, e.types)
    BY <1>5, <1>7 DEF FnsRead
  <1> QED BY <1>5, <1>9, <1>10, <1>11, <1>12, <1>13, <1>14 DEF SavedTypesOK

\* The record of a segment with other names and types.
SegWith(s, names, types) == [s EXCEPT !.names = names, !.types = types]

\* The fields of a segment with other constants.
LEMMA SegWithIs ==
    ASSUME NEW s \in Segs, NEW names, NEW types
    PROVE  SegWith(s, names, types) = [names |-> names, types |-> types, hash |-> s.hash]
  <1>1. s \in [names : Seq(Nat), types : Seq(Nat), hash : Nat]
    BY DEF Segs
  <1>2. ASSUME NEW u, u = [s EXCEPT !.names = names, !.types = types] PROVE u = [names |-> names, types |-> types, hash |-> s.hash]
    BY <1>1, <1>2
  <1> QED BY <1>2 DEF SegWith

\* A segment as it is written.
SegIds(e, s) == SegWith(s, [n \in DOMAIN s.names |-> NameIdOf(e, s.names[n])],
                           [n \in DOMAIN s.types |-> TypeIdOf(e, s.types[n])])

\* A segment's constants, written as integers, can be read back.
LEMMA SegIdsIs ==
    ASSUME EInv, Idle, NEW d \in Targets, NEW names, RecordsOf(NameEntry, env[d].names, names),
           NEW types, \A i \in Ids(env[d].types) :
               i \in SavedIds(types) /\ SigFrom(names, SavedKey(types, i)) = KeyOf(env[d].types, i),
           NEW id \in Ids(env[d].segs)
    PROVE  \E c \in Codes : /\ KeptIn(env[d].names, env[d].types, KeyOf(env[d].segs, id), c)
                            /\ SegSays(names, types, SegIds(env[d], KeyOf(env[d].segs, id)), c)
  <1> DEFINE e == env[d]
             s == KeyOf(e.segs, id)
             ns == [n \in DOMAIN s.names |-> NameIdOf(e, s.names[n])]
             ts == [n \in DOMAIN s.types |-> TypeIdOf(e, s.types[n])]
             x == SegIds(e, s)
  <1>1. /\ BuiltOK(built) /\ NameTable(built, e.names) /\ TypeTable(built, e.types)
        /\ e.names \in Tables(NameEntry) /\ e.types \in Tables(TypeEntry)
    BY EnvsAre DEF EInv, TablesOK, Environment
  <1>2. PICK c \in Codes :
           /\ s \in Segs /\ s.hash = HashOf(c)
           /\ DOMAIN s.names = DOMAIN CodeNames[c] /\ DOMAIN s.types = DOMAIN CodeSigs[c]
           /\ \A n \in DOMAIN s.names : Kept(built.names, e.names, s.names[n], CodeNames[c][n])
           /\ \A n \in DOMAIN s.types : Kept(built.sigs, e.types, s.types[n], CodeSigs[c][n])
    BY IdleSegment DEF CodeIn
  <1>3. s.names \in Seq(Nat) /\ s.types \in Seq(Nat) /\ s.hash \in Nat
    BY <1>2 DEF Segs
  <1>4. \A i \in Ids(e.types) : i \in SavedIds(types) /\ SigFrom(names, SavedKey(types, i)) = KeyOf(e.types, i)
    OBVIOUS
  <1>5. RecordsOf(NameEntry, e.names, names)
    OBVIOUS
  <1>6. x = [names |-> ns, types |-> ts, hash |-> s.hash]
    BY <1>2, SegWithIs DEF SegIds
  <1> HIDE DEF s, e, x
  <1>7. ASSUME NEW n \in DOMAIN s.names
        PROVE  /\ ns[n] \in Nat /\ ns[n] \in SavedIds(names) /\ SavedKey(names, ns[n]) = CodeNames[c][n]
    <2>1. NameIdOf(e, s.names[n]) \in Ids(e.names) /\ KeyOf(e.names, NameIdOf(e, s.names[n])) = CodeNames[c][n]
      BY <1>1, <1>2, NameIdOfIs
    <2>2. ns[n] \in Ids(e.names) /\ KeyOf(e.names, ns[n]) = CodeNames[c][n]
      BY <2>1
    <2> HIDE DEF ns
    <2> QED BY <2>2, <1>1, <1>5, RecordOfIs, IdsAreNat
  <1>8. ASSUME NEW n \in DOMAIN s.types
        PROVE  /\ ts[n] \in Nat /\ ts[n] \in SavedIds(types) /\ SigFrom(names, SavedKey(types, ts[n])) = CodeSigs[c][n]
    <2>1. TypeIdOf(e, s.types[n]) \in Ids(e.types) /\ KeyOf(e.types, TypeIdOf(e, s.types[n])) = CodeSigs[c][n]
      BY <1>1, <1>2, TypeIdOfIs
    <2>2. ts[n] \in Ids(e.types) /\ KeyOf(e.types, ts[n]) = CodeSigs[c][n]
      BY <2>1
    <2> HIDE DEF ts
    <2> QED BY <2>2, <1>1, <1>4, IdsAreNat
  <1>9. /\ ns = [n \in DOMAIN s.names |-> ns[n]] /\ DOMAIN ns = DOMAIN s.names
        /\ ts = [n \in DOMAIN s.types |-> ts[n]] /\ DOMAIN ts = DOMAIN s.types
    OBVIOUS
  <1> HIDE DEF ns, ts
  <1>10. ns \in Seq(Nat) /\ ts \in Seq(Nat)
    BY <1>3, <1>7, <1>8, <1>9, LikeSequence
  <1>11. x.names = ns /\ x.types = ts /\ x.hash = s.hash /\ x \in Segs
    BY <1>3, <1>6, <1>10 DEF Segs
  <1>12. SegSays(names, types, x, c)
    BY <1>2, <1>7, <1>8, <1>9, <1>11 DEF SegSays
  <1>13. KeptIn(e.names, e.types, s, c)
    BY <1>2 DEF KeptIn
  <1> QED BY <1>12, <1>13 DEF x, e, s

\* The archive has segments that say what compiled segments say.
LEMMA SegsStored ==
    ASSUME EInv, Idle, NEW d \in Targets, NEW names, RecordsOf(NameEntry, env[d].names, names),
           NEW types, \A i \in Ids(env[d].types) :
               i \in SavedIds(types) /\ SigFrom(names, SavedKey(types, i)) = KeyOf(env[d].types, i),
           NEW stored, RecordsOf(SegEntry, env[d].segs, stored),
           NEW segs, segs = [n \in DOMAIN stored |-> Rekeyed(stored[n], SegIds(env[d], stored[n].entry.key))],
           LikeRecords(segs, stored)
    PROVE  /\ SavedSegsOK(names, types, segs)
           /\ SegsRead(names, types, segs, env[d])
  <1> DEFINE e == env[d]
             S == [id : Nat, entry : SegEntry]
  <1>1. /\ SavedIds(segs) = Ids(e.segs) /\ OneRecordEach(segs)
        /\ \A n \in DOMAIN segs : segs[n].id \in Ids(e.segs) /\ stored[n].entry = EntryOf(e.segs, segs[n].id)
    BY LikeRecordsIs
  <1>2. stored \in Seq(S)
    BY DEF RecordsOf
  <1>3. ASSUME NEW n \in DOMAIN segs
        PROVE  /\ segs[n] \in SavedSeg
               /\ \E c \in Codes : /\ KeptIn(e.names, e.types, KeyOf(e.segs, segs[n].id), c)
                                   /\ SegSays(names, types, segs[n].entry.key, c)
    <2> DEFINE x == stored[n].entry
               key == SegIds(e, x.key)
    <2>1. n \in DOMAIN stored /\ stored[n].id = segs[n].id
      BY DEF LikeRecords
    <2>2. stored[n] \in S
      <3> HIDE DEF S
      <3> QED BY <2>1, <1>2
    <2>3. segs[n] = Rekeyed(stored[n], key)
      BY <2>1
    <2>4. x.key = KeyOf(e.segs, segs[n].id) /\ segs[n].id \in Ids(e.segs)
      BY <1>1 DEF KeyOf
    <2>5. \E c \in Codes : /\ KeptIn(e.names, e.types, KeyOf(e.segs, segs[n].id), c)
                           /\ SegSays(names, types, key, c)
      <3> DEFINE id == segs[n].id
      <3>1. id \in Ids(env[d].segs) /\ key = SegIds(env[d], KeyOf(env[d].segs, id))
        BY <2>4
      <3> HIDE DEF id, key
      <3>2. \E c \in Codes : /\ KeptIn(env[d].names, env[d].types, KeyOf(env[d].segs, id), c)
                             /\ SegSays(names, types, SegIds(env[d], KeyOf(env[d].segs, id)), c)
        BY <3>1, SegIdsIs
      <3> QED BY <3>1, <3>2 DEF id
    <2>6. stored[n].id \in Nat /\ x \in SegEntry
      BY <2>2
    <2> HIDE DEF key
    <2>7. segs[n] = [id |-> stored[n].id, entry |-> [key |-> key, hash |-> x.hash, ref |-> x.ref]]
      BY <2>2, <2>3, RekeyedIs DEF SegEntry
    <2>8. key \in Segs
      BY <2>5 DEF SegSays
    <2> HIDE DEF x
    <2>9. segs[n].entry.key = key
      BY ONLY <2>7
    <2>10. segs[n] \in SavedSeg
      BY ONLY <2>6, <2>7, <2>8 DEF SavedSeg, SegEntry
    <2> QED BY <2>5, <2>9, <2>10
  <1>4. segs \in Seq(SavedSeg)
    <2>1. segs = [n \in DOMAIN stored |-> segs[n]] /\ DOMAIN segs = DOMAIN stored
      BY DEF LikeRecords
    <2> HIDE DEF S
    <2> QED BY <1>2, <1>3, <2>1, LikeSequence
  <1>5. ASSUME NEW i \in Ids(e.segs)
        PROVE  \E c \in Codes : /\ KeptIn(e.names, e.types, KeyOf(e.segs, i), c)
                                /\ SegSays(names, types, SavedKey(segs, i), c)
    <2>1. PICK n \in DOMAIN segs : segs[n].id = i
      BY <1>1 DEF SavedIds
    <2>2. SavedKey(segs, i) = segs[n].entry.key
      BY <2>1, <1>1, SavedKeyIs
    <2> QED BY <2>1, <2>2, <1>1, <1>3
  <1>6. SegsRead(names, types, segs, e)
    BY <1>1, <1>5 DEF SegsRead
  <1> QED BY <1>1, <1>3, <1>4, <1>6 DEF SavedSegsOK

\* The segment as Store says it.
SegIdsInTurn(e, s) == [s EXCEPT !.names = [n \in DOMAIN @ |-> NameIdOf(e, @[n])],
                                !.types = [n \in DOMAIN @ |-> TypeIdOf(e, @[n])]]

\* Replacing the names first and the types next is replacing both.
LEMMA SegIdsInTurnIs ==
    ASSUME NEW e, NEW s \in Segs PROVE SegIdsInTurn(e, s) = SegIds(e, s)
  <1> DEFINE ns == [n \in DOMAIN s.names |-> NameIdOf(e, s.names[n])]
             u == [s EXCEPT !.names = ns]
             ts == [n \in DOMAIN s.types |-> TypeIdOf(e, s.types[n])]
  <1>1. u = [names |-> ns, types |-> s.types, hash |-> s.hash]
    <2> HIDE DEF ns
    <2> QED BY SegUpdate
  <1>2. SegIdsInTurn(e, s) = [u EXCEPT !.types = [n \in DOMAIN u.types |-> TypeIdOf(e, u.types[n])]]
    BY DEF SegIdsInTurn
  <1>3. SegIdsInTurn(e, s) = [u EXCEPT !.types = ts]
    <2>1. u.types = s.types
      BY <1>1
    <2> HIDE DEF u
    <2> QED BY <1>2, <2>1
  <1>4. SegWith(s, ns, ts) = [u EXCEPT !.types = ts]
    BY DEF SegWith
  <1> QED BY <1>3, <1>4 DEF SegIds

\* insertBinEnv: the archive has the bindings of the environment that was written.
LEMMA StoreKeeps ==
    ASSUME EInv, NEW d \in Targets, Store(d) PROVE EInv' /\ StoredFrom(d)
  <1> DEFINE e == env[d]
             names == Stored(e.names)
             storedTypes == Stored(e.types)
             storedSegs == Stored(e.segs)
             types == [n \in DOMAIN storedTypes |-> Rekeyed(storedTypes[n], SigIds(e, storedTypes[n].entry.key))]
             segs == [n \in DOMAIN storedSegs |-> Rekeyed(storedSegs[n], SegIds(e, storedSegs[n].entry.key))]
             heldIds == {[id |-> NameIdOf(e, h.name), ident |-> h.ident] : h \in HeldIn(d)}
  <1> USE DEF EInv
  <1> DEFINE segsInTurn == [n \in DOMAIN storedSegs |-> Rekeyed(storedSegs[n], SegIdsInTurn(e, storedSegs[n].entry.key))]
  <1>a. /\ Idle /\ archive' = [names |-> names, types |-> types, segs |-> segsInTurn, held |-> heldIds]
        /\ UNCHANGED <<program, env, code, held, work>>
    <2>1. Idle /\ UNCHANGED <<program, env, code, held, work>>
      BY ONLY Store(d), ZenonT(60) DEF Store
    <2>2. archive' = [names |-> names, types |-> types, segs |-> segsInTurn, held |-> heldIds]
      BY ONLY Store(d), ZenonT(60) DEF Store, MapKeys, Rekeyed, SigIds, SegIdsInTurn
    <2> QED BY <2>1, <2>2
  <1>2. /\ BuiltOK(built) /\ TablesOK(built, e) /\ FnsIn(e) /\ NameTable(built, e.names)
        /\ e.names \in Tables(NameEntry) /\ e.types \in Tables(TypeEntry) /\ e.segs \in Tables(SegEntry)
    BY EnvsAre DEF TablesOK, Environment
  <1>3. /\ RecordsOf(NameEntry, e.names, names) /\ RecordsOf(TypeEntry, e.types, storedTypes)
        /\ RecordsOf(SegEntry, e.segs, storedSegs)
    BY <1>2, StoredIs
  <1>b. segsInTurn = segs
    <2> DEFINE S == [id : Nat, entry : SegEntry]
    <2>1. storedSegs \in Seq(S)
      BY <1>3 DEF RecordsOf
    <2> HIDE DEF storedSegs, e
    <2>2. ASSUME NEW n \in DOMAIN storedSegs PROVE storedSegs[n].entry.key \in Segs
      <3>1. storedSegs[n] \in S
        <4> HIDE DEF S
        <4> QED BY <2>1
      <3> QED BY <3>1 DEF SegEntry
    <2>3. \A n \in DOMAIN storedSegs : SegIdsInTurn(e, storedSegs[n].entry.key) = SegIds(e, storedSegs[n].entry.key)
      BY <2>2, SegIdsInTurnIs
    <2> QED BY <2>3
  <1>1. /\ Idle /\ archive' = [names |-> names, types |-> types, segs |-> segs, held |-> heldIds]
        /\ UNCHANGED <<program, env, code, held, work>>
    <2> HIDE DEF segsInTurn, segs, names, types, heldIds
    <2> QED BY <1>a, <1>b
  <1>4. segs = [n \in DOMAIN storedSegs |-> Rekeyed(storedSegs[n], SegIds(e, storedSegs[n].entry.key))]
    OBVIOUS
  <1>5. types = [n \in DOMAIN storedTypes |-> Rekeyed(storedTypes[n], SigIds(e, storedTypes[n].entry.key))]
    OBVIOUS
  <1>6. heldIds = {[id |-> NameIdOf(e, h.name), ident |-> h.ident] : h \in HeldIn(d)}
    OBVIOUS
  <1> HIDE DEF names, storedTypes, storedSegs, types, segs, heldIds
  <1>7. LikeRecords(segs, storedSegs)
    <2> DEFINE S == [id : Nat, entry : SegEntry]
    <2>1. ASSUME NEW n \in DOMAIN storedSegs PROVE segs[n].id = storedSegs[n].id
      <3> DEFINE key == SegIds(e, storedSegs[n].entry.key)
                 x == storedSegs[n].entry
      <3>1. storedSegs \in Seq(S)
        BY <1>3 DEF RecordsOf
      <3>2. storedSegs[n] \in S
        <4> HIDE DEF S
        <4> QED BY <3>1
      <3>3. segs[n] = Rekeyed(storedSegs[n], key)
        BY <1>4
      <3> HIDE DEF key
      <3>4. segs[n] = [id |-> storedSegs[n].id, entry |-> [key |-> key, hash |-> x.hash, ref |-> x.ref]]
        BY <3>2, <3>3, RekeyedIs DEF SegEntry
      <3> HIDE DEF x
      <3> QED BY ONLY <3>4
    <2> QED BY <2>1, <1>4 DEF LikeRecords
  <1>8. SavedIds(segs) = Ids(e.segs)
    BY <1>3, <1>7, LikeRecordsIs
  <1>9. /\ SavedTypesOK(names, types, segs) /\ TypesRead(names, types, e.types) /\ FnsRead(types, e.types)
        /\ \A i \in Ids(e.types) : i \in SavedIds(types) /\ SigFrom(names, SavedKey(types, i)) = KeyOf(e.types, i)
    <2> HIDE DEF e
    <2> QED BY <1>2, <1>3, <1>5, <1>8, TypesStored
  <1>10. SavedSegsOK(names, types, segs) /\ SegsRead(names, types, segs, e)
    BY <1>1, <1>3, <1>4, <1>7, <1>9, SegsStored
  <1>11. SavedNamesOK(names)
    BY <1>2, <1>3, NamesStored
  <1>12. SavedHeldOK(names, heldIds)
    <2> SUFFICES ASSUME NEW r \in heldIds PROVE r.id \in SavedIds(names) /\ SavedKey(names, r.id) = r.ident
      BY DEF SavedHeldOK
    <2>1. PICK h \in HeldIn(d) : r = [id |-> NameIdOf(e, h.name), ident |-> h.ident]
      BY <1>6
    <2>2. Kept(built.names, e.names, h.name, h.ident)
      BY DEF HeldIn, HeldOK, HeldName
    <2>3. NameIdOf(e, h.name) \in Ids(e.names) /\ KeyOf(e.names, NameIdOf(e, h.name)) = h.ident
      BY <1>2, <2>2, NameIdOfIs
    <2>4. r.id = NameIdOf(e, h.name) /\ r.ident = h.ident
      BY <2>1
    <2> HIDE DEF e
    <2> QED BY <2>3, <2>4, <1>3, RecordOfIs
  <1>13. archive'.names = names /\ archive'.types = types /\ archive'.segs = segs /\ archive'.held = heldIds
    BY <1>1
  <1>14. ArchiveOK'
    BY <1>9, <1>10, <1>11, <1>12, <1>13 DEF ArchiveOK
  <1>15. built' = built
    BY <1>1 DEF built
  <1>16. EnvsOK' /\ CodeOK' /\ LiveOK' /\ HeldOK'
    BY <1>1, <1>15 DEF EnvsOK, CodeOK, LiveOK, HeldOK, Compiled, CodeEnv
  <1>17. WorkOK' /\ SegsOK'
    BY <1>1, <1>15 DEF WorkOK, SegsOK, Idle, Compiled, InWork
  <1>18. StoredFrom(d)
    <2>1. archive = NoArchive
      BY ONLY Store(d), ZenonT(60) DEF Store
    <2>2. SavedIds(names) = Ids(e.names)
      BY <1>3 DEF RecordsOf
    <2> HIDE DEF e
    <2>3. \A i \in Ids(e.names) : KeyOf(e.names, i) = SavedKey(names, i)
      BY <1>3, RecordOfIs
    <2>4. NamesRead(names, e.names)
      BY <2>2, <2>3 DEF NamesRead
    <2> QED BY <2>1, <2>4, <1>10, <1>1, <1>9, <1>13 DEF StoredFrom, e
  <1> QED BY <1>14, <1>16, <1>17, <1>18

\* The environments when a program starts.
LEMMA StartIs ==
    ASSUME NEW ev, ev = [e \in Envs |-> IF e \in Sources THEN FreshEnv ELSE DeadEnv], NEW b
    PROVE  /\ DOMAIN ev = Envs /\ \A e \in Envs : EnvOK(b, ev[e]) /\ Ids(ev[e].segs) = {}
           /\ \A s \in Sources : ev[s].segs = EmptyTable
           /\ \A d \in Targets : /\ ~ev[d].live
                                 /\ ev[d].names = EmptyTable /\ ev[d].types = EmptyTable /\ ev[d].segs = EmptyTable
  <1>1. \A e \in Envs : ev[e] \in {FreshEnv, DeadEnv}
    OBVIOUS
  <1>2. \A d \in Targets : d \in Envs /\ ev[d] = DeadEnv
    BY EnvironmentsAssumption DEF Envs
  <1>3. \A s \in Sources : s \in Envs
    BY DEF Envs
  <1>4. Ids(EmptyTable) = {}
    BY EmptyTableIs
  <1> QED BY <1>1, <1>2, <1>3, <1>4, FreshEnvIs

\* Another run starts, with other built-in names and types and the same archive.
LEMMA RestartKeeps ==
    ASSUME EInv, Restart PROVE EInv' /\ Restarted
  <1>1. /\ program' = program + 1 /\ program < Len(Builds) /\ UNCHANGED archive
        /\ env' = [e \in Envs |-> IF e \in Sources THEN FreshEnv ELSE DeadEnv]
        /\ code' = [c \in Codes |-> NoCode] /\ held' = {} /\ work' = <<>>
    BY DEF Restart
  <1>2. program' \in 1 .. Len(Builds)
    <2>1. Len(Builds) \in Nat /\ program \in 1 .. Len(Builds)
      BY EnvironmentsAssumption DEF EInv, EnvsOK
    <2> QED BY <2>1, <1>1
  <1>3. EnvsOK' /\ \A d \in Targets : /\ ~env'[d].live /\ Ids(env'[d].segs) = {}
                                       /\ Ids(env'[d].names) = {} /\ Ids(env'[d].types) = {}
    <2>1. /\ DOMAIN env' = Envs /\ \A e \in Envs : EnvOK(built', env'[e]) /\ Ids(env'[e].segs) = {}
          /\ \A s \in Sources : env'[s].segs = EmptyTable
          /\ \A d \in Targets : /\ ~env'[d].live
                                /\ env'[d].names = EmptyTable /\ env'[d].types = EmptyTable /\ env'[d].segs = EmptyTable
      BY <1>1, StartIs
    <2>2. Ids(EmptyTable) = {}
      BY EmptyTableIs
    <2> QED BY <2>1, <2>2, <1>2 DEF EnvsOK, Envs
  <1>4. CodeOK' /\ HeldOK' /\ LiveOK' /\ SegsOK'
    BY <1>1, <1>3 DEF CodeOK, HeldOK, LiveOK, SegsOK
  <1>5. WorkOK'
    BY <1>1, EnvironmentsAssumption DEF WorkOK, Idle
  <1>6. ArchiveOK'
    BY <1>1, ArchiveKept DEF EInv
  <1> QED BY <1>1, <1>3, <1>4, <1>5, <1>6 DEF EInv, Restarted

\* The first run starts with no entries.
LEMMA InitEInv == Init => EInv
  <1> SUFFICES ASSUME Init PROVE EInv
    OBVIOUS
  <1>1. /\ program = 1 /\ archive = NoArchive
        /\ env = [e \in Envs |-> IF e \in Sources THEN FreshEnv ELSE DeadEnv]
        /\ code = [c \in Codes |-> NoCode] /\ held = {} /\ work = <<>>
    BY DEF Init
  <1>2. program \in 1 .. Len(Builds)
    <2> DEFINE S == [names : Seq(Idents), sigs : Seq(Sigs)]
    <2>1. Builds \in Seq(S) /\ Builds # <<>>
      BY EnvironmentsAssumption
    <2> HIDE DEF S
    <2>2. Len(Builds) \in Nat /\ Len(Builds) # 0
      BY <2>1
    <2> QED BY <2>2, <1>1
  <1>3. EnvsOK /\ \A d \in Targets : ~env[d].live /\ Ids(env[d].segs) = {}
    <2>1. /\ DOMAIN env = Envs /\ \A e \in Envs : EnvOK(built, env[e]) /\ Ids(env[e].segs) = {}
          /\ \A s \in Sources : env[s].segs = EmptyTable
          /\ \A d \in Targets : /\ ~env[d].live
                                /\ env[d].names = EmptyTable /\ env[d].types = EmptyTable /\ env[d].segs = EmptyTable
      BY <1>1, StartIs
    <2> QED BY <2>1, <1>2 DEF EnvsOK, Envs
  <1>4. CodeOK /\ HeldOK /\ LiveOK /\ SegsOK
    BY <1>1, <1>3 DEF CodeOK, HeldOK, LiveOK, SegsOK
  <1>5. WorkOK
    BY <1>1, EnvironmentsAssumption DEF WorkOK, Idle
  <1>6. ArchiveOK
    BY <1>1 DEF ArchiveOK
  <1> QED BY <1>3, <1>4, <1>5, <1>6 DEF EInv

-----------------------------------------------------------------------------
(* An environment is loaded.                                               *)

LoadedOp(p, t, r) == AddEntry(t, r.id, r.entry)
LoadedHolds(p, t, n) ==
    /\ t \in Tables(p.E) /\ ChainsSound(t) /\ t.minFree = 0
    /\ \A i : i \in Ids(t) <=> \E k \in 1 .. n : p.records[k].id = i
    /\ \A k \in 1 .. n : EntryOf(t, p.records[k].id) = p.records[k].entry
LoadedFold == INSTANCE ThroughProofs WITH Op <- LoadedOp, Holds <- LoadedHolds

\* The table has the entries of the records.
TableOf(E, records, t) ==
    /\ t \in Tables(E) /\ TableSound(t) /\ Ids(t) = SavedIds(records)
    /\ \A k \in DOMAIN records : EntryOf(t, records[k].id) = records[k].entry

\* load gives each record's integer the record's entry.
LEMMA LoadedIs ==
    ASSUME NEW E, Entries(E), NEW records \in Seq([id : Nat, entry : E]), OneRecordEach(records)
    PROVE  TableOf(E, records, Loaded(records))
  <1> DEFINE p == [E |-> E, records |-> records]
             S == [id : Nat, entry : E]
             t == Loaded(records)
  <1>1. /\ p.E = E /\ p.records = records
        /\ Len(records) \in Nat /\ DOMAIN records = 1 .. Len(records)
    OBVIOUS
  <1>2. records \in Seq(S)
    OBVIOUS
  <1> HIDE DEF p
  <1>3. LoadedHolds(p, EmptyTable, 0)
    <2>1. EmptyTable \in Tables(E) /\ TableSound(EmptyTable) /\ Ids(EmptyTable) = {} /\ EmptyTable.minFree = 0
      BY EmptyTableIs DEF EmptyTable
    <2> QED BY <2>1, <1>1 DEF LoadedHolds, TableSound
  <1>4. ASSUME NEW n \in 1 .. Len(records), NEW u, LoadedHolds(p, u, n - 1)
        PROVE  LoadedHolds(p, LoadedOp(p, u, records[n]), n)
    <2> DEFINE r == records[n]
               id == r.id
               e == r.entry
               v == AddEntry(u, id, e)
    <2>1. /\ u \in Tables(E) /\ ChainsSound(u) /\ u.minFree = 0
          /\ \A i : i \in Ids(u) <=> \E k \in 1 .. (n - 1) : records[k].id = i
          /\ \A k \in 1 .. (n - 1) : EntryOf(u, records[k].id) = records[k].entry
      BY <1>1, <1>4 DEF LoadedHolds
    <2>2. id \in Nat /\ e \in E
      <3>1. r \in S
        <4> HIDE DEF S
        <4> QED BY <1>2
      <3> QED BY <3>1
    <2>3. \A k \in 1 .. n : k = n \/ k \in 1 .. (n - 1)
      OBVIOUS
    <2>4. \A k \in 1 .. (n - 1) : records[k].id # id /\ k \in 1 .. n
      <3> SUFFICES ASSUME NEW k \in 1 .. (n - 1) PROVE records[k].id # id /\ k \in 1 .. n
        OBVIOUS
      <3>1. k # n /\ k \in DOMAIN records /\ n \in DOMAIN records /\ k \in 1 .. n
        BY <1>1
      <3> QED BY <3>1 DEF OneRecordEach
    <2>5. id \notin Ids(u)
      BY <2>1, <2>4
    <2> HIDE DEF id, e, v
    <2>6. Added(E, u, v, id, e) /\ v.minFree = u.minFree
      BY <2>1, <2>2, <2>5, AddEntryIs DEF v
    <2>7. \A i : i \in Ids(v) <=> \E k \in 1 .. n : records[k].id = i
      BY <2>1, <2>3, <2>4, <2>6 DEF Added, id
    <2>8. \A k \in 1 .. n : EntryOf(v, records[k].id) = records[k].entry
      <3> SUFFICES ASSUME NEW k \in 1 .. n PROVE EntryOf(v, records[k].id) = records[k].entry
        OBVIOUS
      <3>1. CASE k = n
        BY <3>1, <2>6 DEF Added, id, e
      <3>2. CASE k \in 1 .. (n - 1)
        BY <3>2, <2>1, <2>6 DEF Added
      <3> QED BY <3>1, <3>2, <2>3
    <2>9. LoadedHolds(p, v, n)
      BY <1>1, <2>1, <2>6, <2>7, <2>8 DEF LoadedHolds, Added
    <2> QED BY <2>9 DEF LoadedOp, v, id, e
  <1>5. LoadedHolds(p, LoadedFold!Folded(p, EmptyTable, records), Len(records))
    BY <1>1, <1>3, <1>4, LoadedFold!ThroughHolds, NSlotsAssumption
  <1>6. LoadedFold!Folded(p, EmptyTable, records) = t
    BY <1>1 DEF LoadedFold!Folded, LoadedFold!Through, Through, Loaded, LoadedOp
  <1> HIDE DEF t
  <1>7. /\ t \in Tables(E) /\ ChainsSound(t) /\ t.minFree = 0
        /\ \A i : i \in Ids(t) <=> \E k \in DOMAIN records : records[k].id = i
        /\ \A k \in DOMAIN records : EntryOf(t, records[k].id) = records[k].entry
    BY <1>1, <1>5, <1>6 DEF LoadedHolds
  <1>8. VacantAboveMinFree(t)
    BY <1>7 DEF VacantAboveMinFree
  <1>9. Ids(t) = SavedIds(records)
    BY <1>7 DEF SavedIds
  <1>10. TableOf(E, records, t)
    BY <1>7, <1>8, <1>9 DEF TableOf, TableSound
  <1> QED BY <1>10 DEF t

\* The entry of an integer of such a table.
LEMMA TableOfIs ==
    ASSUME NEW E, NEW records, NEW t, TableOf(E, records, t), NEW id \in Ids(t)
    PROVE  \E k \in DOMAIN records : records[k].id = id /\ EntryOf(t, id) = records[k].entry
  <1>1. PICK k \in DOMAIN records : records[k].id = id
    BY DEF TableOf, SavedIds
  <1> QED BY <1>1 DEF TableOf

\* The record that extractBinEnv changes.
LEMMA WithAltIs ==
    ASSUME NEW B, NEW r \in [id : Nat, entry : B], NEW alt
    PROVE  WithAlt(r, alt) = [id |-> r.id, entry |-> [r.entry EXCEPT !.alt = alt]]
  <1> DEFINE e == [r.entry EXCEPT !.alt = alt]
             u == WithAlt(r, alt)
  <1>1. u = [r EXCEPT !.entry = e]
    BY DEF WithAlt
  <1> HIDE DEF e, u
  <1>2. u = [id |-> r.id, entry |-> e]
    BY <1>1
  <1> QED BY <1>2 DEF e, u

\* A name's record with its alternate in this run.
LEMMA NameWithAltIs ==
    ASSUME NEW r \in SavedName, NEW alt \in Int
    PROVE  LET u == WithAlt(r, alt)
           IN  u \in SavedName /\ u.id = r.id /\ u.entry.key = r.entry.key /\ u.entry.hash = r.entry.hash /\ u.entry.alt = alt
  <1> DEFINE e == [r.entry EXCEPT !.alt = alt]
             u == WithAlt(r, alt)
  <1>1. r.id \in Nat /\ r.entry \in [key : Idents, hash : Nat, ref : Nat, alt : Int] /\ r \in [id : Nat, entry : NameEntry]
    BY DEF SavedName, NameEntry
  <1>2. u = [id |-> r.id, entry |-> e]
    BY <1>1, WithAltIs
  <1>3. e = [r.entry EXCEPT !.alt = alt]
    OBVIOUS
  <1> HIDE DEF e, u
  <1>4. e = [key |-> r.entry.key, hash |-> r.entry.hash, ref |-> r.entry.ref, alt |-> alt]
    BY <1>1, <1>3
  <1>5. u.id = r.id /\ u.entry = e
    BY <1>2
  <1> QED BY <1>1, <1>2, <1>4, <1>5 DEF SavedName, NameEntry, u

\* The elements of a sequence.
LEMMA ElementsAre ==
    ASSUME NEW S, NEW s \in Seq(S) PROVE \A n \in DOMAIN s : s[n] \in S
  OBVIOUS

\* load of the names: the integers are those of the archive, the alternates this run's.
LEMMA NamesLoaded ==
    ASSUME BuiltOK(built), SavedNamesOK(archive.names)
    PROVE  NameTable(built, LoadedNames) /\ NamesRead(archive.names, LoadedNames)
  <1> DEFINE names == archive.names
             alt(n) == PosIn(built.names, names[n].entry.key)
             records == [n \in DOMAIN names |-> WithAlt(names[n], alt(n))]
             t == LoadedNames
  <1>1. names \in Seq(SavedName) /\ OneRecordEach(names)
    BY DEF SavedNamesOK
  <1>2. ASSUME NEW n \in DOMAIN names
        PROVE  /\ records[n] \in SavedName /\ records[n].id = names[n].id
               /\ records[n].entry.key = names[n].entry.key /\ records[n].entry.hash = HashName[names[n].entry.key]
               /\ records[n].entry.alt = PosIn(built.names, names[n].entry.key)
    <2>1. names[n] \in SavedName
      BY <1>1, ElementsAre
    <2>2. alt(n) \in Int
      BY PosInIs DEF BuiltOK
    <2>3. records[n] = WithAlt(names[n], alt(n)) /\ alt(n) = PosIn(built.names, names[n].entry.key)
      OBVIOUS
    <2>4. names[n].entry.hash = HashName[names[n].entry.key]
      BY DEF SavedNamesOK
    <2> HIDE DEF alt, records, names
    <2> QED BY <2>1, <2>2, <2>3, <2>4, NameWithAltIs
  <1>3. DOMAIN records = DOMAIN names /\ records = [n \in DOMAIN names |-> records[n]] /\ t = Loaded(records)
    BY DEF LoadedNames
  <1>4. \A m, n \in DOMAIN names : names[m].entry.key = names[n].entry.key => m = n
    BY DEF SavedNamesOK
  <1> HIDE DEF records, names, t
  <1>5. records \in Seq(SavedName)
    BY <1>1, <1>2, <1>3, LikeSequence
  <1>6. OneRecordEach(records) /\ SavedIds(records) = SavedIds(names)
    BY <1>1, <1>2, <1>3 DEF OneRecordEach, SavedIds
  <1>7. TableOf(NameEntry, records, t)
    BY <1>3, <1>5, <1>6, EntriesAre, LoadedIs DEF SavedName, KeyedEntries
  <1>8. ASSUME NEW i \in Ids(t)
        PROVE  \E n \in DOMAIN names :
                  /\ names[n].id = i /\ KeyOf(t, i) = names[n].entry.key /\ KeyOf(t, i) = SavedKey(names, i)
                  /\ EntryOf(t, i).hash = HashName[KeyOf(t, i)] /\ EntryOf(t, i).alt = PosIn(built.names, KeyOf(t, i))
    <2>1. PICK n \in DOMAIN records : records[n].id = i /\ EntryOf(t, i) = records[n].entry
      BY <1>7, TableOfIs
    <2>2. n \in DOMAIN names /\ names[n].id = i /\ KeyOf(t, i) = names[n].entry.key
      BY <2>1, <1>2, <1>3 DEF KeyOf
    <2>3. SavedKey(names, i) = names[n].entry.key
      BY <2>2, <1>1, SavedKeyIs
    <2> QED BY <2>1, <2>2, <2>3, <1>2
  <1>9. NameTable(built, t)
    <2>1. ASSUME NEW i \in Ids(t), NEW j \in Ids(t), KeyOf(t, i) = KeyOf(t, j) PROVE i = j
      BY <2>1, <1>4, <1>8
    <2> QED BY <1>7, <1>8, <2>1 DEF NameTable, Keyed, TableOf
  <1>10. NamesRead(names, t)
    BY <1>6, <1>7, <1>8 DEF TableOf, NamesRead
  <1> QED BY <1>9, <1>10 DEF t, names

\* A type's record with its signature and its alternate in this run.
LEMMA TypeWithAltIs ==
    ASSUME NEW r \in SavedType, NEW sig \in Sigs, NEW alt \in Int
    PROVE  LET u == WithAlt(Rekeyed(r, sig), alt)
           IN  u \in [id : Nat, entry : TypeEntry] /\ u.id = r.id /\ u.entry.key = sig /\ u.entry.hash = r.entry.hash
               /\ u.entry.fn = r.entry.fn /\ u.entry.alt = alt
  <1> DEFINE v == Rekeyed(r, sig)
             e == [v.entry EXCEPT !.alt = alt]
             u == WithAlt(v, alt)
  <1>1. r.id \in Nat /\ r.entry \in [key : Seq(Nat), hash : Nat, ref : Nat, fn : Int, alt : Int]
        /\ r \in [id : Nat, entry : [key : Seq(Nat), hash : Nat, ref : Nat, fn : Int, alt : Int]]
    BY DEF SavedType
  <1>2. v = [id |-> r.id, entry |-> WithKey(r.entry, sig)]
    BY <1>1, RekeyedIs DEF WithKey
  <1> HIDE DEF v
  <1>3. v.entry = [key |-> sig, hash |-> r.entry.hash, ref |-> r.entry.ref, fn |-> r.entry.fn, alt |-> r.entry.alt]
    BY <1>2 DEF WithKey
  <1>4. v.id = r.id /\ v \in [id : Nat, entry : TypeEntry]
    BY <1>1, <1>2, <1>3 DEF TypeEntry
  <1>5. u = [id |-> v.id, entry |-> e]
    BY <1>4, WithAltIs
  <1>6. e = [v.entry EXCEPT !.alt = alt]
    OBVIOUS
  <1> HIDE DEF e, u
  <1>7. e = [key |-> sig, hash |-> r.entry.hash, ref |-> r.entry.ref, fn |-> r.entry.fn, alt |-> alt]
    BY <1>3, <1>6
  <1>8. u.id = r.id /\ u.entry = e
    BY <1>4, <1>5
  <1> QED BY <1>1, <1>4, <1>5, <1>7, <1>8 DEF TypeEntry, u, v

\* load of the types, whose signatures are read through the names.
LEMMA TypesLoaded ==
    ASSUME BuiltOK(built), SavedNamesOK(archive.names), SavedTypesOK(archive.names, archive.types, archive.segs),
           NEW names, NameTable(built, names), NamesRead(archive.names, names)
    PROVE  /\ TypeTable(built, LoadedTypes(names)) /\ TypesRead(archive.names, archive.types, LoadedTypes(names))
           /\ TypeConsNamed(names, LoadedTypes(names)) /\ FnsRead(archive.types, LoadedTypes(names))
           /\ \A i \in Ids(LoadedTypes(names)) : EntryOf(LoadedTypes(names), i).fn \in SavedIds(archive.segs) \cup {NoId}
  <1> DEFINE types == archive.types
             decodedSig(n) == [k \in DOMAIN types[n].entry.key |-> KeyOf(names, types[n].entry.key[k])]
             decoded == [n \in DOMAIN types |-> Rekeyed(types[n], decodedSig(n))]
             read == [n \in DOMAIN decoded |-> WithAlt(decoded[n], PosIn(built.sigs, decoded[n].entry.key))]
             sig(n) == SigFrom(archive.names, types[n].entry.key)
             alt(n) == PosIn(built.sigs, sig(n))
             records == [n \in DOMAIN types |-> WithAlt(Rekeyed(types[n], sig(n)), alt(n))]
             t == LoadedTypes(names)
  <1>1. types \in Seq(SavedType) /\ OneRecordEach(types)
    BY DEF SavedTypesOK
  <1>2. ASSUME NEW n \in DOMAIN types
        PROVE  /\ \A k \in DOMAIN types[n].entry.key : types[n].entry.key[k] \in SavedIds(archive.names)
               /\ sig(n) \in Sigs /\ types[n].entry.hash = HashSig[sig(n)]
               /\ types[n].entry.fn \in SavedIds(archive.segs) \cup {NoId}
    BY DEF SavedTypesOK
  <1>3. ASSUME NEW n \in DOMAIN types PROVE types[n] \in SavedType /\ alt(n) \in Int
    <2>1. types[n] \in SavedType
      BY <1>1, ElementsAre
    <2>2. alt(n) \in Int
      BY PosInIs DEF BuiltOK
    <2> QED BY <2>1, <2>2
  <1>4. ASSUME NEW n \in DOMAIN types PROVE decodedSig(n) = sig(n)
    BY <1>2 DEF SigFrom, NamesRead
  <1>5. t = Loaded(read)
    BY ONLY TRUE DEF LoadedTypes, MapKeys, Rekeyed
  <1> HIDE DEF decodedSig, sig, alt, t
  <1>6. read = records
    <2>1. DOMAIN decoded = DOMAIN types /\ \A n \in DOMAIN types : decoded[n] = Rekeyed(types[n], sig(n))
      BY <1>4
    <2>2. \A n \in DOMAIN types : decoded[n].entry.key = sig(n)
      <3> SUFFICES ASSUME NEW n \in DOMAIN types PROVE decoded[n].entry.key = sig(n)
        OBVIOUS
      <3> DEFINE u == decoded[n]
      <3>1. types[n] \in [id : Nat, entry : [key : Seq(Nat), hash : Nat, ref : Nat, fn : Int, alt : Int]]
        BY <1>3 DEF SavedType
      <3>2. u = Rekeyed(types[n], sig(n))
        BY <2>1
      <3> HIDE DEF u
      <3>3. u = [id |-> types[n].id, entry |-> WithKey(types[n].entry, sig(n))]
        BY <3>1, <3>2, RekeyedIs DEF WithKey
      <3>4. u.entry = WithKey(types[n].entry, sig(n))
        BY ONLY <3>3
      <3> QED BY <3>4, WithKeyIs DEF u
    <2> HIDE DEF decoded
    <2>3. \A n \in DOMAIN types :
             WithAlt(decoded[n], PosIn(built.sigs, decoded[n].entry.key)) = WithAlt(Rekeyed(types[n], sig(n)), alt(n))
      BY <2>1, <2>2 DEF alt
    <2> QED BY <2>1, <2>3
  <1>7. ASSUME NEW n \in DOMAIN types
        PROVE  /\ records[n] \in [id : Nat, entry : TypeEntry] /\ records[n].id = types[n].id
               /\ records[n].entry.key = sig(n) /\ records[n].entry.hash = HashSig[sig(n)]
               /\ records[n].entry.fn \in SavedIds(archive.segs) \cup {NoId}
               /\ records[n].entry.fn = types[n].entry.fn
               /\ records[n].entry.alt = PosIn(built.sigs, sig(n))
    <2>1. records[n] = WithAlt(Rekeyed(types[n], sig(n)), alt(n))
      OBVIOUS
    <2> HIDE DEF records, types
    <2> QED BY <2>1, <1>2, <1>3, TypeWithAltIs DEF alt
  <1>8. DOMAIN records = DOMAIN types /\ records = [n \in DOMAIN types |-> records[n]] /\ t = Loaded(records)
    BY <1>5, <1>6
  <1>9. \A m, n \in DOMAIN types : sig(m) = sig(n) => m = n
    BY DEF SavedTypesOK, sig
  <1> HIDE DEF records, read, decoded, types
  <1>10. records \in Seq([id : Nat, entry : TypeEntry])
    BY <1>1, <1>7, <1>8, LikeSequence
  <1>11. OneRecordEach(records) /\ SavedIds(records) = SavedIds(types)
    BY <1>1, <1>7, <1>8 DEF OneRecordEach, SavedIds
  <1>12. TableOf(TypeEntry, records, t)
    BY <1>8, <1>10, <1>11, EntriesAre, LoadedIs DEF KeyedEntries
  <1>13. ASSUME NEW i \in Ids(t)
         PROVE  \E n \in DOMAIN types :
                  /\ types[n].id = i /\ KeyOf(t, i) = sig(n) /\ KeyOf(t, i) = SigFrom(archive.names, SavedKey(types, i))
                  /\ EntryOf(t, i).hash = HashSig[KeyOf(t, i)] /\ EntryOf(t, i).alt = PosIn(built.sigs, KeyOf(t, i))
                  /\ EntryOf(t, i).fn \in SavedIds(archive.segs) \cup {NoId}
                  /\ EntryOf(t, i).fn = types[n].entry.fn
    <2>1. PICK n \in DOMAIN records : records[n].id = i /\ EntryOf(t, i) = records[n].entry
      BY <1>12, TableOfIs
    <2>2. n \in DOMAIN types /\ types[n].id = i /\ KeyOf(t, i) = sig(n)
      BY <2>1, <1>7, <1>8 DEF KeyOf
    <2>3. SavedKey(types, i) = types[n].entry.key
      BY <2>2, <1>1, SavedKeyIs
    <2> QED BY <2>1, <2>2, <2>3, <1>7 DEF sig
  <1>14. TypeTable(built, t)
    <2>1. ASSUME NEW i \in Ids(t), NEW j \in Ids(t), KeyOf(t, i) = KeyOf(t, j) PROVE i = j
      BY <2>1, <1>9, <1>13
    <2> QED BY <1>12, <1>13, <2>1 DEF TypeTable, Keyed, TableOf
  <1>15. TypesRead(archive.names, types, t)
    BY <1>11, <1>12, <1>13 DEF TableOf, TypesRead
  <1>16. TypeConsNamed(names, t)
    <2> SUFFICES ASSUME NEW i \in Ids(t), NEW k \in DOMAIN KeyOf(t, i) PROVE Has(names, KeyOf(t, i)[k])
      BY DEF TypeConsNamed
    <2>1. PICK n \in DOMAIN types : KeyOf(t, i) = sig(n)
      BY <1>13
    <2>2. k \in DOMAIN types[n].entry.key /\ KeyOf(t, i)[k] = SavedKey(archive.names, types[n].entry.key[k])
      BY <2>1 DEF sig, SigFrom
    <2>3. types[n].entry.key[k] \in Ids(names)
      BY <2>2, <1>2 DEF NamesRead
    <2> QED BY <2>2, <2>3 DEF NamesRead, Has
  <1>17. FnsRead(types, t)
    <2>1. ASSUME NEW n \in DOMAIN types PROVE types[n].id \in Ids(t) /\ EntryOf(t, types[n].id).fn = types[n].entry.fn
      <3>1. types[n].id \in Ids(t)
        BY <1>11, <1>12 DEF TableOf, SavedIds
      <3>2. PICK m \in DOMAIN types : types[m].id = types[n].id /\ EntryOf(t, types[n].id).fn = types[m].entry.fn
        BY <3>1, <1>13
      <3> QED BY <3>1, <3>2, <1>1 DEF OneRecordEach
    <2> QED BY <2>1 DEF FnsRead
  <1> QED BY <1>13, <1>14, <1>15, <1>16, <1>17 DEF t, types

\* A segment as it is read.
SegFromIds(names, types, s) == SegWith(s, [n \in DOMAIN s.names |-> NameFromId(names, s.names[n])],
                                          [n \in DOMAIN s.types |-> TypeFromId(types, s.types[n])])
SegFromIdsInTurn(names, types, s) == [s EXCEPT !.names = [n \in DOMAIN @ |-> NameFromId(names, @[n])],
                                               !.types = [n \in DOMAIN @ |-> TypeFromId(types, @[n])]]

\* Replacing the names first and the types next is replacing both.
LEMMA SegFromIdsInTurnIs ==
    ASSUME NEW names, NEW types, NEW s \in Segs PROVE SegFromIdsInTurn(names, types, s) = SegFromIds(names, types, s)
  <1> DEFINE ns == [n \in DOMAIN s.names |-> NameFromId(names, s.names[n])]
             u == [s EXCEPT !.names = ns]
             ts == [n \in DOMAIN s.types |-> TypeFromId(types, s.types[n])]
  <1>1. u = [names |-> ns, types |-> s.types, hash |-> s.hash]
    <2> HIDE DEF ns
    <2> QED BY SegUpdate
  <1>2. SegFromIdsInTurn(names, types, s) = [u EXCEPT !.types = [n \in DOMAIN u.types |-> TypeFromId(types, u.types[n])]]
    BY DEF SegFromIdsInTurn
  <1>3. SegFromIdsInTurn(names, types, s) = [u EXCEPT !.types = ts]
    <2>1. u.types = s.types
      BY <1>1
    <2> HIDE DEF u
    <2> QED BY <1>2, <2>1
  <1>4. SegWith(s, ns, ts) = [u EXCEPT !.types = ts]
    BY DEF SegWith
  <1> QED BY <1>3, <1>4 DEF SegFromIds

\* A name and a type that are read stand for what was written.
LEMMA NameFromIdIs ==
    ASSUME BuiltOK(built), NEW names, NameTable(built, names), NEW saved, NamesRead(saved, names), NEW id \in SavedIds(saved)
    PROVE  Kept(built.names, names, NameFromId(names, id), SavedKey(saved, id)) /\ NameFromId(names, id) \in Nat
  <1>1. id \in Ids(names) /\ KeyOf(names, id) = SavedKey(saved, id)
    BY DEF NamesRead
  <1>2. NameFromId(names, id) = FromId(built.names, names, id)
    BY DEF NameFromId, FromId, BNames
  <1> QED BY <1>1, <1>2, FromIdIs DEF NameTable, BuiltOK

\* An archived type constant stands for its signature again.
LEMMA TypeFromIdIs ==
    ASSUME BuiltOK(built), NEW types, TypeTable(built, types), NEW names, NEW saved, TypesRead(names, saved, types),
           NEW id \in SavedIds(saved)
    PROVE  Kept(built.sigs, types, TypeFromId(types, id), SigFrom(names, SavedKey(saved, id))) /\ TypeFromId(types, id) \in Nat
  <1>1. id \in Ids(types) /\ KeyOf(types, id) = SigFrom(names, SavedKey(saved, id))
    BY DEF TypesRead
  <1>2. TypeFromId(types, id) = FromId(built.sigs, types, id)
    BY DEF TypeFromId, FromId, BTypes
  <1> QED BY <1>1, <1>2, FromIdIs DEF TypeTable, BuiltOK

\* A function on the places of a sequence is a sequence.
LEMMA LikeNumbers ==
    ASSUME NEW a \in Seq(Nat), NEW f, f = [n \in DOMAIN a |-> f[n]], \A n \in DOMAIN a : f[n] \in Nat
    PROVE  f \in Seq(Nat)
  BY LikeSequence

\* An archived segment says what a compiled segment says.
LEMMA SegFromIdsIs ==
    ASSUME BuiltOK(built), NEW names, NameTable(built, names), NamesRead(archive.names, names),
           NEW types, TypeTable(built, types), TypesRead(archive.names, archive.types, types),
           NEW s, NEW c, SegSays(archive.names, archive.types, s, c)
    PROVE  KeptIn(names, types, SegFromIds(names, types, s), c)
  <1> DEFINE ns == [n \in DOMAIN s.names |-> NameFromId(names, s.names[n])]
             ts == [n \in DOMAIN s.types |-> TypeFromId(types, s.types[n])]
             x == SegFromIds(names, types, s)
  <1>1. /\ s \in Segs /\ s.hash = HashOf(c)
        /\ DOMAIN s.names = DOMAIN CodeNames[c] /\ DOMAIN s.types = DOMAIN CodeSigs[c]
        /\ \A k \in DOMAIN s.names : s.names[k] \in SavedIds(archive.names) /\ SavedKey(archive.names, s.names[k]) = CodeNames[c][k]
        /\ \A k \in DOMAIN s.types : /\ s.types[k] \in SavedIds(archive.types)
                                     /\ SigFrom(archive.names, SavedKey(archive.types, s.types[k])) = CodeSigs[c][k]
    BY DEF SegSays
  <1>2. s.names \in Seq(Nat) /\ s.types \in Seq(Nat) /\ s.hash \in Nat
    BY <1>1 DEF Segs
  <1>3. x = [names |-> ns, types |-> ts, hash |-> s.hash]
    BY <1>1, SegWithIs DEF SegFromIds
  <1>4. ASSUME NEW n \in DOMAIN s.names PROVE ns[n] \in Nat /\ Kept(built.names, names, ns[n], CodeNames[c][n])
    <2>1. ns[n] = NameFromId(names, s.names[n])
      OBVIOUS
    <2> HIDE DEF ns
    <2>2. NameFromId(names, s.names[n]) \in Nat /\ Kept(built.names, names, NameFromId(names, s.names[n]), SavedKey(archive.names, s.names[n]))
      BY <1>1, NameFromIdIs
    <2> QED BY <2>1, <2>2, <1>1
  <1>5. ASSUME NEW n \in DOMAIN s.types PROVE ts[n] \in Nat /\ Kept(built.sigs, types, ts[n], CodeSigs[c][n])
    <2>1. ts[n] = TypeFromId(types, s.types[n])
      OBVIOUS
    <2> HIDE DEF ts
    <2>2. /\ TypeFromId(types, s.types[n]) \in Nat
          /\ Kept(built.sigs, types, TypeFromId(types, s.types[n]), SigFrom(archive.names, SavedKey(archive.types, s.types[n])))
      BY <1>1, TypeFromIdIs
    <2> QED BY <2>1, <2>2, <1>1
  <1>6. /\ ns = [n \in DOMAIN s.names |-> ns[n]] /\ DOMAIN ns = DOMAIN s.names
        /\ ts = [n \in DOMAIN s.types |-> ts[n]] /\ DOMAIN ts = DOMAIN s.types
    OBVIOUS
  <1> HIDE DEF ns, ts, x
  <1>7. ns \in Seq(Nat) /\ ts \in Seq(Nat)
    <2>1. (\A n \in DOMAIN s.names : ns[n] \in Nat) /\ \A n \in DOMAIN s.types : ts[n] \in Nat
      BY <1>4, <1>5
    <2>2. ns \in Seq(Nat)
      BY ONLY <1>2, <1>6, <2>1, LikeNumbers
    <2>3. ts \in Seq(Nat)
      BY ONLY <1>2, <1>6, <2>1, LikeNumbers
    <2> QED BY <2>2, <2>3
  <1>8. x.names = ns /\ x.types = ts /\ x.hash = s.hash /\ x \in Segs
    BY <1>2, <1>3, <1>7 DEF Segs
  <1>9. KeptIn(names, types, x, c)
    BY <1>1, <1>4, <1>5, <1>6, <1>8 DEF KeptIn
  <1> QED BY <1>9 DEF x

\* load of the segments.
LEMMA SegsLoaded ==
    ASSUME BuiltOK(built), SavedSegsOK(archive.names, archive.types, archive.segs),
           NEW names, NameTable(built, names), NamesRead(archive.names, names),
           NEW types, TypeTable(built, types), TypesRead(archive.names, archive.types, types)
    PROVE  LET t == LoadedSegs(names, types)
           IN  /\ t \in Tables(SegEntry) /\ TableSound(t) /\ Ids(t) = SavedIds(archive.segs)
               /\ \A i \in Ids(t) : \E c \in Codes :
                     /\ KeptIn(names, types, KeyOf(t, i), c)
                     /\ SegSays(archive.names, archive.types, SavedKey(archive.segs, i), c)
  <1> DEFINE segs == archive.segs
             read == [n \in DOMAIN segs |-> Rekeyed(segs[n], SegFromIdsInTurn(names, types, segs[n].entry.key))]
             records == [n \in DOMAIN segs |-> Rekeyed(segs[n], SegFromIds(names, types, segs[n].entry.key))]
             t == LoadedSegs(names, types)
  <1>1. /\ segs \in Seq(SavedSeg) /\ OneRecordEach(segs)
        /\ \A n \in DOMAIN segs : \E c \in Codes : SegSays(archive.names, archive.types, segs[n].entry.key, c)
    BY DEF SavedSegsOK
  <1>2. t = Loaded(read)
    BY ONLY TRUE, ZenonT(60) DEF LoadedSegs, MapKeys, Rekeyed, SegFromIdsInTurn
  <1> HIDE DEF segs, t
  <1>3. ASSUME NEW n \in DOMAIN segs
        PROVE  /\ segs[n] \in SavedSeg /\ segs[n].entry.key \in Segs
               /\ \E c \in Codes : /\ KeptIn(names, types, SegFromIds(names, types, segs[n].entry.key), c)
                                   /\ SegSays(archive.names, archive.types, segs[n].entry.key, c)
    <2>1. segs[n] \in SavedSeg
      BY <1>1, ElementsAre
    <2>2. PICK c \in Codes : SegSays(archive.names, archive.types, segs[n].entry.key, c)
      BY <1>1
    <2>3. segs[n].entry.key \in Segs
      BY <2>2 DEF SegSays
    <2> QED BY <2>1, <2>2, <2>3, SegFromIdsIs
  <1>4. read = records
    BY <1>3, SegFromIdsInTurnIs
  <1>5. ASSUME NEW n \in DOMAIN segs
        PROVE  /\ records[n] \in SavedSeg /\ records[n].id = segs[n].id
               /\ \E c \in Codes : /\ KeptIn(names, types, records[n].entry.key, c)
                                   /\ SegSays(archive.names, archive.types, segs[n].entry.key, c)
    <2> DEFINE r == records[n]
               key == SegFromIds(names, types, segs[n].entry.key)
               x == segs[n].entry
    <2>1. segs[n] \in [id : Nat, entry : [key : Segs, hash : Nat, ref : Nat]]
      BY <1>3 DEF SavedSeg, SegEntry
    <2>2. r = Rekeyed(segs[n], key)
      OBVIOUS
    <2>3. \E c \in Codes : KeptIn(names, types, key, c) /\ SegSays(archive.names, archive.types, segs[n].entry.key, c)
      BY <1>3
    <2> HIDE DEF r, key
    <2>4. r = [id |-> segs[n].id, entry |-> [key |-> key, hash |-> x.hash, ref |-> x.ref]]
      BY <2>1, <2>2, RekeyedIs
    <2>5. key \in Segs
      BY <2>3 DEF KeptIn
    <2>6. segs[n].id \in Nat /\ x.hash \in Nat /\ x.ref \in Nat
      BY <2>1
    <2> HIDE DEF x
    <2>7. r.id = segs[n].id /\ r.entry.key = key
      BY ONLY <2>4
    <2>8. r \in SavedSeg
      BY ONLY <2>4, <2>5, <2>6 DEF SavedSeg, SegEntry
    <2> QED BY <2>3, <2>7, <2>8 DEF r
  <1>6. DOMAIN records = DOMAIN segs /\ records = [n \in DOMAIN segs |-> records[n]] /\ t = Loaded(records)
    BY <1>2, <1>4
  <1> HIDE DEF records, read
  <1>7. records \in Seq(SavedSeg)
    BY <1>1, <1>5, <1>6, LikeSequence
  <1>8. OneRecordEach(records) /\ SavedIds(records) = SavedIds(segs)
    BY <1>1, <1>5, <1>6 DEF OneRecordEach, SavedIds
  <1>9. TableOf(SegEntry, records, t)
    BY <1>6, <1>7, <1>8, EntriesAre, LoadedIs DEF SavedSeg
  <1>10. ASSUME NEW i \in Ids(t)
         PROVE  \E c \in Codes : /\ KeptIn(names, types, KeyOf(t, i), c)
                                 /\ SegSays(archive.names, archive.types, SavedKey(segs, i), c)
    <2>1. PICK n \in DOMAIN records : records[n].id = i /\ EntryOf(t, i) = records[n].entry
      BY <1>9, TableOfIs
    <2>2. n \in DOMAIN segs /\ segs[n].id = i
      BY <2>1, <1>5, <1>6
    <2>3. SavedKey(segs, i) = segs[n].entry.key
      BY <2>2, <1>1, SavedKeyIs
    <2> QED BY <2>1, <2>3, <1>5, <1>6 DEF KeyOf
  <1> QED BY <1>8, <1>9, <1>10 DEF TableOf, t, segs

\* extractBinEnv: the environment that is read is sound under this run's built-in names.
LEMMA LoadKeeps ==
    ASSUME EInv, NEW d \in Targets, Load(d) PROVE EInv' /\ LoadedTo(d)
  <1> DEFINE names == LoadedNames
             types == LoadedTypes(names)
             segs == LoadedSegs(names, types)
             f == [live |-> TRUE, names |-> names, types |-> types, segs |-> segs]
             new == {[env |-> d, name |-> NameFromId(names, h.id), ident |-> h.ident] : h \in archive.held}
  <1> USE DEF EInv
  <1>1. /\ Idle /\ Compiled /\ archive # NoArchive /\ ~env[d].live
        /\ env' = [env EXCEPT ![d] = f] /\ held' = held \cup new
        /\ UNCHANGED <<program, code, work, archive>>
    BY DEF Load, NextTarget
  <1>2. BuiltOK(built) /\ d \in Envs /\ d \notin Sources
    BY EnvsAre
  <1>3. /\ SavedNamesOK(archive.names) /\ SavedTypesOK(archive.names, archive.types, archive.segs)
        /\ SavedSegsOK(archive.names, archive.types, archive.segs) /\ SavedHeldOK(archive.names, archive.held)
    BY <1>1 DEF ArchiveOK
  <1>4. new = {[env |-> d, name |-> NameFromId(names, h.id), ident |-> h.ident] : h \in archive.held}
    OBVIOUS
  <1>5. f = [live |-> TRUE, names |-> names, types |-> types, segs |-> segs]
    OBVIOUS
  <1>6. NameTable(built, names) /\ NamesRead(archive.names, names)
    BY <1>2, <1>3, NamesLoaded
  <1> HIDE DEF names
  <1>7. /\ TypeTable(built, types) /\ TypesRead(archive.names, archive.types, types) /\ TypeConsNamed(names, types)
        /\ FnsRead(archive.types, types)
        /\ \A i \in Ids(types) : EntryOf(types, i).fn \in SavedIds(archive.segs) \cup {NoId}
    BY <1>2, <1>3, <1>6, TypesLoaded
  <1> HIDE DEF types
  <1>8. /\ segs \in Tables(SegEntry) /\ TableSound(segs) /\ Ids(segs) = SavedIds(archive.segs)
        /\ \A i \in Ids(segs) : \E c \in Codes : /\ KeptIn(names, types, KeyOf(segs, i), c)
                                                /\ SegSays(archive.names, archive.types, SavedKey(archive.segs, i), c)
    BY <1>2, <1>3, <1>6, <1>7, SegsLoaded
  <1> HIDE DEF segs, f, new
  <1>9. f.live = TRUE /\ f.names = names /\ f.types = types /\ f.segs = segs
    BY <1>5
  <1>10. EnvOK(built, f)
    <2>1. f \in Environment
      BY <1>5, <1>6, <1>7, <1>8 DEF Environment, NameTable, TypeTable, Keyed
    <2> QED BY <2>1, <1>6, <1>7, <1>8, <1>9 DEF EnvOK, TablesOK, FnsIn
  <1>11. Ids(env[d].names) = {} /\ Ids(env[d].types) = {} /\ Ids(env[d].segs) = {}
    BY <1>1, EmptyTableIs DEF EnvsOK
  <1>12. Becomes(d, f)
    BY <1>1, <1>2, <1>9, <1>10, <1>11 DEF Becomes, GrowsEnv, Grows
  <1>13. /\ EnvsOK' /\ built' = built
         /\ \A e \in Envs : env'[e] = IF e = d THEN f ELSE env[e]
         /\ \A e \in Envs : GrowsEnv(env[e], env'[e])
    BY <1>2, <1>12, EnvStep
  <1>14. CodeOK' /\ ArchiveOK'
    BY <1>1, <1>13, CodeKept, ArchiveKept
  <1>15. HeldOK'
    <2>1. \A h \in held : HeldName(built', env', h)
      BY <1>13, HeldKept
    <2>2. ASSUME NEW g \in new PROVE HeldName(built', env', g)
      <3>1. PICK h \in archive.held : g = [env |-> d, name |-> NameFromId(names, h.id), ident |-> h.ident]
        BY <1>4
      <3>2. h.id \in SavedIds(archive.names) /\ SavedKey(archive.names, h.id) = h.ident
        BY <1>3 DEF SavedHeldOK
      <3>3. Kept(built.names, names, NameFromId(names, h.id), h.ident) /\ NameFromId(names, h.id) \in Nat
        BY <3>2, <1>2, <1>6, NameFromIdIs
      <3>4. g.env = d /\ g.name = NameFromId(names, h.id) /\ g.ident = h.ident
        BY <3>1
      <3> QED BY <3>3, <3>4, <1>2, <1>9, <1>13 DEF HeldName
    <2> QED BY <2>1, <2>2, <1>1 DEF HeldOK
  <1>16. LiveOK'
    BY <1>1 DEF LiveOK, Compiled
  <1>17. WorkOK'
    BY <1>1, EnvironmentsAssumption DEF WorkOK, Idle
  <1>18. SegsOK'
    <2> SUFFICES ASSUME NEW t \in Targets, NEW i \in Ids(env'[t].segs) PROVE HasDone(built', env'[t], i)
      BY DEF SegsOK
    <2>1. t \in Envs /\ env[t] \in Environment
      BY EnvsAre
    <2>2. CASE t = d
      <3>1. env'[t] = f /\ i \in Ids(segs)
        BY <2>1, <2>2, <1>9, <1>13
      <3>2. PICK c \in Codes : KeptIn(names, types, KeyOf(segs, i), c)
        BY <3>1, <1>8
      <3>3. Done(built, f, KeyOf(segs, i), c)
        <4> DEFINE s == KeyOf(segs, i)
        <4>1. s.types \in Seq(Nat)
          BY <3>2 DEF KeptIn, Segs
        <4>2. \A n \in DOMAIN s.types : n < Len(s.types) + 1
          BY <4>1
        <4> HIDE DEF s
        <4> QED BY <3>2, <4>2, <1>9 DEF Done, Copying, KeptIn, s
      <3> QED BY <3>1, <3>3, <1>9, <1>13 DEF HasDone
    <2>3. CASE t # d
      <3>1. env'[t] = env[t]
        BY <2>1, <2>3, <1>13
      <3>2. ~InWork(t, i)
        BY <1>1 DEF InWork, Idle
      <3> QED BY <3>1, <3>2, <1>13 DEF SegsOK
    <2> QED BY <2>2, <2>3
  <1>19. LoadedTo(d)
    <2>1. env'[d] = f
      BY <1>2, <1>13
    <2>2. SegsRead(archive.names, archive.types, archive.segs, f)
      BY <1>8, <1>9 DEF SegsRead
    <2> QED BY <2>1, <2>2, <1>1, <1>6, <1>7, <1>9, <1>11 DEF LoadedTo
  <1> QED BY <1>13, <1>14, <1>15, <1>16, <1>17, <1>18, <1>19

\* What a step is to the bindings of names and types.
BindingStep == \/ Growth
               \/ \E d \in Targets : StoredFrom(d) \/ LoadedTo(d)
               \/ Restarted
               \/ UNCHANGED <<env, archive>>

\* Every step keeps the invariant, and is one of these to the registries.
LEMMA NextKeeps == EInv /\ [Next]_vars => EInv' /\ BindingStep
  <1> SUFFICES ASSUME EInv, [Next]_vars PROVE EInv' /\ BindingStep
    OBVIOUS
  <1>1. ASSUME NEW s \in Sources, Compile(s) PROVE EInv' /\ BindingStep
    BY <1>1, CompileKeeps DEF BindingStep
  <1>2. ASSUME NEW d \in Targets, MkEnv(d) PROVE EInv' /\ BindingStep
    BY <1>2, MkEnvKeeps DEF BindingStep
  <1>3. ASSUME NEW d \in Targets, Store(d) PROVE EInv' /\ BindingStep
    BY <1>3, StoreKeeps DEF BindingStep
  <1>4. ASSUME NEW d \in Targets, Load(d) PROVE EInv' /\ BindingStep
    BY <1>4, LoadKeeps DEF BindingStep
  <1>5. ASSUME NEW d \in Targets, NEW c \in Codes, CopyCode(d, c) PROVE EInv' /\ BindingStep
    BY <1>5, CopyCodeKeeps DEF BindingStep
  <1>6. ASSUME NEW d \in Targets, NEW c \in Codes, NEW n \in DOMAIN CodeNames[c], MapHeldName(d, c, n) PROVE EInv' /\ BindingStep
    BY <1>6, MapHeldNameKeeps DEF BindingStep
  <1>7. ASSUME NEW d \in Targets, NEW e \in Targets, NEW id \in Ids(env[e].segs), CopyBetween(d, e, id) PROVE EInv' /\ BindingStep
    BY <1>7, CopyBetweenKeeps DEF BindingStep
  <1>8. CASE MapBuiltInType
    BY <1>8, MapBuiltInTypeKeeps DEF BindingStep
  <1>9. CASE MapKnownType
    BY <1>9, MapKnownTypeKeeps DEF BindingStep
  <1>10. CASE EnterType
    BY <1>10, EnterTypeKeeps DEF BindingStep
  <1>11. CASE EnterTypeAndCopyMethods
    BY <1>11, EnterTypeAndCopyMethodsKeeps DEF BindingStep
  <1>12. CASE EndCopy
    BY <1>12, EndCopyKeeps DEF BindingStep
  <1>13. CASE Restart
    BY <1>13, RestartKeeps DEF BindingStep
  <1>14. CASE UNCHANGED vars
    <2>1. UNCHANGED <<program, env, code, held, work, archive>> /\ built' = built
      BY <1>14 DEF vars, built
    <2>2. EnvsOK' /\ CodeOK' /\ LiveOK' /\ HeldOK'
      BY <2>1 DEF EInv, EnvsOK, CodeOK, LiveOK, HeldOK, Compiled, CodeEnv
    <2>3. WorkOK' /\ SegsOK' /\ ArchiveOK'
      BY <2>1, ArchiveKept DEF EInv, WorkOK, SegsOK, Idle, Compiled, InWork
    <2> QED BY <2>1, <2>2, <2>3 DEF EInv, BindingStep
  <1> QED BY <1>1, <1>2, <1>3, <1>4, <1>5, <1>6, <1>7, <1>8, <1>9, <1>10, <1>11, <1>12, <1>13, <1>14 DEF Next, Mapping

\* Whatever order scripts are compiled, code is copied, and environments are written
\* and read in, tables stay sound, every constant stands for what it was compiled from,
\* a copy under way is the one that work describes, and the archive can be read back.
THEOREM Invariant == Spec => []EInv
  <1>1. EInv /\ [Next]_vars => EInv'
    BY NextKeeps
  <1> QED BY <1>1, InitEInv, PTL DEF Spec

-----------------------------------------------------------------------------
(* What the invariant gives.                                               *)

\* nameString_ and typeSignature find the key a constant stands for.
LEMMA IdentOfIs ==
    ASSUME BuiltOK(built), NEW t, NameTable(built, t), NEW x, NEW ident, Says(built.names, t, x, ident)
    PROVE  IdentOf(t, x) = ident
  <1>1. built.names \in Seq(Idents) /\ t \in Tables(NameEntry)
    BY DEF BuiltOK, NameTable, Keyed
  <1>2. /\ x < Len(built.names) => built.names[x + 1] = ident
        /\ ~(x < Len(built.names)) => x - Len(built.names) \in Ids(t) /\ KeyOf(t, x - Len(built.names)) = ident
    BY <1>1, OwnConstant
  <1>3. \A i : InUse(t, i) <=> i \in Ids(t)
    BY <1>1, TableFields
  <1> QED BY <1>2, <1>3 DEF IdentOf, BNames

\* So does typeSignature for a type.
LEMMA SigOfIs ==
    ASSUME BuiltOK(built), NEW t, TypeTable(built, t), NEW x, NEW sig, Says(built.sigs, t, x, sig)
    PROVE  SigOf(t, x) = sig
  <1>1. built.sigs \in Seq(Sigs) /\ t \in Tables(TypeEntry)
    BY DEF BuiltOK, TypeTable, Keyed
  <1>2. /\ x < Len(built.sigs) => built.sigs[x + 1] = sig
        /\ ~(x < Len(built.sigs)) => x - Len(built.sigs) \in Ids(t) /\ KeyOf(t, x - Len(built.sigs)) = sig
    BY <1>1, OwnConstant
  <1>3. \A i : InUse(t, i) <=> i \in Ids(t)
    BY <1>1, TableFields
  <1> QED BY <1>2, <1>3 DEF SigOf, BTypes

\* A segment with the constants of a code means what the code means.
LEMMA MeaningIs ==
    ASSUME BuiltOK(built), NEW e, NameTable(built, e.names), TypeTable(built, e.types), NEW seg, NEW c \in Codes,
           CodeIn(built, e, seg, c)
    PROVE  Meaning(e, seg) = CodeMeaning(c)
  <1>1. CodeNames[c] \in Seq(Idents) /\ CodeSigs[c] \in Seq(Sigs)
    BY EnvironmentsAssumption
  <1>2. CodeNames[c] = [n \in DOMAIN CodeNames[c] |-> CodeNames[c][n]] /\ CodeSigs[c] = [n \in DOMAIN CodeSigs[c] |-> CodeSigs[c][n]]
    BY <1>1
  <1>3. DOMAIN seg.names = DOMAIN CodeNames[c] /\ DOMAIN seg.types = DOMAIN CodeSigs[c]
    BY DEF CodeIn
  <1>4. \A n \in DOMAIN seg.names : IdentOf(e.names, seg.names[n]) = CodeNames[c][n]
    BY IdentOfIs DEF CodeIn
  <1>5. \A n \in DOMAIN seg.types : SigOf(e.types, seg.types[n]) = CodeSigs[c][n]
    BY SigOfIs DEF CodeIn
  <1>6. [n \in DOMAIN seg.names |-> IdentOf(e.names, seg.names[n])] = CodeNames[c]
    BY ONLY <1>2, <1>3, <1>4
  <1>7. [n \in DOMAIN seg.types |-> SigOf(e.types, seg.types[n])] = CodeSigs[c]
    BY ONLY <1>2, <1>3, <1>5
  <1> QED BY <1>6, <1>7 DEF Meaning, CodeMeaning

\* The tables of the invariant are as TypeOK says.
LEMMA InvariantTypeOK == EInv => TypeOK
  <1> SUFFICES ASSUME EInv PROVE TypeOK
    OBVIOUS
  <1> USE DEF EInv
  <1>1. program \in 1 .. Len(Builds) /\ DOMAIN env = Envs /\ DOMAIN code = Codes
    BY DEF EnvsOK, CodeOK
  <1>2. ASSUME NEW e \in Envs
        PROVE  /\ env[e].live \in BOOLEAN
               /\ TableSound(env[e].names) /\ TableSound(env[e].types) /\ TableSound(env[e].segs)
    <2>1. env[e] \in Environment /\ TablesOK(built, env[e])
      BY EnvsAre
    <2> QED BY <2>1 DEF Environment, TablesOK, NameTable, TypeTable, Keyed
  <1>3. \A e \in Envs : e \in Sources => env[e].segs = NoSegs
    BY DEF EnvsOK, NoSegs
  <1>4. \A h \in held : h.env \in Targets /\ h.name \in Nat
    BY DEF HeldOK, HeldName
  <1>5. Len(work) <= WorkBound
    BY DEF WorkOK
  <1>6. \A n \in DOMAIN work : work[n].env \in Targets /\ work[n].src \in Envs
    BY DEF WorkOK, FrameOK, Frames
  <1> QED BY <1>1, <1>2, <1>3, <1>4, <1>5, <1>6 DEF TypeOK

\* Keyed tables have one entry for each key.
LEMMA InvariantOneEntryEach == EInv => OneEntryEach
  <1> SUFFICES ASSUME EInv, NEW e \in Envs
               PROVE  /\ \A i, j \in Ids(env[e].names) : KeyOf(env[e].names, i) = KeyOf(env[e].names, j) => i = j
                      /\ \A i, j \in Ids(env[e].types) : KeyOf(env[e].types, i) = KeyOf(env[e].types, j) => i = j
    BY DEF OneEntryEach
  <1>1. NameTable(built, env[e].names) /\ TypeTable(built, env[e].types)
    BY EnvsAre DEF EInv, TablesOK
  <1> QED BY <1>1 DEF NameTable, TypeTable, Keyed

\* Segments and held names say what they were made from.
LEMMA InvariantSameMeaning == EInv => SameMeaning
  <1> SUFFICES ASSUME EInv PROVE SameMeaning
    OBVIOUS
  <1>1. BuiltOK(built) /\ \A d \in Targets : NameTable(built, env[d].names) /\ TypeTable(built, env[d].types)
    BY EnvsAre DEF EInv, TablesOK
  <1>2. ASSUME Idle, NEW d \in Targets, NEW id \in Ids(env[d].segs)
        PROVE  \E c \in Codes : Meaning(env[d], KeyOf(env[d].segs, id)) = CodeMeaning(c)
    <2>1. PICK c \in Codes : CodeIn(built, env[d], KeyOf(env[d].segs, id), c)
      BY <1>2, IdleSegment
    <2> QED BY <2>1, <1>1, MeaningIs
  <1>3. ASSUME NEW h \in held PROVE IdentOf(env[h.env].names, h.name) = h.ident
    <2>1. h.env \in Targets /\ Says(built.names, env[h.env].names, h.name, h.ident)
      BY DEF EInv, HeldOK, HeldName, Kept
    <2> QED BY <2>1, <1>1, IdentOfIs
  <1> QED BY <1>2, <1>3 DEF SameMeaning

\* What an idle environment holds can be written.
LEMMA InvariantStorable == EInv => Storable
  BY StorableIs DEF Storable

\* addEntry, drop's vacancies, load and the searches they share keep the three tables of
\* every environment sound: a chain has the integers whose hash value is its own, each
\* once, and nothing below minFree is vacant; copySegment's calls name live environments.
THEOREM EnvironmentsTypeOK == Spec => []TypeOK
  BY Invariant, InvariantTypeOK, PTL

\* An identifier and a signature have one entry in each environment, whichever of useName,
\* mapName, addTypeConNames, useType, mapType and load came first: eqName_ and eqType_
\* may compare integers.
THEOREM OneEntry == Spec => []OneEntryEach
  BY Invariant, InvariantOneEntryEach, PTL

\* Whatever environment a segment or name has been copied, written or read into (copySegment,
\* mapName, insertBinEnv, extractBinEnv), it says what the script said, also in a run with
\* other built-in names.
THEOREM MeaningKept == Spec => []SameMeaning
  BY Invariant, InvariantSameMeaning, PTL

\* storeSegment, storeTypeSig and insertBinName find every entry they look up without testing
\* the result.
THEOREM AlwaysStorable == Spec => []Storable
  BY Invariant, InvariantStorable, PTL

-----------------------------------------------------------------------------
(* Names and types are the registry's.                                     *)

\* A table has one integer for a key and one key for an integer.
LEMMA BindingsOneToOne ==
    ASSUME NEW E, NEW H, NEW B, NEW t, Keyed(E, H, B, t)
    PROVE  \A p, q \in Bindings(t) : p[1] = q[1] <=> p[2] = q[2]
  <1> SUFFICES ASSUME NEW p \in Bindings(t), NEW q \in Bindings(t) PROVE p[1] = q[1] <=> p[2] = q[2]
    OBVIOUS
  <1>1. PICK i \in Ids(t) : p = <<KeyOf(t, i), i>>
    BY DEF Bindings
  <1>2. PICK j \in Ids(t) : q = <<KeyOf(t, j), j>>
    BY DEF Bindings
  <1> QED BY <1>1, <1>2 DEF Keyed

\* A table that grows keeps its bindings.
LEMMA GrowthBinds ==
    ASSUME NEW t, NEW u, Grows(t, u) PROVE Bindings(t) \subseteq Bindings(u)
  BY DEF Grows, Bindings, KeyOf

\* The bindings of a table are those of the records it was written to or read from.
Recorded(records) == {<<r.entry.key, r.id>> : r \in ToSet(records)}

\* The names in an archive are the bindings of the table.
LEMMA NamesRecorded ==
    ASSUME NEW names, OneRecordEach(names), NEW t, NamesRead(names, t) PROVE Bindings(t) = Recorded(names)
  <1>1. \A n \in DOMAIN names : SavedKey(names, names[n].id) = names[n].entry.key /\ names[n].id \in SavedIds(names)
    BY SavedKeyIs
  <1>2. ASSUME NEW n \in DOMAIN names PROVE <<names[n].entry.key, names[n].id>> \in Bindings(t)
    BY <1>1 DEF NamesRead, Bindings
  <1>3. ASSUME NEW i \in Ids(t) PROVE <<KeyOf(t, i), i>> \in Recorded(names)
    <2>1. PICK n \in DOMAIN names : names[n].id = i
      BY DEF NamesRead, SavedIds
    <2>2. KeyOf(t, i) = names[n].entry.key
      BY <2>1, <1>1 DEF NamesRead
    <2> QED BY <2>1, <2>2 DEF Recorded, ToSet
  <1> QED BY <1>2, <1>3 DEF Recorded, ToSet, Bindings

SigRecorded(names, s) == [n \in DOMAIN s |-> (CHOOSE p \in Recorded(names) : p[2] = s[n])[1]]

\* A signature in an archive, through the bindings of the names.
LEMMA SigRecordedIs ==
    ASSUME NEW names, OneRecordEach(names), NEW key, \A k \in DOMAIN key : key[k] \in SavedIds(names)
    PROVE  SigRecorded(names, key) = SigFrom(names, key)
  <1> SUFFICES ASSUME NEW k \in DOMAIN key
               PROVE  (CHOOSE p \in Recorded(names) : p[2] = key[k])[1] = SavedKey(names, key[k])
    BY DEF SigRecorded, SigFrom
  <1>1. PICK n \in DOMAIN names : names[n].id = key[k]
    BY DEF SavedIds
  <1> DEFINE q == <<names[n].entry.key, names[n].id>>
             p == CHOOSE x \in Recorded(names) : x[2] = key[k]
  <1>2. q \in Recorded(names) /\ q[2] = key[k]
    BY <1>1 DEF Recorded, ToSet
  <1> HIDE DEF q
  <1>3. p \in Recorded(names) /\ p[2] = key[k]
    BY <1>2
  <1>4. PICK m \in DOMAIN names : p = <<names[m].entry.key, names[m].id>>
    BY <1>3 DEF Recorded, ToSet
  <1> HIDE DEF p
  <1>5. names[m].id = key[k] /\ p[1] = names[m].entry.key
    BY <1>3, <1>4
  <1> QED BY <1>5, SavedKeyIs DEF p

TypesRecorded(names, types) == {<<SigRecorded(names, r.entry.key), r.id>> : r \in ToSet(types)}

\* The types in an archive are the bindings of the table.
LEMMA TypesRecordedIs ==
    ASSUME NEW names, OneRecordEach(names), NEW types, NEW segs, SavedTypesOK(names, types, segs),
           NEW t, TypesRead(names, types, t)
    PROVE  Bindings(t) = TypesRecorded(names, types)
  <1>1. ASSUME NEW n \in DOMAIN types
        PROVE  /\ SavedKey(types, types[n].id) = types[n].entry.key /\ types[n].id \in SavedIds(types)
               /\ SigRecorded(names, types[n].entry.key) = SigFrom(names, types[n].entry.key)
    <2>1. OneRecordEach(types) /\ \A k \in DOMAIN types[n].entry.key : types[n].entry.key[k] \in SavedIds(names)
      BY DEF SavedTypesOK
    <2> QED BY <2>1, SavedKeyIs, SigRecordedIs
  <1>2. ASSUME NEW n \in DOMAIN types PROVE <<SigRecorded(names, types[n].entry.key), types[n].id>> \in Bindings(t)
    BY <1>1 DEF TypesRead, Bindings
  <1>3. ASSUME NEW i \in Ids(t) PROVE <<KeyOf(t, i), i>> \in TypesRecorded(names, types)
    <2>1. PICK n \in DOMAIN types : types[n].id = i
      BY DEF TypesRead, SavedIds
    <2>2. KeyOf(t, i) = SigRecorded(names, types[n].entry.key)
      BY <2>1, <1>1 DEF TypesRead
    <2> QED BY <2>1, <2>2 DEF TypesRecorded, ToSet
  <1> QED BY <1>2, <1>3 DEF TypesRecorded, ToSet, Bindings

\* A step of the registry, from bindings b and an archive s to b1 and s1.
OneOne(S) == \A p, q \in S : p[1] = q[1] <=> p[2] = q[2]
Moves(b, b1, s, s1) ==
    \/ \E e \in Targets : b1 = [b EXCEPT ![e] = b1[e]] /\ b[e] \subseteq b1[e] /\ OneOne(b1[e]) /\ s1 = s
    \/ \E e \in Targets : s1 = b[e] /\ b1 = b
    \/ \E e \in Targets : b[e] = {} /\ b1 = [b EXCEPT ![e] = s] /\ s1 = s
    \/ b1 = [e \in Targets |-> {}] /\ s1 = s
    \/ b1 = b /\ s1 = s
OnTargets(b) == b = [e \in Targets |-> b[e]]

\* A step that changes the bindings of one environment.
LEMMA OneMoves ==
    ASSUME NEW b, NEW b1, OnTargets(b), OnTargets(b1), NEW d \in Targets, \A e \in Targets : e # d => b1[e] = b[e], NEW s,
           (b[d] \subseteq b1[d] /\ OneOne(b1[d])) \/ (b[d] = {} /\ b1[d] = s)
    PROVE  Moves(b, b1, s, s)
  <1>1. b1 = [b EXCEPT ![d] = b1[d]]
    BY DEF OnTargets
  <1> QED BY <1>1 DEF Moves

NameBind == [e \in Targets |-> Bindings(env[e].names)]
NameSaved == IF archive = NoArchive THEN NoArchive ELSE SavedNames
TypeBind == [e \in Targets |-> Bindings(env[e].types)]
TypeSaved == IF archive = NoArchive THEN NoArchive ELSE SavedTypes

\* The bindings in the archive.
LEMMA SavedIs ==
    SavedNames = Recorded(archive.names) /\ SavedTypes = TypesRecorded(archive.names, archive.types)
  <1>1. SavedNames = Recorded(archive.names)
    BY DEF SavedNames, Recorded
  <1>2. ASSUME NEW s PROVE SavedSig(s) = SigRecorded(archive.names, s)
    BY <1>1 DEF SavedSig, SigRecorded
  <1> QED BY <1>1, <1>2 DEF SavedTypes, TypesRecorded

RegistriesMove == /\ Moves(NameBind, NameBind', NameSaved, NameSaved')
                  /\ Moves(TypeBind, TypeBind', TypeSaved, TypeSaved')

\* The bindings of each environment.
LEMMA BindsAre ==
    /\ OnTargets(NameBind) /\ \A d \in Targets : NameBind[d] = Bindings(env[d].names)
    /\ OnTargets(TypeBind) /\ \A d \in Targets : TypeBind[d] = Bindings(env[d].types)
  BY DEF OnTargets, NameBind, TypeBind

\* The bindings of each environment after the step.
LEMMA NextBindsAre ==
    /\ OnTargets(NameBind') /\ \A d \in Targets : NameBind'[d] = Bindings(env'[d].names)
    /\ OnTargets(TypeBind') /\ \A d \in Targets : TypeBind'[d] = Bindings(env'[d].types)
  BY DEF OnTargets, NameBind, TypeBind

\* The bindings in the archive after the step.
LEMMA NextSavedIs ==
    SavedNames' = Recorded(archive'.names) /\ SavedTypes' = TypesRecorded(archive'.names, archive'.types)
  <1>1. SavedNames' = Recorded(archive'.names)
    BY DEF SavedNames, Recorded
  <1>2. ASSUME NEW s PROVE SavedSig(s)' = SigRecorded(archive'.names, s)
    BY <1>1 DEF SavedSig, SigRecorded
  <1> QED BY <1>1, <1>2 DEF SavedTypes, TypesRecorded

\* After the step too, keys and integers are one to one.
LEMMA NextTables ==
    ASSUME EInv' PROVE \A d \in Targets : OneOne(Bindings(env'[d].names)) /\ OneOne(Bindings(env'[d].types))
  <1>1. \A d \in Targets : EnvOK(built', env'[d])
    BY EnvironmentsAssumption DEF EInv, EnvsOK, Envs
  <1>2. \A d \in Targets : NameTable(built', env'[d].names) /\ TypeTable(built', env'[d].types)
    BY <1>1 DEF EnvOK, TablesOK
  <1> QED BY <1>2, BindingsOneToOne DEF NameTable, TypeTable, OneOne

\* useName, mapName, useType and mapType register; mkEnv and the compiler change nothing.
LEMMA GrowthMoves ==
    ASSUME EInv, EInv', Growth PROVE RegistriesMove
  <1>1. PICK d \in Envs : GrownOnly(d)
    BY DEF Growth
  <1>2. /\ \A e \in Envs : e # d => env'[e] = env[e]
        /\ Grows(env[d].names, env'[d].names) /\ Grows(env[d].types, env'[d].types) /\ archive' = archive
    BY <1>1 DEF GrownOnly, GrowsEnv, EInv, EnvsOK
  <1>3. NameSaved' = NameSaved /\ TypeSaved' = TypeSaved
    BY <1>2, SavedIs, NextSavedIs DEF NameSaved, TypeSaved
  <1>4. \A e \in Targets : e \in Envs
    BY DEF Envs
  <1>5. \A e \in Targets : e # d => NameBind'[e] = NameBind[e] /\ TypeBind'[e] = TypeBind[e]
    BY <1>2, <1>4, BindsAre, NextBindsAre
  <1>6. CASE d \in Targets
    <2>1. /\ NameBind[d] \subseteq NameBind'[d] /\ OneOne(NameBind'[d])
          /\ TypeBind[d] \subseteq TypeBind'[d] /\ OneOne(TypeBind'[d])
      BY <1>2, <1>6, BindsAre, NextBindsAre, NextTables, GrowthBinds
    <2>2. Moves(NameBind, NameBind', NameSaved, NameSaved)
      BY <2>1, <1>5, <1>6, BindsAre, NextBindsAre, OneMoves
    <2>3. Moves(TypeBind, TypeBind', TypeSaved, TypeSaved)
      BY <2>1, <1>5, <1>6, BindsAre, NextBindsAre, OneMoves
    <2> QED BY <2>2, <2>3, <1>3 DEF RegistriesMove
  <1>7. CASE d \notin Targets
    <2>1. NameBind' = NameBind /\ TypeBind' = TypeBind
      BY <1>5, <1>7, BindsAre, NextBindsAre DEF OnTargets
    <2> QED BY <2>1, <1>3 DEF RegistriesMove, Moves
  <1> QED BY <1>6, <1>7

\* insertBinEnv saves the bindings of an environment.
LEMMA StoreMoves ==
    ASSUME EInv', NEW d \in Targets, StoredFrom(d) PROVE RegistriesMove
  <1>1. /\ env' = env /\ archive = NoArchive /\ NamesRead(archive'.names, env[d].names)
        /\ TypesRead(archive'.names, archive'.types, env[d].types)
    BY DEF StoredFrom
  <1>2. NameBind' = NameBind /\ TypeBind' = TypeBind
    BY <1>1 DEF NameBind, TypeBind
  <1>3. CASE archive' = NoArchive
    <2>1. NameSaved' = NameSaved /\ TypeSaved' = TypeSaved
      BY <1>1, <1>3 DEF NameSaved, TypeSaved
    <2> QED BY <2>1, <1>2 DEF RegistriesMove, Moves
  <1>4. CASE archive' # NoArchive
    <2>1. SavedNamesOK(archive'.names) /\ SavedTypesOK(archive'.names, archive'.types, archive'.segs)
      BY <1>4 DEF EInv, ArchiveOK
    <2>2. Bindings(env[d].names) = Recorded(archive'.names)
      BY <2>1, <1>1, NamesRecorded DEF SavedNamesOK
    <2>3. Bindings(env[d].types) = TypesRecorded(archive'.names, archive'.types)
      BY <2>1, <1>1, TypesRecordedIs DEF SavedNamesOK
    <2>4. NameSaved' = NameBind[d] /\ TypeSaved' = TypeBind[d]
      BY <2>2, <2>3, <1>4, BindsAre, NextSavedIs DEF NameSaved, TypeSaved
    <2> QED BY <2>4, <1>2 DEF RegistriesMove, Moves
  <1> QED BY <1>3, <1>4

\* extractBinEnv restores them to a new environment.
LEMMA LoadMoves ==
    ASSUME EInv, NEW d \in Targets, LoadedTo(d) PROVE RegistriesMove
  <1>1. /\ \A e \in Envs : e # d => env'[e] = env[e]
        /\ archive' = archive /\ archive # NoArchive
        /\ Ids(env[d].names) = {} /\ Ids(env[d].types) = {}
        /\ NamesRead(archive.names, env'[d].names) /\ TypesRead(archive.names, archive.types, env'[d].types)
    BY DEF LoadedTo, EInv, EnvsOK
  <1>2. SavedNamesOK(archive.names) /\ SavedTypesOK(archive.names, archive.types, archive.segs)
    BY <1>1 DEF EInv, ArchiveOK
  <1>3. Bindings(env'[d].names) = Recorded(archive.names)
    BY <1>1, <1>2, NamesRecorded DEF SavedNamesOK
  <1>4. Bindings(env'[d].types) = TypesRecorded(archive.names, archive.types)
    BY <1>1, <1>2, TypesRecordedIs DEF SavedNamesOK
  <1>5. NameBind'[d] = NameSaved /\ TypeBind'[d] = TypeSaved
    BY <1>1, <1>3, <1>4, NextBindsAre, SavedIs DEF NameSaved, TypeSaved
  <1>6. NameBind[d] = {} /\ TypeBind[d] = {}
    BY <1>1, BindsAre DEF Bindings
  <1>7. NameSaved' = NameSaved /\ TypeSaved' = TypeSaved
    BY <1>1, SavedIs, NextSavedIs DEF NameSaved, TypeSaved
  <1>8. \A e \in Targets : e # d => NameBind'[e] = NameBind[e] /\ TypeBind'[e] = TypeBind[e]
    BY <1>1, BindsAre, NextBindsAre DEF Envs
  <1>9. Moves(NameBind, NameBind', NameSaved, NameSaved)
    BY <1>5, <1>6, <1>8, BindsAre, NextBindsAre, OneMoves
  <1>10. Moves(TypeBind, TypeBind', TypeSaved, TypeSaved)
    BY <1>5, <1>6, <1>8, BindsAre, NextBindsAre, OneMoves
  <1> QED BY <1>7, <1>9, <1>10 DEF RegistriesMove

\* A new run starts without bindings, and keeps those in the archive.
LEMMA RestartMoves ==
    ASSUME Restarted PROVE RegistriesMove
  <1>1. /\ archive' = archive
        /\ \A d \in Targets : Ids(env'[d].names) = {} /\ Ids(env'[d].types) = {}
    BY DEF Restarted
  <1>2. \A d \in Targets : NameBind'[d] = {} /\ TypeBind'[d] = {}
    BY <1>1, NextBindsAre DEF Bindings
  <1>3. NameBind' = [e \in Targets |-> {}] /\ TypeBind' = [e \in Targets |-> {}]
    BY <1>2, NextBindsAre DEF OnTargets
  <1>4. NameSaved' = NameSaved /\ TypeSaved' = TypeSaved
    BY <1>1, SavedIs, NextSavedIs DEF NameSaved, TypeSaved
  <1> QED BY <1>3, <1>4 DEF RegistriesMove, Moves

\* Every step is one of the registries'.
LEMMA RegistriesStep ==
    ASSUME EInv, EInv', BindingStep PROVE RegistriesMove
  <1>1. CASE UNCHANGED <<env, archive>>
    <2>1. NameBind' = NameBind /\ TypeBind' = TypeBind
      BY <1>1 DEF NameBind, TypeBind
    <2>2. NameSaved' = NameSaved /\ TypeSaved' = TypeSaved
      BY <1>1, SavedIs, NextSavedIs DEF NameSaved, TypeSaved
    <2> QED BY <2>1, <2>2 DEF RegistriesMove, Moves
  <1> QED BY <1>1, GrowthMoves, StoreMoves, LoadMoves, RestartMoves DEF BindingStep

\* The first run starts without bindings and without an archive.
LEMMA RegistriesInit == Init => Names!Init /\ Types!Init
  <1> SUFFICES ASSUME Init PROVE Names!Init /\ Types!Init
    OBVIOUS
  <1>1. archive = NoArchive /\ env = [e \in Envs |-> IF e \in Sources THEN FreshEnv ELSE DeadEnv]
    BY DEF Init
  <1>2. \A d \in Targets : env[d].names = EmptyTable /\ env[d].types = EmptyTable
    BY <1>1, StartIs
  <1>3. \A d \in Targets : Bindings(env[d].names) = {} /\ Bindings(env[d].types) = {}
    BY <1>2, EmptyTableIs DEF Bindings
  <1> QED BY <1>1, <1>3 DEF Names!Init, Types!Init

\* One to one as Registry says it.
LEMMA OneToOneIs ==
    ASSUME NEW S, OneOne(S) PROVE Names!OneToOne(S) /\ Types!OneToOne(S)
  BY DEF OneOne, Names!OneToOne, Types!OneToOne

\* A step of the bindings is a step of the registry they are mapped to.
LEMMA RegistriesNext ==
    ASSUME RegistriesMove
    PROVE  [Names!Next]_<<NameBind, NameSaved>> /\ [Types!Next]_<<TypeBind, TypeSaved>>
  <1>1. [Names!Next]_<<NameBind, NameSaved>>
    <2>1. Moves(NameBind, NameBind', NameSaved, NameSaved')
      BY DEF RegistriesMove
    <2>2. ASSUME NEW e \in Targets, NameBind' = [NameBind EXCEPT ![e] = NameBind'[e]], NameBind[e] \subseteq NameBind'[e],
                 OneOne(NameBind'[e]), NameSaved' = NameSaved
          PROVE  Names!Register(e)
      <3>1. Names!OneToOne(NameBind'[e])
        BY <2>2, OneToOneIs
      <3> QED BY ONLY <2>2, <3>1 DEF Names!Register, NameBind, NameSaved
    <2>3. ASSUME NEW e \in Targets, NameSaved' = NameBind[e], NameBind' = NameBind PROVE Names!Save(e)
      BY <2>3 DEF Names!Save, NameBind, NameSaved
    <2>4. ASSUME NEW e \in Targets, NameBind[e] = {}, NameBind' = [NameBind EXCEPT ![e] = NameSaved], NameSaved' = NameSaved PROVE Names!Restore(e)
      BY <2>4 DEF Names!Restore, NameBind, NameSaved
    <2>5. ASSUME NameBind' = [e \in Targets |-> {}], NameSaved' = NameSaved PROVE Names!Restart
      BY <2>5 DEF Names!Restart, NameBind, NameSaved
    <2> QED BY ONLY <2>1, <2>2, <2>3, <2>4, <2>5 DEF Moves, Names!Next
  <1>2. [Types!Next]_<<TypeBind, TypeSaved>>
    <2>1. Moves(TypeBind, TypeBind', TypeSaved, TypeSaved')
      BY DEF RegistriesMove
    <2>2. ASSUME NEW e \in Targets, TypeBind' = [TypeBind EXCEPT ![e] = TypeBind'[e]], TypeBind[e] \subseteq TypeBind'[e],
                 OneOne(TypeBind'[e]), TypeSaved' = TypeSaved
          PROVE  Types!Register(e)
      <3>1. Types!OneToOne(TypeBind'[e])
        BY <2>2, OneToOneIs
      <3> QED BY ONLY <2>2, <3>1 DEF Types!Register, TypeBind, TypeSaved
    <2>3. ASSUME NEW e \in Targets, TypeSaved' = TypeBind[e], TypeBind' = TypeBind PROVE Types!Save(e)
      BY <2>3 DEF Types!Save, TypeBind, TypeSaved
    <2>4. ASSUME NEW e \in Targets, TypeBind[e] = {}, TypeBind' = [TypeBind EXCEPT ![e] = TypeSaved], TypeSaved' = TypeSaved PROVE Types!Restore(e)
      BY <2>4 DEF Types!Restore, TypeBind, TypeSaved
    <2>5. ASSUME TypeBind' = [e \in Targets |-> {}], TypeSaved' = TypeSaved PROVE Types!Restart
      BY <2>5 DEF Types!Restart, TypeBind, TypeSaved
    <2> QED BY ONLY <2>1, <2>2, <2>3, <2>4, <2>5 DEF Moves, Types!Next
  <1> QED BY <1>1, <1>2

\* Name tables and type tables implement Registry: what useName, mapName, useType and mapType
\* have bound is neither renumbered nor forgotten while a run lasts, and an environment that
\* extractBinEnv reads has exactly the bindings that insertBinEnv wrote.
THEOREM EnvironmentsRefine == Spec => RefinesRegistry
  <1>1. EInv /\ EInv' /\ [Next]_vars => [Names!Next]_<<NameBind, NameSaved>> /\ [Types!Next]_<<TypeBind, TypeSaved>>
    BY NextKeeps, RegistriesStep, RegistriesNext
  <1> QED BY <1>1, RegistriesInit, Invariant, PTL
          DEF Spec, RefinesRegistry, Names!Spec, Types!Spec, NameBind, NameSaved, TypeBind, TypeSaved

===============================================================================
