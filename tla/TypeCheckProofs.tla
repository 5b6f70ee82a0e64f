-------------------------- MODULE TypeCheckProofs --------------------------
(***************************************************************************)
(* Proofs about the unifier.                                               *)
(***************************************************************************)
EXTENDS TypeCheck, SequenceTheorems, FiniteSetTheorems, WellFoundedInduction, TLAPS

(***************************************************************************)
(* Signatures.                                                             *)
(***************************************************************************)
Symbols == {l.is : l \in UNION (Sigs \cup Ground)} \cup {<<"var", a>> : a \in 1 .. NTypeVars}
Leaves == [at : Seq({"fun", "arg"}), is : Symbols]
Terms == {t \in SUBSET Leaves : Apart(t)}
TermsOver(n) == {t \in Terms : TypeVarsIn(t) \subseteq 1 .. n}

\* A record of the kind is a leaf, and back.
LEMMA LeafIs ==
    /\ \A p \in Seq({"fun", "arg"}), s \in Symbols : [at |-> p, is |-> s] \in Leaves
    /\ \A l \in Leaves : /\ l = [at |-> l.at, is |-> l.is]
                         /\ l.at \in Seq({"fun", "arg"}) /\ l.is \in Symbols
  BY DEF Leaves

\* The constants are terms.
LEMMA SigsAreTerms == \A t \in Sigs \cup Ground : t \in Terms
  <1> SUFFICES ASSUME NEW t \in Sigs \cup Ground PROVE t \in Terms
    OBVIOUS
  <1>1. IsSignature(t)
    BY SigsAssumption
  <1>2. ASSUME NEW l \in t PROVE l \in Leaves
    <2>1. l = [at |-> l.at, is |-> l.is] /\ l.at \in Seq({"fun", "arg"})
      BY <1>1 DEF IsSignature
    <2>2. l.is \in Symbols
      BY DEF Symbols
    <2> QED BY ONLY <2>1, <2>2, LeafIs
  <1> QED BY <1>1, <1>2 DEF Terms, IsSignature

\* A variable is a term, and its only variable is itself.
LEMMA TypeVarTerm ==
    ASSUME NEW a \in 1 .. NTypeVars
    PROVE  TypeVar(a) \in Terms
  <1>1. <<"var", a>> \in Symbols /\ <<>> \in Seq({"fun", "arg"})
    BY DEF Symbols
  <1>2. TypeVar(a) \subseteq Leaves
    BY <1>1, LeafIs DEF TypeVar
  <1>3. Apart(TypeVar(a))
    BY DEF Apart, TypeVar
  <1> QED BY <1>2, <1>3 DEF Terms

\* A variable's signature has that variable.
LEMMA TypeVarVars == \A a : TypeVarsIn(TypeVar(a)) = {a}
  <1> SUFFICES ASSUME NEW a PROVE TypeVarsIn(TypeVar(a)) = {a}
    OBVIOUS
  <1> DEFINE l == [at |-> <<>>, is |-> <<"var", a>>]
  <1>1. l.is[1] = "var" /\ l.is[2] = a
    OBVIOUS
  <1>2. VarLeaves(TypeVar(a)) = {l}
    BY <1>1 DEF VarLeaves, TypeVar
  <1> QED BY <1>1, <1>2 DEF TypeVarsIn

\* What VarOf chooses.
LEMMA VarOfIs ==
    ASSUME NEW t, IsTypeVar(t)
    PROVE  t = TypeVar(VarOf(t)) /\ TypeVarsIn(t) = {VarOf(t)}
  <1>1. PICK a \in TypeVarsIn(t) : t = TypeVar(a)
    BY DEF IsTypeVar
  <1>2. TypeVarsIn(t) = {a}
    BY <1>1, TypeVarVars
  <1>3. VarOf(t) = a
    BY <1>2 DEF VarOf
  <1> QED BY <1>1, <1>2, <1>3

\* Where a signature stands does not matter to its variables.
LEMMA BelowVars == \A p, t : TypeVarsIn(Below(p, t)) = TypeVarsIn(t)
  <1> SUFFICES ASSUME NEW p, NEW t PROVE TypeVarsIn(Below(p, t)) = TypeVarsIn(t)
    OBVIOUS
  <1> DEFINE down(l) == [at |-> p \o l.at, is |-> l.is]
  <1>1. \A l : down(l).is = l.is
    OBVIOUS
  <1>2. Below(p, t) = {down(l) : l \in t}
    BY DEF Below
  <1> HIDE DEF down
  <1>3. VarLeaves(Below(p, t)) = {down(l) : l \in VarLeaves(t)}
    BY <1>1, <1>2 DEF VarLeaves
  <1> QED BY <1>1, <1>3 DEF TypeVarsIn

\* The variables of a signature after a replacement.
LEMMA ReplaceVars ==
    ASSUME NEW t, NEW by
    PROVE  TypeVarsIn(Replace(t, by)) = UNION {TypeVarsIn(by[b]) : b \in TypeVarsIn(t)}
  <1> DEFINE one(l) == IF l \in VarLeaves(t) THEN Below(l.at, by[l.is[2]]) ELSE {l}
  <1>1. Replace(t, by) = UNION {one(l) : l \in t}
    BY DEF Replace
  <1>2. \A S : TypeVarsIn(UNION S) = UNION {TypeVarsIn(u) : u \in S}
    BY DEF TypeVarsIn, VarLeaves
  <1>3. ASSUME NEW l \in VarLeaves(t) PROVE TypeVarsIn(one(l)) = TypeVarsIn(by[l.is[2]])
    BY <1>3, BelowVars
  <1>4. ASSUME NEW l \in t \ VarLeaves(t) PROVE TypeVarsIn(one(l)) = {}
    BY <1>4 DEF TypeVarsIn, VarLeaves
  <1>5. VarLeaves(t) \subseteq t
    BY DEF VarLeaves
  <1>6. TypeVarsIn(Replace(t, by)) = UNION {TypeVarsIn(one(l)) : l \in t}
    <2> HIDE DEF one
    <2> DEFINE S == {one(l) : l \in t}
    <2>1. TypeVarsIn(UNION S) = UNION {TypeVarsIn(u) : u \in S}
      <3> HIDE DEF S
      <3> QED BY <1>2
    <2>2. UNION {TypeVarsIn(u) : u \in S} = UNION {TypeVarsIn(one(l)) : l \in t}
      OBVIOUS
    <2> QED BY <1>1, <2>1, <2>2
  <1>7. UNION {TypeVarsIn(one(l)) : l \in t} = UNION {TypeVarsIn(by[l.is[2]]) : l \in VarLeaves(t)}
    <2> HIDE DEF one
    <2> QED BY <1>3, <1>4, <1>5
  <1>8. UNION {TypeVarsIn(by[l.is[2]]) : l \in VarLeaves(t)} = UNION {TypeVarsIn(by[b]) : b \in TypeVarsIn(t)}
    BY DEF TypeVarsIn
  <1> QED BY <1>6, <1>7, <1>8

\* A leaf of a replacement is below the leaf of the signature it replaces, or is one.
From(t, by, m, l) == \/ l \notin VarLeaves(t) /\ m = l
                     \/ /\ l \in VarLeaves(t) /\ l.is[2] \in TypeVarsIn(t)
                        /\ \E k \in by[l.is[2]] : m = [at |-> l.at \o k.at, is |-> k.is]

\* A leaf of a replacement is below the leaf of the signature it replaces, or is one.
LEMMA ReplaceLeaf ==
    ASSUME NEW t, NEW by, NEW m \in Replace(t, by)
    PROVE  \E l \in t : From(t, by, m, l)
  <1>1. PICK l \in t : m \in IF l \in VarLeaves(t) THEN Below(l.at, by[l.is[2]]) ELSE {l}
    BY DEF Replace
  <1>2. CASE l \notin VarLeaves(t)
    BY <1>1, <1>2 DEF From
  <1>3. CASE l \in VarLeaves(t)
    <2>1. m \in Below(l.at, by[l.is[2]])
      BY <1>1, <1>3
    <2>2. l.is[2] \in TypeVarsIn(t)
      BY <1>3 DEF TypeVarsIn
    <2> QED BY <2>1, <2>2, <1>3 DEF Below, From
  <1> QED BY <1>2, <1>3

\* The elements of a concatenation.
LEMMA ConcatAt ==
    ASSUME NEW S, NEW p \in Seq(S), NEW q \in Seq(S)
    PROVE  /\ p \o q \in Seq(S)
           /\ DOMAIN p = 1 .. Len(p) /\ DOMAIN q = 1 .. Len(q)
           /\ DOMAIN (p \o q) = 1 .. (Len(p) + Len(q))
           /\ Len(p) \in Nat /\ Len(q) \in Nat
           /\ \A n \in 1 .. Len(p) : (p \o q)[n] = p[n]
           /\ \A n \in 1 .. Len(q) : (p \o q)[Len(p) + n] = q[n]
  OBVIOUS

\* Where one concatenation is above another, so is the first part of one above that of
\* the other, or the other way round; and when the first parts are the same, the second.
Begins(p, r) == DOMAIN p \subseteq DOMAIN r /\ \A n \in DOMAIN p : p[n] = r[n]

\* Of two joined paths, the one begins the other only where their parts do.
LEMMA ConcatAbove ==
    ASSUME NEW S, NEW p \in Seq(S), NEW q \in Seq(S), NEW r \in Seq(S), NEW s \in Seq(S),
           Begins(p \o q, r \o s)
    PROVE  /\ Begins(p, r) \/ Begins(r, p)
           /\ p = r => Begins(q, s)
  <1> DEFINE a == Len(p)  b == Len(q)  c == Len(r)  d == Len(s)
  <1>1. /\ a \in Nat /\ b \in Nat /\ c \in Nat /\ d \in Nat
        /\ DOMAIN p = 1 .. a /\ DOMAIN q = 1 .. b /\ DOMAIN r = 1 .. c /\ DOMAIN s = 1 .. d
        /\ DOMAIN (p \o q) = 1 .. (a + b) /\ DOMAIN (r \o s) = 1 .. (c + d)
    BY ConcatAt
  <1>2. /\ \A n \in 1 .. a : (p \o q)[n] = p[n]
        /\ \A n \in 1 .. b : (p \o q)[a + n] = q[n]
        /\ \A n \in 1 .. c : (r \o s)[n] = r[n]
        /\ \A n \in 1 .. d : (r \o s)[c + n] = s[n]
    BY ConcatAt
  <1>0. /\ DOMAIN (p \o q) \subseteq DOMAIN (r \o s)
        /\ \A n \in DOMAIN (p \o q) : (p \o q)[n] = (r \o s)[n]
    BY DEF Begins
  <1>3. a + b <= c + d
    <2>1. a + b = 0 \/ a + b \in 1 .. (a + b)
      BY <1>1
    <2> QED BY <2>1, <1>0, <1>1
  <1> DEFINE x == p \o q  y == r \o s
  <1>4. \A n \in 1 .. (a + b) : x[n] = y[n]
    BY <1>0, <1>1
  <1> HIDE DEF x, y, a, b, c, d
  <1>5. ASSUME a <= c PROVE Begins(p, r)
    <2>1. \A n \in 1 .. a : p[n] = r[n]
      <3> SUFFICES ASSUME NEW n \in 1 .. a PROVE p[n] = r[n]
        OBVIOUS
      <3>1. n \in 1 .. (a + b) /\ n \in 1 .. c
        BY <1>1, <1>5
      <3> QED BY <3>1, <1>2, <1>4 DEF x, y
    <2> QED BY <2>1, <1>1, <1>5 DEF Begins
  <1>6. ASSUME c <= a PROVE Begins(r, p)
    <2>1. \A n \in 1 .. c : r[n] = p[n]
      <3> SUFFICES ASSUME NEW n \in 1 .. c PROVE r[n] = p[n]
        OBVIOUS
      <3>1. n \in 1 .. (a + b) /\ n \in 1 .. a
        BY <1>1, <1>6
      <3> QED BY <3>1, <1>2, <1>4 DEF x, y
    <2> QED BY <2>1, <1>1, <1>6 DEF Begins
  <1>7. ASSUME p = r PROVE Begins(q, s)
    <2>1. a = c /\ b <= d
      BY <1>7, <1>3, <1>1 DEF a, c
    <2>2. ASSUME NEW n \in 1 .. b PROVE q[n] = s[n]
      <3>1. a + n \in 1 .. (a + b) /\ n \in 1 .. d
        BY <2>1, <1>1
      <3>2. x[a + n] = q[n] /\ y[c + n] = s[n]
        BY <3>1, <1>2 DEF x, y
      <3> QED BY <3>1, <3>2, <2>1, <1>4
    <2> QED BY <2>1, <2>2, <1>1 DEF Begins
  <1> QED BY <1>1, <1>5, <1>6, <1>7

\* Replacing the variables of a term by terms makes a term.
LEMMA ReplaceTerm ==
    ASSUME NEW t \in Terms, NEW by, \A b \in TypeVarsIn(t) : by[b] \in Terms
    PROVE  Replace(t, by) \in Terms
  <1> DEFINE Dirs == {"fun", "arg"}
  <1>0. t \subseteq Leaves /\ Apart(t)
        /\ \A b \in TypeVarsIn(t) : by[b] \subseteq Leaves /\ Apart(by[b])
    BY DEF Terms
  \* The way from the leaf that was replaced.
  <1> DEFINE Rest(m, l, q) == /\ q \in Seq(Dirs) /\ m.at = l.at \o q
                              /\ l \notin VarLeaves(t) => m = l
                              /\ l \in VarLeaves(t) =>
                                    \E k \in by[l.is[2]] : k.at = q /\ m = [at |-> l.at \o k.at, is |-> k.is]
  <1>1. ASSUME NEW m \in Replace(t, by) PROVE \E l \in t : From(t, by, m, l)
    BY ReplaceLeaf
  <1>2. ASSUME NEW m, NEW l \in t, From(t, by, m, l) PROVE m \in Leaves /\ \E q : Rest(m, l, q)
    <2>1. l \in Leaves /\ l.at \in Seq(Dirs)
      BY <1>0, LeafIs
    <2>2. CASE l \notin VarLeaves(t)
      <3>1. <<>> \in Seq(Dirs) /\ l.at \o <<>> = l.at
        BY <2>1
      <3>2. m = l
        BY <2>2, <1>2 DEF From
      <3>3. Rest(m, l, <<>>)
        BY ONLY <3>1, <3>2, <2>2
      <3> QED BY <3>2, <3>3, <2>1
    <2>3. CASE l \in VarLeaves(t)
      <3>1. PICK k \in by[l.is[2]] : m = [at |-> l.at \o k.at, is |-> k.is]
        BY <2>3, <1>2 DEF From
      <3>2. k \in Leaves
        BY <2>3, <1>0, <1>2 DEF From
      <3>3. k.at \in Seq(Dirs) /\ k.is \in Symbols
        BY <3>2, LeafIs
      <3>4. l.at \o k.at \in Seq(Dirs)
        BY <3>3, <2>1, ConcatAt
      <3>5. m \in Leaves
        BY <3>1, <3>3, <3>4, LeafIs
      <3>6. m.at = l.at \o k.at
        BY <3>1
      <3>7. Rest(m, l, k.at)
        BY ONLY <3>1, <3>3, <3>6, <2>3
      <3> QED BY <3>5, <3>7
    <2> QED BY <2>2, <2>3
  <1>3. Replace(t, by) \subseteq Leaves
    BY <1>1, <1>2
  <1>4. ASSUME NEW m \in Replace(t, by), NEW n \in Replace(t, by), Above(m, n) PROVE m = n
    <2>1. PICK l \in t : From(t, by, m, l)
      BY <1>1
    <2>2. PICK k \in t : From(t, by, n, k)
      BY <1>1
    <2>3. PICK q : Rest(m, l, q)
      BY <1>2, <2>1
    <2>4. PICK r : Rest(n, k, r)
      BY <1>2, <2>2
    <2>5. l \in Leaves /\ k \in Leaves /\ l.at \in Seq(Dirs) /\ k.at \in Seq(Dirs)
      BY <1>0, LeafIs
    <2>6. /\ q \in Seq(Dirs) /\ m.at = l.at \o q
          /\ r \in Seq(Dirs) /\ n.at = k.at \o r
      BY <2>3, <2>4
    <2>7. Begins(l.at \o q, k.at \o r)
      BY <2>6, <1>4 DEF Above, Begins
    <2> HIDE DEF Rest, Dirs
    <2>8. /\ Begins(l.at, k.at) \/ Begins(k.at, l.at)
          /\ l.at = k.at => Begins(q, r)
      BY ONLY <2>5, <2>6, <2>7, ConcatAbove
    <2>9. l = k
      BY <2>8, <1>0 DEF Apart, Above, Begins
    <2>10. CASE l \notin VarLeaves(t)
      BY <2>3, <2>4, <2>9, <2>10 DEF Rest
    <2>11. CASE l \in VarLeaves(t)
      <3>1. PICK u \in by[l.is[2]] : u.at = q /\ m = [at |-> l.at \o u.at, is |-> u.is]
        BY <2>3, <2>11 DEF Rest
      <3>2. PICK v \in by[l.is[2]] : v.at = r /\ n = [at |-> l.at \o v.at, is |-> v.is]
        BY <2>4, <2>9, <2>11 DEF Rest
      <3>3. Above(u, v)
        BY <3>1, <3>2, <2>8, <2>9 DEF Above, Begins
      <3>4. u = v
        BY <3>3, <1>0, <2>1, <2>11 DEF Apart, From
      <3> QED BY <3>1, <3>2, <3>4
    <2> QED BY <2>10, <2>11
  <1> QED BY <1>3, <1>4 DEF Terms, Apart

\* A part of a term is a term.
LEMMA PartTerm ==
    ASSUME NEW t \in Terms, NEW side
    PROVE  Part(side, t) \in Terms /\ TypeVarsIn(Part(side, t)) \subseteq TypeVarsIn(t)
  <1> DEFINE Dirs == {"fun", "arg"}
             up(l) == [at |-> Tail(l.at), is |-> l.is]
             T == {l \in t : l.at # <<>> /\ Head(l.at) = side}
  <1>0. t \subseteq Leaves /\ Apart(t)
    BY DEF Terms
  <1>1. Part(side, t) = {up(l) : l \in T}
    BY DEF Part
  <1>2. ASSUME NEW l \in T
        PROVE  /\ l \in t /\ up(l) \in Leaves /\ up(l).is = l.is /\ up(l).at = Tail(l.at)
               /\ l.at \in Seq(Dirs) /\ Len(l.at) \in Nat \ {0} /\ l.at[1] = side
               /\ DOMAIN l.at = 1 .. Len(l.at) /\ DOMAIN Tail(l.at) = 1 .. (Len(l.at) - 1)
               /\ \A n \in 1 .. (Len(l.at) - 1) : Tail(l.at)[n] = l.at[n + 1]
    <2>1. l \in t /\ l \in Leaves /\ l.at \in Seq(Dirs) /\ l.is \in Symbols /\ l.at # <<>> /\ Head(l.at) = side
      BY <1>0, LeafIs
    <2>2. Tail(l.at) \in Seq(Dirs)
      BY <2>1
    <2>3. up(l) \in Leaves
      BY <2>1, <2>2, LeafIs
    <2>4. /\ Len(l.at) \in Nat \ {0} /\ DOMAIN l.at = 1 .. Len(l.at) /\ l.at[1] = side
          /\ DOMAIN Tail(l.at) = 1 .. (Len(l.at) - 1)
          /\ \A n \in 1 .. (Len(l.at) - 1) : Tail(l.at)[n] = l.at[n + 1]
      <3> DEFINE p == l.at
      <3>1. p \in Seq(Dirs) /\ p # <<>> /\ Head(p) = side
        BY <2>1
      <3> HIDE DEF p
      <3>2. /\ Len(p) \in Nat \ {0} /\ DOMAIN p = 1 .. Len(p) /\ p[1] = side
            /\ DOMAIN Tail(p) = 1 .. (Len(p) - 1)
            /\ \A n \in 1 .. (Len(p) - 1) : Tail(p)[n] = p[n + 1]
        BY <3>1
      <3> QED BY <3>2 DEF p
    <2> QED BY <2>1, <2>3, <2>4
  <1>3. Part(side, t) \subseteq Leaves
    <2> HIDE DEF T, up
    <2> QED BY <1>1, <1>2
  <1>4. ASSUME NEW l \in T, NEW k \in T, Above(up(l), up(k)) PROVE l = k
    <2> DEFINE a == l.at  b == k.at
    <2>1. /\ Len(a) \in Nat \ {0} /\ Len(b) \in Nat \ {0} /\ a[1] = side /\ b[1] = side
          /\ DOMAIN a = 1 .. Len(a) /\ DOMAIN b = 1 .. Len(b)
          /\ DOMAIN Tail(a) = 1 .. (Len(a) - 1) /\ DOMAIN Tail(b) = 1 .. (Len(b) - 1)
          /\ \A n \in 1 .. (Len(a) - 1) : Tail(a)[n] = a[n + 1]
          /\ \A n \in 1 .. (Len(b) - 1) : Tail(b)[n] = b[n + 1]
      BY <1>2
    <2>2. DOMAIN Tail(a) \subseteq DOMAIN Tail(b) /\ \A n \in DOMAIN Tail(a) : Tail(a)[n] = Tail(b)[n]
      BY <1>2, <1>4 DEF Above
    <2> HIDE DEF a, b
    <2>3. Len(a) <= Len(b)
      <3>1. Len(a) = 1 \/ Len(a) - 1 \in 1 .. (Len(a) - 1)
        BY <2>1
      <3>2. Len(a) - 1 \in 1 .. (Len(a) - 1) => Len(a) - 1 \in 1 .. (Len(b) - 1)
        BY <2>1, <2>2
      <3> QED BY <2>1, <3>1, <3>2
    <2>4. ASSUME NEW n \in 1 .. Len(a) PROVE a[n] = b[n]
      <3>1. CASE n = 1
        BY <3>1, <2>1
      <3>2. CASE n # 1
        <4> DEFINE m == n - 1
        <4>1. m \in 1 .. (Len(a) - 1) /\ m \in 1 .. (Len(b) - 1) /\ m + 1 = n
          BY <3>2, <2>1, <2>3
        <4> HIDE DEF m
        <4>2. Tail(a)[m] = Tail(b)[m]
          BY <4>1, <2>1, <2>2
        <4> QED BY <4>1, <4>2, <2>1
      <3> QED BY <3>1, <3>2
    <2>5. DOMAIN a \subseteq DOMAIN b
      BY <2>1, <2>3
    <2>6. Above(l, k)
      BY <2>1, <2>4, <2>5 DEF Above, a, b
    <2> QED BY <2>6, <1>0, <1>2 DEF Apart
  <1>5. Apart(Part(side, t))
    <2> HIDE DEF T, up
    <2> QED BY <1>1, <1>4 DEF Apart
  <1>6. TypeVarsIn(Part(side, t)) \subseteq TypeVarsIn(t)
    <2> HIDE DEF T, up
    <2> QED BY <1>1, <1>2 DEF TypeVarsIn, VarLeaves
  <1> QED BY <1>3, <1>5, <1>6 DEF Terms

\* The variables after one variable was replaced.
LEMMA SubstTypeVarVars ==
    ASSUME NEW a, NEW sig, NEW t
    PROVE  /\ a \in TypeVarsIn(t) => TypeVarsIn(SubstTypeVar(a, sig, t)) = (TypeVarsIn(t) \ {a}) \cup TypeVarsIn(sig)
           /\ a \notin TypeVarsIn(t) => TypeVarsIn(SubstTypeVar(a, sig, t)) = TypeVarsIn(t)
  <1> DEFINE V == TypeVarsIn(t)
             by == [b \in V |-> IF b = a THEN sig ELSE TypeVar(b)]
  <1>1. TypeVarsIn(SubstTypeVar(a, sig, t)) = UNION {TypeVarsIn(by[b]) : b \in V}
    BY ReplaceVars DEF SubstTypeVar
  <1>2. ASSUME NEW b \in V PROVE TypeVarsIn(by[b]) = IF b = a THEN TypeVarsIn(sig) ELSE {b}
    BY TypeVarVars
  <1>3. ASSUME NEW x
        PROVE  x \in UNION {TypeVarsIn(by[b]) : b \in V}
                  <=> x \in IF a \in V THEN (V \ {a}) \cup TypeVarsIn(sig) ELSE V
    <2>1. x \in UNION {TypeVarsIn(by[b]) : b \in V} <=> \E b \in V : x \in TypeVarsIn(by[b])
      OBVIOUS
    <2>2. (\E b \in V : x \in TypeVarsIn(by[b])) <=> \E b \in V : x \in IF b = a THEN TypeVarsIn(sig) ELSE {b}
      BY <1>2
    <2> HIDE DEF V, by
    <2> QED BY <2>1, <2>2
  <1> HIDE DEF by
  <1> QED BY <1>1, <1>3

\* A substitution in a term gives a term, over the same variables.
LEMMA SubstTypeVarTerm ==
    ASSUME NEW n \in 0 .. NTypeVars, NEW a, NEW sig \in TermsOver(n), NEW t \in TermsOver(n)
    PROVE  SubstTypeVar(a, sig, t) \in TermsOver(n)
  <1> DEFINE V == TypeVarsIn(t)
             by == [b \in V |-> IF b = a THEN sig ELSE TypeVar(b)]
  <1>1. V \subseteq 1 .. n /\ TypeVarsIn(sig) \subseteq 1 .. n /\ t \in Terms /\ sig \in Terms
    BY DEF TermsOver
  <1>2. \A b \in V : by[b] \in Terms
    BY <1>1, TypeVarTerm, SupplyAssumption
  <1>3. Replace(t, by) \in Terms
    <2> HIDE DEF by
    <2> QED BY <1>1, <1>2, ReplaceTerm
  <1>4. TypeVarsIn(SubstTypeVar(a, sig, t)) \subseteq 1 .. n
    BY <1>1, SubstTypeVarVars
  <1> QED BY <1>3, <1>4 DEF TermsOver, SubstTypeVar

(***************************************************************************)
(* Lists of substitutions.                                                 *)
(***************************************************************************)
Substs(n) == [typeVar : 1 .. n, typeSig : TermsOver(n)]
Lists(n) == Seq(Substs(n))

\* A variable is bound once; what is bound occurs in none of what it stands for.
Distinct(list) == \A m, n \in DOMAIN list : list[m].typeVar = list[n].typeVar => m = n
Flat(list) == \A n \in DOMAIN list : TypeVarsIn(list[n].typeSig) \cap BoundBy(list) = {}

\* The variables that come of some when the first n entries of a list are applied.
Moved(V, list, n) ==
    (V \ {list[m].typeVar : m \in 1 .. n})
        \cup UNION {TypeVarsIn(list[m].typeSig) : m \in {m \in 1 .. n : list[m].typeVar \in V}}

\* What a list of substitutions is made of.
LEMMA ListIs ==
    ASSUME NEW n, NEW list \in Lists(n)
    PROVE  /\ Len(list) \in Nat /\ DOMAIN list = 1 .. Len(list)
           /\ BoundBy(list) = {list[m].typeVar : m \in 1 .. Len(list)}
           /\ \A m \in 1 .. Len(list) :
                 /\ list[m] \in Substs(n)
                 /\ list[m] = Subst(list[m].typeVar, list[m].typeSig)
                 /\ list[m].typeVar \in 1 .. n /\ list[m].typeSig \in TermsOver(n)
                 /\ list[m].typeSig \in Terms /\ TypeVarsIn(list[m].typeSig) \subseteq 1 .. n
  <1>1. Len(list) \in Nat /\ DOMAIN list = 1 .. Len(list)
        /\ \A m \in 1 .. Len(list) : list[m] \in Substs(n)
    BY DEF Lists
  <1>2. ASSUME NEW s \in Substs(n)
        PROVE  /\ s = Subst(s.typeVar, s.typeSig)
               /\ s.typeVar \in 1 .. n /\ s.typeSig \in TermsOver(n)
               /\ s.typeSig \in Terms /\ TypeVarsIn(s.typeSig) \subseteq 1 .. n
    BY DEF Substs, Subst, TermsOver
  <1> QED BY <1>1, <1>2 DEF BoundBy

\* SubstEach is a loop over the list, with the signature so far.
SubstEachOp(p, sig, s) == SubstTypeVar(s.typeVar, s.typeSig, sig)
SubstEachHolds(p, sig, n) ==
    /\ sig \in TermsOver(p.n)
    /\ TypeVarsIn(sig) = Moved(TypeVarsIn(p.t), p.list, n)
SubstEachFold == INSTANCE ThroughProofs WITH Op <- SubstEachOp, Holds <- SubstEachHolds

\* LookUp finds the first entry for the variable.
LEMMA LookUpIs ==
    ASSUME NEW k, NEW list \in Lists(k), NEW a, Substituted(a, list)
    PROVE  \E n \in 1 .. Len(list) : /\ list[n].typeVar = a /\ LookUp(a, list) = list[n].typeSig
                                     /\ \A m \in 1 .. Len(list) : list[m].typeVar = a => n <= m
  <1> DEFINE hits == {n \in DOMAIN list : list[n].typeVar = a}
             n == CHOOSE n \in hits : \A m \in hits : n <= m
  <1>1. Len(list) \in Nat /\ DOMAIN list = 1 .. Len(list) /\ hits \subseteq Nat /\ hits # {}
    BY ListIs DEF Substituted, BoundBy
  <1>2. \E m \in hits : \A i \in hits : m <= i
    <2> HIDE DEF hits
    <2> QED BY <1>1, SubstEachFold!LeastNat
  <1>3. n \in hits /\ \A m \in hits : n <= m
    <2> HIDE DEF hits
    <2> QED BY <1>2
  <1>4. LookUp(a, list) = list[n].typeSig
    BY DEF LookUp
  <1> HIDE DEF n
  <1> QED BY <1>1, <1>3, <1>4

\* What one level of a list replaces each variable by.
Standing(t, list) == [b \in TypeVarsIn(t) |-> IF Substituted(b, list) THEN LookUp(b, list) ELSE TypeVar(b)]

\* All substitutions of a list, made in a term, give a term over the same variables.
LEMMA SubstTypeVarsTerm ==
    ASSUME NEW n \in 0 .. NTypeVars, NEW list \in Lists(n), NEW t \in TermsOver(n)
    PROVE  SubstTypeVars(t, list) \in TermsOver(n)
  <1> DEFINE V == TypeVarsIn(t)
             by == Standing(t, list)
  <1>1. t \in Terms /\ V \subseteq 1 .. n
    BY DEF TermsOver
  <1>2. ASSUME NEW b \in V PROVE by[b] \in Terms /\ TypeVarsIn(by[b]) \subseteq 1 .. n
    <2>1. CASE Substituted(b, list)
      <3>1. PICK m \in 1 .. Len(list) : LookUp(b, list) = list[m].typeSig
        BY <2>1, LookUpIs
      <3>2. by[b] = list[m].typeSig
        BY <2>1, <3>1 DEF Standing
      <3> QED BY <3>2, ListIs
    <2>2. CASE ~Substituted(b, list)
      <3>1. by[b] = TypeVar(b) /\ b \in 1 .. n /\ b \in 1 .. NTypeVars
        BY <2>2, <1>1, SupplyAssumption DEF Standing
      <3> QED BY <3>1, TypeVarTerm, TypeVarVars
    <2> QED BY <2>1, <2>2
  <1> HIDE DEF by
  <1>3. Replace(t, by) \in Terms
    BY <1>1, <1>2, ReplaceTerm
  <1>4. TypeVarsIn(Replace(t, by)) \subseteq 1 .. n
    BY <1>2, ReplaceVars
  <1>5. SubstTypeVars(t, list) = Replace(t, by)
    BY DEF SubstTypeVars, Standing, by
  <1> QED BY <1>3, <1>4, <1>5 DEF TermsOver

\* The variables after all substitutions of a list are those that come of the term's.
LEMMA SubstTypeVarsVars ==
    ASSUME NEW k, NEW list \in Lists(k), Distinct(list), NEW t
    PROVE  TypeVarsIn(SubstTypeVars(t, list)) = Moved(TypeVarsIn(t), list, Len(list))
  <1> DEFINE V == TypeVarsIn(t)
             by == Standing(t, list)
             L == Len(list)
  <1>1. TypeVarsIn(SubstTypeVars(t, list)) = UNION {TypeVarsIn(by[b]) : b \in V}
    BY ReplaceVars DEF SubstTypeVars, Standing
  <1>2. ASSUME NEW b \in V, Substituted(b, list)
        PROVE  \E m \in 1 .. L : list[m].typeVar = b /\ TypeVarsIn(by[b]) = TypeVarsIn(list[m].typeSig)
                                 /\ \A i \in 1 .. L : list[i].typeVar = b => i = m
    <2>1. PICK m \in 1 .. L : list[m].typeVar = b /\ LookUp(b, list) = list[m].typeSig
      BY <1>2, LookUpIs
    <2>2. by[b] = list[m].typeSig
      BY <1>2, <2>1 DEF Standing
    <2>3. DOMAIN list = 1 .. L
      BY ListIs
    <2>4. \A i \in 1 .. L : list[i].typeVar = b => i = m
      BY <2>1, <2>3 DEF Distinct
    <2> QED BY <2>1, <2>2, <2>4
  <1>3. ASSUME NEW b \in V, ~Substituted(b, list)
        PROVE  TypeVarsIn(by[b]) = {b} /\ \A m \in 1 .. L : list[m].typeVar # b
    <2>1. by[b] = TypeVar(b)
      BY <1>3 DEF Standing
    <2>2. \A m \in 1 .. L : list[m].typeVar # b
      BY <1>3, ListIs DEF Substituted
    <2> QED BY <2>1, <2>2, TypeVarVars
  <1> HIDE DEF V, by, L
  <1>4. ASSUME NEW x, NEW b \in V, x \in TypeVarsIn(by[b]) PROVE x \in Moved(V, list, L)
    <2>1. CASE Substituted(b, list)
      BY <2>1, <1>2, <1>4 DEF Moved
    <2>2. CASE ~Substituted(b, list)
      BY <2>2, <1>3, <1>4 DEF Moved
    <2> QED BY <2>1, <2>2
  <1>5. ASSUME NEW x \in Moved(V, list, L) PROVE \E b \in V : x \in TypeVarsIn(by[b])
    <2>1. CASE x \in V \ {list[m].typeVar : m \in 1 .. L}
      <3>1. ~Substituted(x, list)
        BY <2>1, ListIs DEF Substituted, L
      <3> QED BY <2>1, <3>1, <1>3
    <2>2. CASE \E m \in 1 .. L : list[m].typeVar \in V /\ x \in TypeVarsIn(list[m].typeSig)
      <3>1. PICK m \in 1 .. L : list[m].typeVar \in V /\ x \in TypeVarsIn(list[m].typeSig)
        BY <2>2
      <3>2. Substituted(list[m].typeVar, list)
        BY <3>1, ListIs DEF Substituted, L
      <3> QED BY <3>1, <3>2, <1>2
    <2> QED BY <2>1, <2>2, <1>5 DEF Moved
  <1>6. TypeVarsIn(SubstTypeVars(t, list)) = Moved(V, list, L)
    BY <1>1, <1>4, <1>5
  <1> QED BY <1>6 DEF V, L

\* One entry more.
LEMMA MovedStep ==
    ASSUME NEW k, NEW list \in Lists(k), Distinct(list), Flat(list), NEW V,
           NEW n \in 1 .. Len(list)
    PROVE  /\ list[n].typeVar \in Moved(V, list, n - 1) =>
                 Moved(V, list, n) = (Moved(V, list, n - 1) \ {list[n].typeVar}) \cup TypeVarsIn(list[n].typeSig)
           /\ list[n].typeVar \notin Moved(V, list, n - 1) => Moved(V, list, n) = Moved(V, list, n - 1)
  <1> DEFINE a == list[n].typeVar  sig == TypeVarsIn(list[n].typeSig)
  <1>1. /\ Len(list) \in Nat /\ DOMAIN list = 1 .. Len(list)
        /\ \A m \in 1 .. Len(list) : list[m].typeVar \in BoundBy(list)
    BY ListIs
  <1>2. /\ 1 .. n = (1 .. (n - 1)) \cup {n} /\ n \notin 1 .. (n - 1) /\ 1 .. n \subseteq 1 .. Len(list)
    BY <1>1
  <1>3. \A m \in 1 .. n : list[m].typeVar = a => m = n
    BY <1>1, <1>2 DEF Distinct
  <1>4. \A m \in 1 .. n : a \notin TypeVarsIn(list[m].typeSig)
    BY <1>1, <1>2 DEF Flat
  <1>5. a \in Moved(V, list, n - 1) <=> a \in V
    BY <1>2, <1>3, <1>4 DEF Moved
  <1>6. \A m \in 1 .. n, i \in 1 .. n : list[m].typeVar \notin TypeVarsIn(list[i].typeSig)
    BY <1>1, <1>2 DEF Flat
  <1> DEFINE W == 1 .. (n - 1)
             B == {list[m].typeVar : m \in W}
             G == UNION {TypeVarsIn(list[m].typeSig) : m \in {m \in W : list[m].typeVar \in V}}
  <1>7. Moved(V, list, n) = (V \ {list[m].typeVar : m \in W \cup {n}})
            \cup UNION {TypeVarsIn(list[m].typeSig) : m \in {m \in W \cup {n} : list[m].typeVar \in V}}
    BY <1>2 DEF Moved
  <1>8. a \notin G
    BY <1>4, <1>2
  <1>9. Moved(V, list, n - 1) = (V \ B) \cup G
    BY DEF Moved
  <1> HIDE DEF W
  <1>10. Moved(V, list, n) = (V \ (B \cup {a})) \cup G \cup IF a \in V THEN sig ELSE {}
    <2>1. {list[m].typeVar : m \in W \cup {n}} = B \cup {a}
      OBVIOUS
    <2>2. ASSUME NEW x
          PROVE  x \in UNION {TypeVarsIn(list[m].typeSig) : m \in {m \in W \cup {n} : list[m].typeVar \in V}}
                    <=> x \in G \/ (a \in V /\ x \in sig)
      <3>1. x \in UNION {TypeVarsIn(list[m].typeSig) : m \in {m \in W \cup {n} : list[m].typeVar \in V}}
              <=> \E m \in W \cup {n} : list[m].typeVar \in V /\ x \in TypeVarsIn(list[m].typeSig)
        OBVIOUS
      <3>2. x \in G <=> \E m \in W : list[m].typeVar \in V /\ x \in TypeVarsIn(list[m].typeSig)
        OBVIOUS
      <3> QED BY ONLY <3>1, <3>2
    <2> HIDE DEF B, G, a, sig
    <2> QED BY <1>7, <2>1, <2>2
  <1>11. a \in Moved(V, list, n - 1) <=> a \in V
    BY <1>5
  <1> HIDE DEF a, sig, G, B
  <1>12. Moved(V, list, n) = IF a \in Moved(V, list, n - 1) THEN (Moved(V, list, n - 1) \ {a}) \cup sig
                             ELSE Moved(V, list, n - 1)
    BY ONLY <1>8, <1>9, <1>10, <1>11
  <1> QED BY <1>12 DEF a, sig

\* SubstEach with a flat list moves the variables.
LEMMA SubstEachVars ==
    ASSUME NEW n \in 0 .. NTypeVars, NEW list \in Lists(n), Distinct(list), Flat(list),
           NEW t \in TermsOver(n)
    PROVE  /\ SubstEach(t, list) \in TermsOver(n)
           /\ TypeVarsIn(SubstEach(t, list)) = Moved(TypeVarsIn(t), list, Len(list))
  <1> DEFINE p == [n |-> n, t |-> t, list |-> list]
  <1>1. Len(list) \in Nat
    BY ListIs
  <1>2. SubstEachHolds(p, t, 0)
    BY DEF SubstEachHolds, Moved
  <1>3. ASSUME NEW m \in 1 .. Len(list), NEW sig, SubstEachHolds(p, sig, m - 1)
        PROVE  SubstEachHolds(p, SubstEachOp(p, sig, list[m]), m)
    <2> DEFINE V == TypeVarsIn(t)
    <2>1. sig \in TermsOver(n) /\ TypeVarsIn(sig) = Moved(V, list, m - 1)
      BY <1>3 DEF SubstEachHolds
    <2>2. list[m].typeSig \in TermsOver(n)
      BY ListIs
    <2>3. SubstTypeVar(list[m].typeVar, list[m].typeSig, sig) \in TermsOver(n)
      BY <2>1, <2>2, SubstTypeVarTerm
    <2>4. TypeVarsIn(SubstTypeVar(list[m].typeVar, list[m].typeSig, sig)) = Moved(V, list, m)
      <3> DEFINE a == list[m].typeVar  by == list[m].typeSig
      <3> HIDE DEF V
      <3>1. /\ a \in Moved(V, list, m - 1) => Moved(V, list, m) = (Moved(V, list, m - 1) \ {a}) \cup TypeVarsIn(by)
            /\ a \notin Moved(V, list, m - 1) => Moved(V, list, m) = Moved(V, list, m - 1)
        BY MovedStep
      <3> HIDE DEF a, by
      <3>2. /\ a \in TypeVarsIn(sig) => TypeVarsIn(SubstTypeVar(a, by, sig)) = (TypeVarsIn(sig) \ {a}) \cup TypeVarsIn(by)
            /\ a \notin TypeVarsIn(sig) => TypeVarsIn(SubstTypeVar(a, by, sig)) = TypeVarsIn(sig)
        BY SubstTypeVarVars
      <3>3. TypeVarsIn(SubstTypeVar(a, by, sig)) = Moved(V, list, m)
        BY ONLY <3>1, <3>2, <2>1
      <3> QED BY <3>3 DEF a, by
    <2> QED BY <2>3, <2>4 DEF SubstEachHolds, SubstEachOp
  <1> HIDE DEF p
  <1>4. SubstEachHolds(p, SubstEachFold!Folded(p, t, list), Len(list))
    BY <1>1, <1>2, <1>3, SubstEachFold!ThroughHolds
  <1>5. SubstEachFold!Folded(p, t, list) = SubstEach(t, list)
    BY DEF SubstEachFold!Folded, SubstEachFold!Through, Through, SubstEach, SubstEachOp
  <1> QED BY <1>4, <1>5 DEF SubstEachHolds, p

(***************************************************************************)
(* Scopes.                                                                 *)
(***************************************************************************)
NamedVars(n) == UNION {[D -> 1 .. n] : D \in SUBSET Names}
ScopeRecs(n) == [typeVars : SUBSET (1 .. n), named : NamedVars(n), assumed : SUBSET TermsOver(n)]
Chains(n) == Seq(ScopeRecs(n))

\* A variable is held by one scope.
HeldOnce(s) == \A k, m \in DOMAIN s : k # m => s[k].typeVars \cap s[m].typeVars = {}

\* What a scope has but for the variables it holds.
SameScopes(r, s) ==
    /\ Len(r) = Len(s)
    /\ \A m \in 1 .. Len(s) : r[m].named = s[m].named /\ r[m].assumed = s[m].assumed

\* What a chain of scopes is made of.
LEMMA ChainIs ==
    ASSUME NEW n, NEW s \in Chains(n)
    PROVE  /\ Len(s) \in Nat /\ DOMAIN s = 1 .. Len(s)
           /\ \A m \in 1 .. Len(s) :
                 /\ s[m] \in ScopeRecs(n)
                 /\ s[m] = [typeVars |-> s[m].typeVars, named |-> s[m].named, assumed |-> s[m].assumed]
                 /\ s[m].typeVars \subseteq 1 .. n /\ s[m].named \in NamedVars(n)
                 /\ s[m].assumed \subseteq TermsOver(n)
  <1>1. /\ Len(s) \in Nat /\ DOMAIN s = 1 .. Len(s)
        /\ \A m \in 1 .. Len(s) : s[m] \in ScopeRecs(n)
    BY DEF Chains
  <1>2. ASSUME NEW c \in ScopeRecs(n)
        PROVE  /\ c = [typeVars |-> c.typeVars, named |-> c.named, assumed |-> c.assumed]
               /\ c.typeVars \subseteq 1 .. n /\ c.named \in NamedVars(n)
               /\ c.assumed \subseteq TermsOver(n)
    BY DEF ScopeRecs
  <1> QED BY <1>1, <1>2

\* Other variables in the scopes of a chain.
LEMMA Retyped ==
    ASSUME NEW n, NEW s \in Chains(n), NEW f, DOMAIN f = 1 .. Len(s),
           \A m \in 1 .. Len(s) : f[m] \subseteq 1 .. n
    PROVE  LET r == [m \in 1 .. Len(s) |-> [s[m] EXCEPT !.typeVars = f[m]]]
           IN  /\ r \in Chains(n) /\ SameScopes(r, s)
               /\ \A m \in 1 .. Len(s) : r[m].typeVars = f[m]
  <1> DEFINE r == [m \in 1 .. Len(s) |-> [s[m] EXCEPT !.typeVars = f[m]]]
  <1>1. Len(s) \in Nat
    BY ChainIs
  <1>2. ASSUME NEW m \in 1 .. Len(s)
        PROVE  /\ r[m] \in ScopeRecs(n) /\ r[m].typeVars = f[m]
               /\ r[m].named = s[m].named /\ r[m].assumed = s[m].assumed
    <2>1. /\ s[m] = [typeVars |-> s[m].typeVars, named |-> s[m].named, assumed |-> s[m].assumed]
          /\ s[m].named \in NamedVars(n) /\ s[m].assumed \subseteq TermsOver(n)
      BY ChainIs
    <2>2. r[m] = [s[m] EXCEPT !.typeVars = f[m]]
      OBVIOUS
    <2>3. r[m] = [typeVars |-> f[m], named |-> s[m].named, assumed |-> s[m].assumed]
      BY ONLY <2>1, <2>2
    <2> QED BY ONLY <2>1, <2>3, f[m] \subseteq 1 .. n DEF ScopeRecs
  <1>3. r \in Chains(n) /\ Len(r) = Len(s)
    BY <1>1, <1>2 DEF Chains
  <1> QED BY <1>2, <1>3 DEF SameScopes

\* The variables of a chain with others in its scopes.
LEMMA VarsFromOf ==
    ASSUME NEW s, NEW k, NEW f, NEW n, Len(s) = n,
           \A m \in k .. n : s[m].typeVars = f[m]
    PROVE  VarsFrom(s, k) = UNION {f[m] : m \in k .. n}
  BY DEF VarsFrom

\* One substitution in the scopes.
LEMMA SubstInScopeIs ==
    ASSUME NEW n, NEW s \in Chains(n), HeldOnce(s), NEW subst \in Substs(n), NEW r, r = SubstInScope(s, subst)
    PROVE  /\ r \in Chains(n) /\ SameScopes(r, s) /\ HeldOnce(r)
           /\ \A k \in 1 .. Len(s) :
                 /\ subst.typeVar \in VarsFrom(s, k) =>
                       VarsFrom(r, k) = (VarsFrom(s, k) \ {subst.typeVar}) \cup TypeVarsIn(subst.typeSig)
                 /\ subst.typeVar \notin VarsFrom(s, k) => VarsFrom(r, k) = VarsFrom(s, k)
  <1> DEFINE a == subst.typeVar
             V == TypeVarsIn(subst.typeSig)
             L == Len(s)
             having == {k \in DOMAIN s : a \in s[k].typeVars}
             j == CHOOSE k \in having : \A m \in having : k <= m
  <1>1. /\ L \in Nat /\ DOMAIN s = 1 .. L
        /\ \A m \in 1 .. L : s[m].typeVars \subseteq 1 .. n
    BY ChainIs
  <1>2. V \subseteq 1 .. n
    BY DEF Substs, TermsOver
  <1>3. CASE having = {}
    <2>1. r = s
      BY <1>3 DEF SubstInScope
    <2>2. \A k \in 1 .. L : a \notin VarsFrom(s, k)
      BY <1>1, <1>3 DEF VarsFrom
    <2> QED BY <2>1, <2>2 DEF SameScopes
  <1>4. CASE having # {}
    <2>1. j \in 1 .. L /\ a \in s[j].typeVars
      <3>1. having \subseteq Nat
        BY <1>1
      <3>2. \E m \in having : \A i \in having : m <= i
        <4> HIDE DEF having
        <4> QED BY ONLY <1>4, <3>1, SubstEachFold!LeastNat
      <3>3. j \in having
        <4> HIDE DEF having
        <4> QED BY <3>2
      <3> QED BY <3>3, <1>1
    <2> DEFINE cut == RemoveTypeSig(s, j, subst.typeSig)
               here == [cut EXCEPT ![j].typeVars = @ \ {a}]
               rest == VarsFrom(here, j)
    <2>2. r = [here EXCEPT ![j].typeVars = @ \cup (V \ rest)]
      <3>1. r = IF having = {} THEN s ELSE AddTypeSig(here, j, subst.typeSig)
        BY ONLY r = SubstInScope(s, subst) DEF SubstInScope
      <3>2. r = AddTypeSig(here, j, subst.typeSig)
        BY ONLY <3>1, <1>4
      <3> HIDE DEF j, here
      <3> QED BY ONLY <3>2 DEF AddTypeSig
    <2>3. /\ DOMAIN cut = 1 .. L
          /\ \A m \in 1 .. L : cut[m] = IF m < j THEN [s[m] EXCEPT !.typeVars = @ \ V] ELSE s[m]
      BY <1>1 DEF RemoveTypeSig
    <2> HIDE DEF j, cut
    <2> DEFINE f == [m \in 1 .. L |-> IF m < j THEN s[m].typeVars \ V
                                      ELSE IF m = j THEN (s[j].typeVars \ {a}) \cup (V \ rest)
                                      ELSE s[m].typeVars]
               q == [m \in 1 .. L |-> [s[m] EXCEPT !.typeVars = f[m]]]
    <2>4. /\ DOMAIN here = 1 .. L /\ here[j] = [s[j] EXCEPT !.typeVars = s[j].typeVars \ {a}]
          /\ \A m \in 1 .. L : m # j => here[m] = cut[m]
      <3>1. cut[j] = s[j]
        BY <2>1, <2>3
      <3>2. here[j] = [cut[j] EXCEPT !.typeVars = cut[j].typeVars \ {a}]
        BY <2>1, <2>3
      <3> QED BY <3>1, <3>2, <2>1, <2>3
    <2>5. here[j].typeVars = s[j].typeVars \ {a}
      <3>1. s[j] = [typeVars |-> s[j].typeVars, named |-> s[j].named, assumed |-> s[j].assumed]
        BY <2>1, ChainIs
      <3> QED BY ONLY <3>1, <2>4
    <2> HIDE DEF here
    <2>6. DOMAIN r = 1 .. L /\ r = [m \in DOMAIN r |-> r[m]]
          /\ r[j] = [here[j] EXCEPT !.typeVars = here[j].typeVars \cup (V \ rest)]
          /\ \A m \in 1 .. L : m # j => r[m] = here[m]
      BY <2>1, <2>2, <2>4
    <2> HIDE DEF rest
    <2>7. f \in [1 .. L -> SUBSET (1 .. n)] /\ DOMAIN f = 1 .. L
      BY <1>1, <1>2, <2>1
    <2>8. q \in Chains(n) /\ SameScopes(q, s) /\ \A m \in 1 .. L : q[m].typeVars = f[m]
      <3> HIDE DEF f, L
      <3>1. \A m \in 1 .. L : f[m] \subseteq 1 .. n
        BY <2>7
      <3> QED BY <3>1, <2>7, Retyped DEF L
    <2>9. r = q
      <3>1. ASSUME NEW m \in 1 .. L PROVE r[m] = q[m]
        <4>1. s[m] = [typeVars |-> s[m].typeVars, named |-> s[m].named, assumed |-> s[m].assumed]
          BY ChainIs
        <4>2. q[m] = [s[m] EXCEPT !.typeVars = f[m]]
          OBVIOUS
        <4>3. CASE m < j
          <5>1. r[m] = [s[m] EXCEPT !.typeVars = s[m].typeVars \ V]
            BY <2>1, <2>3, <2>4, <2>6, <4>3
          <5>2. f[m] = s[m].typeVars \ V
            BY <4>3
          <5> QED BY ONLY <5>1, <5>2, <4>2
        <4>4. CASE m = j
          <5>1. f[m] = (s[m].typeVars \ {a}) \cup (V \ rest)
            BY <4>4, <2>1
          <5>2. r[m] = [here[m] EXCEPT !.typeVars = (s[m].typeVars \ {a}) \cup (V \ rest)]
            BY <4>4, <2>5, <2>6
          <5>3. here[m] = [s[m] EXCEPT !.typeVars = s[m].typeVars \ {a}]
            BY <4>4, <2>4
          <5> QED BY ONLY <5>1, <5>2, <5>3, <4>1, <4>2
        <4>5. CASE m > j
          <5>1. r[m] = s[m]
            BY <2>1, <2>3, <2>4, <2>6, <4>5
          <5>2. f[m] = s[m].typeVars
            BY <4>5, <2>1
          <5> QED BY ONLY <5>1, <5>2, <4>1, <4>2
        <4> QED BY <4>3, <4>4, <4>5, <2>1
      <3>2. DOMAIN q = 1 .. L /\ q = [m \in DOMAIN q |-> q[m]]
        OBVIOUS
      <3> HIDE DEF q
      <3> QED BY ONLY <3>1, <3>2, <2>6
    <2> HIDE DEF q
    <2>10. Len(r) = L /\ \A m \in 1 .. L : r[m].typeVars = f[m]
      BY <2>8, <2>9 DEF SameScopes
    <2>11. rest = (s[j].typeVars \ {a}) \cup VarsFrom(s, j + 1)
      <3> DEFINE g == [m \in 1 .. L |-> IF m = j THEN s[j].typeVars \ {a} ELSE s[m].typeVars]
      <3>1. ASSUME NEW m \in j .. L PROVE here[m].typeVars = g[m] /\ m \in 1 .. L
        <4>1. m \in 1 .. L /\ ~(m < j) /\ j \in 1 .. L
          BY <2>1, <1>1
        <4>2. CASE m = j
          BY <4>1, <4>2, <2>5
        <4>3. CASE m # j
          <5>1. here[m] = s[m]
            BY <4>1, <4>3, <2>3, <2>4
          <5> QED BY <4>1, <4>3, <5>1
        <4> QED BY <4>2, <4>3
      <3>2. Len(here) = L
        BY <2>4, <1>1
      <3>3. rest = UNION {g[m] : m \in j .. L}
        <4> HIDE DEF g, L
        <4> QED BY <3>1, <3>2, VarsFromOf DEF rest
      <3>4. j .. L = {j} \cup ((j + 1) .. L) /\ \A m \in (j + 1) .. L : m \in 1 .. L /\ m # j
        BY <2>1, <1>1
      <3>5. UNION {g[m] : m \in j .. L} = g[j] \cup UNION {g[m] : m \in (j + 1) .. L}
        <4> HIDE DEF g
        <4> QED BY <3>4
      <3>6. UNION {g[m] : m \in (j + 1) .. L} = VarsFrom(s, j + 1)
        BY <3>4 DEF VarsFrom
      <3>7. g[j] = s[j].typeVars \ {a}
        BY <2>1
      <3> QED BY <3>3, <3>5, <3>6, <3>7
    <2>12. /\ \A m \in 1 .. L : m # j => a \notin s[m].typeVars
           /\ \A k, m \in 1 .. L : k # m => s[k].typeVars \cap s[m].typeVars = {}
      BY <2>1, <1>1 DEF HeldOnce
    <2>13. ASSUME NEW x, NEW k \in 1 .. L
           PROVE  x \in VarsFrom(s, k) <=> \E m \in k .. L : x \in s[m].typeVars
      BY DEF VarsFrom
    <2>14. ASSUME NEW x, NEW k \in 1 .. L
           PROVE  x \in VarsFrom(r, k) <=> \E m \in k .. L : x \in f[m]
      <3> HIDE DEF f, L
      <3>1. \A m \in k .. L : r[m].typeVars = f[m]
        BY <2>10, <1>1
      <3> QED BY <3>1, <2>10 DEF VarsFrom
    <2>15. \A m \in 1 .. L :
              /\ m < j => f[m] = s[m].typeVars \ V
              /\ m = j => f[m] = (s[j].typeVars \ {a}) \cup (V \ rest)
              /\ m > j => f[m] = s[m].typeVars
      BY <2>1
    <2> HIDE DEF f, a, V, L
    <2>16. ASSUME NEW k \in 1 .. L, k <= j
           PROVE  a \in VarsFrom(s, k) /\ VarsFrom(r, k) = (VarsFrom(s, k) \ {a}) \cup V
      <3>1. j \in k .. L /\ k .. L \subseteq 1 .. L
        BY <2>1, <2>16, <1>1
      <3>2. a \in VarsFrom(s, k)
        BY <3>1, <2>1, <2>13
      <3>3. ASSUME NEW x \in VarsFrom(r, k) PROVE x \in (VarsFrom(s, k) \ {a}) \cup V
        <4>1. PICK m \in k .. L : x \in f[m]
          BY <2>14
        <4>2. m \in 1 .. L
          BY <3>1
        <4>3. m # j => f[m] \subseteq s[m].typeVars
          BY <4>2, <2>1, <2>15
        <4>4. CASE m # j
          BY <4>1, <4>2, <4>3, <4>4, <2>12, <2>13
        <4>5. CASE m = j
          <5>1. x \in s[j].typeVars \ {a} \/ x \in V
            BY <4>1, <4>5, <2>1, <2>15
          <5> QED BY <5>1, <3>1, <2>13
        <4> QED BY <4>4, <4>5
      <3>4. ASSUME NEW x \in V PROVE x \in VarsFrom(r, k)
        <4>1. CASE x \notin rest
          BY <4>1, <3>1, <3>4, <2>1, <2>14, <2>15
        <4>2. CASE x \in s[j].typeVars \ {a}
          BY <4>2, <3>1, <2>1, <2>14, <2>15
        <4>3. CASE x \in VarsFrom(s, j + 1)
          <5>1. PICK m \in (j + 1) .. L : x \in s[m].typeVars
            BY <4>3 DEF VarsFrom, L
          <5>2. m \in k .. L /\ m \in 1 .. L /\ m > j
            BY <2>1, <2>16, <1>1
          <5>3. x \in f[m]
            BY <5>1, <5>2, <2>15
          <5> QED BY <5>2, <5>3, <2>14
        <4> QED BY <4>1, <4>2, <4>3, <2>11
      <3>5. ASSUME NEW x \in VarsFrom(s, k), x # a, x \notin V PROVE x \in VarsFrom(r, k)
        <4>1. PICK m \in k .. L : x \in s[m].typeVars
          BY <2>13
        <4>2. m \in 1 .. L
          BY <3>1
        <4>3. x \in f[m]
          BY <4>1, <4>2, <3>5, <2>1, <2>15
        <4> QED BY <4>3, <2>14
      <3> QED BY <3>2, <3>3, <3>4, <3>5
    <2>17. ASSUME NEW k \in 1 .. L, k > j
           PROVE  a \notin VarsFrom(s, k) /\ VarsFrom(r, k) = VarsFrom(s, k)
      <3>1. \A m \in k .. L : m \in 1 .. L /\ m # j /\ m > j
        BY <2>1, <2>17, <1>1
      <3>2. a \notin VarsFrom(s, k)
        BY <3>1, <2>12, <2>13
      <3>3. \A m \in k .. L : f[m] = s[m].typeVars
        BY <3>1, <2>15
      <3>4. \A x : x \in VarsFrom(r, k) <=> x \in VarsFrom(s, k)
        BY <3>3, <2>13, <2>14
      <3> QED BY <3>2, <3>4
    <2>18. ASSUME NEW k \in 1 .. L, NEW m \in 1 .. L, k < m PROVE f[k] \cap f[m] = {}
      <3>1. k # m /\ s[k].typeVars \cap s[m].typeVars = {}
        BY <2>18, <2>12
      <3>2. CASE k < j
        <4>1. f[k] \subseteq s[k].typeVars /\ f[k] \cap V = {}
          BY <3>2, <2>15
        <4>2. f[m] \subseteq s[m].typeVars \cup V
          BY <2>1, <2>15
        <4> QED BY <4>1, <4>2, <3>1
      <3>3. CASE k = j
        <4>1. m > j /\ m \in (j + 1) .. L
          BY <3>3, <2>1, <2>18, <1>1
        <4>2. f[m] = s[m].typeVars
          BY <4>1, <2>15
        <4>3. s[m].typeVars \subseteq rest
          BY <4>1, <2>11 DEF VarsFrom, L
        <4>4. f[k] \subseteq s[k].typeVars \cup (V \ rest)
          BY <3>3, <2>15
        <4> QED BY <4>2, <4>3, <4>4, <3>1
      <3>4. CASE k > j
        <4>1. m > j
          BY <3>4, <2>1, <2>18
        <4> QED BY <4>1, <3>1, <3>4, <2>15
      <3> QED BY <3>2, <3>3, <3>4, <2>1
    <2>19. HeldOnce(r)
      <3>1. DOMAIN r = 1 .. L /\ \A m \in 1 .. L : r[m].typeVars = f[m]
        BY <2>6, <2>10
      <3>2. ASSUME NEW k \in 1 .. L, NEW m \in 1 .. L, k # m PROVE f[k] \cap f[m] = {}
        <4>1. k < m \/ m < k
          BY <3>2, <1>1
        <4> QED BY <4>1, <2>18
      <3> QED BY <3>1, <3>2 DEF HeldOnce
    <2>20. ASSUME NEW k \in 1 .. L
           PROVE  /\ a \in VarsFrom(s, k) => VarsFrom(r, k) = (VarsFrom(s, k) \ {a}) \cup V
                  /\ a \notin VarsFrom(s, k) => VarsFrom(r, k) = VarsFrom(s, k)
      BY <2>1, <2>16, <2>17
    <2> QED BY <2>8, <2>9, <2>19, <2>20 DEF a, V, L
  <1> QED BY <1>3, <1>4

SubstScopesOp(p, s, subst) == SubstInScope(s, subst)
SubstScopesHolds(p, r, n) ==
    /\ r \in Chains(p.n) /\ SameScopes(r, p.s) /\ HeldOnce(r)
    /\ \A k \in 1 .. Len(p.s) : VarsFrom(r, k) = Moved(VarsFrom(p.s, k), p.list, n)
SubstScopesFold == INSTANCE ThroughProofs WITH Op <- SubstScopesOp, Holds <- SubstScopesHolds

\* A flat list in the scopes moves the variables that each scope and those around it hold.
LEMMA SubstScopesIs ==
    ASSUME NEW n, NEW s \in Chains(n), HeldOnce(s), NEW list \in Lists(n), Distinct(list), Flat(list)
    PROVE  /\ SubstScopes(s, list) \in Chains(n)
           /\ SameScopes(SubstScopes(s, list), s) /\ HeldOnce(SubstScopes(s, list))
           /\ \A k \in 1 .. Len(s) : VarsFrom(SubstScopes(s, list), k) = Moved(VarsFrom(s, k), list, Len(list))
  <1> DEFINE p == [n |-> n, s |-> s, list |-> list]
  <1>1. Len(list) \in Nat
    BY ListIs
  <1>0. p.n = n /\ p.s = s /\ p.list = list
    OBVIOUS
  <1> HIDE DEF p
  <1>2. SubstScopesHolds(p, s, 0)
    BY <1>0 DEF SubstScopesHolds, Moved, SameScopes
  <1>3. ASSUME NEW m \in 1 .. Len(list), NEW r, SubstScopesHolds(p, r, m - 1)
        PROVE  SubstScopesHolds(p, SubstScopesOp(p, r, list[m]), m)
    <2> DEFINE q == SubstInScope(r, list[m])
               a == list[m].typeVar
               V == TypeVarsIn(list[m].typeSig)
    <2>1. /\ r \in Chains(n) /\ SameScopes(r, s) /\ HeldOnce(r)
          /\ \A k \in 1 .. Len(s) : VarsFrom(r, k) = Moved(VarsFrom(s, k), list, m - 1)
      BY <1>0, <1>3 DEF SubstScopesHolds
    <2>2. list[m] \in Substs(n)
      BY ListIs
    <2>3. /\ q \in Chains(n) /\ SameScopes(q, r) /\ HeldOnce(q)
          /\ \A k \in 1 .. Len(r) :
                /\ a \in VarsFrom(r, k) => VarsFrom(q, k) = (VarsFrom(r, k) \ {a}) \cup V
                /\ a \notin VarsFrom(r, k) => VarsFrom(q, k) = VarsFrom(r, k)
      <3> HIDE DEF q
      <3>1. q = SubstInScope(r, list[m])
        BY DEF q
      <3> QED BY ONLY <3>1, <2>1, <2>2, SubstInScopeIs
    <2> HIDE DEF q, a, V
    <2>4. ASSUME NEW k \in 1 .. Len(s) PROVE VarsFrom(q, k) = Moved(VarsFrom(s, k), list, m)
      <3> DEFINE W == VarsFrom(s, k)
      <3> HIDE DEF W
      <3>1. /\ a \in Moved(W, list, m - 1) => Moved(W, list, m) = (Moved(W, list, m - 1) \ {a}) \cup V
            /\ a \notin Moved(W, list, m - 1) => Moved(W, list, m) = Moved(W, list, m - 1)
        BY MovedStep DEF a, V
      <3>2. VarsFrom(r, k) = Moved(W, list, m - 1) /\ k \in 1 .. Len(r)
        BY <2>1 DEF W, SameScopes
      <3>3. VarsFrom(q, k) = Moved(W, list, m)
        BY ONLY <3>1, <3>2, <2>3
      <3> QED BY <3>3 DEF W
    <2>5. SameScopes(q, s)
      BY <2>1, <2>3 DEF SameScopes
    <2> QED BY <1>0, <2>3, <2>4, <2>5 DEF SubstScopesHolds, SubstScopesOp, q
  <1>4. SubstScopesHolds(p, SubstScopesFold!Folded(p, s, list), Len(list))
    BY <1>1, <1>2, <1>3, SubstScopesFold!ThroughHolds
  <1>5. SubstScopesFold!Folded(p, s, list) = SubstScopes(s, list)
    BY DEF SubstScopesFold!Folded, SubstScopesFold!Through, Through, SubstScopes, SubstScopesOp
  <1> QED BY <1>4, <1>5, <1>0 DEF SubstScopesHolds

(***************************************************************************)
(* The set of substitutions found so far.                                  *)
(***************************************************************************)
\* What occurs in an entry is in the index of references.
Indexed(list, rs) ==
    \A m \in DOMAIN list : \A a \in TypeVarsIn(list[m].typeSig) : <<a, list[m].typeVar>> \in rs

\* A list does not speak of the variables that another binds.
Avoids(list, bound) ==
    \A m \in DOMAIN list : /\ list[m].typeVar \notin bound
                           /\ TypeVarsIn(list[m].typeSig) \cap bound = {}

Solved == Distinct(index) /\ Flat(index) /\ Indexed(index, refs)

\* The entries that were there, with the list in them.
Updated(substs) ==
    [n \in DOMAIN index |-> IF index[n].typeVar \in PendingEntries(substs)
                            THEN [index[n] EXCEPT !.typeSig = SubstEach(@, substs)]
                            ELSE index[n]]

\* Where the list binds none of the variables, nothing moves.
LEMMA NothingMoves ==
    ASSUME NEW k, NEW list \in Lists(k), NEW V, V \cap BoundBy(list) = {}
    PROVE  Moved(V, list, Len(list)) = V
  <1>1. BoundBy(list) = {list[m].typeVar : m \in 1 .. Len(list)}
    BY ListIs
  <1> QED BY <1>1 DEF Moved

\* The entries brought up to date bind what they bound, and hold what comes of what they held.
LEMMA UpdatedIs ==
    ASSUME NEW n \in 0 .. NTypeVars, index \in Lists(n), Indexed(index, refs),
           NEW list \in Lists(n), Distinct(list), Flat(list)
    PROVE  /\ Updated(list) \in Lists(n) /\ Len(Updated(list)) = Len(index)
           /\ \A m \in 1 .. Len(index) :
                 /\ Updated(list)[m].typeVar = index[m].typeVar
                 /\ TypeVarsIn(Updated(list)[m].typeSig) =
                       Moved(TypeVarsIn(index[m].typeSig), list, Len(list))
                 /\ index[m].typeVar \notin PendingEntries(list) => Updated(list)[m] = index[m]
  <1> DEFINE U == Updated(list)
             L == Len(index)
  <1>1. /\ L \in Nat /\ DOMAIN index = 1 .. L
    BY ListIs
  <1>2. DOMAIN U = 1 .. L
    BY <1>1 DEF Updated
  <1>3. ASSUME NEW m \in 1 .. L
        PROVE  /\ U[m] \in Substs(n) /\ U[m].typeVar = index[m].typeVar
               /\ TypeVarsIn(U[m].typeSig) = Moved(TypeVarsIn(index[m].typeSig), list, Len(list))
               /\ index[m].typeVar \notin PendingEntries(list) => U[m] = index[m]
    <2> DEFINE a == index[m].typeVar  t == index[m].typeSig
    <2>1. index[m] \in Substs(n) /\ index[m] = [typeVar |-> a, typeSig |-> t] /\ a \in 1 .. n /\ t \in TermsOver(n)
      BY ListIs DEF Subst
    <2>2. CASE a \in PendingEntries(list)
      <3>1. U[m] = [index[m] EXCEPT !.typeSig = SubstEach(t, list)]
        BY <1>1, <2>2 DEF Updated
      <3>2. U[m] = [typeVar |-> a, typeSig |-> SubstEach(t, list)]
        BY ONLY <2>1, <3>1
      <3>3. /\ SubstEach(t, list) \in TermsOver(n)
            /\ TypeVarsIn(SubstEach(t, list)) = Moved(TypeVarsIn(t), list, Len(list))
        BY <2>1, SubstEachVars
      <3> QED BY ONLY <3>2, <3>3, <2>1, <2>2 DEF Substs
    <2>3. CASE a \notin PendingEntries(list)
      <3>1. U[m] = index[m]
        BY <1>1, <2>3 DEF Updated
      <3>2. TypeVarsIn(t) \cap BoundBy(list) = {}
        <4> SUFFICES ASSUME NEW x \in TypeVarsIn(t), x \in BoundBy(list) PROVE FALSE
          OBVIOUS
        <4>1. <<x, a>> \in refs
          BY <1>1 DEF Indexed
        <4>2. <<x, a>>[1] = x /\ <<x, a>>[2] = a
          OBVIOUS
        <4>3. <<x, a>> \in Pending(list)
          BY <4>1, <4>2 DEF Pending, Substituted
        <4> QED BY <4>2, <4>3, <2>3 DEF PendingEntries
      <3> QED BY <3>1, <3>2, <2>1, NothingMoves
    <2> QED BY <2>2, <2>3
  <1> HIDE DEF U
  <1>4. U \in Lists(n) /\ Len(U) = L
    <2>1. U = [m \in 1 .. L |-> U[m]]
      BY <1>1 DEF U, Updated
    <2> QED BY <2>1, <1>1, <1>2, <1>3 DEF Lists
  <1> QED BY <1>3, <1>4 DEF U

\* The new set: the entries of the list, last first, before those that were there.
Newest(list, U) == Reverse(list) \o U

\* What the new set is made of.
LEMMA NewIndexIs ==
    ASSUME NEW n, NEW list \in Lists(n), NEW U \in Lists(n)
    PROVE  /\ Newest(list, U) \in Lists(n) /\ Len(Newest(list, U)) = Len(list) + Len(U)
           /\ \A m \in 1 .. Len(Newest(list, U)) :
                 \/ \E i \in 1 .. Len(list) : m = Len(list) - i + 1 /\ Newest(list, U)[m] = list[i]
                 \/ \E i \in 1 .. Len(U) : m = Len(list) + i /\ Newest(list, U)[m] = U[i]
           /\ \A i \in 1 .. Len(list) : \E m \in 1 .. Len(Newest(list, U)) : Newest(list, U)[m] = list[i]
           /\ \A i \in 1 .. Len(U) : \E m \in 1 .. Len(Newest(list, U)) : Newest(list, U)[m] = U[i]
           /\ BoundBy(Newest(list, U)) = BoundBy(list) \cup BoundBy(U)
  <1> DEFINE new == Newest(list, U)
  <1> DEFINE L == Len(list)  M == Len(U)  R == Reverse(list)
  <1>1. /\ L \in Nat /\ M \in Nat /\ list \in Seq(Substs(n)) /\ U \in Seq(Substs(n))
        /\ \A m \in 1 .. L : list[m] \in Substs(n)
    BY ListIs DEF Lists
  <1>2. R = [i \in 1 .. L |-> list[(L - i) + 1]]
    BY DEF Reverse
  <1>3. \A i \in 1 .. L : (L - i) + 1 \in 1 .. L
    BY <1>1
  <1>4. R \in Seq(Substs(n)) /\ Len(R) = L /\ \A i \in 1 .. L : R[i] = list[(L - i) + 1]
    BY <1>1, <1>2, <1>3
  <1> HIDE DEF R, L, M, new
  <1>5. /\ new \in Seq(Substs(n)) /\ Len(new) = L + M
        /\ \A m \in 1 .. L : new[m] = R[m]
        /\ \A m \in 1 .. M : new[L + m] = U[m]
    <2>1. new = R \o U /\ Len(U) = M
      BY DEF R, M, Newest, new
    <2>2. /\ R \o U \in Seq(Substs(n)) /\ DOMAIN (R \o U) = 1 .. (L + M)
          /\ \A m \in 1 .. L : (R \o U)[m] = R[m]
          /\ \A m \in 1 .. M : (R \o U)[L + m] = U[m]
      <3>1. R \in Seq(Substs(n)) /\ U \in Seq(Substs(n))
        BY <1>1, <1>4
      <3>2. /\ R \o U \in Seq(Substs(n)) /\ DOMAIN (R \o U) = 1 .. (Len(R) + Len(U))
            /\ \A m \in 1 .. Len(R) : (R \o U)[m] = R[m]
            /\ \A m \in 1 .. Len(U) : (R \o U)[Len(R) + m] = U[m]
        BY ONLY <3>1, ConcatAt
      <3>3. Len(R) = L /\ Len(U) = M
        BY <1>4, <2>1
      <3> QED BY ONLY <3>2, <3>3
    <2>3. Len(new) = L + M
      BY ONLY <2>1, <2>2, <1>1
    <2> QED BY ONLY <2>1, <2>2, <2>3
  <1>6. ASSUME NEW m \in 1 .. (L + M)
        PROVE  \/ \E i \in 1 .. L : m = L - i + 1 /\ new[m] = list[i]
               \/ \E i \in 1 .. M : m = L + i /\ new[m] = U[i]
    <2>0. m <= L \/ m > L
      BY <1>1
    <2>1. CASE m <= L
      <3>1. m \in 1 .. L /\ (L - m) + 1 \in 1 .. L /\ m = L - ((L - m) + 1) + 1
        BY <2>1, <1>1
      <3> QED BY <3>1, <1>4, <1>5
    <2>2. CASE m > L
      <3>1. m - L \in 1 .. M /\ m = L + (m - L)
        BY <2>2, <1>1
      <3> QED BY <3>1, <1>5
    <2> QED BY ONLY <2>0, <2>1, <2>2
  <1>7. ASSUME NEW i \in 1 .. L PROVE \E m \in 1 .. (L + M) : new[m] = list[i]
    <2>1. (L - i) + 1 \in 1 .. L /\ (L - i) + 1 \in 1 .. (L + M) /\ (L - ((L - i) + 1)) + 1 = i
      BY <1>1
    <2> QED BY <2>1, <1>4, <1>5
  <1>8. ASSUME NEW i \in 1 .. M PROVE \E m \in 1 .. (L + M) : new[m] = U[i]
    <2>1. L + i \in 1 .. (L + M)
      BY <1>1
    <2> QED BY <2>1, <1>5
  <1>9. new \in Lists(n)
    BY <1>5 DEF Lists
  <1>10. BoundBy(new) = BoundBy(list) \cup BoundBy(U)
    <2>1. /\ BoundBy(new) = {new[m].typeVar : m \in 1 .. (L + M)}
          /\ BoundBy(list) = {list[m].typeVar : m \in 1 .. L}
          /\ BoundBy(U) = {U[m].typeVar : m \in 1 .. M}
      <3>1. BoundBy(list) = {list[m].typeVar : m \in 1 .. L}
        BY ListIs DEF L
      <3>2. BoundBy(U) = {U[m].typeVar : m \in 1 .. M}
        BY ListIs DEF M
      <3>3. BoundBy(new) = {new[m].typeVar : m \in 1 .. Len(new)}
        BY ONLY <1>9, ListIs
      <3> QED BY <3>1, <3>2, <3>3, <1>5
    <2>2. ASSUME NEW x \in BoundBy(new) PROVE x \in BoundBy(list) \cup BoundBy(U)
      <3>1. PICK m \in 1 .. (L + M) : x = new[m].typeVar
        BY <2>1
      <3>2. (\E i \in 1 .. L : new[m] = list[i]) \/ (\E i \in 1 .. M : new[m] = U[i])
        BY <1>6
      <3> QED BY <3>1, <3>2, <2>1
    <2>3. ASSUME NEW x \in BoundBy(list) \cup BoundBy(U) PROVE x \in BoundBy(new)
      BY <2>1, <1>7, <1>8
    <2> QED BY <2>2, <2>3
  <1> QED BY <1>5, <1>6, <1>7, <1>8, <1>9, <1>10 DEF L, M, new

\* ApplySubsts: what was known is brought up to date, and the list is known from now on.
LEMMA AppliedIndex ==
    ASSUME NEW n \in 0 .. NTypeVars, index \in Lists(n), Solved,
           refs \subseteq (1 .. n) \X (1 .. n),
           NEW list \in Lists(n), Distinct(list), Flat(list), Avoids(list, BoundBy(index)),
           ApplySubsts(list)
    PROVE  /\ index' \in Lists(n) /\ Solved' /\ refs' \subseteq (1 .. n) \X (1 .. n)
           /\ BoundBy(index') = BoundBy(list) \cup BoundBy(index)
           /\ \A V : Moved(V, index', Len(index')) = Moved(Moved(V, index, Len(index)), list, Len(list))
           /\ scopes' = SubstScopes(scopes, list)
           /\ index' = Reverse(list) \o Updated(list)
  <1> DEFINE U == Updated(list)
             new == Newest(list, U)
             L == Len(list)  M == Len(index)
  <1>0. Distinct(index) /\ Flat(index) /\ Indexed(index, refs)
    BY DEF Solved
  <1>1. index' = new /\ refs' = RefsAfter(new, list) /\ scopes' = SubstScopes(scopes, list)
    BY DEF ApplySubsts, Updated, Newest
  <1>2. /\ U \in Lists(n) /\ Len(U) = M
        /\ \A m \in 1 .. M :
              /\ U[m].typeVar = index[m].typeVar
              /\ TypeVarsIn(U[m].typeSig) = Moved(TypeVarsIn(index[m].typeSig), list, L)
              /\ index[m].typeVar \notin PendingEntries(list) => U[m] = index[m]
    BY <1>0, UpdatedIs
  <1> HIDE DEF U
  <1>3. /\ new \in Lists(n) /\ Len(new) = L + M
        /\ \A m \in 1 .. Len(new) : \/ \E i \in 1 .. L : m = L - i + 1 /\ new[m] = list[i]
                                    \/ \E i \in 1 .. M : m = L + i /\ new[m] = U[i]
        /\ \A i \in 1 .. L : \E m \in 1 .. Len(new) : new[m] = list[i]
        /\ \A i \in 1 .. M : \E m \in 1 .. Len(new) : new[m] = U[i]
        /\ BoundBy(new) = BoundBy(list) \cup BoundBy(U)
    <2>1. /\ new \in Lists(n) /\ Len(new) = L + Len(U)
          /\ \A m \in 1 .. Len(new) : \/ \E i \in 1 .. L : m = L - i + 1 /\ new[m] = list[i]
                                      \/ \E i \in 1 .. Len(U) : m = L + i /\ new[m] = U[i]
          /\ \A i \in 1 .. L : \E m \in 1 .. Len(new) : new[m] = list[i]
          /\ \A i \in 1 .. Len(U) : \E m \in 1 .. Len(new) : new[m] = U[i]
          /\ BoundBy(new) = BoundBy(list) \cup BoundBy(U)
      <3>1. U \in Lists(n) /\ list \in Lists(n)
        BY <1>2
      <3> QED BY ONLY <3>1, NewIndexIs, Zenon
    <2> HIDE DEF new, L, M
    <2> QED BY ONLY <2>1, <1>2
  <1> HIDE DEF new
  <1>4. /\ L \in Nat /\ M \in Nat /\ DOMAIN list = 1 .. L /\ DOMAIN index = 1 .. M
        /\ DOMAIN new = 1 .. Len(new) /\ Len(new) \in Nat
        /\ BoundBy(list) = {list[m].typeVar : m \in 1 .. L}
        /\ BoundBy(index) = {index[m].typeVar : m \in 1 .. M}
        /\ BoundBy(U) = {U[m].typeVar : m \in 1 .. M}
        /\ BoundBy(new) = {new[m].typeVar : m \in 1 .. Len(new)}
    <2>1. /\ L \in Nat /\ DOMAIN list = 1 .. L /\ BoundBy(list) = {list[m].typeVar : m \in 1 .. L}
      BY ListIs
    <2>2. /\ M \in Nat /\ DOMAIN index = 1 .. M /\ BoundBy(index) = {index[m].typeVar : m \in 1 .. M}
      BY ListIs
    <2>3. BoundBy(U) = {U[m].typeVar : m \in 1 .. Len(U)}
      BY ONLY <1>2, ListIs
    <2>4. /\ DOMAIN new = 1 .. Len(new) /\ Len(new) \in Nat /\ BoundBy(new) = {new[m].typeVar : m \in 1 .. Len(new)}
      BY ONLY <1>3, ListIs
    <2> QED BY <2>1, <2>2, <2>3, <2>4, <1>2
  <1> DEFINE BL == BoundBy(list)  BI == BoundBy(index)
             Lv(i) == TypeVarsIn(list[i].typeSig)  Iv(i) == TypeVarsIn(index[i].typeSig)
             Uv(i) == TypeVarsIn(U[i].typeSig)
  <1>5. BoundBy(U) = BI /\ BoundBy(new) = BL \cup BI
    <2>1. {U[m].typeVar : m \in 1 .. M} = {index[m].typeVar : m \in 1 .. M}
      <3> HIDE DEF M
      <3> QED BY <1>2
    <2> QED BY <1>3, <1>4, <2>1
  <1>6. /\ \A i \in 1 .. L : /\ list[i].typeVar \in BL /\ list[i].typeVar \notin BI
                             /\ Lv(i) \cap BL = {} /\ Lv(i) \cap BI = {}
        /\ \A i \in 1 .. M : index[i].typeVar \in BI /\ Iv(i) \cap BI = {} /\ index[i].typeVar \notin BL
    BY <1>0, <1>4 DEF Flat, Avoids
  <1>7. /\ \A i \in 1 .. M : \A x : x \in Uv(i) <=>
              (x \in Iv(i) /\ x \notin BL) \/ \E m \in 1 .. L : list[m].typeVar \in Iv(i) /\ x \in Lv(m)
    <2>1. \A W, x : x \in Moved(W, list, L) <=> \/ x \in W /\ x \notin BL
                                                \/ \E m \in 1 .. L : list[m].typeVar \in W /\ x \in Lv(m)
      BY <1>4 DEF Moved
    <2>2. \A i \in 1 .. M : Uv(i) = Moved(Iv(i), list, L)
      BY <1>2
    <2> HIDE DEF Uv, Iv, Lv, BL
    <2> QED BY <2>1, <2>2
  <1> HIDE DEF L, M
  <1>8. Distinct(new)
    <2> SUFFICES ASSUME NEW k \in 1 .. Len(new), NEW m \in 1 .. Len(new), new[k].typeVar = new[m].typeVar
                 PROVE  k = m
      BY <1>4 DEF Distinct
    <2>1. /\ \A i, j \in 1 .. L : list[i].typeVar = list[j].typeVar => i = j
          /\ \A i, j \in 1 .. M : U[i].typeVar = U[j].typeVar => i = j
          /\ \A i \in 1 .. L, j \in 1 .. M : list[i].typeVar # U[j].typeVar
      <3>1. \A i, j \in 1 .. L : list[i].typeVar = list[j].typeVar => i = j
        BY <1>4 DEF Distinct
      <3>2. \A i, j \in 1 .. M : index[i].typeVar = index[j].typeVar => i = j
        BY <1>0, <1>4 DEF Distinct
      <3>3. \A j \in 1 .. M : U[j].typeVar = index[j].typeVar
        BY <1>2
      <3>4. \A i \in 1 .. L, j \in 1 .. M : list[i].typeVar # index[j].typeVar
        BY <1>6
      <3> QED BY <3>1, <3>2, <3>3, <3>4
    <2>2. \/ \E i \in 1 .. L : k = L - i + 1 /\ new[k] = list[i]
          \/ \E i \in 1 .. M : k = L + i /\ new[k] = U[i]
      BY <1>3
    <2>3. \/ \E i \in 1 .. L : m = L - i + 1 /\ new[m] = list[i]
          \/ \E i \in 1 .. M : m = L + i /\ new[m] = U[i]
      BY <1>3
    <2> QED BY <2>1, <2>2, <2>3
  <1>9. ASSUME NEW m \in 1 .. Len(new)
        PROVE  /\ TypeVarsIn(new[m].typeSig) \cap (BL \cup BI) = {}
    <2> SUFFICES ASSUME NEW x \in TypeVarsIn(new[m].typeSig) PROVE x \notin BL /\ x \notin BI
      OBVIOUS
    <2>1. CASE \E i \in 1 .. L : new[m] = list[i]
      BY <2>1, <1>6
    <2>2. CASE \E i \in 1 .. M : new[m] = U[i]
      <3>1. PICK i \in 1 .. M : new[m] = U[i]
        BY <2>2
      <3>2. x \in Uv(i)
        BY <3>1
      <3>3. (x \in Iv(i) /\ x \notin BL) \/ \E k \in 1 .. L : x \in Lv(k)
        BY <3>2, <1>7
      <3> QED BY <3>3, <1>6
    <2> QED BY <2>1, <2>2, <1>3
  <1>10. Flat(new)
    BY <1>4, <1>5, <1>9 DEF Flat
  <1>11. Indexed(new, RefsAfter(new, list)) /\ RefsAfter(new, list) \subseteq (1 .. n) \X (1 .. n)
    <2> DEFINE late == {s \in ToSet(new) : s.typeVar \in PendingEntries(list)}
               R == RefsAfter(new, list)
    <2>1. R = (refs \ Pending(list)) \cup References(ToSet(list)) \cup References(late)
      BY DEF RefsAfter
    <2>2. ToSet(list) = {list[i] : i \in 1 .. L} /\ ToSet(new) = {new[i] : i \in 1 .. Len(new)}
      BY <1>4 DEF ToSet
    <2>3. ASSUME NEW S, NEW s \in S, NEW a \in TypeVarsIn(s.typeSig) PROVE <<a, s.typeVar>> \in References(S)
      BY DEF References
    <2> HIDE DEF R, late
    <2>4. ASSUME NEW m \in 1 .. Len(new), NEW a \in TypeVarsIn(new[m].typeSig)
          PROVE  <<a, new[m].typeVar>> \in R
      <3>1. CASE \E i \in 1 .. L : new[m] = list[i]
        BY <3>1, <2>1, <2>2, <2>3
      <3>2. CASE \E i \in 1 .. M : new[m] = U[i]
        <4>1. PICK i \in 1 .. M : new[m] = U[i]
          BY <3>2
        <4>2. new[m].typeVar = index[i].typeVar
          BY <4>1, <1>2
        <4>3. CASE index[i].typeVar \in PendingEntries(list)
          <5>1. new[m] \in late
            BY <4>2, <4>3, <2>2 DEF late
          <5> QED BY <5>1, <2>1, <2>3
        <4>4. CASE index[i].typeVar \notin PendingEntries(list)
          <5>1. U[i] = index[i]
            BY <4>4, <1>2
          <5>2. <<a, new[m].typeVar>> \in refs
            BY <4>1, <5>1, <1>0, <1>4 DEF Indexed
          <5>3. <<a, new[m].typeVar>> \notin Pending(list)
            <6>1. <<a, new[m].typeVar>>[2] = index[i].typeVar
              BY <4>2
            <6> QED BY <6>1, <4>4 DEF PendingEntries
          <5> QED BY <5>2, <5>3, <2>1
        <4> QED BY <4>3, <4>4
      <3> QED BY <3>1, <3>2, <1>3
    <2>5. ASSUME NEW S, \A s \in S : s \in Substs(n) PROVE References(S) \subseteq (1 .. n) \X (1 .. n)
      <3>1. \A s \in S : s.typeVar \in 1 .. n /\ TypeVarsIn(s.typeSig) \subseteq 1 .. n
        BY <2>5 DEF Substs, TermsOver
      <3> QED BY <3>1 DEF References
    <2>6. /\ \A s \in ToSet(list) : s \in Substs(n)
          /\ \A s \in late : s \in Substs(n)
      <3>1. \A i \in 1 .. L : list[i] \in Substs(n)
        BY ListIs DEF L
      <3>2. \A i \in 1 .. Len(new) : new[i] \in Substs(n)
        BY ONLY <1>3, ListIs
      <3> QED BY <3>1, <3>2, <2>2 DEF late
    <2>7. R \subseteq (1 .. n) \X (1 .. n)
      BY <2>1, <2>5, <2>6
    <2> QED BY <2>4, <2>7, <1>4 DEF Indexed, R
  <1>12. ASSUME NEW V PROVE Moved(V, new, Len(new)) = Moved(Moved(V, index, M), list, L)
    <2>1. ASSUME NEW x
          PROVE  x \in Moved(V, index, M) <=> \/ x \in V /\ x \notin BI
                                              \/ \E i \in 1 .. M : index[i].typeVar \in V /\ x \in Iv(i)
      BY <1>4 DEF Moved
    <2>2. ASSUME NEW W, NEW x
          PROVE  x \in Moved(W, list, L) <=> \/ x \in W /\ x \notin BL
                                             \/ \E i \in 1 .. L : list[i].typeVar \in W /\ x \in Lv(i)
      BY <1>4 DEF Moved
    <2>3. ASSUME NEW x
          PROVE  x \in Moved(V, new, Len(new)) <=>
                    \/ x \in V /\ x \notin BL /\ x \notin BI
                    \/ \E i \in 1 .. L : list[i].typeVar \in V /\ x \in Lv(i)
                    \/ \E i \in 1 .. M : index[i].typeVar \in V /\ x \in Uv(i)
      <3>1. x \in Moved(V, new, Len(new)) <=>
              \/ x \in V /\ x \notin BoundBy(new)
              \/ \E m \in 1 .. Len(new) : new[m].typeVar \in V /\ x \in TypeVarsIn(new[m].typeSig)
        BY <1>4 DEF Moved
      <3>2. (\E m \in 1 .. Len(new) : new[m].typeVar \in V /\ x \in TypeVarsIn(new[m].typeSig)) <=>
              \/ \E i \in 1 .. L : list[i].typeVar \in V /\ x \in Lv(i)
              \/ \E i \in 1 .. M : U[i].typeVar \in V /\ x \in Uv(i)
        BY <1>3
      <3> QED BY <3>1, <3>2, <1>2, <1>5
    <2> HIDE DEF Lv, Iv, Uv, BL, BI
    <2>4. ASSUME NEW x \in Moved(V, new, Len(new)) PROVE x \in Moved(Moved(V, index, M), list, L)
      <3>1. CASE x \in V /\ x \notin BL /\ x \notin BI
        BY <3>1, <2>1, <2>2
      <3>2. CASE \E i \in 1 .. L : list[i].typeVar \in V /\ x \in Lv(i)
        BY <3>2, <2>1, <2>2, <1>6
      <3>3. CASE \E i \in 1 .. M : index[i].typeVar \in V /\ x \in Uv(i)
        <4>1. PICK i \in 1 .. M : index[i].typeVar \in V /\ x \in Uv(i)
          BY <3>3
        <4>2. Iv(i) \subseteq Moved(V, index, M)
          BY <4>1, <2>1
        <4>3. CASE x \in Iv(i) /\ x \notin BL
          BY <4>2, <4>3, <2>2
        <4>4. CASE \E m \in 1 .. L : list[m].typeVar \in Iv(i) /\ x \in Lv(m)
          BY <4>2, <4>4, <2>2
        <4> QED BY <4>1, <4>3, <4>4, <1>7
      <3> QED BY <3>1, <3>2, <3>3, <2>3
    <2>5. ASSUME NEW x \in Moved(Moved(V, index, M), list, L) PROVE x \in Moved(V, new, Len(new))
      <3>1. CASE x \in Moved(V, index, M) /\ x \notin BL
        <4>1. CASE x \in V /\ x \notin BI
          BY <3>1, <4>1, <2>3
        <4>2. CASE \E i \in 1 .. M : index[i].typeVar \in V /\ x \in Iv(i)
          BY <3>1, <4>2, <2>3, <1>7
        <4> QED BY <3>1, <4>1, <4>2, <2>1
      <3>2. CASE \E m \in 1 .. L : list[m].typeVar \in Moved(V, index, M) /\ x \in Lv(m)
        <4>1. PICK m \in 1 .. L : list[m].typeVar \in Moved(V, index, M) /\ x \in Lv(m)
          BY <3>2
        <4>2. CASE list[m].typeVar \in V
          BY <4>1, <4>2, <2>3
        <4>3. CASE \E i \in 1 .. M : index[i].typeVar \in V /\ list[m].typeVar \in Iv(i)
          BY <4>1, <4>3, <2>3, <1>7
        <4> QED BY <4>1, <4>2, <4>3, <2>1
      <3> QED BY <3>1, <3>2, <2>2
    <2> QED BY <2>4, <2>5
  <1>13. Solved'
    BY <1>1, <1>8, <1>10, <1>11 DEF Solved
  <1>14. index' \in Lists(n) /\ BoundBy(index') = BL \cup BI
    BY <1>1, <1>3, <1>5
  <1>15. \A V : Moved(V, index', Len(index')) = Moved(Moved(V, index, Len(index)), list, Len(list))
    BY <1>1, <1>12 DEF L, M
  <1> QED BY <1>1, <1>11, <1>13, <1>14, <1>15 DEF new, U, Newest

(***************************************************************************)
(* Nested substitutions.                                                   *)
(***************************************************************************)
\* A list with one entry more.
OneMore(n, new, list, s) ==
    /\ new \in Lists(n) /\ Len(new) = Len(list) + 1
    /\ BoundBy(new) = BoundBy(list) \cup {s.typeVar}
    /\ \A m \in 1 .. Len(new) : new[m] = s \/ \E i \in 1 .. Len(list) : new[m] = list[i]
    /\ Distinct(list) /\ s.typeVar \notin BoundBy(list) => Distinct(new)

\* An entry at the end.
LEMMA AppendOne ==
    ASSUME NEW n, NEW list \in Lists(n), NEW s \in Substs(n)
    PROVE  OneMore(n, Append(list, s), list, s)
  <1> DEFINE new == Append(list, s)  L == Len(list)
  <1>1. /\ L \in Nat /\ list \in Seq(Substs(n)) /\ DOMAIN list = 1 .. L
        /\ BoundBy(list) = {list[m].typeVar : m \in 1 .. L}
    BY ListIs DEF Lists
  <1>2. /\ new \in Seq(Substs(n)) /\ Len(new) = L + 1 /\ DOMAIN new = 1 .. (L + 1)
        /\ new[L + 1] = s /\ \A m \in 1 .. L : new[m] = list[m]
    BY <1>1
  <1> HIDE DEF new, L
  <1>3. ASSUME NEW m \in 1 .. (L + 1) PROVE (m = L + 1 /\ new[m] = s) \/ (m \in 1 .. L /\ new[m] = list[m])
    BY <1>1, <1>2
  <1>4. BoundBy(new) = BoundBy(list) \cup {s.typeVar}
    <2>1. BoundBy(new) = {new[m].typeVar : m \in 1 .. (L + 1)}
      BY <1>2 DEF BoundBy
    <2>2. L + 1 \in 1 .. (L + 1) /\ \A m \in 1 .. L : m \in 1 .. (L + 1)
      BY <1>1
    <2>3. BoundBy(new) \subseteq BoundBy(list) \cup {s.typeVar}
      BY <2>1, <1>1, <1>3
    <2>4. BoundBy(list) \cup {s.typeVar} \subseteq BoundBy(new)
      BY <2>1, <2>2, <1>1, <1>2
    <2> QED BY <2>3, <2>4
  <1>5. ASSUME Distinct(list), s.typeVar \notin BoundBy(list) PROVE Distinct(new)
    <2> SUFFICES ASSUME NEW m \in 1 .. (L + 1), NEW k \in 1 .. (L + 1), new[m].typeVar = new[k].typeVar PROVE m = k
      BY <1>2 DEF Distinct
    <2>1. \A i, j \in 1 .. L : list[i].typeVar = list[j].typeVar => i = j
      BY <1>1, <1>5 DEF Distinct
    <2>2. \A i \in 1 .. L : list[i].typeVar # s.typeVar
      BY <1>1, <1>5
    <2> QED BY <2>1, <2>2, <1>3
  <1>6. new \in Lists(n) /\ Len(new) = L + 1
    BY <1>2 DEF Lists
  <1> QED BY <1>3, <1>4, <1>5, <1>6 DEF OneMore, L, new

\* An entry in front.
LEMMA PrependOne ==
    ASSUME NEW n, NEW list \in Lists(n), NEW s \in Substs(n)
    PROVE  OneMore(n, <<s>> \o list, list, s)
  <1> DEFINE new == <<s>> \o list  L == Len(list)
  <1>1. /\ L \in Nat /\ list \in Seq(Substs(n)) /\ DOMAIN list = 1 .. L
        /\ BoundBy(list) = {list[m].typeVar : m \in 1 .. L}
    BY ListIs DEF Lists
  <1>2. /\ new \in Seq(Substs(n)) /\ Len(new) = L + 1 /\ DOMAIN new = 1 .. (L + 1)
        /\ new[1] = s /\ \A m \in 1 .. L : new[m + 1] = list[m]
    BY <1>1
  <1> HIDE DEF new, L
  <1>3. ASSUME NEW m \in 1 .. (L + 1)
        PROVE  (m = 1 /\ new[m] = s) \/ (m - 1 \in 1 .. L /\ new[m] = list[m - 1])
    <2>1. m = 1 \/ (m - 1 \in 1 .. L /\ (m - 1) + 1 = m)
      BY <1>1
    <2> QED BY <2>1, <1>2
  <1>4. BoundBy(new) = BoundBy(list) \cup {s.typeVar}
    <2>1. BoundBy(new) = {new[m].typeVar : m \in 1 .. (L + 1)}
      BY <1>2 DEF BoundBy
    <2>2. 1 \in 1 .. (L + 1) /\ \A m \in 1 .. L : m + 1 \in 1 .. (L + 1)
      BY <1>1
    <2>3. BoundBy(new) \subseteq BoundBy(list) \cup {s.typeVar}
      BY <2>1, <1>1, <1>3
    <2>4. BoundBy(list) \cup {s.typeVar} \subseteq BoundBy(new)
      BY <2>1, <2>2, <1>1, <1>2
    <2> QED BY <2>3, <2>4
  <1>5. ASSUME Distinct(list), s.typeVar \notin BoundBy(list) PROVE Distinct(new)
    <2> SUFFICES ASSUME NEW m \in 1 .. (L + 1), NEW k \in 1 .. (L + 1), new[m].typeVar = new[k].typeVar PROVE m = k
      BY <1>2 DEF Distinct
    <2>1. \A i, j \in 1 .. L : list[i].typeVar = list[j].typeVar => i = j
      BY <1>1, <1>5 DEF Distinct
    <2>2. \A i \in 1 .. L : list[i].typeVar # s.typeVar
      BY <1>1, <1>5
    <2>3. (m = 1 /\ k = 1) \/ (m - 1 \in 1 .. L /\ k - 1 \in 1 .. L /\ list[m - 1].typeVar = list[k - 1].typeVar)
      BY <2>2, <1>3
    <2>4. m - 1 = k - 1 => m = k
      BY <1>1
    <2> QED BY <2>1, <2>3, <2>4
  <1>6. new \in Lists(n) /\ Len(new) = L + 1
    BY <1>2 DEF Lists
  <1> QED BY <1>3, <1>4, <1>5, <1>6 DEF OneMore, L, new

\* The variables in what an entry binds fall in rank, so that no entry leads back to itself.
Ranks(M) == [1 .. NTypeVars -> 0 .. M]
Falls(rank, list) ==
    \A m \in DOMAIN list : \A x \in TypeVarsIn(list[m].typeSig) : rank[x] < rank[list[m].typeVar]

\* What one pass keeps: kept and fixed are the two lists, rest the variables of the entries
\* to come; none of these is left in what is fixed.
Fixing(n, rank, avoid, kept, fix, rest) ==
    /\ kept \in Lists(n) /\ fix \in Lists(n)
    /\ Distinct(kept) /\ Distinct(fix) /\ Flat(fix)
    /\ BoundBy(kept) \cap rest = {}
    /\ Avoids(fix, BoundBy(kept) \cup rest)
    /\ Falls(rank, kept) /\ Falls(rank, fix)
    /\ Avoids(kept, avoid) /\ Avoids(fix, avoid)

\* An entry with what is fixed put into it.
LEMMA FixedInto ==
    ASSUME NEW n \in 0 .. NTypeVars, NEW M \in Nat, NEW rank \in Ranks(M), NEW avoid, NEW fix \in Lists(n),
           Distinct(fix), Flat(fix), Falls(rank, fix), Avoids(fix, avoid),
           NEW s \in Substs(n), s.typeVar \notin avoid, TypeVarsIn(s.typeSig) \cap avoid = {},
           \A x \in TypeVarsIn(s.typeSig) : rank[x] < rank[s.typeVar],
           NEW here, here = Subst(s.typeVar, SubstTypeVars(s.typeSig, fix))
    PROVE  /\ here \in Substs(n) /\ here.typeVar = s.typeVar
           /\ TypeVarsIn(here.typeSig) \cap avoid = {} /\ TypeVarsIn(here.typeSig) \cap BoundBy(fix) = {}
           /\ \A x \in TypeVarsIn(here.typeSig) : rank[x] < rank[s.typeVar]
  <1> DEFINE a == s.typeVar  t == s.typeSig  u == SubstTypeVars(t, fix)
  <1>1. a \in 1 .. n /\ t \in TermsOver(n) /\ TypeVarsIn(t) \subseteq 1 .. n
    BY DEF Substs, TermsOver
  <1>2. u \in TermsOver(n) /\ TypeVarsIn(u) = Moved(TypeVarsIn(t), fix, Len(fix))
    BY <1>1, SubstTypeVarsTerm, SubstTypeVarsVars
  <1>3. here = [typeVar |-> a, typeSig |-> u]
    BY DEF Subst
  <1> HIDE DEF u
  <1>4. here \in Substs(n) /\ here.typeVar = a /\ here.typeSig = u
    BY <1>1, <1>2, <1>3 DEF Substs
  <1>5. /\ Len(fix) \in Nat /\ DOMAIN fix = 1 .. Len(fix)
        /\ BoundBy(fix) = {fix[m].typeVar : m \in 1 .. Len(fix)}
        /\ \A m \in 1 .. Len(fix) : fix[m].typeVar \in 1 .. n /\ TypeVarsIn(fix[m].typeSig) \subseteq 1 .. n
    BY ListIs
  <1>6. ASSUME NEW x \in TypeVarsIn(u) PROVE x \notin avoid /\ x \notin BoundBy(fix) /\ rank[x] < rank[a]
    <2>1. \/ x \in TypeVarsIn(t) /\ x \notin BoundBy(fix)
          \/ \E m \in 1 .. Len(fix) : fix[m].typeVar \in TypeVarsIn(t) /\ x \in TypeVarsIn(fix[m].typeSig)
      BY <1>2, <1>5 DEF Moved
    <2>2. CASE x \in TypeVarsIn(t) /\ x \notin BoundBy(fix)
      BY <2>2
    <2>3. CASE \E m \in 1 .. Len(fix) : fix[m].typeVar \in TypeVarsIn(t) /\ x \in TypeVarsIn(fix[m].typeSig)
      <3>1. PICK m \in 1 .. Len(fix) : fix[m].typeVar \in TypeVarsIn(t) /\ x \in TypeVarsIn(fix[m].typeSig)
        BY <2>3
      <3>2. x \notin avoid /\ x \notin BoundBy(fix) /\ rank[x] < rank[fix[m].typeVar]
        BY <3>1, <1>5 DEF Avoids, Flat, Falls
      <3>3. rank[fix[m].typeVar] < rank[a]
        BY <3>1
      <3>4. rank[x] \in Int /\ rank[fix[m].typeVar] \in Int /\ rank[a] \in Int
        <4>1. x \in 1 .. NTypeVars /\ fix[m].typeVar \in 1 .. NTypeVars /\ a \in 1 .. NTypeVars
          <5>1. 1 .. n \subseteq 1 .. NTypeVars
            BY SupplyAssumption
          <5>2. x \in 1 .. n /\ fix[m].typeVar \in 1 .. n /\ a \in 1 .. n
            BY <3>1, <1>1, <1>5
          <5> QED BY ONLY <5>1, <5>2
        <4> QED BY <4>1 DEF Ranks
      <3>5. rank[x] < rank[a]
        BY ONLY <3>2, <3>3, <3>4
      <3> QED BY <3>2, <3>5
    <2> QED BY <2>1, <2>2, <2>3
  <1> QED BY <1>4, <1>6

\* One turn of a pass: the entry is kept, or it is fixed, as the one of the least rank is.
Turned(n, rank, avoid, list, m, kept, fix, k, f) ==
    /\ FixEntry([substs |-> kept, fixed |-> fix], list, m) = [substs |-> k, fixed |-> f]
    /\ Fixing(n, rank, avoid, k, f, {list[i].typeVar : i \in (m + 1) .. Len(list)})
    /\ BoundBy(k) \subseteq BoundBy(list)
    /\ Len(k) <= Len(kept) + 1
    /\ (\A i \in 1 .. Len(list) : rank[list[m].typeVar] <= rank[list[i].typeVar]) => Len(k) = Len(kept)

\* Each turn of FixPass is such a turn.
LEMMA FixEntryIs ==
    ASSUME NEW n \in 0 .. NTypeVars, NEW M \in Nat, NEW rank \in Ranks(M), NEW avoid,
           NEW list \in Lists(n), Distinct(list), Falls(rank, list), Avoids(list, avoid),
           NEW kept, NEW fix, NEW m \in 1 .. Len(list),
           Fixing(n, rank, avoid, kept, fix, {list[i].typeVar : i \in m .. Len(list)}),
           BoundBy(kept) \subseteq BoundBy(list)
    PROVE  \E k, f : Turned(n, rank, avoid, list, m, kept, fix, k, f)
  <1> DEFINE L == Len(list)
             a == list[m].typeVar
             here == Subst(a, SubstTypeVars(list[m].typeSig, fix))
             rest == {list[i].typeVar : i \in (m + 1) .. L}
             listed == BoundBy(kept) \cup {list[i].typeVar : i \in m .. L}
             pass == [substs |-> kept, fixed |-> fix]
  <1>1. /\ L \in Nat /\ DOMAIN list = 1 .. L /\ list[m] \in Substs(n)
        /\ BoundBy(list) = {list[i].typeVar : i \in 1 .. L}
    BY ListIs
  <1>2. /\ {list[i].typeVar : i \in m .. L} = {a} \cup rest
        /\ a \in BoundBy(list) /\ a \notin rest /\ rest \subseteq BoundBy(list)
    <2>1. m .. L = {m} \cup ((m + 1) .. L) /\ (m + 1) .. L \subseteq 1 .. L /\ m \notin (m + 1) .. L
      BY <1>1
    <2>2. a \notin rest
      BY <2>1, <1>1 DEF Distinct
    <2> QED BY <2>1, <2>2, <1>1
  <1>3. Fixing(n, rank, avoid, kept, fix, {a} \cup rest)
    BY <1>2
  <1>4. /\ kept \in Lists(n) /\ fix \in Lists(n)
        /\ Distinct(kept) /\ Distinct(fix) /\ Flat(fix)
        /\ BoundBy(kept) \cap ({a} \cup rest) = {}
        /\ Avoids(fix, BoundBy(kept) \cup ({a} \cup rest))
        /\ Falls(rank, kept) /\ Falls(rank, fix)
        /\ Avoids(kept, avoid) /\ Avoids(fix, avoid)
    BY <1>3 DEF Fixing
  <1> HIDE DEF L
  <1>5. /\ here \in Substs(n) /\ here.typeVar = a
        /\ TypeVarsIn(here.typeSig) \cap avoid = {} /\ TypeVarsIn(here.typeSig) \cap BoundBy(fix) = {}
        /\ \A x \in TypeVarsIn(here.typeSig) : rank[x] < rank[a]
    <2>1. a \notin avoid /\ TypeVarsIn(list[m].typeSig) \cap avoid = {}
          /\ \A x \in TypeVarsIn(list[m].typeSig) : rank[x] < rank[list[m].typeVar]
      BY <1>1 DEF Avoids, Falls, L
    <2> HIDE DEF here
    <2>2. here = Subst(list[m].typeVar, SubstTypeVars(list[m].typeSig, fix))
      BY DEF here
    <2> QED BY ONLY <1>1, <1>4, <2>1, <2>2, n \in 0 .. NTypeVars, M \in Nat, rank \in Ranks(M), FixedInto
  <1>6. /\ DOMAIN fix = 1 .. Len(fix) /\ DOMAIN kept = 1 .. Len(kept) /\ Len(kept) \in Nat
        /\ BoundBy(fix) = {fix[i].typeVar : i \in 1 .. Len(fix)}
        /\ BoundBy(kept) = {kept[i].typeVar : i \in 1 .. Len(kept)}
    BY <1>4, ListIs
  <1>7. a \notin avoid
    BY <1>1 DEF Avoids, L
  <1>8. FixEntry(pass, list, m) =
          IF TypeVarsIn(here.typeSig) \cap listed # {}
          THEN [substs |-> Append(kept, here), fixed |-> fix]
          ELSE [substs |-> kept, fixed |-> <<here>> \o fix]
    <2>1. pass.fixed = fix /\ pass.substs = kept
      OBVIOUS
    <2>2. /\ [pass EXCEPT !.substs = Append(kept, here)] = [substs |-> Append(kept, here), fixed |-> fix]
          /\ [pass EXCEPT !.fixed = <<here>> \o fix] = [substs |-> kept, fixed |-> <<here>> \o fix]
      <3> DEFINE x == Append(kept, here)  y == <<here>> \o fix
      <3> HIDE DEF x, y
      <3>1. [pass EXCEPT !.substs = x] = [substs |-> x, fixed |-> fix]
        BY ONLY TRUE
      <3>2. [pass EXCEPT !.fixed = y] = [substs |-> kept, fixed |-> y]
        BY ONLY TRUE
      <3> QED BY <3>1, <3>2 DEF x, y
    <2> HIDE DEF pass
    <2>3. here = Subst(list[m].typeVar, SubstTypeVars(list[m].typeSig, pass.fixed))
      BY <2>1
    <2>4. listed = BoundBy(pass.substs) \cup {list[i].typeVar : i \in m .. Len(list)}
      BY <2>1 DEF L
    <2>5. FixEntry(pass, list, m) =
            IF TypeVarsIn(here.typeSig) \cap listed # {}
            THEN [pass EXCEPT !.substs = Append(pass.substs, here)]
            ELSE [pass EXCEPT !.fixed = <<here>> \o pass.fixed]
      <3> HIDE DEF here, listed
      <3> QED BY ONLY <2>3, <2>4 DEF FixEntry
    <2> QED BY ONLY <2>1, <2>2, <2>5
  <1> HIDE DEF here, rest, listed, pass
  <1>9. CASE TypeVarsIn(here.typeSig) \cap listed # {}
    <2> DEFINE k == Append(kept, here)
    <2>1. OneMore(n, k, kept, here)
      BY <1>4, <1>5, AppendOne
    <2> HIDE DEF k
    <2>2. /\ k \in Lists(n) /\ Len(k) = Len(kept) + 1 /\ BoundBy(k) = BoundBy(kept) \cup {a}
          /\ \A j \in 1 .. Len(k) : k[j] = here \/ \E i \in 1 .. Len(kept) : k[j] = kept[i]
          /\ Distinct(k)
      BY <2>1, <1>4, <1>5 DEF OneMore
    <2>3. DOMAIN k = 1 .. Len(k)
      BY <2>2, ListIs
    <2>4. Falls(rank, k) /\ Avoids(k, avoid)
      <3>1. ASSUME NEW j \in 1 .. Len(k)
            PROVE  /\ \A x \in TypeVarsIn(k[j].typeSig) : rank[x] < rank[k[j].typeVar]
                   /\ k[j].typeVar \notin avoid /\ TypeVarsIn(k[j].typeSig) \cap avoid = {}
        <4>1. CASE k[j] = here
          BY <4>1, <1>5, <1>7
        <4>2. CASE \E i \in 1 .. Len(kept) : k[j] = kept[i]
          BY <4>2, <1>4, <1>6 DEF Falls, Avoids
        <4> QED BY <4>1, <4>2, <2>2
      <3> QED BY <3>1, <2>3 DEF Falls, Avoids
    <2>5. BoundBy(k) \cap rest = {} /\ BoundBy(k) \cup rest = BoundBy(kept) \cup ({a} \cup rest)
      BY <2>2, <1>2, <1>4
    <2>6. Fixing(n, rank, avoid, k, fix, rest)
      BY ONLY <2>2, <2>4, <2>5, <1>4 DEF Fixing
    <2>7. ~\A i \in 1 .. L : rank[a] <= rank[list[i].typeVar]
      <3>1. PICK x \in TypeVarsIn(here.typeSig) : x \in listed
        BY <1>9
      <3>2. x \in BoundBy(list)
        BY <3>1, <1>2 DEF listed
      <3>3. PICK i \in 1 .. L : x = list[i].typeVar
        BY <3>2, <1>1 DEF L
      <3>4. rank[x] < rank[a] /\ rank[x] \in Int /\ rank[a] \in Int
        <4>1. x \in 1 .. NTypeVars /\ a \in 1 .. NTypeVars
          <5>1. x \in 1 .. n /\ a \in 1 .. n
            BY <3>3, ListIs DEF L
          <5> QED BY <5>1, SupplyAssumption
        <4> QED BY <4>1, <1>5, <3>1 DEF Ranks
      <3> QED BY <3>3, <3>4
    <2>8. FixEntry(pass, list, m) = [substs |-> k, fixed |-> fix]
      BY <1>8, <1>9 DEF k
    <2>9. BoundBy(k) \subseteq BoundBy(list) /\ Len(k) <= Len(kept) + 1
      BY <2>2, <1>2, <1>6
    <2> QED BY <2>6, <2>7, <2>8, <2>9 DEF rest, L, pass, Turned
  <1>10. CASE TypeVarsIn(here.typeSig) \cap listed = {}
    <2> DEFINE f == <<here>> \o fix
    <2>1. OneMore(n, f, fix, here)
      BY <1>4, <1>5, PrependOne
    <2> HIDE DEF f
    <2>2. a \notin BoundBy(fix)
      BY <1>4, <1>6 DEF Avoids
    <2>3. /\ f \in Lists(n) /\ BoundBy(f) = BoundBy(fix) \cup {a}
          /\ \A j \in 1 .. Len(f) : f[j] = here \/ \E i \in 1 .. Len(fix) : f[j] = fix[i]
          /\ Distinct(f)
      BY <2>1, <2>2, <1>4, <1>5 DEF OneMore
    <2>4. DOMAIN f = 1 .. Len(f)
      BY <2>3, ListIs
    <2>5. TypeVarsIn(here.typeSig) \cap (BoundBy(kept) \cup ({a} \cup rest)) = {}
      BY <1>2, <1>10 DEF listed
    <2>6. ASSUME NEW j \in 1 .. Len(f)
          PROVE  /\ \A x \in TypeVarsIn(f[j].typeSig) : rank[x] < rank[f[j].typeVar]
                 /\ f[j].typeVar \notin avoid /\ TypeVarsIn(f[j].typeSig) \cap avoid = {}
                 /\ TypeVarsIn(f[j].typeSig) \cap BoundBy(f) = {}
                 /\ f[j].typeVar \notin BoundBy(kept) \cup rest
                 /\ TypeVarsIn(f[j].typeSig) \cap (BoundBy(kept) \cup rest) = {}
      <3>1. CASE f[j] = here
        <4>1. a \notin BoundBy(kept) \cup rest
          BY <1>2, <1>4
        <4> QED BY <4>1, <3>1, <2>3, <2>5, <1>5, <1>7
      <3>2. CASE \E i \in 1 .. Len(fix) : f[j] = fix[i]
        <4>1. PICK i \in 1 .. Len(fix) : f[j] = fix[i]
          BY <3>2
        <4>2. /\ \A x \in TypeVarsIn(fix[i].typeSig) : rank[x] < rank[fix[i].typeVar]
              /\ fix[i].typeVar \notin avoid /\ TypeVarsIn(fix[i].typeSig) \cap avoid = {}
          BY <1>4, <1>6 DEF Falls, Avoids
        <4>3. /\ TypeVarsIn(fix[i].typeSig) \cap BoundBy(fix) = {}
              /\ fix[i].typeVar \notin BoundBy(kept) \cup ({a} \cup rest)
              /\ TypeVarsIn(fix[i].typeSig) \cap (BoundBy(kept) \cup ({a} \cup rest)) = {}
          BY <1>4, <1>6 DEF Flat, Avoids
        <4> QED BY <4>1, <4>2, <4>3, <2>3
      <3> QED BY <3>1, <3>2, <2>3
    <2>7. Flat(f) /\ Falls(rank, f) /\ Avoids(f, avoid) /\ Avoids(f, BoundBy(kept) \cup rest)
      BY <2>4, <2>6 DEF Flat, Falls, Avoids
    <2>8. Fixing(n, rank, avoid, kept, f, rest)
      BY <2>3, <2>7, <1>4 DEF Fixing
    <2>9. FixEntry(pass, list, m) = [substs |-> kept, fixed |-> f]
      BY <1>8, <1>10 DEF f
    <2>10. Len(kept) <= Len(kept) + 1
      BY <1>6
    <2> QED BY <2>8, <2>9, <2>10 DEF rest, L, pass, Turned
  <1> QED BY <1>9, <1>10

FixPassOp(p, pass, m) == FixEntry(pass, p.list, m)
FixPassHolds(p, pass, m) ==
    \E k, f : /\ pass = [substs |-> k, fixed |-> f]
              /\ Fixing(p.n, p.rank, p.avoid, k, f, {p.list[i].typeVar : i \in (m + 1) .. Len(p.list)})
              /\ BoundBy(k) \subseteq BoundBy(p.list)
              /\ Len(k) <= m /\ (p.low <= m => Len(k) < m)
FixPassFold == INSTANCE ThroughProofs WITH Op <- FixPassOp, Holds <- FixPassHolds

\* One pass of substSubsts leaves a shorter list: the entry of the least rank is fixed.
LEMMA FixPassIs ==
    ASSUME NEW n \in 0 .. NTypeVars, NEW M \in Nat, NEW rank \in Ranks(M), NEW avoid,
           NEW list, NEW fix, Fixing(n, rank, avoid, list, fix, {})
    PROVE  \E k, f :
              /\ FixPass(list, fix) = [substs |-> k, fixed |-> f]
              /\ Fixing(n, rank, avoid, k, f, {})
              /\ Len(k) \in Nat /\ Len(k) <= Len(list) /\ (Len(list) # 0 => Len(k) < Len(list))
  <1> DEFINE L == Len(list)
             turns == [m \in DOMAIN list |-> m]
             base == [substs |-> <<>>, fixed |-> fix]
             rest(m) == {list[i].typeVar : i \in (m + 1) .. L}
  <1>1. /\ list \in Lists(n) /\ fix \in Lists(n) /\ Distinct(list) /\ Distinct(fix) /\ Flat(fix)
        /\ Avoids(fix, BoundBy(list)) /\ Falls(rank, list) /\ Falls(rank, fix)
        /\ Avoids(list, avoid) /\ Avoids(fix, avoid)
    BY DEF Fixing
  <1>2. /\ L \in Nat /\ DOMAIN list = 1 .. L /\ BoundBy(list) = {list[m].typeVar : m \in 1 .. L}
        /\ \A m \in 1 .. L : list[m].typeVar \in 1 .. n
    BY <1>1, ListIs
  <1>3. \E low \in Nat : L # 0 => /\ low \in 1 .. L
                                  /\ \A i \in 1 .. L : rank[list[low].typeVar] <= rank[list[i].typeVar]
    <2>1. CASE L = 0
      BY <2>1
    <2>2. CASE L # 0
      <3> DEFINE S == {rank[list[i].typeVar] : i \in 1 .. L}
      <3>1. ASSUME NEW i \in 1 .. L PROVE rank[list[i].typeVar] \in Nat
        <4>1. list[i].typeVar \in 1 .. NTypeVars
          BY <1>2, SupplyAssumption
        <4> QED BY <4>1 DEF Ranks
      <3>2. S \subseteq Nat
        BY <3>1
      <3>3. S # {}
        <4>1. 1 \in 1 .. L
          BY <2>2, <1>2
        <4> QED BY <4>1
      <3>4. \E x \in S : \A y \in S : x <= y
        <4> HIDE DEF S
        <4> QED BY ONLY <3>2, <3>3, SubstEachFold!LeastNat
      <3>5. PICK low \in 1 .. L : \A y \in S : rank[list[low].typeVar] <= y
        BY <3>4
      <3>6. \A i \in 1 .. L : rank[list[low].typeVar] <= rank[list[i].typeVar]
        BY <3>5
      <3>7. low \in Nat
        BY <1>2
      <3> HIDE DEF S, L
      <3> QED BY ONLY <3>5, <3>6, <3>7
    <2> QED BY <2>1, <2>2
  <1>4. PICK low \in Nat : L # 0 => /\ low \in 1 .. L
                                    /\ \A i \in 1 .. L : rank[list[low].typeVar] <= rank[list[i].typeVar]
    BY <1>3
  <1> DEFINE p == [n |-> n, rank |-> rank, avoid |-> avoid, list |-> list,
                   low |-> IF L = 0 THEN 1 ELSE low]
  <1>5. /\ p.n = n /\ p.rank = rank /\ p.avoid = avoid /\ p.list = list
        /\ p.low \in Nat \ {0} /\ (L # 0 => p.low = low)
    BY <1>4
  <1> HIDE DEF p
  <1>6. FixPassHolds(p, base, 0)
    <2>1. <<>> \in Lists(n) /\ Len(<<>>) = 0 /\ Distinct(<<>>) /\ BoundBy(<<>>) = {}
          /\ Falls(rank, <<>>) /\ Avoids(<<>>, avoid)
      BY DEF Lists, Distinct, BoundBy, Falls, Avoids
    <2>2. rest(0) = BoundBy(list)
      BY <1>2
    <2>3. Fixing(n, rank, avoid, <<>>, fix, rest(0))
      BY <2>1, <2>2, <1>1 DEF Fixing
    <2>4. /\ Fixing(p.n, p.rank, p.avoid, <<>>, fix, {p.list[i].typeVar : i \in (0 + 1) .. Len(p.list)})
          /\ BoundBy(<<>>) \subseteq BoundBy(p.list)
          /\ Len(<<>>) <= 0 /\ (p.low <= 0 => Len(<<>>) < 0)
      BY <2>1, <2>3, <1>5
    <2> QED BY <2>4 DEF FixPassHolds
  <1>7. ASSUME NEW m \in 1 .. L, NEW pass, FixPassHolds(p, pass, m - 1)
        PROVE  FixPassHolds(p, FixPassOp(p, pass, turns[m]), m)
    <2>1. PICK k0, f0 :
              /\ pass = [substs |-> k0, fixed |-> f0]
              /\ Fixing(n, rank, avoid, k0, f0, {list[i].typeVar : i \in ((m - 1) + 1) .. L})
              /\ BoundBy(k0) \subseteq BoundBy(list)
              /\ Len(k0) <= m - 1 /\ (p.low <= m - 1 => Len(k0) < m - 1)
      BY <1>5, <1>7 DEF FixPassHolds
    <2>2. (m - 1) + 1 = m
      BY <1>2
    <2>3. Fixing(n, rank, avoid, k0, f0, {list[i].typeVar : i \in m .. L})
      BY <2>1, <2>2
    <2>0. PICK k, f : Turned(n, rank, avoid, list, m, k0, f0, k, f)
      <3>1. BoundBy(k0) \subseteq BoundBy(list)
        BY <2>1
      <3>2. Distinct(list) /\ Falls(rank, list) /\ Avoids(list, avoid) /\ list \in Lists(n)
        BY <1>1
      <3> QED BY ONLY n \in 0 .. NTypeVars, M \in Nat, rank \in Ranks(M), m \in 1 .. L,
                      <3>1, <3>2, <2>3, FixEntryIs
    <2>4. /\ FixEntry([substs |-> k0, fixed |-> f0], list, m) = [substs |-> k, fixed |-> f]
          /\ Fixing(n, rank, avoid, k, f, {list[i].typeVar : i \in (m + 1) .. L})
          /\ BoundBy(k) \subseteq BoundBy(list)
          /\ Len(k) <= Len(k0) + 1
          /\ (\A i \in 1 .. L : rank[list[m].typeVar] <= rank[list[i].typeVar]) => Len(k) = Len(k0)
      BY <2>0 DEF Turned
    <2>5. Len(k0) \in Nat /\ Len(k) \in Nat
      <3>1. k0 \in Lists(n) /\ k \in Lists(n)
        BY <2>3, <2>4 DEF Fixing
      <3> QED BY ONLY <3>1, ListIs
    <2>6. Len(k) <= m
      BY <2>1, <2>4, <2>5, <1>2
    <2>7. ASSUME p.low <= m PROVE Len(k) < m
      <3>1. CASE p.low <= m - 1
        BY <3>1, <2>1, <2>4, <2>5, <1>2
      <3>2. CASE p.low = m
        <4>1. Len(k) = Len(k0)
          BY <3>2, <2>4, <1>4, <1>5
        <4> QED BY <4>1, <2>1, <2>5, <1>2
      <3> QED BY <2>7, <3>1, <3>2, <1>2, <1>5
    <2>8. FixPassOp(p, pass, turns[m]) = [substs |-> k, fixed |-> f]
      BY <1>2, <1>5, <2>1, <2>4 DEF FixPassOp
    <2> HIDE DEF turns
    <2> QED BY <2>4, <2>6, <2>7, <2>8, <1>5 DEF FixPassHolds
  <1>8. Len(turns) = L
    BY <1>2
  <1> HIDE DEF turns, base
  <1>9. FixPassHolds(p, FixPassFold!Folded(p, base, turns), L)
    BY <1>2, <1>6, <1>7, <1>8, FixPassFold!ThroughHolds
  <1>10. FixPassFold!Folded(p, base, turns) = FixPass(list, fix)
    BY <1>5 DEF FixPassFold!Folded, FixPassFold!Through, Through, FixPass, FixPassOp, turns, base
  <1>11. PICK k, f : /\ FixPass(list, fix) = [substs |-> k, fixed |-> f]
                     /\ Fixing(n, rank, avoid, k, f, {list[i].typeVar : i \in (L + 1) .. L})
                     /\ Len(k) <= L /\ (p.low <= L => Len(k) < L)
    BY <1>5, <1>9, <1>10 DEF FixPassHolds
  <1>12. {list[i].typeVar : i \in (L + 1) .. L} = {}
    BY <1>2
  <1>13. Len(k) \in Nat
    <2>1. k \in Lists(n)
      BY <1>11 DEF Fixing
    <2> QED BY ONLY <2>1, ListIs
  <1>14. L # 0 => Len(k) < L
    BY <1>4, <1>5, <1>11
  <1> QED BY <1>11, <1>12, <1>13, <1>14

SubstSubstsOp(p, pass, s) == FixPass(pass.substs, pass.fixed)
SubstSubstsHolds(p, pass, m) ==
    \E k, f : /\ pass = [substs |-> k, fixed |-> f]
              /\ Fixing(p.n, p.rank, p.avoid, k, f, {})
              /\ Len(k) \in Nat /\ Len(k) <= Len(p.list) - m
SubstSubstsFold == INSTANCE ThroughProofs WITH Op <- SubstSubstsOp, Holds <- SubstSubstsHolds

\* The substitutions in a list that falls in rank can be applied to each other: there are
\* no more passes than entries, and what is fixed is flat.
LEMMA SubstSubstsIs ==
    ASSUME NEW n \in 0 .. NTypeVars, NEW M \in Nat, NEW rank \in Ranks(M), NEW avoid,
           NEW list \in Lists(n), Distinct(list), Falls(rank, list), Avoids(list, avoid)
    PROVE  \E f : /\ SubstSubsts(list, <<>>) = [substs |-> <<>>, fixed |-> f]
                  /\ f \in Lists(n) /\ Distinct(f) /\ Flat(f) /\ Avoids(f, avoid)
  <1> DEFINE L == Len(list)
             base == [substs |-> list, fixed |-> <<>>]
             p == [n |-> n, rank |-> rank, avoid |-> avoid, list |-> list]
  <1>1. L \in Nat
    BY ListIs
  <1>2. p.n = n /\ p.rank = rank /\ p.avoid = avoid /\ p.list = list
    OBVIOUS
  <1> HIDE DEF p
  <1>3. SubstSubstsHolds(p, base, 0)
    <2>1. /\ <<>> \in Lists(n) /\ Distinct(<<>>) /\ Flat(<<>>)
          /\ Falls(rank, <<>>) /\ Avoids(<<>>, avoid) /\ Avoids(<<>>, BoundBy(list) \cup {})
      BY DEF Lists, Distinct, Flat, Falls, Avoids
    <2>2. Fixing(n, rank, avoid, list, <<>>, {})
      BY <2>1 DEF Fixing
    <2>3. /\ Fixing(p.n, p.rank, p.avoid, list, <<>>, {})
          /\ L \in Nat /\ L <= Len(p.list) - 0
      BY <2>2, <1>1, <1>2
    <2> QED BY <2>3 DEF SubstSubstsHolds
  <1>4. ASSUME NEW m \in 1 .. L, NEW pass, SubstSubstsHolds(p, pass, m - 1)
        PROVE  SubstSubstsHolds(p, SubstSubstsOp(p, pass, list[m]), m)
    <2>1. PICK k0, f0 : /\ pass = [substs |-> k0, fixed |-> f0]
                        /\ Fixing(n, rank, avoid, k0, f0, {})
                        /\ Len(k0) \in Nat /\ Len(k0) <= L - (m - 1)
      BY <1>2, <1>4 DEF SubstSubstsHolds
    <2>2. PICK k, f :
              /\ FixPass(k0, f0) = [substs |-> k, fixed |-> f]
              /\ Fixing(n, rank, avoid, k, f, {})
              /\ Len(k) \in Nat /\ Len(k) <= Len(k0) /\ (Len(k0) # 0 => Len(k) < Len(k0))
      BY <2>1, FixPassIs
    <2>3. Len(k) <= L - m
      BY <2>1, <2>2, <1>1
    <2>4. SubstSubstsOp(p, pass, list[m]) = [substs |-> k, fixed |-> f]
      BY <2>1, <2>2 DEF SubstSubstsOp
    <2> QED BY <2>2, <2>3, <2>4, <1>2 DEF SubstSubstsHolds
  <1> HIDE DEF base
  <1>5. SubstSubstsHolds(p, SubstSubstsFold!Folded(p, base, list), L)
    BY <1>1, <1>3, <1>4, SubstSubstsFold!ThroughHolds
  <1>6. SubstSubstsFold!Folded(p, base, list) = SubstSubsts(list, <<>>)
    BY DEF SubstSubstsFold!Folded, SubstSubstsFold!Through, Through, SubstSubsts, SubstSubstsOp, base
  <1>7. PICK k, f : /\ SubstSubsts(list, <<>>) = [substs |-> k, fixed |-> f]
                    /\ Fixing(n, rank, avoid, k, f, {})
                    /\ Len(k) \in Nat /\ Len(k) <= L - L
    BY <1>2, <1>5, <1>6 DEF SubstSubstsHolds
  <1>8. k = <<>>
    <2>1. k \in Lists(n)
      BY <1>7 DEF Fixing
    <2>2. Len(k) = 0
      BY <1>1, <1>7
    <2> QED BY <2>1, <2>2 DEF Lists
  <1> QED BY <1>7, <1>8 DEF Fixing

(***************************************************************************)
(* The inductive invariant.                                                *)
(***************************************************************************)
Sides(n) == [x : TermsOver(n), y : TermsOver(n)]

\* No variable of an equation is among some.
Without(eqs, bound) ==
    \A n \in DOMAIN eqs : (TypeVarsIn(eqs[n].x) \cup TypeVarsIn(eqs[n].y)) \cap bound = {}

\* What is known, and the scopes it is known in.
KnownTyped ==
    /\ supply \in 0 .. NTypeVars /\ calls \in 0 .. MaxCalls
    /\ index \in Lists(supply) /\ refs \subseteq (1 .. supply) \X (1 .. supply)
    /\ scopes \in Chains(supply) /\ scopes # <<>>

\* A call of unify.
CallTyped ==
    /\ outcome \in Outcomes /\ fixed \in BOOLEAN
    /\ equations \in Seq(Sides(supply)) /\ ext \in Lists(supply) /\ trial \in Lists(supply)
    /\ ~Unifying => equations = <<>> /\ ext = <<>>

\* A variable is bound by one of the three lists, and none of the two that are not known
\* yet speaks of what is bound by the set that is.
BoundApart ==
    /\ Distinct(ext) /\ Distinct(trial) /\ BoundBy(ext) \cap BoundBy(trial) = {}
    /\ Avoids(ext, BoundBy(index)) /\ Avoids(trial, BoundBy(index))
    /\ Without(equations, BoundBy(index))

\* In fixed mode what is found is put everywhere at once.
FixedApart ==
    Unifying /\ fixed => trial = <<>> /\ Flat(ext) /\ Without(equations, BoundBy(ext))

\* In a trial the variables can be ranked so that every substitution leads down: no
\* cycle has come about, by whatever number of calls.
NoCycle ==
    \E M \in Nat : \E rank \in Ranks(M) : Falls(rank, trial) /\ (fixed \/ Falls(rank, ext))

ScopesRight == HeldOnce(scopes) /\ ScopeVars

Inv == /\ KnownTyped /\ Solved /\ ScopesRight
       /\ CallTyped /\ BoundApart /\ FixedApart /\ NoCycle /\ AcceptEnds

\* The parts of the invariant that the runs check.
LEMMA InvMeans == Inv => TypeOK /\ SolvedForm /\ ScopeVars /\ AcceptEnds
  <1> SUFFICES ASSUME Inv PROVE TypeOK /\ SolvedForm
    BY DEF Inv, ScopesRight
  <1>1. SolvedForm
    BY DEF Inv, Solved, Flat, SolvedForm, BoundVars
  <1>2. ASSUME NEW list \in {index, ext, trial}, NEW n \in DOMAIN list
        PROVE  {list[n].typeVar} \cup TypeVarsIn(list[n].typeSig) \subseteq 1 .. supply
    <2>1. list \in Lists(supply)
      BY DEF Inv, KnownTyped, CallTyped
    <2> QED BY <2>1, ListIs
  <1>3. ASSUME NEW k \in DOMAIN scopes
        PROVE  /\ scopes[k].typeVars \subseteq 1 .. supply
               /\ \A n \in DOMAIN scopes[k].named : scopes[k].named[n] \in 1 .. supply
    <2>1. scopes[k].typeVars \subseteq 1 .. supply /\ scopes[k].named \in NamedVars(supply)
      BY ChainIs DEF Inv, KnownTyped
    <2> QED BY <2>1 DEF NamedVars
  <1>4. TypeOK
    BY <1>2, <1>3 DEF TypeOK, Inv, KnownTyped, CallTyped
  <1> QED BY <1>1, <1>4

\* What is empty satisfies what is said of lists.
LEMMA EmptyLists ==
    ASSUME NEW n
    PROVE  /\ <<>> \in Lists(n) /\ BoundBy(<<>>) = {} /\ Distinct(<<>>) /\ Flat(<<>>)
           /\ <<>> \in Seq(Sides(n))
           /\ \A bound : Avoids(<<>>, bound) /\ Without(<<>>, bound)
           /\ \A rank : Falls(rank, <<>>)
  BY DEF Lists, BoundBy, Distinct, Flat, Avoids, Without, Falls

\* Nothing has been substituted yet, and all scopes are empty.
LEMMA InitInv == Init => Inv
  <1> SUFFICES ASSUME Init PROVE Inv
    OBVIOUS
  <1> DEFINE first == [typeVars |-> {}, named |-> <<>>, assumed |-> {}]
  <1>1. supply \in 0 .. NTypeVars /\ calls \in 0 .. MaxCalls
    BY SupplyAssumption, BoundsAssumption DEF Init
  <1>2. <<>> \in NamedVars(supply)
    <2>1. <<>> \in [{} -> 1 .. supply]
      OBVIOUS
    <2> QED BY <2>1 DEF NamedVars
  <1>3. first \in ScopeRecs(supply)
    BY <1>2 DEF ScopeRecs
  <1>4. scopes = <<first>> /\ Len(scopes) = 1 /\ scopes[1] = first /\ DOMAIN scopes = 1 .. 1
    BY DEF Init
  <1>5. KnownTyped
    BY <1>1, <1>3, <1>4, EmptyLists DEF Init, KnownTyped, Chains
  <1>6. Solved
    BY DEF Init, Solved, Distinct, Flat, Indexed
  <1>7. ScopesRight
    <2>1. HeldOnce(scopes)
      BY <1>4 DEF HeldOnce
    <2>2. ASSUME NEW k \in DOMAIN scopes
          PROVE  VarsFrom(scopes, k) = {} /\ UNION {scopes[m].assumed : m \in k .. Len(scopes)} = {}
      BY <1>4 DEF VarsFrom
    <2>3. ScopeVars
      BY <2>2 DEF ScopeVars
    <2> QED BY <2>1, <2>3 DEF ScopesRight
  <1>8. CallTyped /\ BoundApart /\ FixedApart /\ AcceptEnds
    BY EmptyLists DEF Init, CallTyped, BoundApart, FixedApart, AcceptEnds, Unifying, Outcomes
  <1>9. NoCycle
    <2>1. [a \in 1 .. NTypeVars |-> 0] \in Ranks(0)
      BY DEF Ranks
    <2>2. trial = <<>> /\ fixed
      BY DEF Init
    <2> QED BY <2>1, <2>2, EmptyLists DEF NoCycle
  <1> QED BY <1>5, <1>6, <1>7, <1>8, <1>9 DEF Inv

(***************************************************************************)
(* The stack of equations.                                                 *)
(***************************************************************************)
\* The first equation and the rest.
LEMMA FirstRest ==
    ASSUME NEW n, NEW eqs \in Seq(Sides(n)), eqs # <<>>
    PROVE  /\ eqs[1] = [x |-> eqs[1].x, y |-> eqs[1].y]
           /\ eqs[1].x \in TermsOver(n) /\ eqs[1].y \in TermsOver(n)
           /\ Tail(eqs) \in Seq(Sides(n)) /\ Len(Tail(eqs)) \in Nat
           /\ DOMAIN Tail(eqs) = 1 .. Len(Tail(eqs))
           /\ 1 \in DOMAIN eqs
           /\ \A m \in DOMAIN Tail(eqs) : m + 1 \in DOMAIN eqs /\ Tail(eqs)[m] = eqs[m + 1]
           /\ \A m \in DOMAIN Tail(eqs) :
                 /\ Tail(eqs)[m] \in Sides(n)
                 /\ Tail(eqs)[m].x \in TermsOver(n) /\ Tail(eqs)[m].y \in TermsOver(n)
           /\ \A bound : Without(eqs, bound) =>
                 /\ Without(Tail(eqs), bound)
                 /\ TypeVarsIn(eqs[1].x) \cap bound = {} /\ TypeVarsIn(eqs[1].y) \cap bound = {}
  <1> DEFINE rest == Tail(eqs)
  <1>1. /\ rest \in Seq(Sides(n)) /\ Len(rest) \in Nat /\ DOMAIN rest = 1 .. Len(rest)
        /\ 1 \in DOMAIN eqs /\ eqs[1] \in Sides(n)
        /\ \A m \in DOMAIN rest : m + 1 \in DOMAIN eqs /\ rest[m] = eqs[m + 1]
        /\ \A m \in DOMAIN rest : rest[m] \in Sides(n)
    OBVIOUS
  <1>2. ASSUME NEW e \in Sides(n)
        PROVE  e = [x |-> e.x, y |-> e.y] /\ e.x \in TermsOver(n) /\ e.y \in TermsOver(n)
    BY DEF Sides
  <1> HIDE DEF rest
  <1>3. ASSUME NEW bound, Without(eqs, bound)
        PROVE  /\ Without(rest, bound)
               /\ TypeVarsIn(eqs[1].x) \cap bound = {} /\ TypeVarsIn(eqs[1].y) \cap bound = {}
    BY <1>1, <1>3 DEF Without
  <1> QED BY <1>1, <1>2, <1>3 DEF rest

\* An equation more.
LEMMA OneEquation ==
    ASSUME NEW n, NEW x \in TermsOver(n), NEW y \in TermsOver(n), NEW eqs \in Seq(Sides(n))
    PROVE  /\ <<[x |-> x, y |-> y]>> \o eqs \in Seq(Sides(n))
           /\ <<[x |-> x, y |-> y]>> \o eqs # <<>>
           /\ \A m \in DOMAIN (<<[x |-> x, y |-> y]>> \o eqs) :
                 \/ (<<[x |-> x, y |-> y]>> \o eqs)[m] = [x |-> x, y |-> y]
                 \/ \E k \in DOMAIN eqs : (<<[x |-> x, y |-> y]>> \o eqs)[m] = eqs[k]
           /\ \A bound : /\ Without(eqs, bound)
                         /\ TypeVarsIn(x) \cap bound = {} /\ TypeVarsIn(y) \cap bound = {}
                         => Without(<<[x |-> x, y |-> y]>> \o eqs, bound)
  <1> DEFINE e == [x |-> x, y |-> y]
             new == <<e>> \o eqs
  <1>1. e \in Sides(n) /\ e.x = x /\ e.y = y
    BY DEF Sides
  <1> HIDE DEF e
  <1>2. /\ new \in Seq(Sides(n)) /\ new # <<>>
        /\ \A m \in DOMAIN new : (m = 1 /\ new[m] = e) \/ (m - 1 \in DOMAIN eqs /\ new[m] = eqs[m - 1])
    BY <1>1
  <1> HIDE DEF new
  <1>3. ASSUME NEW bound, Without(eqs, bound), TypeVarsIn(x) \cap bound = {}, TypeVarsIn(y) \cap bound = {}
        PROVE  Without(new, bound)
    BY <1>1, <1>2, <1>3 DEF Without
  <1> QED BY <1>2, <1>3 DEF new, e

(***************************************************************************)
(* The steps of unify but the last.                                        *)
(***************************************************************************)
\* What is known does not change before a call has ended.
LEMMA KnownKept ==
    ASSUME Inv, UNCHANGED Local
    PROVE  KnownTyped' /\ Solved' /\ ScopesRight'
  BY DEF Local, Inv, KnownTyped, Solved, ScopesRight, HeldOnce, ScopeVars, Indexed, Current, Distinct, Flat

\* An equation between equal sides says nothing.
LEMMA DropEqualInv == ASSUME Inv, DropEqual PROVE Inv'
  <1>1. equations \in Seq(Sides(supply)) /\ equations # <<>>
    BY DEF Inv, CallTyped, DropEqual, Open
  <1>2. /\ Tail(equations) \in Seq(Sides(supply))
        /\ \A bound : Without(equations, bound) => Without(Tail(equations), bound)
    BY <1>1, FirstRest
  <1>3. equations' = Tail(equations) /\ UNCHANGED <<ext, outcome, trial, Local, fixed>> /\ Unifying
    BY DEF DropEqual, Open
  <1>4. CallTyped'
    BY <1>2, <1>3 DEF Inv, CallTyped, Unifying, Local
  <1>5. BoundApart' /\ FixedApart'
    BY <1>2, <1>3 DEF Inv, BoundApart, FixedApart, Unifying, Local
  <1>6. NoCycle' /\ AcceptEnds'
    BY <1>3 DEF Inv, NoCycle, AcceptEnds
  <1> QED BY <1>3, <1>4, <1>5, <1>6, KnownKept DEF Inv

\* A call that ends without an answer forgets what it has found.
LEMMA EndedInv ==
    ASSUME Inv, equations' = <<>>, ext' = <<>>, fixed' = TRUE, UNCHANGED trial, UNCHANGED Local,
           outcome' \in {"stopped", "rejected", "failed"}
    PROVE  Inv'
  <1>1. CallTyped'
    BY EmptyLists DEF Inv, CallTyped, Unifying, Outcomes, Local
  <1>2. BoundApart' /\ FixedApart'
    BY EmptyLists DEF Inv, BoundApart, FixedApart, Unifying, Local
  <1>3. NoCycle'
    BY DEF Inv, NoCycle
  <1>4. AcceptEnds'
    BY DEF AcceptEnds
  <1> QED BY <1>1, <1>2, <1>3, <1>4, KnownKept DEF Inv

\* A call ends: the variable occurs in what it would stand for.
LEMMA OccursCheckInv == ASSUME Inv, OccursCheck PROVE Inv'
  BY EndedInv DEF OccursCheck, Answered

\* A call ends: the two signatures cannot be made the same.
LEMMA ClashInv == ASSUME Inv, Clash PROVE Inv'
  BY EndedInv DEF Clash, Answered

\* A variable that has a substitution is replaced by what it stands for, which speaks of
\* nothing that is bound by the set of what is known.
LEMMA LookedUpIs ==
    ASSUME NEW t \in TermsOver(supply), Inv, TypeVarsIn(t) \cap BoundBy(index) = {}
    PROVE  LookedUp(t) \in TermsOver(supply) /\ TypeVarsIn(LookedUp(t)) \cap BoundBy(index) = {}
  <1>1. CASE ~Found(t)
    BY <1>1 DEF LookedUp
  <1>2. CASE Found(t)
    <2> DEFINE list == IF Substituted(VarOf(t), ext) THEN ext ELSE trial
    <2>1. Substituted(VarOf(t), list) /\ list \in Lists(supply) /\ Avoids(list, BoundBy(index))
      BY <1>2 DEF Found, Inv, CallTyped, BoundApart
    <2>2. LookedUp(t) = LookUp(VarOf(t), list)
      BY <1>2 DEF LookedUp
    <2> HIDE DEF list
    <2>3. PICK n \in 1 .. Len(list) : LookUp(VarOf(t), list) = list[n].typeSig
      BY <2>1, LookUpIs
    <2> QED BY <2>1, <2>2, <2>3, ListIs DEF Avoids
  <1> QED BY <1>1, <1>2

\* The looked-up sides make an equation like the one they replace.
LEMMA FollowSubstsInv == ASSUME Inv, FollowSubsts PROVE Inv'
  <1> DEFINE e == [x |-> LookedUp(X), y |-> LookedUp(Y)]
  <1>1. equations \in Seq(Sides(supply)) /\ equations # <<>> /\ Without(equations, BoundBy(index))
    BY DEF Inv, CallTyped, BoundApart, FollowSubsts, Open
  <1>2. /\ X \in TermsOver(supply) /\ Y \in TermsOver(supply)
        /\ TypeVarsIn(X) \cap BoundBy(index) = {} /\ TypeVarsIn(Y) \cap BoundBy(index) = {}
    BY <1>1, FirstRest DEF X, Y
  <1>3. /\ LookedUp(X) \in TermsOver(supply) /\ TypeVarsIn(LookedUp(X)) \cap BoundBy(index) = {}
        /\ LookedUp(Y) \in TermsOver(supply) /\ TypeVarsIn(LookedUp(Y)) \cap BoundBy(index) = {}
    BY <1>2, LookedUpIs
  <1>4. e \in Sides(supply) /\ e.x = LookedUp(X) /\ e.y = LookedUp(Y)
    BY <1>3 DEF Sides
  <1>5. equations' = [equations EXCEPT ![1] = e]
        /\ UNCHANGED <<ext, outcome, trial, Local, fixed>> /\ Unifying /\ ~fixed
    BY DEF FollowSubsts, Open
  <1> HIDE DEF e
  <1>6. /\ equations' \in Seq(Sides(supply)) /\ DOMAIN equations' = DOMAIN equations
        /\ \A n \in DOMAIN equations : equations'[n] = IF n = 1 THEN e ELSE equations[n]
    BY <1>1, <1>4, <1>5
  <1>7. Without(equations', BoundBy(index))
    BY <1>1, <1>3, <1>4, <1>6 DEF Without
  <1>8. CallTyped'
    BY <1>5, <1>6 DEF Inv, CallTyped, Unifying, Local
  <1>9. BoundApart' /\ FixedApart'
    BY <1>5, <1>7 DEF Inv, BoundApart, FixedApart, Unifying, Local
  <1>10. NoCycle' /\ AcceptEnds'
    BY <1>5 DEF Inv, NoCycle, AcceptEnds
  <1> QED BY <1>5, <1>8, <1>9, <1>10, KnownKept DEF Inv

\* The parts of the two sides of an equation speak of what these speak of.
LEMMA DecomposeInv == ASSUME Inv, Decompose PROVE Inv'
  <1> DEFINE rest == Tail(equations)
             funs == <<[x |-> Fun(X), y |-> Fun(Y)]>> \o rest
             mid == IF Fun(X) # Fun(Y) THEN funs ELSE rest
             new == <<[x |-> Arg(X), y |-> Arg(Y)]>> \o mid
  <1>1. equations \in Seq(Sides(supply)) /\ equations # <<>>
    BY DEF Inv, CallTyped, Decompose, Solvable, Open
  <1>2. /\ rest \in Seq(Sides(supply)) /\ X \in TermsOver(supply) /\ Y \in TermsOver(supply)
        /\ \A bound : Without(equations, bound) =>
              Without(rest, bound) /\ TypeVarsIn(X) \cap bound = {} /\ TypeVarsIn(Y) \cap bound = {}
    BY <1>1, FirstRest DEF X, Y
  <1>3. ASSUME NEW t \in TermsOver(supply)
        PROVE  /\ Fun(t) \in TermsOver(supply) /\ TypeVarsIn(Fun(t)) \subseteq TypeVarsIn(t)
               /\ Arg(t) \in TermsOver(supply) /\ TypeVarsIn(Arg(t)) \subseteq TypeVarsIn(t)
    <2>1. t \in Terms /\ TypeVarsIn(t) \subseteq 1 .. supply
      BY DEF TermsOver
    <2> QED BY <2>1, PartTerm DEF TermsOver, Fun, Arg
  <1>4. /\ Fun(X) \in TermsOver(supply) /\ Fun(Y) \in TermsOver(supply)
        /\ Arg(X) \in TermsOver(supply) /\ Arg(Y) \in TermsOver(supply)
        /\ \A bound : /\ TypeVarsIn(X) \cap bound = {} => TypeVarsIn(Fun(X)) \cap bound = {} /\ TypeVarsIn(Arg(X)) \cap bound = {}
                      /\ TypeVarsIn(Y) \cap bound = {} => TypeVarsIn(Fun(Y)) \cap bound = {} /\ TypeVarsIn(Arg(Y)) \cap bound = {}
    <2>1. /\ TypeVarsIn(Fun(X)) \subseteq TypeVarsIn(X) /\ TypeVarsIn(Arg(X)) \subseteq TypeVarsIn(X)
          /\ TypeVarsIn(Fun(Y)) \subseteq TypeVarsIn(Y) /\ TypeVarsIn(Arg(Y)) \subseteq TypeVarsIn(Y)
      BY <1>2, <1>3
    <2> QED BY <1>2, <1>3, <2>1
  <1>5. equations' = new /\ UNCHANGED <<ext, outcome, trial, Local, fixed>> /\ Unifying
    <2> DEFINE e == [x |-> Arg(X), y |-> Arg(Y)]  f == [x |-> Fun(X), y |-> Fun(Y)]
    <2>1. equations' = <<e>> \o (IF Fun(X) # Fun(Y) THEN <<f>> ELSE <<>>) \o rest
      BY DEF Decompose, DecomposeBoth
    <2> HIDE DEF e, f, rest
    <2>2. rest \in Seq(Sides(supply))
      BY <1>2
    <2>3. equations' = <<e>> \o IF Fun(X) # Fun(Y) THEN <<f>> \o rest ELSE rest
      <3> DEFINE S == Sides(supply) \cup {e, f}
      <3>1. <<e>> \in Seq(S) /\ <<f>> \in Seq(S) /\ <<>> \in Seq(S) /\ rest \in Seq(S)
        <4>1. e \in S /\ f \in S
          OBVIOUS
        <4>2. rest \in Seq(S)
          <5> HIDE DEF S
          <5>1. \A m \in DOMAIN rest : rest[m] \in S
            BY <2>2 DEF S
          <5> QED BY <5>1, <2>2
        <4> HIDE DEF S
        <4> QED BY <4>1, <4>2
      <3> HIDE DEF S
      <3>2. \A p, q, r \in Seq(S) : (p \o q) \o r = p \o (q \o r)
        BY ConcatAssociative
      <3>3. <<>> \o rest = rest
        BY <3>1
      <3> QED BY ONLY <2>1, <3>1, <3>2, <3>3
    <2> QED BY <2>3 DEF Decompose, Solvable, Open, e, f, rest
  <1> HIDE DEF rest
  <1>6. /\ funs \in Seq(Sides(supply))
        /\ \A bound : Without(equations, bound) => Without(funs, bound)
    BY <1>2, <1>4, OneEquation
  <1> HIDE DEF funs
  <1>7. /\ mid \in Seq(Sides(supply))
        /\ \A bound : Without(equations, bound) => Without(mid, bound)
    BY <1>2, <1>6
  <1> HIDE DEF mid
  <1>8. /\ new \in Seq(Sides(supply))
        /\ \A bound : Without(equations, bound) => Without(new, bound)
    BY <1>2, <1>4, <1>7, OneEquation
  <1> HIDE DEF new
  <1>9. CallTyped'
    BY <1>5, <1>8 DEF Inv, CallTyped, Unifying, Local
  <1>10. BoundApart' /\ FixedApart'
    BY <1>5, <1>8 DEF Inv, BoundApart, FixedApart, Unifying, Local
  <1>11. NoCycle' /\ AcceptEnds'
    BY <1>5 DEF Inv, NoCycle, AcceptEnds
  <1> QED BY <1>5, <1>9, <1>10, <1>11, KnownKept DEF Inv

\* A variable replaced in all equations.
LEMMA SubstSidesIs ==
    ASSUME NEW n \in 0 .. NTypeVars, NEW eqs \in Seq(Sides(n)), NEW a, NEW t \in TermsOver(n)
    PROVE  /\ SubstSides(eqs, a, t) \in Seq(Sides(n))
           /\ \A bound : Without(eqs, bound) /\ TypeVarsIn(t) \cap (bound \cup {a}) = {} =>
                 Without(SubstSides(eqs, a, t), bound \cup {a})
  <1> DEFINE new == SubstSides(eqs, a, t)
             done(u) == SubstTypeVar(a, t, u)
  <1>1. /\ Len(eqs) \in Nat /\ DOMAIN eqs = 1 .. Len(eqs)
        /\ \A m \in 1 .. Len(eqs) : eqs[m].x \in TermsOver(n) /\ eqs[m].y \in TermsOver(n)
    <2>1. \A m \in 1 .. Len(eqs) : eqs[m] \in Sides(n)
      OBVIOUS
    <2>2. \A e \in Sides(n) : e.x \in TermsOver(n) /\ e.y \in TermsOver(n)
      BY DEF Sides
    <2> QED BY <2>1, <2>2
  <1>2. new = [m \in 1 .. Len(eqs) |-> [x |-> done(eqs[m].x), y |-> done(eqs[m].y)]]
    BY <1>1 DEF SubstSides
  <1>3. ASSUME NEW u \in TermsOver(n) PROVE done(u) \in TermsOver(n)
    BY <1>3, SubstTypeVarTerm
  <1>4. ASSUME NEW u, NEW bound, TypeVarsIn(u) \cap bound = {}, TypeVarsIn(t) \cap (bound \cup {a}) = {}
        PROVE  TypeVarsIn(done(u)) \cap (bound \cup {a}) = {}
    BY <1>4, SubstTypeVarVars
  <1> HIDE DEF done, new
  <1>5. \A m \in 1 .. Len(eqs) : [x |-> done(eqs[m].x), y |-> done(eqs[m].y)] \in Sides(n)
    BY <1>1, <1>3 DEF Sides
  <1>6. new \in Seq(Sides(n))
    BY <1>1, <1>2, <1>5
  <1>7. /\ DOMAIN new = DOMAIN eqs
        /\ \A m \in DOMAIN eqs : new[m].x = done(eqs[m].x) /\ new[m].y = done(eqs[m].y)
    BY <1>1, <1>2
  <1>8. ASSUME NEW bound, Without(eqs, bound), TypeVarsIn(t) \cap (bound \cup {a}) = {}
        PROVE  Without(new, bound \cup {a})
    <2> SUFFICES ASSUME NEW m \in DOMAIN eqs
                 PROVE  (TypeVarsIn(new[m].x) \cup TypeVarsIn(new[m].y)) \cap (bound \cup {a}) = {}
      BY <1>7 DEF Without
    <2>1. TypeVarsIn(eqs[m].x) \cap bound = {} /\ TypeVarsIn(eqs[m].y) \cap bound = {}
      BY <1>8 DEF Without
    <2>2. TypeVarsIn(done(eqs[m].x)) \cap (bound \cup {a}) = {}
      BY ONLY <2>1, <1>4, <1>8
    <2>3. TypeVarsIn(done(eqs[m].y)) \cap (bound \cup {a}) = {}
      BY ONLY <2>1, <1>4, <1>8
    <2> QED BY <2>2, <2>3, <1>7
  <1> QED BY <1>6, <1>8 DEF new

\* A variable replaced in all substitutions.
LEMMA SubstListIs ==
    ASSUME NEW n \in 0 .. NTypeVars, NEW list \in Lists(n), NEW a, NEW t \in TermsOver(n)
    PROVE  /\ SubstList(list, a, t) \in Lists(n) /\ Len(SubstList(list, a, t)) = Len(list)
           /\ BoundBy(SubstList(list, a, t)) = BoundBy(list)
           /\ Distinct(list) => Distinct(SubstList(list, a, t))
           /\ \A m \in 1 .. Len(list) :
                 /\ SubstList(list, a, t)[m].typeVar = list[m].typeVar
                 /\ \A bound : TypeVarsIn(list[m].typeSig) \cap bound = {} /\ TypeVarsIn(t) \cap (bound \cup {a}) = {} =>
                       TypeVarsIn(SubstList(list, a, t)[m].typeSig) \cap (bound \cup {a}) = {}
  <1> DEFINE new == SubstList(list, a, t)
             done(u) == SubstTypeVar(a, t, u)
             L == Len(list)
  <1>1. /\ L \in Nat /\ DOMAIN list = 1 .. L
        /\ BoundBy(list) = {list[m].typeVar : m \in 1 .. L}
        /\ \A m \in 1 .. L : /\ list[m] = [typeVar |-> list[m].typeVar, typeSig |-> list[m].typeSig]
                             /\ list[m].typeVar \in 1 .. n /\ list[m].typeSig \in TermsOver(n)
    BY ListIs DEF Subst
  <1>2. ASSUME NEW u \in TermsOver(n) PROVE done(u) \in TermsOver(n)
    BY <1>2, SubstTypeVarTerm
  <1>3. ASSUME NEW u, NEW bound, TypeVarsIn(u) \cap bound = {}, TypeVarsIn(t) \cap (bound \cup {a}) = {}
        PROVE  TypeVarsIn(done(u)) \cap (bound \cup {a}) = {}
    BY <1>3, SubstTypeVarVars
  <1>4. new = [m \in 1 .. L |-> [list[m] EXCEPT !.typeSig = done(list[m].typeSig)]]
    BY <1>1 DEF SubstList
  <1> HIDE DEF done, new, L
  <1>5. ASSUME NEW m \in 1 .. L
        PROVE  /\ new[m] = [typeVar |-> list[m].typeVar, typeSig |-> done(list[m].typeSig)]
    <2>1. new[m] = [list[m] EXCEPT !.typeSig = done(list[m].typeSig)]
      BY <1>4
    <2> QED BY ONLY <2>1, <1>1
  <1>6. \A m \in 1 .. L : new[m] \in Substs(n) /\ new[m].typeVar = list[m].typeVar
                          /\ new[m].typeSig = done(list[m].typeSig)
    <2> SUFFICES ASSUME NEW m \in 1 .. L
                 PROVE  /\ new[m] \in Substs(n) /\ new[m].typeVar = list[m].typeVar
                        /\ new[m].typeSig = done(list[m].typeSig)
      OBVIOUS
    <2>1. list[m].typeVar \in 1 .. n /\ done(list[m].typeSig) \in TermsOver(n)
      BY <1>1, <1>2
    <2>2. new[m] = [typeVar |-> list[m].typeVar, typeSig |-> done(list[m].typeSig)]
      BY <1>5
    <2> QED BY ONLY <2>1, <2>2 DEF Substs
  <1>7. new \in Lists(n) /\ Len(new) = L /\ DOMAIN new = 1 .. L
    <2>1. DOMAIN new = 1 .. L /\ new = [m \in 1 .. L |-> new[m]]
      BY <1>4
    <2>2. L \in Nat /\ \A m \in 1 .. L : new[m] \in Substs(n)
      BY <1>1, <1>6
    <2> QED BY ONLY <2>1, <2>2 DEF Lists
  <1>8. BoundBy(new) = BoundBy(list)
    BY <1>1, <1>6, <1>7 DEF BoundBy
  <1>9. Distinct(list) => Distinct(new)
    BY <1>1, <1>6, <1>7 DEF Distinct
  <1> QED BY <1>3, <1>6, <1>7, <1>8, <1>9 DEF new, L

\* The equation that BindTypeVar solves.
LEMMA ToBind ==
    ASSUME Inv, Solvable, IsTypeVar(Lhs)
    PROVE  /\ Lhs = TypeVar(VarOf(Lhs)) /\ TypeVarsIn(Lhs) = {VarOf(Lhs)}
           /\ VarOf(Lhs) \in 1 .. supply /\ Rhs \in TermsOver(supply)
           /\ \A bound : Without(equations, bound) => VarOf(Lhs) \notin bound /\ TypeVarsIn(Rhs) \cap bound = {}
           /\ VarOf(Lhs) \notin BoundBy(index) /\ TypeVarsIn(Rhs) \cap BoundBy(index) = {}
           /\ Tail(equations) \in Seq(Sides(supply))
           /\ \A bound : Without(equations, bound) => Without(Tail(equations), bound)
  <1>1. equations \in Seq(Sides(supply)) /\ equations # <<>> /\ Without(equations, BoundBy(index))
    BY DEF Inv, CallTyped, BoundApart, Solvable, Open
  <1>2. /\ X \in TermsOver(supply) /\ Y \in TermsOver(supply)
        /\ \A bound : Without(equations, bound) =>
              /\ TypeVarsIn(X) \cap bound = {} /\ TypeVarsIn(Y) \cap bound = {}
              /\ Without(Tail(equations), bound)
        /\ Tail(equations) \in Seq(Sides(supply))
    BY <1>1, FirstRest DEF X, Y
  <1>3. /\ Lhs \in TermsOver(supply) /\ Rhs \in TermsOver(supply)
        /\ \A bound : Without(equations, bound) => TypeVarsIn(Lhs) \cap bound = {} /\ TypeVarsIn(Rhs) \cap bound = {}
    BY <1>2 DEF Lhs, Rhs
  <1>4. Lhs = TypeVar(VarOf(Lhs)) /\ TypeVarsIn(Lhs) = {VarOf(Lhs)}
    BY VarOfIs
  <1>5. VarOf(Lhs) \in 1 .. supply
    BY <1>3, <1>4 DEF TermsOver
  <1>6. \A bound : Without(equations, bound) => VarOf(Lhs) \notin bound
    BY <1>3, <1>4
  <1> QED BY <1>1, <1>2, <1>3, <1>4, <1>5, <1>6

\* In fixed mode the variable is replaced in all that is left to solve and in all that was
\* found.
LEMMA BindFixedInv == ASSUME Inv, BindTypeVar, fixed PROVE Inv'
  <1> DEFINE a == VarOf(Lhs)  t == Rhs  rest == Tail(equations)
             eqs == SubstSides(rest, a, t)
             list == SubstList(ext, a, t)
             new == <<Subst(a, t)>> \o list
             bound == BoundBy(index)
  <1>1. /\ Solvable /\ IsTypeVar(Lhs) /\ a \notin TypeVarsIn(t) /\ Unifying
        /\ equations' = eqs /\ ext' = new
        /\ UNCHANGED <<outcome, trial, Local, fixed>>
    BY DEF BindTypeVar, Occurs, Extend, Solvable, Open
  <1>2. /\ supply \in 0 .. NTypeVars /\ ext \in Lists(supply) /\ trial = <<>>
        /\ Flat(ext) /\ Distinct(ext) /\ Without(equations, BoundBy(ext)) /\ Without(equations, bound)
        /\ Avoids(ext, bound)
    BY <1>1 DEF Inv, KnownTyped, CallTyped, BoundApart, FixedApart
  <1>3. /\ a \in 1 .. supply /\ t \in TermsOver(supply) /\ rest \in Seq(Sides(supply))
        /\ a \notin bound /\ a \notin BoundBy(ext)
        /\ TypeVarsIn(t) \cap bound = {} /\ TypeVarsIn(t) \cap BoundBy(ext) = {}
        /\ Without(rest, bound) /\ Without(rest, BoundBy(ext))
    BY <1>1, <1>2, ToBind
  <1> HIDE DEF a, t, rest, bound
  <1>4. /\ eqs \in Seq(Sides(supply)) /\ Without(eqs, bound \cup {a}) /\ Without(eqs, BoundBy(ext) \cup {a})
    BY <1>1, <1>2, <1>3, SubstSidesIs
  <1>5. /\ list \in Lists(supply) /\ Len(list) = Len(ext) /\ BoundBy(list) = BoundBy(ext) /\ Distinct(list)
        /\ \A m \in 1 .. Len(ext) :
              /\ list[m].typeVar = ext[m].typeVar
              /\ \A b : TypeVarsIn(ext[m].typeSig) \cap b = {} /\ TypeVarsIn(t) \cap (b \cup {a}) = {} =>
                       TypeVarsIn(list[m].typeSig) \cap (b \cup {a}) = {}
    BY <1>2, <1>3, SubstListIs
  <1>6. Subst(a, t) \in Substs(supply) /\ Subst(a, t).typeVar = a /\ Subst(a, t).typeSig = t
    BY <1>3 DEF Substs, Subst
  <1> HIDE DEF list, eqs
  <1>7. OneMore(supply, new, list, Subst(a, t))
    BY <1>5, <1>6, PrependOne
  <1> HIDE DEF new
  <1>8. /\ new \in Lists(supply) /\ BoundBy(new) = BoundBy(ext) \cup {a} /\ Distinct(new)
        /\ \A m \in 1 .. Len(new) : new[m] = Subst(a, t) \/ \E i \in 1 .. Len(list) : new[m] = list[i]
    BY <1>3, <1>5, <1>6, <1>7 DEF OneMore
  <1>9. ASSUME NEW m \in 1 .. Len(new)
        PROVE  /\ new[m].typeVar \notin bound
               /\ TypeVarsIn(new[m].typeSig) \cap bound = {}
               /\ TypeVarsIn(new[m].typeSig) \cap BoundBy(new) = {}
    <2>1. CASE new[m] = Subst(a, t)
      BY <2>1, <1>1, <1>3, <1>6, <1>8 DEF a, t
    <2>2. CASE \E i \in 1 .. Len(list) : new[m] = list[i]
      <3>1. PICK i \in 1 .. Len(ext) : new[m] = list[i]
        BY <2>2, <1>5
      <3>2. /\ ext[i].typeVar \notin bound /\ TypeVarsIn(ext[i].typeSig) \cap bound = {}
            /\ TypeVarsIn(ext[i].typeSig) \cap BoundBy(ext) = {}
        BY <1>2, ListIs DEF Avoids, Flat
      <3>3. /\ TypeVarsIn(t) \cap (bound \cup {a}) = {} /\ TypeVarsIn(t) \cap (BoundBy(ext) \cup {a}) = {}
        BY <1>1, <1>3 DEF a, t
      <3>4. TypeVarsIn(list[i].typeSig) \cap (bound \cup {a}) = {}
            /\ TypeVarsIn(list[i].typeSig) \cap (BoundBy(ext) \cup {a}) = {}
        BY <3>2, <3>3, <1>5
      <3> QED BY <3>1, <3>2, <3>4, <1>5, <1>8
    <2> QED BY <2>1, <2>2, <1>8
  <1>10. Avoids(new, bound) /\ Flat(new)
    BY <1>8, <1>9, ListIs DEF Avoids, Flat
  <1>11. CallTyped'
    BY <1>1, <1>4, <1>8 DEF Inv, CallTyped, Unifying, Local
  <1>12. BoundApart'
    <2>1. Without(eqs, bound)
      BY <1>4 DEF Without
    <2> QED BY <1>1, <1>2, <1>8, <1>10, <2>1, EmptyLists DEF BoundApart, Local, bound
  <1>13. FixedApart'
    BY <1>1, <1>2, <1>4, <1>8, <1>10 DEF FixedApart, Unifying
  <1>14. NoCycle' /\ AcceptEnds'
    BY <1>1 DEF Inv, NoCycle, AcceptEnds
  <1> QED BY <1>1, <1>11, <1>12, <1>13, <1>14, KnownKept DEF Inv

\* What a variable stands for under two lists that bind no variable twice.
LEMMA StandsForIs ==
    ASSUME NEW n, NEW list \in Lists(n), NEW other \in Lists(n), Distinct(list), Distinct(other),
           BoundBy(list) \cap BoundBy(other) = {}
    PROVE  /\ \A m \in 1 .. Len(list) : StandsFor(list[m].typeVar, list, other) = TypeVarsIn(list[m].typeSig)
           /\ \A m \in 1 .. Len(other) : StandsFor(other[m].typeVar, list, other) = TypeVarsIn(other[m].typeSig)
  <1>1. /\ DOMAIN list = 1 .. Len(list) /\ DOMAIN other = 1 .. Len(other)
        /\ \A m \in 1 .. Len(list) : list[m].typeVar \in BoundBy(list)
        /\ \A m \in 1 .. Len(other) : other[m].typeVar \in BoundBy(other)
    BY ListIs
  <1>2. ASSUME NEW m \in 1 .. Len(list) PROVE LookUp(list[m].typeVar, list) = list[m].typeSig
    <2>1. Substituted(list[m].typeVar, list)
      BY <1>1 DEF Substituted
    <2>2. PICK k \in 1 .. Len(list) : list[k].typeVar = list[m].typeVar /\ LookUp(list[m].typeVar, list) = list[k].typeSig
      BY <2>1, LookUpIs
    <2> QED BY <2>2, <1>1 DEF Distinct
  <1>3. ASSUME NEW m \in 1 .. Len(other) PROVE LookUp(other[m].typeVar, other) = other[m].typeSig
    <2>1. Substituted(other[m].typeVar, other)
      BY <1>1 DEF Substituted
    <2>2. PICK k \in 1 .. Len(other) : other[k].typeVar = other[m].typeVar /\ LookUp(other[m].typeVar, other) = other[k].typeSig
      BY <2>1, LookUpIs
    <2> QED BY <2>2, <1>1 DEF Distinct
  <1>4. \A m \in 1 .. Len(other) : other[m].typeVar \notin BoundBy(list)
    BY <1>1
  <1> QED BY <1>1, <1>2, <1>3, <1>4 DEF StandsFor, Substituted

\* A variable that is not met on the way down from a signature is put above all that is:
\* the substitutions there were still lead down, and so does the new one.
LEMMA Raised ==
    ASSUME NEW n \in 0 .. NTypeVars, NEW list \in Lists(n), NEW other \in Lists(n), Distinct(list), Distinct(other),
           BoundBy(list) \cap BoundBy(other) = {},
           NEW M \in Nat, NEW rank \in Ranks(M), Falls(rank, list), Falls(rank, other),
           NEW a \in 1 .. n, NEW t \in TermsOver(n), a \notin BoundBy(list), a \notin BoundBy(other),
           ~OccursUnder(a, t, list, other)
    PROVE  \E high \in Ranks(M + M + 1) :
              /\ Falls(high, list) /\ Falls(high, other)
              /\ \A x \in TypeVarsIn(t) : high[x] < high[a]
  <1> DEFINE all == UNION ({TypeVarsIn(t)} \cup
                           {TypeVarsIn(list[m].typeSig) : m \in DOMAIN list} \cup
                           {TypeVarsIn(other[m].typeSig) : m \in DOMAIN other})
  <1>1. PICK met \in SUBSET all : TypeVarsIn(t) \subseteq met /\ Closed(met, list, other) /\ a \notin met
    BY DEF OccursUnder, Substituted
  <1> HIDE DEF all
  <1> DEFINE high == [x \in 1 .. NTypeVars |-> IF x \in met THEN rank[x] ELSE rank[x] + M + 1]
  <1>2. \A x \in 1 .. NTypeVars : rank[x] \in 0 .. M
    BY DEF Ranks
  <1>3. high \in Ranks(M + M + 1)
    <2>1. \A x \in 1 .. NTypeVars : (IF x \in met THEN rank[x] ELSE rank[x] + M + 1) \in 0 .. (M + M + 1)
      BY <1>2
    <2> QED BY <2>1 DEF Ranks
  <1>4. \A x \in 1 .. NTypeVars : /\ x \in met => high[x] = rank[x]
                                  /\ x \notin met => high[x] = rank[x] + M + 1
    OBVIOUS
  <1> HIDE DEF high
  <1>5. 1 .. n \subseteq 1 .. NTypeVars
    BY SupplyAssumption
  <1>6. ASSUME NEW b \in 1 .. NTypeVars, NEW x \in 1 .. NTypeVars, rank[x] < rank[b], b \in met => x \in met
        PROVE  high[x] < high[b]
    <2>1. rank[x] \in Int /\ rank[b] \in Int /\ 0 <= rank[x] /\ rank[x] <= M /\ 0 <= rank[b]
      BY <1>2
    <2>2. CASE b \in met
      <3>1. high[x] = rank[x] /\ high[b] = rank[b]
        BY <2>2, <1>4, <1>6
      <3> QED BY ONLY <3>1, <1>6
    <2>3. CASE b \notin met
      <3>1. high[b] = rank[b] + M + 1
        BY <2>3, <1>4
      <3>2. high[x] = rank[x] \/ high[x] = rank[x] + M + 1
        BY <1>4
      <3> QED BY ONLY <3>1, <3>2, <2>1, <1>6, M \in Nat
    <2> QED BY <2>2, <2>3
  <1>7. ASSUME NEW q \in Lists(n), Falls(rank, q),
               \A m \in 1 .. Len(q) : StandsFor(q[m].typeVar, list, other) = TypeVarsIn(q[m].typeSig)
        PROVE  Falls(high, q)
    <2> SUFFICES ASSUME NEW m \in 1 .. Len(q), NEW x \in TypeVarsIn(q[m].typeSig)
                 PROVE  high[x] < high[q[m].typeVar]
      BY ListIs DEF Falls
    <2>1. rank[x] < rank[q[m].typeVar]
      BY <1>7, ListIs DEF Falls
    <2>2. x \in 1 .. n /\ q[m].typeVar \in 1 .. n
      BY ListIs
    <2>3. q[m].typeVar \in met => x \in met
      BY <1>1, <1>7 DEF Closed
    <2> QED BY <2>1, <2>2, <2>3, <1>5, <1>6
  <1>8. Falls(high, list) /\ Falls(high, other)
    BY <1>7, StandsForIs
  <1>9. ASSUME NEW x \in TypeVarsIn(t) PROVE high[x] < high[a]
    <2>1. x \in met /\ x \in 1 .. NTypeVars /\ a \in 1 .. NTypeVars
      BY <1>1, <1>5 DEF TermsOver
    <2>2. high[x] = rank[x] /\ high[a] = rank[a] + M + 1
      BY <2>1, <1>1, <1>4
    <2> QED BY <2>1, <2>2, <1>2
  <1> QED BY <1>3, <1>8, <1>9

\* In a trial the variable only extends the list.
LEMMA BindTrialInv == ASSUME Inv, BindTypeVar, ~fixed PROVE Inv'
  <1> DEFINE a == VarOf(Lhs)  t == Rhs  rest == Tail(equations)
             new == <<Subst(a, t)>> \o ext
             bound == BoundBy(index)
  <1>1. /\ Solvable /\ IsTypeVar(Lhs) /\ ~OccursUnder(a, t, trial, ext) /\ Unifying
        /\ equations' = rest /\ ext' = new
        /\ UNCHANGED <<outcome, trial, Local, fixed>>
    BY DEF BindTypeVar, Occurs, Extend, Solvable, Open
  <1>2. /\ supply \in 0 .. NTypeVars /\ ext \in Lists(supply) /\ trial \in Lists(supply)
        /\ Distinct(ext) /\ Distinct(trial) /\ BoundBy(ext) \cap BoundBy(trial) = {} /\ Without(equations, bound)
        /\ Avoids(ext, bound) /\ Avoids(trial, bound)
    BY DEF Inv, KnownTyped, CallTyped, BoundApart
  <1>3. /\ a \in 1 .. supply /\ t \in TermsOver(supply) /\ rest \in Seq(Sides(supply))
        /\ a \notin bound /\ TypeVarsIn(t) \cap bound = {} /\ Without(rest, bound)
    BY <1>1, <1>2, ToBind
  <1>4. a \notin BoundBy(ext) /\ a \notin BoundBy(trial)
    <2>1. ~Found(Lhs)
      BY <1>1 DEF Solvable, Lhs
    <2> QED BY <2>1, <1>1 DEF Found, Substituted
  <1> HIDE DEF a, t, rest, bound
  <1>5. PICK M \in Nat : \E rank \in Ranks(M) : Falls(rank, trial) /\ Falls(rank, ext)
    BY DEF Inv, NoCycle
  <1>6. PICK rank \in Ranks(M) : Falls(rank, trial) /\ Falls(rank, ext)
    BY <1>5
  <1>7. PICK high \in Ranks(M + M + 1) :
              /\ Falls(high, trial) /\ Falls(high, ext)
              /\ \A x \in TypeVarsIn(t) : high[x] < high[a]
    <2>1. BoundBy(trial) \cap BoundBy(ext) = {}
      BY <1>2
    <2> QED BY <1>1, <1>2, <1>3, <1>4, <1>6, <2>1, Raised
  <1>8. Subst(a, t) \in Substs(supply) /\ Subst(a, t).typeVar = a /\ Subst(a, t).typeSig = t
    BY <1>3 DEF Substs, Subst
  <1>9. OneMore(supply, new, ext, Subst(a, t))
    BY <1>2, <1>8, PrependOne
  <1> HIDE DEF new
  <1>10. /\ new \in Lists(supply) /\ BoundBy(new) = BoundBy(ext) \cup {a} /\ Distinct(new)
         /\ \A m \in 1 .. Len(new) : new[m] = Subst(a, t) \/ \E i \in 1 .. Len(ext) : new[m] = ext[i]
    BY <1>2, <1>4, <1>8, <1>9 DEF OneMore
  <1>11. ASSUME NEW m \in 1 .. Len(new)
         PROVE  /\ new[m].typeVar \notin bound
                /\ TypeVarsIn(new[m].typeSig) \cap bound = {}
                /\ \A x \in TypeVarsIn(new[m].typeSig) : high[x] < high[new[m].typeVar]
    <2>1. CASE new[m] = Subst(a, t)
      BY <2>1, <1>3, <1>7, <1>8
    <2>2. CASE \E i \in 1 .. Len(ext) : new[m] = ext[i]
      BY <2>2, <1>2, <1>7, ListIs DEF Avoids, Falls
    <2> QED BY <2>1, <2>2, <1>10
  <1>12. Avoids(new, bound) /\ Falls(high, new)
    BY <1>10, <1>11, ListIs DEF Avoids, Falls
  <1>13. NoCycle' /\ AcceptEnds'
    <2>1. M + M + 1 \in Nat
      OBVIOUS
    <2>2. NoCycle'
      BY <2>1, <1>1, <1>7, <1>12 DEF NoCycle
    <2> QED BY <2>2, <1>1 DEF Inv, AcceptEnds
  <1>14. CallTyped'
    BY <1>1, <1>3, <1>10 DEF Inv, CallTyped, Unifying, Local
  <1>15. BoundApart'
    BY <1>1, <1>2, <1>3, <1>4, <1>10, <1>12 DEF BoundApart, Local, bound
  <1>16. FixedApart'
    BY <1>1 DEF FixedApart
  <1> QED BY <1>1, <1>13, <1>14, <1>15, <1>16, KnownKept DEF Inv

(***************************************************************************)
(* What was found is applied to what is known.                             *)
(***************************************************************************)
AssumedFrom(s, k) == UNION {s[m].assumed : m \in k .. Len(s)}

\* Brought up to date, a signature speaks of nothing that is bound.
LEMMA CurrentIs ==
    ASSUME KnownTyped, Solved, NEW t \in TermsOver(supply)
    PROVE  /\ Current(t) \in TermsOver(supply)
           /\ TypeVarsIn(Current(t)) \cap BoundBy(index) = {}
  <1>1. supply \in 0 .. NTypeVars /\ index \in Lists(supply) /\ Distinct(index) /\ Flat(index)
    BY DEF KnownTyped, Solved
  <1>2. Current(t) \in TermsOver(supply) /\ TypeVarsIn(Current(t)) = Moved(TypeVarsIn(t), index, Len(index))
    BY <1>1, SubstTypeVarsTerm, SubstTypeVarsVars DEF Current
  <1>3. /\ DOMAIN index = 1 .. Len(index) /\ BoundBy(index) = {index[m].typeVar : m \in 1 .. Len(index)}
        /\ \A m \in 1 .. Len(index) : TypeVarsIn(index[m].typeSig) \cap BoundBy(index) = {}
    BY <1>1, ListIs DEF Flat
  <1>4. Moved(TypeVarsIn(t), index, Len(index)) \cap BoundBy(index) = {}
    BY <1>3 DEF Moved
  <1> QED BY <1>2, <1>4

\* The scopes hold the variables of what was assumed in them, whatever is applied.
LEMMA AppliedKnown ==
    ASSUME KnownTyped, Solved, ScopesRight, NEW list \in Lists(supply), Distinct(list), Flat(list),
           Avoids(list, BoundBy(index)), ApplySubsts(list), UNCHANGED <<supply, calls>>
    PROVE  /\ KnownTyped' /\ Solved' /\ ScopesRight'
           /\ BoundBy(index') = BoundBy(list) \cup BoundBy(index)
           /\ index' = Reverse(list) \o Updated(list)
  <1> DEFINE s == scopes  r == scopes'  L == Len(list)
  <1>1. /\ supply \in 0 .. NTypeVars /\ index \in Lists(supply) /\ refs \subseteq (1 .. supply) \X (1 .. supply)
        /\ s \in Chains(supply) /\ s # <<>> /\ HeldOnce(s) /\ Distinct(index)
    BY DEF KnownTyped, ScopesRight, Solved
  <1>2. /\ index' \in Lists(supply) /\ Solved' /\ refs' \subseteq (1 .. supply) \X (1 .. supply)
        /\ BoundBy(index') = BoundBy(list) \cup BoundBy(index)
        /\ \A V : Moved(V, index', Len(index')) = Moved(Moved(V, index, Len(index)), list, L)
        /\ r = SubstScopes(s, list)
        /\ index' = Reverse(list) \o Updated(list)
    BY <1>1, AppliedIndex
  <1>3. /\ r \in Chains(supply) /\ SameScopes(r, s) /\ HeldOnce(r)
        /\ \A k \in 1 .. Len(s) : VarsFrom(r, k) = Moved(VarsFrom(s, k), list, L)
    BY <1>1, <1>2, SubstScopesIs
  <1>4. DOMAIN s = 1 .. Len(s) /\ Len(s) \in Nat /\ DOMAIN r = 1 .. Len(r) /\ Len(r) = Len(s)
    BY <1>1, <1>3, ChainIs DEF SameScopes
  <1>5. KnownTyped'
    <2>1. r # <<>>
      BY <1>1, <1>4
    <2> QED BY <1>2, <1>3, <2>1 DEF KnownTyped
  <1>6. ASSUME NEW t
        PROVE  TypeVarsIn(SubstTypeVars(t, index')) = Moved(TypeVarsIn(SubstTypeVars(t, index)), list, L)
    <2>1. TypeVarsIn(SubstTypeVars(t, index)) = Moved(TypeVarsIn(t), index, Len(index))
      BY <1>1, SubstTypeVarsVars
    <2>2. Distinct(index')
      BY <1>2 DEF Solved, Distinct
    <2> DEFINE new == index'
    <2> HIDE DEF new
    <2>3. new \in Lists(supply) /\ Distinct(new)
      BY <1>2, <2>2 DEF new
    <2>4. TypeVarsIn(SubstTypeVars(t, new)) = Moved(TypeVarsIn(t), new, Len(new))
      BY ONLY <2>3, SubstTypeVarsVars
    <2> QED BY <2>1, <2>4, <1>2 DEF new
  <1>7. ASSUME NEW k \in DOMAIN r
        PROVE  VarsFrom(r, k) = UNION {TypeVarsIn(SubstTypeVars(t, index')) : t \in AssumedFrom(r, k)}
    <2> DEFINE A == AssumedFrom(s, k)
               now(t) == TypeVarsIn(SubstTypeVars(t, index))
               then(t) == TypeVarsIn(SubstTypeVars(t, index'))
    <2>0. k \in 1 .. Len(s)
      BY <1>4
    <2>1. VarsFrom(s, k) = UNION {now(t) : t \in A}
      BY <2>0, <1>4 DEF ScopesRight, ScopeVars, Current, AssumedFrom
    <2>2. AssumedFrom(r, k) = A
      <3>1. \A m \in k .. Len(s) : r[m].assumed = s[m].assumed
        BY <1>3, <1>4, <2>0 DEF SameScopes
      <3> QED BY <3>1, <1>4 DEF AssumedFrom
    <2>3. \A t : then(t) = Moved(now(t), list, L)
      BY <1>6
    <2>4. VarsFrom(r, k) = Moved(UNION {now(t) : t \in A}, list, L)
      BY <1>3, <2>0, <2>1
    <2> HIDE DEF A, now, then
    <2>5. ASSUME NEW x
          PROVE  x \in Moved(UNION {now(t) : t \in A}, list, L) <=> \E t \in A : x \in Moved(now(t), list, L)
      BY DEF Moved
    <2>6. ASSUME NEW x PROVE x \in UNION {then(t) : t \in A} <=> \E t \in A : x \in Moved(now(t), list, L)
      BY <2>3
    <2>7. VarsFrom(r, k) = UNION {then(t) : t \in A}
      BY <2>4, <2>5, <2>6
    <2> QED BY <2>2, <2>7 DEF then
  <1>8. ScopesRight'
    <2>1. HeldOnce(scopes)'
      BY <1>3 DEF HeldOnce
    <2>2. ScopeVars'
      BY <1>7 DEF ScopeVars, Current, AssumedFrom, VarsFrom
    <2> QED BY <2>1, <2>2 DEF ScopesRight
  <1> QED BY <1>2, <1>5, <1>8

\* One list before another.
LEMMA ListsJoined ==
    ASSUME NEW n, NEW list \in Lists(n), NEW other \in Lists(n)
    PROVE  /\ list \o other \in Lists(n)
           /\ \A m \in 1 .. Len(list \o other) :
                 \/ \E i \in 1 .. Len(list) : m = i /\ (list \o other)[m] = list[i]
                 \/ \E i \in 1 .. Len(other) : m = Len(list) + i /\ (list \o other)[m] = other[i]
           /\ \A i \in 1 .. Len(list) : \E m \in 1 .. Len(list \o other) : (list \o other)[m] = list[i]
           /\ \A i \in 1 .. Len(other) : \E m \in 1 .. Len(list \o other) : (list \o other)[m] = other[i]
           /\ Distinct(list) /\ Distinct(other) /\ BoundBy(list) \cap BoundBy(other) = {}
                 => Distinct(list \o other)
           /\ \A bound : Avoids(list, bound) /\ Avoids(other, bound) => Avoids(list \o other, bound)
           /\ \A rank : Falls(rank, list) /\ Falls(rank, other) => Falls(rank, list \o other)
  <1> DEFINE new == list \o other  L == Len(list)  M == Len(other)
  <1>1. /\ L \in Nat /\ M \in Nat /\ DOMAIN list = 1 .. L /\ DOMAIN other = 1 .. M
        /\ \A m \in 1 .. L : list[m].typeVar \in BoundBy(list)
        /\ \A m \in 1 .. M : other[m].typeVar \in BoundBy(other)
    BY ListIs
  <1>2. /\ new \in Seq(Substs(n)) /\ DOMAIN new = 1 .. (L + M) /\ Len(new) = L + M
        /\ \A m \in 1 .. L : new[m] = list[m]
        /\ \A m \in 1 .. M : new[L + m] = other[m]
    BY <1>1, ConcatAt DEF Lists
  <1> HIDE DEF new, L, M
  <1>3. ASSUME NEW m \in 1 .. (L + M)
        PROVE  (m \in 1 .. L /\ new[m] = list[m]) \/ (m - L \in 1 .. M /\ m = L + (m - L) /\ new[m] = other[m - L])
    <2>1. m \in 1 .. L \/ (m - L \in 1 .. M /\ m = L + (m - L))
      BY <1>1
    <2> QED BY <2>1, <1>2
  <1>4. /\ \A i \in 1 .. L : i \in 1 .. (L + M)
        /\ \A i \in 1 .. M : L + i \in 1 .. (L + M)
    BY <1>1
  <1>5. ASSUME Distinct(list), Distinct(other), BoundBy(list) \cap BoundBy(other) = {}
        PROVE  Distinct(new)
    <2> SUFFICES ASSUME NEW m \in 1 .. (L + M), NEW k \in 1 .. (L + M), new[m].typeVar = new[k].typeVar
                 PROVE  m = k
      BY <1>2 DEF Distinct
    <2>1. /\ \A i, j \in 1 .. L : list[i].typeVar = list[j].typeVar => i = j
          /\ \A i, j \in 1 .. M : other[i].typeVar = other[j].typeVar => i = j
          /\ \A i \in 1 .. L, j \in 1 .. M : list[i].typeVar # other[j].typeVar
      BY <1>1, <1>5 DEF Distinct
    <2>2. CASE m \in 1 .. L /\ new[m] = list[m]
      BY <2>1, <2>2, <1>3
    <2>3. CASE m - L \in 1 .. M /\ new[m] = other[m - L]
      <3>1. k - L \in 1 .. M /\ k = L + (k - L) /\ new[k] = other[k - L]
        BY <2>1, <2>3, <1>3
      <3>2. m - L = k - L
        BY <2>1, <2>3, <3>1
      <3> QED BY <3>2, <1>1
    <2> QED BY <2>2, <2>3, <1>3
  <1>6. ASSUME NEW bound, Avoids(list, bound), Avoids(other, bound) PROVE Avoids(new, bound)
    BY <1>1, <1>2, <1>3, <1>6 DEF Avoids
  <1>7. ASSUME NEW rank, Falls(rank, list), Falls(rank, other) PROVE Falls(rank, new)
    <2> SUFFICES ASSUME NEW m \in 1 .. (L + M), NEW x \in TypeVarsIn(new[m].typeSig)
                 PROVE  rank[x] < rank[new[m].typeVar]
      BY <1>2 DEF Falls
    <2>1. CASE m \in 1 .. L /\ new[m] = list[m]
      BY <2>1, <1>1, <1>7 DEF Falls
    <2>2. CASE m - L \in 1 .. M /\ new[m] = other[m - L]
      BY <2>2, <1>1, <1>7 DEF Falls
    <2> QED BY <2>1, <2>2, <1>3
  <1>8. new \in Lists(n)
    BY <1>2 DEF Lists
  <1> QED BY <1>2, <1>3, <1>4, <1>5, <1>6, <1>7, <1>8 DEF new, L, M

\* The end of a call: what was found is applied, or it extends the list of the trial.
LEMMA FinishInv == ASSUME Inv, Finish PROVE Inv'
  <1>1. /\ Unifying /\ equations = <<>> /\ outcome' = "unified" /\ ext' = <<>> /\ fixed' = TRUE
        /\ UNCHANGED <<equations, supply, calls>>
    BY DEF Finish, Answered
  <1>2. /\ KnownTyped /\ Solved /\ ScopesRight
        /\ ext \in Lists(supply) /\ trial \in Lists(supply)
        /\ Distinct(ext) /\ Distinct(trial) /\ BoundBy(ext) \cap BoundBy(trial) = {}
        /\ Avoids(ext, BoundBy(index)) /\ Avoids(trial, BoundBy(index))
    BY DEF Inv, CallTyped, BoundApart
  <1>3. CASE fixed
    <2>1. ApplySubsts(ext) /\ UNCHANGED trial /\ trial = <<>> /\ Flat(ext)
      BY <1>1, <1>3 DEF Finish, Inv, FixedApart
    <2>2. KnownTyped' /\ Solved' /\ ScopesRight'
      BY <1>1, <1>2, <2>1, AppliedKnown
    <2>3. CallTyped' /\ BoundApart' /\ FixedApart'
      BY <1>1, <2>1, EmptyLists DEF CallTyped, BoundApart, FixedApart, Unifying, Outcomes
    <2>4. NoCycle' /\ AcceptEnds'
      BY <1>1, <1>3, <2>1 DEF Inv, NoCycle, AcceptEnds
    <2> QED BY <2>2, <2>3, <2>4 DEF Inv
  <1>4. CASE ~fixed
    <2>1. trial' = ext \o trial /\ UNCHANGED <<index, refs, scopes>>
      BY <1>4 DEF Finish
    <2>2. /\ ext \o trial \in Lists(supply) /\ Distinct(ext \o trial) /\ Avoids(ext \o trial, BoundBy(index))
          /\ \A rank : Falls(rank, ext) /\ Falls(rank, trial) => Falls(rank, ext \o trial)
      BY <1>2, ListsJoined
    <2>3. KnownTyped' /\ Solved' /\ ScopesRight'
      BY <1>1, <2>1, KnownKept DEF Local
    <2>4. CallTyped' /\ BoundApart' /\ FixedApart'
      BY <1>1, <2>1, <2>2, EmptyLists DEF CallTyped, BoundApart, FixedApart, Unifying, Outcomes
    <2>5. NoCycle' /\ AcceptEnds'
      BY <1>1, <1>4, <2>1, <2>2 DEF Inv, NoCycle, AcceptEnds
    <2> QED BY <2>3, <2>4, <2>5 DEF Inv
  <1> QED BY <1>3, <1>4

\* A constraint is satisfied: its substitutions, applied to each other, are applied to what
\* is known.
LEMMA AcceptInv == ASSUME Inv, Accept PROVE Inv'
  <1>1. Idle /\ ~Unifying /\ outcome # "looping" /\ equations = <<>> /\ ext = <<>>
        /\ UNCHANGED <<equations, ext, fixed, supply, calls>>
    BY DEF Accept, Idle, Unifying, Inv, CallTyped
  <1>2. /\ KnownTyped /\ Solved /\ ScopesRight /\ supply \in 0 .. NTypeVars
        /\ trial \in Lists(supply) /\ Distinct(trial) /\ Avoids(trial, BoundBy(index))
    BY DEF Inv, CallTyped, BoundApart, KnownTyped
  <1>3. PICK M \in Nat : \E rank \in Ranks(M) : Falls(rank, trial)
    BY DEF Inv, NoCycle
  <1>4. PICK f : /\ SubstSubsts(trial, <<>>) = [substs |-> <<>>, fixed |-> f]
                 /\ f \in Lists(supply) /\ Distinct(f) /\ Flat(f) /\ Avoids(f, BoundBy(index))
    BY <1>2, <1>3, SubstSubstsIs
  <1>5. outcome' = "none" /\ trial' = <<>> /\ ApplySubsts(f)
    BY <1>4 DEF Accept
  <1>6. KnownTyped' /\ Solved' /\ ScopesRight'
    BY <1>1, <1>2, <1>4, <1>5, AppliedKnown
  <1>7. CallTyped' /\ BoundApart' /\ FixedApart'
    BY <1>1, <1>5, EmptyLists DEF Inv, CallTyped, BoundApart, FixedApart, Unifying, Outcomes
  <1>8. NoCycle' /\ AcceptEnds'
    <2>1. [x \in 1 .. NTypeVars |-> 0] \in Ranks(0)
      BY DEF Ranks
    <2> QED BY <2>1, <1>1, <1>5, EmptyLists DEF NoCycle, AcceptEnds
  <1> QED BY <1>6, <1>7, <1>8 DEF Inv

\* The constraint's list is forgotten.
LEMMA GiveUpInv == ASSUME Inv, GiveUp PROVE Inv'
  <1>1. /\ outcome' = "none" /\ trial' = <<>> /\ ~Unifying
        /\ UNCHANGED <<equations, ext, fixed, Local>>
    BY DEF GiveUp, Idle, Unifying, Local
  <1>2. CallTyped' /\ BoundApart' /\ FixedApart'
    BY <1>1, EmptyLists DEF Inv, CallTyped, BoundApart, FixedApart, Unifying, Outcomes, Local
  <1>3. NoCycle' /\ AcceptEnds'
    BY <1>1, EmptyLists DEF Inv, NoCycle, AcceptEnds
  <1> QED BY <1>1, <1>2, <1>3, KnownKept DEF Inv

(***************************************************************************)
(* The scopes between two calls.                                           *)
(***************************************************************************)
\* What ScopeVars says, of any chain.
Right(s) == \A k \in DOMAIN s : VarsFrom(s, k) = UNION {TypeVarsIn(Current(t)) : t \in AssumedFrom(s, k)}

\* ScopeVars says it of the chain there is.
LEMMA RightIs == ScopeVars <=> Right(scopes)
  BY DEF ScopeVars, Right, AssumedFrom

\* What is in the unions.
LEMMA MemberFrom ==
    ASSUME NEW s, NEW k, NEW x
    PROVE  /\ x \in VarsFrom(s, k) <=> \E m \in k .. Len(s) : x \in s[m].typeVars
           /\ x \in AssumedFrom(s, k) <=> \E m \in k .. Len(s) : x \in s[m].assumed
  BY DEF VarsFrom, AssumedFrom

\* An assumption of the innermost scope brings those of its variables that no scope holds.
LEMMA FrontRight ==
    ASSUME NEW n, NEW s \in Chains(n), s # <<>>, HeldOnce(s), Right(s),
           NEW c \in ScopeRecs(n), NEW t,
           c.typeVars = s[1].typeVars \cup (TypeVarsIn(Current(t)) \ VarsFrom(s, 1)),
           c.assumed = s[1].assumed \cup {t},
           NEW r, r = [s EXCEPT ![1] = c]
    PROVE  r \in Chains(n) /\ r # <<>> /\ HeldOnce(r) /\ Right(r)
  <1> DEFINE L == Len(s)  V == TypeVarsIn(Current(t))
             have(k) == UNION {TypeVarsIn(Current(u)) : u \in AssumedFrom(s, k)}
             want(k) == UNION {TypeVarsIn(Current(u)) : u \in AssumedFrom(r, k)}
  <1>1. L \in Nat \ {0} /\ DOMAIN s = 1 .. L /\ \A m \in 1 .. L : s[m] \in ScopeRecs(n)
    BY ChainIs DEF Chains
  <1>2. /\ DOMAIN r = 1 .. L /\ r[1] = c /\ \A m \in 1 .. L : m # 1 => r[m] = s[m]
        /\ r = [m \in 1 .. L |-> r[m]]
    <2>1. 1 \in 1 .. L
      BY <1>1
    <2> HIDE DEF L
    <2> QED BY ONLY <1>1, <2>1, r = [s EXCEPT ![1] = c]
  <1>3. r \in Chains(n) /\ Len(r) = L
    <2>1. \A m \in 1 .. L : r[m] \in ScopeRecs(n)
      BY <1>1, <1>2
    <2> HIDE DEF L
    <2> QED BY ONLY <1>1, <1>2, <2>1 DEF Chains
  <1>4. r # <<>>
    BY <1>1, <1>2
  <1> HIDE DEF L
  <1>5. 1 .. L = {1} \cup (2 .. L)
    BY <1>1
  <1>6. \A k \in 2 .. L : \A m \in k .. L : m \in 1 .. L /\ m # 1 /\ r[m] = s[m]
    BY <1>1, <1>2
  <1>7. ASSUME NEW k \in 2 .. L
        PROVE  VarsFrom(r, k) = VarsFrom(s, k) /\ AssumedFrom(r, k) = AssumedFrom(s, k)
    <2>1. ASSUME NEW x
          PROVE  /\ x \in VarsFrom(r, k) <=> x \in VarsFrom(s, k)
                 /\ x \in AssumedFrom(r, k) <=> x \in AssumedFrom(s, k)
      <3>1. /\ x \in VarsFrom(s, k) <=> \E m \in k .. L : x \in s[m].typeVars
            /\ x \in AssumedFrom(s, k) <=> \E m \in k .. L : x \in s[m].assumed
        BY MemberFrom DEF L
      <3>2. /\ x \in VarsFrom(r, k) <=> \E m \in k .. L : x \in r[m].typeVars
            /\ x \in AssumedFrom(r, k) <=> \E m \in k .. L : x \in r[m].assumed
        BY <1>3, MemberFrom
      <3> QED BY ONLY <3>1, <3>2, <1>6, k \in 2 .. L
    <2> QED BY <2>1
  <1>8. 1 \in 1 .. L /\ \A m \in 2 .. L : m \in 1 .. L /\ m # 1 /\ r[m] = s[m]
    BY <1>1, <1>2
  <1>9. ASSUME NEW x
        PROVE  /\ x \in VarsFrom(s, 1) <=> x \in s[1].typeVars \/ \E m \in 2 .. L : x \in s[m].typeVars
               /\ x \in AssumedFrom(s, 1) <=> x \in s[1].assumed \/ \E m \in 2 .. L : x \in s[m].assumed
               /\ x \in VarsFrom(r, 1) <=> x \in c.typeVars \/ \E m \in 2 .. L : x \in s[m].typeVars
               /\ x \in AssumedFrom(r, 1) <=> x \in c.assumed \/ \E m \in 2 .. L : x \in s[m].assumed
    <2>1. /\ x \in VarsFrom(s, 1) <=> \E m \in 1 .. L : x \in s[m].typeVars
          /\ x \in AssumedFrom(s, 1) <=> \E m \in 1 .. L : x \in s[m].assumed
      BY MemberFrom DEF L
    <2>2. /\ x \in VarsFrom(r, 1) <=> \E m \in 1 .. L : x \in r[m].typeVars
          /\ x \in AssumedFrom(r, 1) <=> \E m \in 1 .. L : x \in r[m].assumed
      BY <1>3, MemberFrom
    <2> QED BY ONLY <2>1, <2>2, <1>2, <1>5, <1>8
  <1>10. VarsFrom(r, 1) = VarsFrom(s, 1) \cup V /\ AssumedFrom(r, 1) = AssumedFrom(s, 1) \cup {t}
    <2>1. \A x : x \in VarsFrom(r, 1) <=> x \in VarsFrom(s, 1) \/ x \in V
      BY <1>9
    <2>2. \A x : x \in AssumedFrom(r, 1) <=> x \in AssumedFrom(s, 1) \/ x = t
      BY <1>9
    <2> QED BY <2>1, <2>2
  <1>11. want(1) = have(1) \cup V
    BY <1>10
  <1>12. Right(r)
    <2> SUFFICES ASSUME NEW k \in 1 .. L PROVE VarsFrom(r, k) = want(k)
      BY <1>2 DEF Right
    <2>1. VarsFrom(s, k) = have(k)
      BY <1>1 DEF Right
    <2>2. CASE k = 1
      BY <2>1, <2>2, <1>10, <1>11
    <2>3. CASE k \in 2 .. L
      BY <2>1, <2>3, <1>7
    <2> QED BY <2>2, <2>3, <1>5
  <1>13. HeldOnce(r)
    <2>1. ASSUME NEW m \in 2 .. L
          PROVE  m \in 1 .. L /\ m # 1 /\ r[m] = s[m] /\ s[1].typeVars \cap s[m].typeVars = {}
                 /\ s[m].typeVars \subseteq VarsFrom(s, 1)
      <3>1. m \in 1 .. L /\ m # 1
        BY <1>1
      <3>2. s[1].typeVars \cap s[m].typeVars = {}
        BY <3>1, <1>1, <1>8 DEF HeldOnce
      <3>3. s[m].typeVars \subseteq VarsFrom(s, 1)
        BY <1>9
      <3> QED BY <3>1, <3>2, <3>3, <1>8
    <2>2. \A m \in 2 .. L : r[1].typeVars \cap r[m].typeVars = {}
      BY <2>1, <1>2
    <2>3. \A k, m \in 2 .. L : k # m => r[k].typeVars \cap r[m].typeVars = {}
      BY <2>1, <1>1 DEF HeldOnce
    <2> QED BY <2>2, <2>3, <1>2, <1>5 DEF HeldOnce
  <1> QED BY <1>3, <1>4, <1>12, <1>13

\* A new scope holds nothing.
LEMMA OpenedRight ==
    ASSUME NEW n, NEW s \in Chains(n), HeldOnce(s), Right(s),
           NEW r, r = <<[typeVars |-> {}, named |-> <<>>, assumed |-> {}]>> \o s
    PROVE  r \in Chains(n) /\ r # <<>> /\ HeldOnce(r) /\ Right(r)
  <1> DEFINE L == Len(s)
             c == [typeVars |-> {}, named |-> <<>>, assumed |-> {}]
  <1>1. L \in Nat /\ DOMAIN s = 1 .. L /\ s \in Seq(ScopeRecs(n))
    BY ChainIs DEF Chains
  <1>2. c \in ScopeRecs(n) /\ c.typeVars = {} /\ c.assumed = {}
    <2>1. <<>> \in [{} -> 1 .. n]
      OBVIOUS
    <2>2. <<>> \in NamedVars(n)
      BY <2>1 DEF NamedVars
    <2> QED BY <2>2 DEF ScopeRecs
  <1>3. r = <<c>> \o s
    OBVIOUS
  <1> HIDE DEF c
  <1>4. /\ r \in Seq(ScopeRecs(n)) /\ Len(r) = L + 1 /\ DOMAIN r = 1 .. (L + 1)
        /\ r[1] = c /\ \A m \in 1 .. L : r[m + 1] = s[m]
    <2>1. <<c>> \in Seq(ScopeRecs(n)) /\ Len(<<c>>) = 1 /\ <<c>>[1] = c
      BY <1>2
    <2>2. /\ <<c>> \o s \in Seq(ScopeRecs(n)) /\ DOMAIN (<<c>> \o s) = 1 .. (1 + L)
          /\ \A m \in 1 .. 1 : (<<c>> \o s)[m] = <<c>>[m]
          /\ \A m \in 1 .. L : (<<c>> \o s)[1 + m] = s[m]
      BY <1>1, <2>1, ConcatAt
    <2> HIDE DEF L
    <2>3. r \in Seq(ScopeRecs(n)) /\ DOMAIN r = 1 .. (L + 1) /\ r[1] = c /\ \A m \in 1 .. L : r[m + 1] = s[m]
      BY ONLY <2>1, <2>2, <1>1, <1>3
    <2>4. Len(r) = L + 1
      BY ONLY <2>3, <1>1
    <2> QED BY <2>3, <2>4
  <1>5. r # <<>>
    BY <1>1, <1>4
  <1> HIDE DEF L
  <1>6. ASSUME NEW k \in 1 .. L
        PROVE  VarsFrom(r, k + 1) = VarsFrom(s, k) /\ AssumedFrom(r, k + 1) = AssumedFrom(s, k)
    <2>1. \A m \in k .. L : m + 1 \in (k + 1) .. (L + 1) /\ r[m + 1] = s[m]
      BY <1>1, <1>4
    <2>2. \A m \in (k + 1) .. (L + 1) : m - 1 \in k .. L /\ r[m] = s[m - 1]
      <3> SUFFICES ASSUME NEW m \in (k + 1) .. (L + 1) PROVE m - 1 \in k .. L /\ r[m] = s[m - 1]
        OBVIOUS
      <3>1. m - 1 \in k .. L /\ (m - 1) + 1 = m
        BY <1>1
      <3> QED BY <3>1, <2>1
    <2>3. ASSUME NEW x
          PROVE  /\ x \in VarsFrom(r, k + 1) <=> x \in VarsFrom(s, k)
                 /\ x \in AssumedFrom(r, k + 1) <=> x \in AssumedFrom(s, k)
      <3>1. /\ x \in VarsFrom(r, k + 1) <=> \E m \in (k + 1) .. (L + 1) : x \in r[m].typeVars
            /\ x \in AssumedFrom(r, k + 1) <=> \E m \in (k + 1) .. (L + 1) : x \in r[m].assumed
        BY <1>4, MemberFrom
      <3>2. /\ x \in VarsFrom(s, k) <=> \E m \in k .. L : x \in s[m].typeVars
            /\ x \in AssumedFrom(s, k) <=> \E m \in k .. L : x \in s[m].assumed
        BY MemberFrom DEF L
      <3> QED BY ONLY <3>1, <3>2, <2>1, <2>2
    <2> QED BY <2>3
  <1>7. VarsFrom(r, 1) = VarsFrom(s, 1) /\ AssumedFrom(r, 1) = AssumedFrom(s, 1)
    <2>1. \A m \in 1 .. L : m + 1 \in 1 .. (L + 1)
      BY <1>1
    <2>2. \A m \in 1 .. (L + 1) : m = 1 \/ (m - 1 \in 1 .. L /\ r[m] = s[m - 1])
      <3> SUFFICES ASSUME NEW m \in 1 .. (L + 1), m # 1 PROVE m - 1 \in 1 .. L /\ r[m] = s[m - 1]
        OBVIOUS
      <3>1. m - 1 \in 1 .. L /\ (m - 1) + 1 = m
        BY <1>1
      <3> QED BY <3>1, <1>4
    <2>3. ASSUME NEW x
          PROVE  /\ x \in VarsFrom(r, 1) <=> x \in VarsFrom(s, 1)
                 /\ x \in AssumedFrom(r, 1) <=> x \in AssumedFrom(s, 1)
      <3>1. /\ x \in VarsFrom(r, 1) <=> \E m \in 1 .. (L + 1) : x \in r[m].typeVars
            /\ x \in AssumedFrom(r, 1) <=> \E m \in 1 .. (L + 1) : x \in r[m].assumed
        BY <1>4, MemberFrom
      <3>2. /\ x \in VarsFrom(s, 1) <=> \E m \in 1 .. L : x \in s[m].typeVars
            /\ x \in AssumedFrom(s, 1) <=> \E m \in 1 .. L : x \in s[m].assumed
        BY MemberFrom DEF L
      <3> QED BY ONLY <3>1, <3>2, <2>1, <2>2, <1>2, <1>4
    <2> QED BY <2>3
  <1>8. VarsFrom(r, 1) = UNION {TypeVarsIn(Current(u)) : u \in AssumedFrom(r, 1)}
    <2>1. CASE L = 0
      <3>1. 1 .. L = {}
        BY <2>1
      <3>2. VarsFrom(s, 1) = {} /\ AssumedFrom(s, 1) = {}
        BY <3>1 DEF VarsFrom, AssumedFrom, L
      <3> QED BY <3>2, <1>7
    <2>2. CASE L # 0
      <3>1. 1 \in DOMAIN s
        BY <2>2, <1>1
      <3> QED BY <3>1, <1>7 DEF Right
    <2> QED BY <2>1, <2>2
  <1>9. ASSUME NEW m \in 1 .. (L + 1), m # 1 PROVE m - 1 \in 1 .. L /\ (m - 1) + 1 = m /\ r[m] = s[m - 1]
    <2>1. m - 1 \in 1 .. L /\ (m - 1) + 1 = m
      BY <1>1, <1>9
    <2> QED BY <2>1, <1>4
  <1>10. Right(r)
    <2> SUFFICES ASSUME NEW k \in 1 .. (L + 1)
                 PROVE  VarsFrom(r, k) = UNION {TypeVarsIn(Current(u)) : u \in AssumedFrom(r, k)}
      BY <1>4 DEF Right
    <2>1. CASE k = 1
      BY <2>1, <1>8
    <2>2. CASE k # 1
      <3>1. k - 1 \in 1 .. L /\ (k - 1) + 1 = k
        BY <2>2, <1>9
      <3>2. VarsFrom(r, k) = VarsFrom(s, k - 1) /\ AssumedFrom(r, k) = AssumedFrom(s, k - 1)
        BY <3>1, <1>6
      <3> QED BY <3>1, <3>2, <1>1 DEF Right
    <2> QED BY <2>1, <2>2
  <1>11. HeldOnce(r)
    <2> SUFFICES ASSUME NEW k \in 1 .. (L + 1), NEW m \in 1 .. (L + 1), k # m
                 PROVE  r[k].typeVars \cap r[m].typeVars = {}
      BY <1>4 DEF HeldOnce
    <2>1. CASE k = 1 \/ m = 1
      BY <2>1, <1>2, <1>4
    <2>2. CASE k # 1 /\ m # 1
      <3>1. k - 1 \in 1 .. L /\ m - 1 \in 1 .. L /\ k - 1 # m - 1 /\ r[k] = s[k - 1] /\ r[m] = s[m - 1]
        BY <2>2, <1>1, <1>9
      <3> QED BY <3>1, <1>1 DEF HeldOnce
    <2> QED BY <2>1, <2>2
  <1> QED BY <1>4, <1>5, <1>10, <1>11 DEF Chains

\* The scopes that are left when the innermost is closed.
LEMMA ClosedRight ==
    ASSUME NEW n, NEW s \in Chains(n), HeldOnce(s), Right(s), Len(s) > 1
    PROVE  Tail(s) \in Chains(n) /\ Tail(s) # <<>> /\ HeldOnce(Tail(s)) /\ Right(Tail(s))
  <1> DEFINE L == Len(s)  r == Tail(s)
  <1>1. L \in Nat /\ L > 1 /\ DOMAIN s = 1 .. L /\ s \in Seq(ScopeRecs(n))
    BY ChainIs DEF Chains
  <1>2. /\ r \in Seq(ScopeRecs(n)) /\ Len(r) = L - 1 /\ DOMAIN r = 1 .. (L - 1)
        /\ \A m \in 1 .. (L - 1) : r[m] = s[m + 1]
    <2> DEFINE T == ScopeRecs(n)
    <2>1. s \in Seq(T) /\ s # <<>>
      BY <1>1
    <2> HIDE DEF T
    <2>2. /\ Tail(s) \in Seq(T) /\ Len(Tail(s)) = Len(s) - 1
          /\ DOMAIN Tail(s) = 1 .. (Len(s) - 1)
          /\ \A m \in 1 .. (Len(s) - 1) : Tail(s)[m] = s[m + 1]
      BY ONLY <2>1
    <2> QED BY <2>2 DEF T
  <1> HIDE DEF L, r
  <1>3. r # <<>>
    <2>1. 1 \in DOMAIN r
      BY <1>1, <1>2
    <2> QED BY <2>1
  <1>4. ASSUME NEW k \in 1 .. (L - 1)
        PROVE  /\ k + 1 \in 1 .. L
               /\ VarsFrom(r, k) = VarsFrom(s, k + 1) /\ AssumedFrom(r, k) = AssumedFrom(s, k + 1)
    <2>1. \A m \in k .. (L - 1) : m + 1 \in (k + 1) .. L /\ r[m] = s[m + 1]
      BY <1>1, <1>2
    <2>2. \A m \in (k + 1) .. L : m - 1 \in k .. (L - 1) /\ r[m - 1] = s[m]
      <3> SUFFICES ASSUME NEW m \in (k + 1) .. L PROVE m - 1 \in k .. (L - 1) /\ r[m - 1] = s[m]
        OBVIOUS
      <3>1. m - 1 \in k .. (L - 1) /\ (m - 1) + 1 = m
        BY <1>1
      <3> QED BY <3>1, <2>1
    <2>3. ASSUME NEW x
          PROVE  /\ x \in VarsFrom(r, k) <=> x \in VarsFrom(s, k + 1)
                 /\ x \in AssumedFrom(r, k) <=> x \in AssumedFrom(s, k + 1)
      <3>1. /\ x \in VarsFrom(r, k) <=> \E m \in k .. (L - 1) : x \in r[m].typeVars
            /\ x \in AssumedFrom(r, k) <=> \E m \in k .. (L - 1) : x \in r[m].assumed
        BY <1>2, MemberFrom
      <3>2. /\ x \in VarsFrom(s, k + 1) <=> \E m \in (k + 1) .. L : x \in s[m].typeVars
            /\ x \in AssumedFrom(s, k + 1) <=> \E m \in (k + 1) .. L : x \in s[m].assumed
        BY MemberFrom DEF L
      <3> QED BY ONLY <3>1, <3>2, <2>1, <2>2
    <2>4. k + 1 \in 1 .. L
      BY <1>1
    <2> QED BY <2>3, <2>4
  <1>5. Right(r)
    BY <1>1, <1>2, <1>4 DEF Right
  <1>6. HeldOnce(r)
    <2> SUFFICES ASSUME NEW k \in 1 .. (L - 1), NEW m \in 1 .. (L - 1), k # m
                 PROVE  r[k].typeVars \cap r[m].typeVars = {}
      BY <1>2 DEF HeldOnce
    <2>1. k + 1 \in 1 .. L /\ m + 1 \in 1 .. L /\ k + 1 # m + 1
      BY <1>4, <1>1
    <2> QED BY <2>1, <1>1, <1>2 DEF HeldOnce
  <1> QED BY <1>2, <1>3, <1>5, <1>6 DEF r, Chains

(***************************************************************************)
(* What happens between two calls.                                         *)
(***************************************************************************)
\* What is over some variables is over more.
LEMMA Grown ==
    ASSUME NEW n \in Nat
    PROVE  /\ TermsOver(n) \subseteq TermsOver(n + 1) /\ Lists(n) \subseteq Lists(n + 1)
           /\ Seq(Sides(n)) \subseteq Seq(Sides(n + 1)) /\ Chains(n) \subseteq Chains(n + 1)
           /\ NamedVars(n) \subseteq NamedVars(n + 1)
           /\ (1 .. n) \X (1 .. n) \subseteq (1 .. (n + 1)) \X (1 .. (n + 1))
  <1>1. 1 .. n \subseteq 1 .. (n + 1)
    OBVIOUS
  <1>2. TermsOver(n) \subseteq TermsOver(n + 1)
    BY <1>1 DEF TermsOver
  <1>3. Substs(n) \subseteq Substs(n + 1) /\ Sides(n) \subseteq Sides(n + 1)
    BY <1>1, <1>2 DEF Substs, Sides
  <1>4. NamedVars(n) \subseteq NamedVars(n + 1)
    <2> SUFFICES ASSUME NEW D \in SUBSET Names, NEW f \in [D -> 1 .. n] PROVE f \in [D -> 1 .. (n + 1)]
      BY DEF NamedVars
    <2> QED BY <1>1
  <1>5. ScopeRecs(n) \subseteq ScopeRecs(n + 1)
    BY <1>1, <1>2, <1>4 DEF ScopeRecs
  <1>6. \A S, T : S \subseteq T => Seq(S) \subseteq Seq(T)
    OBVIOUS
  <1>7. Lists(n) \subseteq Lists(n + 1) /\ Chains(n) \subseteq Chains(n + 1)
    BY <1>3, <1>5, <1>6 DEF Lists, Chains
  <1>8. Seq(Sides(n)) \subseteq Seq(Sides(n + 1))
    BY <1>3, <1>6
  <1>9. (1 .. n) \X (1 .. n) \subseteq (1 .. (n + 1)) \X (1 .. (n + 1))
    BY <1>1
  <1> QED BY ONLY <1>2, <1>4, <1>7, <1>8, <1>9

\* No call is made, though a variable may be given out.
LEMMA CallKept ==
    ASSUME Inv, UNCHANGED <<equations, ext, fixed, outcome, index, trial>>,
           supply' = supply \/ supply' = supply + 1
    PROVE  CallTyped' /\ BoundApart' /\ FixedApart' /\ NoCycle' /\ AcceptEnds'
  <1>1. /\ equations \in Seq(Sides(supply')) /\ ext \in Lists(supply') /\ trial \in Lists(supply')
    <2>1. supply \in Nat
      BY SupplyAssumption DEF Inv, KnownTyped
    <2>2. equations \in Seq(Sides(supply)) /\ ext \in Lists(supply) /\ trial \in Lists(supply)
      BY DEF Inv, CallTyped
    <2> QED BY <2>1, <2>2, Grown
  <1>2. CallTyped'
    BY <1>1 DEF Inv, CallTyped, Unifying
  <1>3. BoundApart' /\ FixedApart'
    BY DEF Inv, BoundApart, FixedApart, Unifying
  <1>4. NoCycle' /\ AcceptEnds'
    BY DEF Inv, NoCycle, AcceptEnds
  <1> QED BY <1>2, <1>3, <1>4

\* ScopesRight of the next state, stated of its scopes.
LEMMA RightAfter ==
    ASSUME UNCHANGED index, HeldOnce(scopes'), Right(scopes')
    PROVE  ScopesRight'
  BY DEF ScopesRight, ScopeVars, Right, AssumedFrom, HeldOnce, Current

\* Only the scopes change.
LEMMA ScopesInv ==
    ASSUME Inv, UNCHANGED <<equations, ext, fixed, outcome, index, refs, trial, supply, calls>>,
           scopes' \in Chains(supply), scopes' # <<>>, HeldOnce(scopes'), Right(scopes')
    PROVE  Inv'
  <1>1. CallTyped' /\ BoundApart' /\ FixedApart' /\ NoCycle' /\ AcceptEnds'
    BY CallKept
  <1>2. KnownTyped' /\ Solved'
    BY DEF Inv, KnownTyped, Solved, Distinct, Flat, Indexed
  <1>3. ScopesRight'
    BY RightAfter
  <1> QED BY <1>1, <1>2, <1>3 DEF Inv

\* A new scope is empty.
LEMMA OpenScopeInv == ASSUME Inv, OpenScope PROVE Inv'
  <1>1. scopes \in Chains(supply) /\ HeldOnce(scopes) /\ Right(scopes)
    BY RightIs DEF Inv, KnownTyped, ScopesRight
  <1>2. scopes' = <<[typeVars |-> {}, named |-> <<>>, assumed |-> {}]>> \o scopes
        /\ UNCHANGED <<equations, ext, fixed, outcome, index, refs, trial, supply, calls>>
    BY DEF OpenScope
  <1>3. scopes' \in Chains(supply) /\ scopes' # <<>> /\ HeldOnce(scopes') /\ Right(scopes')
    BY <1>1, <1>2, OpenedRight
  <1> QED BY <1>2, <1>3, ScopesInv

\* The innermost scope goes.
LEMMA CloseScopeInv == ASSUME Inv, CloseScope PROVE Inv'
  <1>1. scopes \in Chains(supply) /\ HeldOnce(scopes) /\ Right(scopes)
    BY RightIs DEF Inv, KnownTyped, ScopesRight
  <1>2. scopes' = Tail(scopes) /\ Len(scopes) > 1
        /\ UNCHANGED <<equations, ext, fixed, outcome, index, refs, trial, supply, calls>>
    BY DEF CloseScope
  <1>3. scopes' \in Chains(supply) /\ scopes' # <<>> /\ HeldOnce(scopes') /\ Right(scopes')
    BY <1>1, <1>2, ClosedRight
  <1> QED BY <1>2, <1>3, ScopesInv

\* The signatures that are known are terms.
LEMMA KnownIs == ASSUME NEW t \in Known PROVE t \in TermsOver(supply)
  BY SigsAreTerms DEF Known, TermsOver

\* The innermost scope.
LEMMA FirstScope ==
    ASSUME NEW n, NEW s \in Chains(n), s # <<>>
    PROVE  /\ 1 \in DOMAIN s
           /\ s[1] = [typeVars |-> s[1].typeVars, named |-> s[1].named, assumed |-> s[1].assumed]
           /\ s[1].typeVars \subseteq 1 .. n /\ s[1].named \in NamedVars(n)
           /\ s[1].assumed \subseteq TermsOver(n)
  <1>1. 1 \in 1 .. Len(s) /\ DOMAIN s = 1 .. Len(s)
    BY DEF Chains
  <1>2. s[1] \in ScopeRecs(n)
    BY <1>1 DEF Chains
  <1> QED BY ONLY <1>1, <1>2 DEF ScopeRecs

\* The innermost scope takes the variables that no scope has yet.
LEMMA AssumeInv == ASSUME Inv, NEW t \in Known \cap Patterns, Assume(t) PROVE Inv'
  <1> DEFINE V == TypeVarsIn(Current(t)) \ VarsFrom(scopes, 1)
             c == [typeVars |-> scopes[1].typeVars \cup V, named |-> scopes[1].named,
                   assumed |-> scopes[1].assumed \cup {t}]
  <1>1. scopes \in Chains(supply) /\ scopes # <<>> /\ HeldOnce(scopes) /\ Right(scopes)
    BY RightIs DEF Inv, KnownTyped, ScopesRight
  <1>2. /\ 1 \in DOMAIN scopes
        /\ scopes[1] = [typeVars |-> scopes[1].typeVars, named |-> scopes[1].named, assumed |-> scopes[1].assumed]
        /\ scopes[1].typeVars \subseteq 1 .. supply /\ scopes[1].named \in NamedVars(supply)
        /\ scopes[1].assumed \subseteq TermsOver(supply)
    BY ONLY <1>1, FirstScope
  <1>3. t \in TermsOver(supply) /\ TypeVarsIn(Current(t)) \subseteq 1 .. supply
    BY KnownIs, CurrentIs DEF Inv, TermsOver
  <1>4. /\ scopes' = [AddTypeSig(scopes, 1, Current(t)) EXCEPT ![1].assumed = @ \cup {t}]
        /\ UNCHANGED <<equations, ext, fixed, outcome, index, refs, trial, supply, calls>>
    BY DEF Assume
  <1> HIDE DEF V
  <1>5. c \in ScopeRecs(supply) /\ c.typeVars = scopes[1].typeVars \cup V /\ c.assumed = scopes[1].assumed \cup {t}
    <2>1. scopes[1].typeVars \cup V \subseteq 1 .. supply
      BY <1>2, <1>3 DEF V
    <2>2. scopes[1].assumed \cup {t} \subseteq TermsOver(supply)
      BY <1>2, <1>3
    <2> QED BY ONLY <1>2, <2>1, <2>2 DEF ScopeRecs
  <1>6. scopes' = [scopes EXCEPT ![1] = c]
    <2> DEFINE d == [scopes[1] EXCEPT !.typeVars = scopes[1].typeVars \cup V]
               mid == [scopes EXCEPT ![1] = d]
    <2>1. AddTypeSig(scopes, 1, Current(t)) = mid
      BY DEF AddTypeSig, V
    <2>2. mid[1] = d
      BY <1>2
    <2>3. scopes' = [mid EXCEPT ![1] = [mid[1] EXCEPT !.assumed = mid[1].assumed \cup {t}]]
      BY <1>4, <2>1
    <2>4. d.assumed = scopes[1].assumed /\ [d EXCEPT !.assumed = scopes[1].assumed \cup {t}] = c
      <3> DEFINE W == scopes[1].typeVars \cup V  A == scopes[1].assumed \cup {t}
      <3> HIDE DEF W, A
      <3>1. PICK R, N, B : scopes[1] = [typeVars |-> R, named |-> N, assumed |-> B]
        BY ONLY <1>2
      <3>2. scopes[1].named = N /\ scopes[1].assumed = B
        BY ONLY <3>1
      <3>3. [scopes[1] EXCEPT !.typeVars = W] = [typeVars |-> W, named |-> N, assumed |-> B]
        BY ONLY <3>1
      <3>4. [[scopes[1] EXCEPT !.typeVars = W] EXCEPT !.assumed = A]
              = [typeVars |-> W, named |-> scopes[1].named, assumed |-> A]
        <4>1. [[typeVars |-> W, named |-> N, assumed |-> B] EXCEPT !.assumed = A]
                = [typeVars |-> W, named |-> N, assumed |-> A]
          OBVIOUS
        <4> QED BY ONLY <3>2, <3>3, <4>1, Zenon
      <3>5. [scopes[1] EXCEPT !.typeVars = W].assumed = scopes[1].assumed
        BY ONLY <3>2, <3>3
      <3> QED BY ONLY <3>4, <3>5 DEF W, A
    <2> HIDE DEF d, c
    <2> QED BY <2>2, <2>3, <2>4
  <1> HIDE DEF c
  <1>7. scopes' \in Chains(supply) /\ scopes' # <<>> /\ HeldOnce(scopes') /\ Right(scopes')
    BY <1>1, <1>5, <1>6, FrontRight DEF V
  <1> QED BY <1>4, <1>7, ScopesInv

\* A variable that was not given out yet stands for itself.
LEMMA FreshIs ==
    ASSUME KnownTyped, Solved, supply < NTypeVars
    PROVE  /\ supply + 1 \in 1 .. NTypeVars /\ supply + 1 \in 1 .. (supply + 1) /\ supply \in Nat
           /\ TypeVar(supply + 1) \in TermsOver(supply + 1)
           /\ TypeVarsIn(TypeVar(supply + 1)) = {supply + 1} /\ supply + 1 \notin BoundBy(index)
           /\ TypeVarsIn(Current(TypeVar(supply + 1))) = {supply + 1}
  <1> DEFINE v == supply + 1  t == TypeVar(v)
  <1>1. supply \in Nat /\ v \in 1 .. NTypeVars /\ v \in 1 .. v
    BY SupplyAssumption DEF KnownTyped
  <1>2. t \in Terms /\ TypeVarsIn(t) = {v}
    BY <1>1, TypeVarTerm, TypeVarVars
  <1>3. t \in TermsOver(v)
    BY <1>1, <1>2 DEF TermsOver
  <1>4. index \in Lists(supply) /\ Distinct(index)
    BY DEF KnownTyped, Solved
  <1>5. v \notin BoundBy(index)
    <2>1. \A m \in 1 .. Len(index) : index[m].typeVar \in 1 .. supply
      BY <1>4, ListIs
    <2>2. BoundBy(index) = {index[m].typeVar : m \in 1 .. Len(index)}
      BY <1>4, ListIs
    <2> QED BY <1>1, <2>1, <2>2
  <1>6. TypeVarsIn(Current(t)) = Moved({v}, index, Len(index))
    BY <1>2, <1>4, SubstTypeVarsVars DEF Current
  <1>7. Moved({v}, index, Len(index)) = {v}
    BY <1>4, <1>5, NothingMoves
  <1> QED BY <1>1, <1>2, <1>3, <1>5, <1>6, <1>7

\* What is known stays known when a variable is given out.
LEMMA SupplyGrows ==
    ASSUME Inv, supply < NTypeVars, supply' = supply + 1, UNCHANGED <<index, refs>>
    PROVE  /\ supply' \in 0 .. NTypeVars /\ index' \in Lists(supply')
           /\ refs' \subseteq (1 .. supply') \X (1 .. supply') /\ Solved'
           /\ scopes \in Chains(supply')
  <1>1. supply \in 0 .. NTypeVars /\ index \in Lists(supply) /\ refs \subseteq (1 .. supply) \X (1 .. supply)
        /\ scopes \in Chains(supply)
    BY DEF Inv, KnownTyped
  <1>2. supply \in Nat /\ supply + 1 \in 0 .. NTypeVars
    BY <1>1, SupplyAssumption
  <1>3. Solved'
    BY DEF Inv, Solved, Distinct, Flat, Indexed
  <1> QED BY <1>1, <1>2, <1>3, Grown

\* The innermost scope takes a new variable, under a name.
LEMMA NameTypeVarInv == ASSUME Inv, NEW n \in Names, NameTypeVar(n) PROVE Inv'
  <1> DEFINE v == supply + 1
             t == TypeVar(v)
             V == TypeVarsIn(t) \ VarsFrom(scopes, 1)
             c == [typeVars |-> scopes[1].typeVars \cup V, named |-> Naming(scopes[1].named, n, v),
                   assumed |-> scopes[1].assumed \cup {t}]
  <1>1. /\ supply < NTypeVars /\ supply' = v
        /\ scopes' = [AddTypeSig(scopes, 1, t) EXCEPT ![1].named = Naming(@, n, v),
                                                      ![1].assumed = @ \cup {t}]
        /\ UNCHANGED <<equations, ext, fixed, outcome, index, refs, trial, calls>>
    BY DEF NameTypeVar, NewTypeVar
  <1>2. /\ v \in 1 .. v /\ t \in TermsOver(v) /\ TypeVarsIn(t) = {v}
        /\ TypeVarsIn(Current(t)) = {v}
    BY <1>1, FreshIs DEF Inv
  <1>3. /\ supply' \in 0 .. NTypeVars /\ index' \in Lists(v)
        /\ refs' \subseteq (1 .. v) \X (1 .. v) /\ Solved'
        /\ scopes \in Chains(v)
    BY <1>1, SupplyGrows
  <1>4. scopes # <<>> /\ HeldOnce(scopes) /\ Right(scopes)
    BY RightIs DEF Inv, KnownTyped, ScopesRight
  <1> HIDE DEF v, t
  <1>5. /\ 1 \in DOMAIN scopes
        /\ scopes[1] = [typeVars |-> scopes[1].typeVars, named |-> scopes[1].named, assumed |-> scopes[1].assumed]
        /\ scopes[1].typeVars \subseteq 1 .. v /\ scopes[1].named \in NamedVars(v)
        /\ scopes[1].assumed \subseteq TermsOver(v)
    BY ONLY <1>3, <1>4, FirstScope
  <1>6. Naming(scopes[1].named, n, v) \in NamedVars(v)
    <2> DEFINE f == scopes[1].named  g == Naming(f, n, v)
    <2>1. PICK D \in SUBSET Names : f \in [D -> 1 .. v]
      BY <1>5 DEF NamedVars
    <2>2. g \in [D \cup {n} -> 1 .. v]
      <3> HIDE DEF f
      <3>1. v \in 1 .. v
        BY <1>2
      <3>2. g = [x \in D \cup {n} |-> IF x = n THEN v ELSE f[x]]
        BY ONLY <2>1 DEF Naming
      <3> QED BY ONLY <2>1, <3>1, <3>2
    <2> HIDE DEF g
    <2>3. D \cup {n} \in SUBSET Names
      BY <2>1
    <2> QED BY <2>2, <2>3 DEF NamedVars, g
  <1> HIDE DEF V
  <1>7. c \in ScopeRecs(v) /\ c.typeVars = scopes[1].typeVars \cup V /\ c.assumed = scopes[1].assumed \cup {t}
    <2>1. scopes[1].typeVars \cup V \subseteq 1 .. v
      BY <1>2, <1>5 DEF V
    <2>2. scopes[1].assumed \cup {t} \subseteq TermsOver(v)
      BY <1>2, <1>5
    <2> QED BY ONLY <1>6, <2>1, <2>2 DEF ScopeRecs
  <1>8. scopes' = [scopes EXCEPT ![1] = c]
    <2> DEFINE d == [scopes[1] EXCEPT !.typeVars = scopes[1].typeVars \cup V]
               mid == [scopes EXCEPT ![1] = d]
               w == Naming(scopes[1].named, n, v)
    <2>1. AddTypeSig(scopes, 1, t) = mid
      BY DEF AddTypeSig, V
    <2>5. /\ d.named = scopes[1].named /\ d.assumed = scopes[1].assumed
          /\ [[d EXCEPT !.named = w] EXCEPT !.assumed = scopes[1].assumed \cup {t}] = c
      <3> DEFINE W == scopes[1].typeVars \cup V  A == scopes[1].assumed \cup {t}
      <3> HIDE DEF W, A, w
      <3>1. PICK R, N, B : scopes[1] = [typeVars |-> R, named |-> N, assumed |-> B]
        BY ONLY <1>5
      <3>2. scopes[1].named = N /\ scopes[1].assumed = B
        BY ONLY <3>1
      <3>3. [scopes[1] EXCEPT !.typeVars = W] = [typeVars |-> W, named |-> N, assumed |-> B]
        BY ONLY <3>1
      <3>4. [[[scopes[1] EXCEPT !.typeVars = W] EXCEPT !.named = w] EXCEPT !.assumed = A]
              = [typeVars |-> W, named |-> w, assumed |-> A]
        <4>1. [[typeVars |-> W, named |-> N, assumed |-> B] EXCEPT !.named = w]
                = [typeVars |-> W, named |-> w, assumed |-> B]
          OBVIOUS
        <4>2. [[typeVars |-> W, named |-> w, assumed |-> B] EXCEPT !.assumed = A]
                = [typeVars |-> W, named |-> w, assumed |-> A]
          OBVIOUS
        <4> QED BY ONLY <3>3, <4>1, <4>2, Zenon
      <3>5. /\ [scopes[1] EXCEPT !.typeVars = W].assumed = scopes[1].assumed
            /\ [scopes[1] EXCEPT !.typeVars = W].named = scopes[1].named
        BY ONLY <3>2, <3>3
      <3> QED BY ONLY <3>4, <3>5 DEF W, A, w
    <2>2. mid[1] = d
      BY <1>5
    <2> HIDE DEF mid, d, c, w
    <2>3. scopes' = [mid EXCEPT ![1].named = Naming(@, n, v), ![1].assumed = @ \cup {t}]
      BY <1>1, <2>1
    <2>6. DOMAIN mid = DOMAIN scopes /\ 1 \in DOMAIN mid /\ mid \in [DOMAIN mid -> {mid[k] : k \in DOMAIN mid}]
      BY <1>3, <1>5, ChainIs DEF mid
    <2>7. scopes' = [mid EXCEPT ![1] = [[mid[1] EXCEPT !.named = Naming(mid[1].named, n, v)]
                                           EXCEPT !.assumed = mid[1].assumed \cup {t}]]
      BY ONLY <2>3, <2>6
    <2> QED BY ONLY <2>2, <2>5, <2>7 DEF mid, w
  <1> HIDE DEF c
  <1>9. c.typeVars = scopes[1].typeVars \cup (TypeVarsIn(Current(t)) \ VarsFrom(scopes, 1))
    BY <1>2, <1>7 DEF V
  <1>10. scopes' \in Chains(v) /\ scopes' # <<>> /\ HeldOnce(scopes') /\ Right(scopes')
    BY <1>3, <1>4, <1>7, <1>8, <1>9, FrontRight
  <1>11. KnownTyped'
    <2>1. supply' = v /\ UNCHANGED calls /\ calls \in 0 .. MaxCalls
      BY <1>1 DEF Inv, KnownTyped
    <2> QED BY <1>3, <1>10, <2>1 DEF KnownTyped
  <1>12. ScopesRight'
    BY <1>1, <1>10, RightAfter
  <1>13. CallTyped' /\ BoundApart' /\ FixedApart' /\ NoCycle' /\ AcceptEnds'
    BY <1>1, CallKept DEF v
  <1> QED BY <1>3, <1>11, <1>12, <1>13 DEF Inv

(***************************************************************************)
(* The calls of unify.                                                     *)
(***************************************************************************)
\* A call starts with one equation, which speaks of nothing that is bound, and with the
\* caller's list; in fixed mode there is none.
LEMMA StartIs ==
    ASSUME Inv, NEW x \in TermsOver(supply'), NEW y \in TermsOver(supply'), NEW mode \in BOOLEAN,
           Start(x, y, mode), UNCHANGED <<index, trial>>, trial \in Lists(supply'),
           TypeVarsIn(x) \cap BoundBy(index) = {}, TypeVarsIn(y) \cap BoundBy(index) = {},
           mode => trial = <<>>
    PROVE  /\ CallTyped' /\ BoundApart' /\ FixedApart' /\ NoCycle' /\ AcceptEnds'
           /\ calls' \in 0 .. MaxCalls
  <1>1. /\ Idle /\ calls < MaxCalls /\ calls' = calls + 1
        /\ equations' = <<[x |-> x, y |-> y]>> /\ ext' = <<>> /\ fixed' = mode /\ outcome' = "unifying"
    BY DEF Start
  <1>2. calls' \in 0 .. MaxCalls
    BY <1>1, BoundsAssumption DEF Inv, KnownTyped
  <1>3. /\ equations' \in Seq(Sides(supply'))
        /\ \A bound : TypeVarsIn(x) \cap bound = {} /\ TypeVarsIn(y) \cap bound = {} => Without(equations', bound)
    <2> DEFINE e == [x |-> x, y |-> y]
    <2>1. e \in Sides(supply') /\ e.x = x /\ e.y = y
      BY DEF Sides
    <2> HIDE DEF e
    <2>2. equations' = <<e>>
      BY <1>1 DEF e
    <2>3. DOMAIN equations' = {1} /\ equations'[1] = e
      BY ONLY <2>2
    <2> QED BY <2>1, <2>2, <2>3 DEF Without
  <1>4. /\ ext' \in Lists(supply') /\ trial' \in Lists(supply') /\ BoundBy(ext') = {} /\ Distinct(ext')
        /\ Flat(ext') /\ \A bound : Avoids(ext', bound) /\ Without(<<>>, bound)
        /\ \A rank : Falls(rank, ext')
    BY <1>1, EmptyLists
  <1>5. CallTyped'
    BY <1>1, <1>3, <1>4 DEF CallTyped, Unifying, Outcomes
  <1>6. BoundApart'
    <2>1. Distinct(trial') /\ Avoids(trial', BoundBy(index'))
      BY DEF Inv, BoundApart
    <2>2. Without(equations', BoundBy(index'))
      BY <1>3
    <2> QED BY <1>4, <2>1, <2>2 DEF BoundApart
  <1>7. FixedApart'
    <2>1. Without(equations', {})
      BY <1>3
    <2> QED BY <1>1, <1>4, <2>1 DEF FixedApart
  <1>8. NoCycle' /\ AcceptEnds'
    <2>1. PICK M \in Nat : \E rank \in Ranks(M) : Falls(rank, trial)
      BY DEF Inv, NoCycle
    <2>2. PICK rank \in Ranks(M) : Falls(rank, trial)
      BY <2>1
    <2>3. Falls(rank, trial') /\ Falls(rank, ext')
      BY <1>4, <2>2
    <2> QED BY <1>1, <2>3 DEF NoCycle, AcceptEnds
  <1> QED BY <1>2, <1>5, <1>6, <1>7, <1>8

\* A call changes nothing that is known.
LEMMA CalledKept ==
    ASSUME Inv, UNCHANGED <<index, refs, scopes, supply>>, calls' \in 0 .. MaxCalls
    PROVE  KnownTyped' /\ Solved' /\ ScopesRight'
  BY DEF Inv, KnownTyped, Solved, ScopesRight, HeldOnce, ScopeVars, Indexed, Current, Distinct, Flat

\* Both sides are brought up to date.
LEMMA UnifyFixedInv == ASSUME Inv, NEW x \in Known, NEW y \in Known, UnifyFixed(x, y) PROVE Inv'
  <1>1. /\ Start(Current(x), Current(y), TRUE) /\ trial = <<>>
        /\ UNCHANGED <<index, refs, trial, scopes, supply>>
    BY DEF UnifyFixed, Inferring
  <1>2. /\ Current(x) \in TermsOver(supply) /\ Current(y) \in TermsOver(supply)
        /\ TypeVarsIn(Current(x)) \cap BoundBy(index) = {} /\ TypeVarsIn(Current(y)) \cap BoundBy(index) = {}
    BY KnownIs, CurrentIs DEF Inv
  <1>3. trial \in Lists(supply)
    BY DEF Inv, CallTyped
  <1>4. /\ CallTyped' /\ BoundApart' /\ FixedApart' /\ NoCycle' /\ AcceptEnds'
        /\ calls' \in 0 .. MaxCalls
    BY <1>1, <1>2, <1>3, StartIs
  <1> QED BY <1>1, <1>4, CalledKept DEF Inv

\* The list of the constraint goes on from call to call.
LEMMA UnifyTrialInv == ASSUME Inv, NEW x \in Known, NEW y \in Known, UnifyTrial(x, y) PROVE Inv'
  <1>1. /\ Start(Current(x), Current(y), FALSE)
        /\ UNCHANGED <<index, refs, trial, scopes, supply>>
    BY DEF UnifyTrial
  <1>2. /\ Current(x) \in TermsOver(supply) /\ Current(y) \in TermsOver(supply)
        /\ TypeVarsIn(Current(x)) \cap BoundBy(index) = {} /\ TypeVarsIn(Current(y)) \cap BoundBy(index) = {}
    BY KnownIs, CurrentIs DEF Inv
  <1>3. trial \in Lists(supply)
    BY DEF Inv, CallTyped
  <1>4. /\ CallTyped' /\ BoundApart' /\ FixedApart' /\ NoCycle' /\ AcceptEnds'
        /\ calls' \in 0 .. MaxCalls
    BY <1>1, <1>2, <1>3, StartIs
  <1> QED BY <1>1, <1>4, CalledKept DEF Inv

\* A type written by hand with a variable that no scope names: the variable is new.
LEMMA ConstrainInv ==
    ASSUME Inv, NEW x \in Known, NEW n \in Names, NameScopes(n) = {}, Constrain(x, n)
    PROVE  Inv'
  <1> DEFINE v == supply + 1
  <1>1. /\ Start(Current(x), TypeVar(v), TRUE) /\ trial = <<>>
        /\ supply < NTypeVars /\ supply' = v
        /\ UNCHANGED <<index, refs, trial, scopes>>
    BY DEF Constrain, Inferring, NewTypeVar
  <1>2. /\ Current(x) \in TermsOver(supply) /\ TypeVarsIn(Current(x)) \cap BoundBy(index) = {}
    BY KnownIs, CurrentIs DEF Inv
  <1>3. /\ supply \in Nat /\ TypeVar(v) \in TermsOver(v)
        /\ TypeVarsIn(TypeVar(v)) = {v} /\ v \notin BoundBy(index)
    BY <1>1, FreshIs DEF Inv
  <1>4. Current(x) \in TermsOver(v) /\ trial \in Lists(v)
    BY <1>1, <1>2, <1>3, Grown, EmptyLists
  <1>5. /\ supply' \in 0 .. NTypeVars /\ index' \in Lists(v)
        /\ refs' \subseteq (1 .. v) \X (1 .. v) /\ Solved' /\ scopes \in Chains(v)
    BY <1>1, SupplyGrows
  <1> HIDE DEF v
  <1>6. /\ CallTyped' /\ BoundApart' /\ FixedApart' /\ NoCycle' /\ AcceptEnds'
        /\ calls' \in 0 .. MaxCalls
    BY <1>1, <1>2, <1>3, <1>4, StartIs
  <1>7. KnownTyped'
    BY <1>1, <1>5, <1>6 DEF Inv, KnownTyped
  <1>8. ScopesRight'
    BY <1>1 DEF Inv, ScopesRight, HeldOnce, ScopeVars, Current
  <1> QED BY <1>5, <1>6, <1>7, <1>8 DEF Inv

(***************************************************************************)
(* The theorems.                                                           *)
(***************************************************************************)
\* Every step keeps the invariant.
LEMMA NextInv == Inv /\ [Next]_vars => Inv'
  <1> SUFFICES ASSUME Inv, [Next]_vars PROVE Inv'
    OBVIOUS
  <1>1. CASE DropEqual
    BY <1>1, DropEqualInv
  <1>2. CASE FollowSubsts
    BY <1>2, FollowSubstsInv
  <1>3. CASE OccursCheck
    BY <1>3, OccursCheckInv
  <1>4. CASE BindTypeVar
    BY <1>4, BindFixedInv, BindTrialInv DEF Inv, CallTyped
  <1>5. CASE Decompose
    BY <1>5, DecomposeInv
  <1>6. CASE Clash
    BY <1>6, ClashInv
  <1>7. CASE Finish
    BY <1>7, FinishInv
  <1>8. CASE OpenScope
    BY <1>8, OpenScopeInv
  <1>9. CASE CloseScope
    BY <1>9, CloseScopeInv
  <1>10. CASE \E t \in Known \cap Patterns : Assume(t)
    BY <1>10, AssumeInv
  <1>11. CASE \E x, y \in Known : UnifyFixed(x, y) \/ UnifyTrial(x, y)
    BY <1>11, UnifyFixedInv, UnifyTrialInv
  <1>12. CASE Accept
    BY <1>12, AcceptInv
  <1>13. CASE GiveUp
    BY <1>13, GiveUpInv
  <1>14. CASE \E n \in Names : NameTypeVar(n)
    BY <1>14, NameTypeVarInv
  <1>15. CASE \E x \in Known, n \in Names : NameScopes(n) = {} /\ Constrain(x, n)
    BY <1>15, ConstrainInv
  <1>16. CASE UNCHANGED vars
    <2>1. UNCHANGED <<equations, ext, fixed, outcome, index, trial>> /\ supply' = supply /\ UNCHANGED Local
      BY <1>16 DEF vars, Local
    <2> QED BY <2>1, CallKept, KnownKept DEF Inv
  <1> QED
    BY <1>1, <1>2, <1>3, <1>4, <1>5, <1>6, <1>7, <1>8, <1>9, <1>10, <1>11, <1>12, <1>13, <1>14,
       <1>15, <1>16 DEF Next, UnifyStep, Between

\* The invariant holds in every state, whatever number of calls, scopes, constraints and
\* variables there are.
THEOREM TypeCheckInv == Spec => []Inv
  <1> QED BY InitInv, NextInv, PTL DEF Spec

\* The state has its types: what is bound, named or held by a scope are variables that
\* newTypeVar has given out, and equations are left only while unify runs.
THEOREM TypeCheckTypeOK == Spec => []TypeOK
  <1> QED BY TypeCheckInv, InvMeans, PTL

\* A variable that SubstSet binds occurs in nothing that it binds: preSubst finds through
\* the reference index every entry that addSubsts has to bring up to date.
THEOREM TypeCheckSolvedForm == Spec => []SolvedForm
  <1> QED BY TypeCheckInv, InvMeans, PTL

\* The variables that TypeEnv holds from any scope outwards are those of the assumptions
\* made there, as they stand under all that has been substituted.
THEOREM TypeCheckScopeVars == Spec => []ScopeVars
  <1> QED BY TypeCheckInv, InvMeans, PTL

\* The list of a constraint never refers to itself in a circle, so the loop at the end of
\* checkConstraints ends.
THEOREM TypeCheckAcceptEnds == Spec => []AcceptEnds
  <1> QED BY TypeCheckInv, InvMeans, PTL

(***************************************************************************)
(* The values that variables can take.                                     *)
(***************************************************************************)
Ways == Seq({"fun", "arg"})

\* What is put in place of a leaf.
OneLeaf(l, by) == IF l.is[1] = "var" THEN Below(l.at, by[l.is[2]]) ELSE {l}

\* A replacement is made leaf by leaf.
LEMMA ReplaceEach == \A t, by : Replace(t, by) = UNION {OneLeaf(l, by) : l \in t}
  <1> SUFFICES ASSUME NEW t, NEW by PROVE Replace(t, by) = UNION {OneLeaf(l, by) : l \in t}
    OBVIOUS
  <1> DEFINE one(l) == IF l \in VarLeaves(t) THEN Below(l.at, by[l.is[2]]) ELSE {l}
  <1>1. \A l \in t : one(l) = OneLeaf(l, by)
    BY DEF VarLeaves, OneLeaf
  <1>2. Replace(t, by) = UNION {one(l) : l \in t}
    BY DEF Replace
  <1> HIDE DEF one
  <1> QED BY <1>1, <1>2

\* The variable of a leaf is one of the signature's.
LEMMA LeafVar == \A t : \A l \in t : l.is[1] = "var" => l.is[2] \in TypeVarsIn(t)
  BY DEF TypeVarsIn, VarLeaves

\* What stands at the root of a signature is the signature.
LEMMA BelowRoot == ASSUME NEW g \in SUBSET Leaves PROVE Below(<<>>, g) = g
  <1>1. ASSUME NEW l \in g PROVE [at |-> <<>> \o l.at, is |-> l.is] = l
    <2>1. l \in Leaves
      OBVIOUS
    <2>2. l = [at |-> l.at, is |-> l.is] /\ l.at \in Seq({"fun", "arg"})
      BY <2>1, LeafIs
    <2>3. <<>> \o l.at = l.at
      BY <2>2
    <2> QED BY ONLY <2>2, <2>3
  <1>2. Below(<<>>, g) = {[at |-> <<>> \o l.at, is |-> l.is] : l \in g}
    BY DEF Below
  <1> QED BY <1>1, <1>2

\* Below one way and then another is below the two joined.
LEMMA BelowTwice ==
    ASSUME NEW p \in Ways, NEW q \in Ways, NEW g \in SUBSET Leaves
    PROVE  Below(p \o q, g) = Below(p, Below(q, g)) /\ Below(q, g) \in SUBSET Leaves
  <1>1. ASSUME NEW l \in g
        PROVE  /\ (p \o q) \o l.at = p \o (q \o l.at) /\ [at |-> q \o l.at, is |-> l.is] \in Leaves
               /\ [at |-> q \o l.at, is |-> l.is].at = q \o l.at /\ [at |-> q \o l.at, is |-> l.is].is = l.is
    <2>1. l \in Leaves
      OBVIOUS
    <2>2. l.at \in Ways /\ l.is \in Symbols
      BY <2>1, LeafIs DEF Ways
    <2>3. q \o l.at \in Ways
      BY <2>2 DEF Ways
    <2>4. (p \o q) \o l.at = p \o (q \o l.at)
      <3> DEFINE r == l.at
      <3>1. r \in Ways
        BY <2>2
      <3> HIDE DEF r
      <3>2. (p \o q) \o r = p \o (q \o r)
        BY <3>1, ConcatAssociative DEF Ways
      <3> QED BY <3>2 DEF r
    <2>5. [at |-> q \o l.at, is |-> l.is] \in Leaves
      BY <2>2, <2>3, LeafIs DEF Ways
    <2> QED BY <2>4, <2>5
  <1> DEFINE dq(l) == [at |-> q \o l.at, is |-> l.is]
             dp(l) == [at |-> p \o l.at, is |-> l.is]
             d(l)  == [at |-> (p \o q) \o l.at, is |-> l.is]
  <1>2. /\ Below(q, g) = {dq(l) : l \in g} /\ Below(p \o q, g) = {d(l) : l \in g}
        /\ Below(p, Below(q, g)) = {dp(l) : l \in Below(q, g)}
    BY DEF Below
  <1>3. \A l \in g : d(l) = dp(dq(l)) /\ dq(l) \in Leaves
    BY <1>1
  <1> HIDE DEF d, dp, dq
  <1> QED BY <1>2, <1>3

\* A replacement may be made before or after a signature is put below another.
LEMMA ReplaceBelow ==
    ASSUME NEW p \in Ways, NEW g \in SUBSET Leaves, NEW by, \A b \in TypeVarsIn(g) : by[b] \in SUBSET Leaves
    PROVE  Replace(Below(p, g), by) = Below(p, Replace(g, by))
  <1> DEFINE down(l) == [at |-> p \o l.at, is |-> l.is]
  <1>1. ASSUME NEW l \in g PROVE OneLeaf(down(l), by) = Below(p, OneLeaf(l, by))
    <2>0. l \in Leaves
      OBVIOUS
    <2>1. l = [at |-> l.at, is |-> l.is] /\ l.at \in Ways
      BY <2>0, LeafIs DEF Ways
    <2>2. down(l).at = p \o l.at /\ down(l).is = l.is
      OBVIOUS
    <2>3. CASE l.is[1] = "var"
      <3> DEFINE u == by[l.is[2]]
      <3>1. u \in SUBSET Leaves
        BY <2>3, LeafVar
      <3> HIDE DEF u
      <3>2. Below(p \o l.at, u) = Below(p, Below(l.at, u))
        BY <2>1, <3>1, BelowTwice
      <3>3. OneLeaf(down(l), by) = Below(p \o l.at, u) /\ OneLeaf(l, by) = Below(l.at, u)
        <4> HIDE DEF down
        <4> QED BY <2>2, <2>3 DEF OneLeaf, u
      <3> QED BY ONLY <3>2, <3>3
    <2>4. CASE l.is[1] # "var"
      <3>1. OneLeaf(down(l), by) = {down(l)} /\ OneLeaf(l, by) = {l}
        <4> HIDE DEF down
        <4> QED BY <2>2, <2>4 DEF OneLeaf
      <3>2. Below(p, {l}) = {down(l)}
        BY DEF Below
      <3> QED BY ONLY <3>1, <3>2
    <2> QED BY <2>3, <2>4
  <1>2. Below(p, g) = {down(l) : l \in g}
    BY DEF Below
  <1>3. Replace(Below(p, g), by) = UNION {OneLeaf(m, by) : m \in Below(p, g)}
        /\ Replace(g, by) = UNION {OneLeaf(l, by) : l \in g}
    BY ReplaceEach
  <1>4. \A x : x \in Below(p, Replace(g, by)) <=> \E l \in g : x \in Below(p, OneLeaf(l, by))
    <2>1. \A h, x : x \in Below(p, h) <=> \E m \in h : x = down(m)
      BY DEF Below
    <2> HIDE DEF down
    <2> QED BY <1>3, <2>1
  <1> HIDE DEF down
  <1>5. \A x : x \in Replace(Below(p, g), by) <=> \E l \in g : x \in OneLeaf(down(l), by)
    BY <1>2, <1>3
  <1>6. \A x : x \in Replace(Below(p, g), by) <=> x \in Below(p, Replace(g, by))
    BY ONLY <1>1, <1>4, <1>5
  <1> QED BY <1>6

\* Two replacements are one.
LEMMA ReplaceTwice ==
    ASSUME NEW t \in Terms, NEW by, NEW v,
           \A b \in TypeVarsIn(t) : by[b] \in Terms /\ \A c \in TypeVarsIn(by[b]) : v[c] \in Terms
    PROVE  Replace(Replace(t, by), v) = Replace(t, [b \in TypeVarsIn(t) |-> Replace(by[b], v)])
  <1> DEFINE w == [b \in TypeVarsIn(t) |-> Replace(by[b], v)]
  <1>0. \A u \in Terms : u \in SUBSET Leaves
    BY DEF Terms
  <1>1. ASSUME NEW l \in t PROVE Replace(OneLeaf(l, by), v) = OneLeaf(l, w)
    <2>1. CASE l.is[1] = "var"
      <3> DEFINE b == l.is[2]
      <3>1. b \in TypeVarsIn(t)
        BY <2>1, LeafVar
      <3>2. by[b] \in SUBSET Leaves /\ \A c \in TypeVarsIn(by[b]) : v[c] \in SUBSET Leaves
        BY <1>0, <3>1
      <3>3. l.at \in Ways
        BY <1>0, LeafIs DEF Ways
      <3>4. Replace(Below(l.at, by[b]), v) = Below(l.at, Replace(by[b], v))
        <4> HIDE DEF b
        <4> QED BY ONLY <3>2, <3>3, ReplaceBelow
      <3>5. w[b] = Replace(by[b], v)
        BY <3>1
      <3>6. OneLeaf(l, by) = Below(l.at, by[b]) /\ OneLeaf(l, w) = Below(l.at, w[b])
        BY <2>1 DEF OneLeaf
      <3> HIDE DEF b, w
      <3> QED BY ONLY <3>4, <3>5, <3>6
    <2>2. CASE l.is[1] # "var"
      <3>1. OneLeaf(l, by) = {l} /\ OneLeaf(l, w) = {l} /\ OneLeaf(l, v) = {l}
        BY <2>2 DEF OneLeaf
      <3>2. Replace({l}, v) = OneLeaf(l, v)
        BY ReplaceEach
      <3> QED BY ONLY <3>1, <3>2
    <2> QED BY <2>1, <2>2
  <1> HIDE DEF w
  <1>2. \A x : x \in Replace(Replace(t, by), v) <=> \E l \in t : x \in Replace(OneLeaf(l, by), v)
    <2>1. \A u, c, x : x \in Replace(u, c) <=> \E l \in u : x \in OneLeaf(l, c)
      BY ReplaceEach
    <2> QED BY ONLY <2>1
  <1>3. \A x : x \in Replace(t, w) <=> \E l \in t : x \in OneLeaf(l, w)
    BY ReplaceEach
  <1>4. Replace(Replace(t, by), v) = Replace(t, w)
    BY ONLY <1>1, <1>2, <1>3
  <1> QED BY <1>4 DEF w

\* A replacement depends on what it puts in place of the signature's own variables.
LEMMA ReplaceSame ==
    ASSUME NEW t, NEW by, NEW c, \A b \in TypeVarsIn(t) : by[b] = c[b]
    PROVE  Replace(t, by) = Replace(t, c)
  <1>1. \A l \in t : OneLeaf(l, by) = OneLeaf(l, c)
    BY LeafVar DEF OneLeaf
  <1> QED BY <1>1, ReplaceEach

Valuations == [1 .. NTypeVars -> Ground]

\* The variables have the values that a list gives them.
SolvesList(v, list) == \A m \in DOMAIN list : v[list[m].typeVar] = Value(v, list[m].typeSig)

\* Both sides of every equation have the same value.
SolvesSides(v, eqs) == \A m \in DOMAIN eqs : Value(v, eqs[m].x) = Value(v, eqs[m].y)

\* The value of a variable.
LEMMA ValueVar ==
    ASSUME NEW v \in Valuations, NEW a \in 1 .. NTypeVars
    PROVE  v[a] \in Terms /\ v[a] \in Ground /\ Value(v, TypeVar(a)) = v[a]
  <1>1. v[a] \in Ground /\ v[a] \in Terms
    BY SigsAreTerms DEF Valuations
  <1> DEFINE l == [at |-> <<>>, is |-> <<"var", a>>]
  <1>2. TypeVar(a) = {l} /\ l.at = <<>> /\ l.is[1] = "var" /\ l.is[2] = a
    BY DEF TypeVar
  <1> HIDE DEF l
  <1>3. Replace(TypeVar(a), v) = OneLeaf(l, v)
    BY <1>2, ReplaceEach
  <1>4. OneLeaf(l, v) = Below(<<>>, v[a])
    BY <1>2 DEF OneLeaf
  <1>5. Below(<<>>, v[a]) = v[a]
    BY <1>1, BelowRoot DEF Terms
  <1> QED BY <1>1, <1>3, <1>4, <1>5 DEF Value

\* The value of a term is a term.
LEMMA ValueTerm ==
    ASSUME NEW v \in Valuations, NEW n \in 0 .. NTypeVars, NEW t \in TermsOver(n)
    PROVE  Value(v, t) \in Terms
  <1>1. t \in Terms /\ \A b \in TypeVarsIn(t) : b \in 1 .. NTypeVars
    BY SupplyAssumption DEF TermsOver
  <1> QED BY <1>1, ValueVar, ReplaceTerm DEF Value

\* A substitution that the values satisfy changes no value.
LEMMA ValueSubst ==
    ASSUME NEW v \in Valuations, NEW n \in 0 .. NTypeVars, NEW a, NEW sig \in TermsOver(n), NEW t \in TermsOver(n),
           v[a] = Value(v, sig)
    PROVE  Value(v, SubstTypeVar(a, sig, t)) = Value(v, t)
  <1> DEFINE V == TypeVarsIn(t)
             by == [b \in V |-> IF b = a THEN sig ELSE TypeVar(b)]
             w == [b \in V |-> Replace(by[b], v)]
  <1>1. /\ t \in Terms /\ sig \in Terms /\ \A b \in V : b \in 1 .. NTypeVars
        /\ \A b \in TypeVarsIn(sig) : b \in 1 .. NTypeVars
    BY SupplyAssumption DEF TermsOver
  <1>2. ASSUME NEW b \in V
        PROVE  /\ by[b] \in Terms /\ \A c \in TypeVarsIn(by[b]) : v[c] \in Terms
               /\ Replace(by[b], v) = v[b]
    <2>1. CASE b = a
      BY <1>1, <2>1, ValueVar DEF Value
    <2>2. CASE b # a
      BY <1>1, <2>2, ValueVar, TypeVarTerm, TypeVarVars DEF Value
    <2> QED BY <2>1, <2>2
  <1>3. Replace(Replace(t, by), v) = Replace(t, w)
    <2> HIDE DEF by
    <2> QED BY <1>1, <1>2, ReplaceTwice
  <1>4. Replace(t, w) = Replace(t, v)
    <2>1. \A b \in V : w[b] = v[b]
      BY <1>2
    <2> HIDE DEF w
    <2> QED BY <2>1, ReplaceSame
  <1>5. SubstTypeVar(a, sig, t) = Replace(t, by)
    BY DEF SubstTypeVar
  <1> HIDE DEF w, by
  <1> QED BY <1>3, <1>4, <1>5 DEF Value

ValueEachHolds(p, sig, n) == sig \in TermsOver(p.n) /\ Value(p.v, sig) = Value(p.v, p.t)
ValueEachFold == INSTANCE ThroughProofs WITH Op <- SubstEachOp, Holds <- ValueEachHolds

\* Nor do several, one after the other.
LEMMA ValueEach ==
    ASSUME NEW v \in Valuations, NEW n \in 0 .. NTypeVars, NEW list \in Lists(n), NEW t \in TermsOver(n),
           SolvesList(v, list)
    PROVE  Value(v, SubstEach(t, list)) = Value(v, t)
  <1> DEFINE p == [n |-> n, t |-> t, v |-> v]
  <1>1. Len(list) \in Nat /\ DOMAIN list = 1 .. Len(list)
    BY ListIs
  <1>2. ValueEachHolds(p, t, 0)
    BY DEF ValueEachHolds
  <1>3. ASSUME NEW m \in 1 .. Len(list), NEW sig, ValueEachHolds(p, sig, m - 1)
        PROVE  ValueEachHolds(p, SubstEachOp(p, sig, list[m]), m)
    <2>1. sig \in TermsOver(n) /\ Value(v, sig) = Value(v, t)
      BY <1>3 DEF ValueEachHolds
    <2>2. list[m].typeSig \in TermsOver(n) /\ v[list[m].typeVar] = Value(v, list[m].typeSig)
      BY <1>1, ListIs DEF SolvesList
    <2>3. SubstTypeVar(list[m].typeVar, list[m].typeSig, sig) \in TermsOver(n)
      BY <2>1, <2>2, SubstTypeVarTerm
    <2>4. Value(v, SubstTypeVar(list[m].typeVar, list[m].typeSig, sig)) = Value(v, sig)
      BY <2>1, <2>2, ValueSubst
    <2> QED BY <2>1, <2>3, <2>4 DEF ValueEachHolds, SubstEachOp
  <1> HIDE DEF p
  <1>4. ValueEachHolds(p, ValueEachFold!Folded(p, t, list), Len(list))
    BY <1>1, <1>2, <1>3, ValueEachFold!ThroughHolds
  <1>5. ValueEachFold!Folded(p, t, list) = SubstEach(t, list)
    BY DEF ValueEachFold!Folded, ValueEachFold!Through, Through, SubstEach, SubstEachOp
  <1> QED BY <1>4, <1>5 DEF ValueEachHolds, p

\* A variable has the value of what LookUp finds for it.
LEMMA ValueLookUp ==
    ASSUME NEW v, NEW n, NEW list \in Lists(n), SolvesList(v, list), NEW a, Substituted(a, list)
    PROVE  v[a] = Value(v, LookUp(a, list))
  <1>1. PICK m \in 1 .. Len(list) : list[m].typeVar = a /\ LookUp(a, list) = list[m].typeSig
    BY LookUpIs
  <1> QED BY <1>1, ListIs DEF SolvesList

\* What is looked up has the value of what it is looked up for.
LEMMA ValueLookedUp ==
    ASSUME NEW v \in Valuations, NEW n \in 0 .. NTypeVars, ext \in Lists(n), trial \in Lists(n),
           SolvesList(v, ext), SolvesList(v, trial), NEW t \in TermsOver(n)
    PROVE  Value(v, LookedUp(t)) = Value(v, t)
  <1>1. CASE ~Found(t)
    BY <1>1 DEF LookedUp
  <1>2. CASE Found(t)
    <2> DEFINE a == VarOf(t)
    <2>1. t = TypeVar(a) /\ a \in TypeVarsIn(t)
      BY <1>2, VarOfIs DEF Found
    <2>2. a \in 1 .. NTypeVars
      BY <2>1, SupplyAssumption DEF TermsOver
    <2>3. Value(v, t) = v[a]
      BY <2>1, <2>2, ValueVar
    <2>4. CASE Substituted(a, ext)
      BY <1>2, <2>3, <2>4, ValueLookUp DEF LookedUp
    <2>5. CASE ~Substituted(a, ext)
      <3>1. Substituted(a, trial)
        BY <1>2, <2>5 DEF Found
      <3> QED BY <1>2, <2>3, <2>5, <3>1, ValueLookUp DEF LookedUp
    <2> QED BY <2>4, <2>5
  <1> QED BY <1>1, <1>2

\* A way that goes somewhere, by its first turn.
LEMMA FirstTurn ==
    ASSUME NEW p \in Ways, p # <<>>
    PROVE  /\ Head(p) \in {"fun", "arg"} /\ Tail(p) \in Ways /\ p = <<Head(p)>> \o Tail(p)
  <1>1. Head(p) \in {"fun", "arg"} /\ Tail(p) \in Ways
    BY DEF Ways
  <1>2. <<Head(p)>> \o Tail(p) = p
    BY DEF Ways
  <1> QED BY <1>1, <1>2

\* A way with a turn in front.
LEMMA TurnFirst ==
    ASSUME NEW side, NEW p \in Ways
    PROVE  /\ <<side>> \o p # <<>> /\ Head(<<side>> \o p) = side /\ Tail(<<side>> \o p) = p
  BY DEF Ways

\* The parts of an application.
LEMMA PartsOfAp ==
    ASSUME NEW f \in SUBSET Leaves, NEW a \in SUBSET Leaves
    PROVE  Fun(Ap(f, a)) = f /\ Arg(Ap(f, a)) = a
  <1> DEFINE down(side, l) == [at |-> <<side>> \o l.at, is |-> l.is]
             up(l) == [at |-> Tail(l.at), is |-> l.is]
  <1>1. ASSUME NEW l \in Leaves, NEW side
        PROVE  /\ down(side, l).at # <<>> /\ Head(down(side, l).at) = side
               /\ up(down(side, l)) = l
    <2>1. l = [at |-> l.at, is |-> l.is] /\ l.at \in Ways
      BY LeafIs DEF Ways
    <2>2. <<side>> \o l.at # <<>> /\ Head(<<side>> \o l.at) = side /\ Tail(<<side>> \o l.at) = l.at
      BY <2>1, TurnFirst
    <2>3. down(side, l).at = <<side>> \o l.at /\ down(side, l).is = l.is
      OBVIOUS
    <2> QED BY ONLY <2>1, <2>2, <2>3
  <1>2. Ap(f, a) = {down("fun", l) : l \in f} \cup {down("arg", l) : l \in a}
    BY DEF Ap, Below
  <1>3. \A side, t : Part(side, t) = {up(l) : l \in {l \in t : l.at # <<>> /\ Head(l.at) = side}}
    BY DEF Part
  <1> HIDE DEF down, up
  <1>4. {l \in Ap(f, a) : l.at # <<>> /\ Head(l.at) = "fun"} = {down("fun", l) : l \in f}
    <2>1. "fun" # "arg"
      OBVIOUS
    <2> QED BY <1>1, <1>2, <2>1
  <1>5. {l \in Ap(f, a) : l.at # <<>> /\ Head(l.at) = "arg"} = {down("arg", l) : l \in a}
    <2>1. "fun" # "arg"
      OBVIOUS
    <2> QED BY <1>1, <1>2, <2>1
  <1>6. Fun(Ap(f, a)) = {up(l) : l \in {down("fun", l) : l \in f}}
    BY <1>3, <1>4 DEF Fun
  <1>7. Arg(Ap(f, a)) = {up(l) : l \in {down("arg", l) : l \in a}}
    BY <1>3, <1>5 DEF Arg
  <1>8. \A l \in f : up(down("fun", l)) = l
    BY <1>1
  <1>9. \A l \in a : up(down("arg", l)) = l
    BY <1>1
  <1>10. {up(l) : l \in {down("fun", l) : l \in f}} = f
    BY ONLY <1>8
  <1>11. {up(l) : l \in {down("arg", l) : l \in a}} = a
    BY ONLY <1>9
  <1> QED BY ONLY <1>6, <1>7, <1>10, <1>11

\* An application has no other leaves than those of its parts.
LEMMA ApIs ==
    ASSUME NEW t \in Terms, IsAp(t)
    PROVE  t = Ap(Fun(t), Arg(t)) /\ Fun(t) \in Terms /\ Arg(t) \in Terms
  <1> DEFINE down(side, l) == [at |-> <<side>> \o l.at, is |-> l.is]
             up(l) == [at |-> Tail(l.at), is |-> l.is]
  <1>1. ASSUME NEW l \in t
        PROVE  /\ l.at # <<>> /\ Head(l.at) \in {"fun", "arg"}
               /\ down(Head(l.at), up(l)) = l
    <2>1. l \in Leaves
      BY DEF Terms
    <2>2. l = [at |-> l.at, is |-> l.is] /\ l.at \in Ways /\ l.at # <<>>
      BY <2>1, LeafIs DEF Ways, IsAp
    <2>3. Head(l.at) \in {"fun", "arg"} /\ l.at = <<Head(l.at)>> \o Tail(l.at)
      BY <2>2, FirstTurn
    <2>4. up(l).at = Tail(l.at) /\ up(l).is = l.is
      OBVIOUS
    <2>5. down(Head(l.at), up(l)) = [at |-> <<Head(l.at)>> \o Tail(l.at), is |-> l.is]
      BY ONLY <2>4
    <2> HIDE DEF down, up
    <2> QED BY ONLY <2>2, <2>3, <2>5
  <1>2. \A f, a : Ap(f, a) = {down("fun", l) : l \in f} \cup {down("arg", l) : l \in a}
    BY DEF Ap, Below
  <1>3. \A side : Part(side, t) = {up(l) : l \in {l \in t : l.at # <<>> /\ Head(l.at) = side}}
    BY DEF Part
  <1> HIDE DEF down, up
  <1>4. \A x : x \in Ap(Fun(t), Arg(t)) <=>
                  \E l \in t : \/ Head(l.at) = "fun" /\ x = down("fun", up(l))
                               \/ Head(l.at) = "arg" /\ x = down("arg", up(l))
    <2>1. \A x : x \in Fun(t) <=> \E l \in t : Head(l.at) = "fun" /\ x = up(l)
      BY <1>1, <1>3 DEF Fun
    <2>2. \A x : x \in Arg(t) <=> \E l \in t : Head(l.at) = "arg" /\ x = up(l)
      BY <1>1, <1>3 DEF Arg
    <2>3. \A x : x \in Ap(Fun(t), Arg(t)) <=> \/ \E l \in Fun(t) : x = down("fun", l)
                                             \/ \E l \in Arg(t) : x = down("arg", l)
      BY <1>2
    <2> QED BY ONLY <2>1, <2>2, <2>3
  <1>5. \A x : x \in Ap(Fun(t), Arg(t)) <=> x \in t
    BY ONLY <1>1, <1>4
  <1>6. Fun(t) \in Terms /\ Arg(t) \in Terms
    BY PartTerm DEF Fun, Arg
  <1> QED BY <1>5, <1>6

\* The value of an application is that of its parts, applied.
LEMMA ValueAp ==
    ASSUME NEW v \in Valuations, NEW n \in 0 .. NTypeVars, NEW t \in TermsOver(n), IsAp(t)
    PROVE  /\ Value(v, t) = Ap(Value(v, Fun(t)), Value(v, Arg(t)))
           /\ Fun(t) \in TermsOver(n) /\ Arg(t) \in TermsOver(n)
           /\ IsAp(Value(v, t))
  <1> DEFINE f == Fun(t)  a == Arg(t)
  <1>1. t = Ap(f, a) /\ f \in Terms /\ a \in Terms
    BY ApIs DEF TermsOver
  <1>2. f \in TermsOver(n) /\ a \in TermsOver(n)
    BY PartTerm DEF TermsOver, Fun, Arg
  <1> HIDE DEF f, a
  <1>3. <<"fun">> \in Ways /\ <<"arg">> \in Ways
    BY DEF Ways
  <1>4. /\ f \in SUBSET Leaves /\ a \in SUBSET Leaves
        /\ \A b \in TypeVarsIn(f) : v[b] \in SUBSET Leaves
        /\ \A b \in TypeVarsIn(a) : v[b] \in SUBSET Leaves
    BY <1>2, ValueVar, SupplyAssumption DEF TermsOver, Terms
  <1>5. /\ Replace(Below(<<"fun">>, f), v) = Below(<<"fun">>, Replace(f, v))
        /\ Replace(Below(<<"arg">>, a), v) = Below(<<"arg">>, Replace(a, v))
    BY <1>3, <1>4, ReplaceBelow
  <1>6. Replace(Ap(f, a), v) = Replace(Below(<<"fun">>, f), v) \cup Replace(Below(<<"arg">>, a), v)
    <2>1. \A r, s : Replace(r \cup s, v) = Replace(r, v) \cup Replace(s, v)
      BY ReplaceEach
    <2> QED BY ONLY <2>1 DEF Ap
  <1>7. Value(v, t) = Ap(Value(v, f), Value(v, a))
    BY <1>1, <1>5, <1>6 DEF Value, Ap
  <1>8. ASSUME NEW side, NEW g \in Terms, NEW l \in Below(<<side>>, g) PROVE l.at # <<>>
    <2>1. PICK k \in g : l = [at |-> <<side>> \o k.at, is |-> k.is]
      BY <1>8 DEF Below
    <2>2. k.at \in Ways
      BY LeafIs DEF Terms, Ways
    <2>3. l.at = <<side>> \o k.at
      BY <2>1
    <2> QED BY <2>2, <2>3, TurnFirst
  <1>9. Value(v, f) \in Terms /\ Value(v, a) \in Terms
    BY <1>2, ValueTerm
  <1>10. IsAp(Value(v, t))
    BY <1>7, <1>8, <1>9 DEF IsAp, Ap
  <1> QED BY <1>2, <1>7, <1>10 DEF f, a

\* Two applications have the same value when their parts have.
LEMMA ValueParts ==
    ASSUME NEW v \in Valuations, NEW n \in 0 .. NTypeVars, NEW t \in TermsOver(n), NEW u \in TermsOver(n),
           IsAp(t), IsAp(u)
    PROVE  Value(v, t) = Value(v, u) <=>
              /\ Value(v, Fun(t)) = Value(v, Fun(u)) /\ Value(v, Arg(t)) = Value(v, Arg(u))
  <1>1. /\ Value(v, t) = Ap(Value(v, Fun(t)), Value(v, Arg(t)))
        /\ Value(v, u) = Ap(Value(v, Fun(u)), Value(v, Arg(u)))
        /\ Fun(t) \in TermsOver(n) /\ Arg(t) \in TermsOver(n)
        /\ Fun(u) \in TermsOver(n) /\ Arg(u) \in TermsOver(n)
    BY ValueAp
  <1>2. /\ Value(v, Fun(t)) \in SUBSET Leaves /\ Value(v, Arg(t)) \in SUBSET Leaves
        /\ Value(v, Fun(u)) \in SUBSET Leaves /\ Value(v, Arg(u)) \in SUBSET Leaves
    BY <1>1, ValueTerm DEF Terms
  <1>3. /\ Fun(Value(v, t)) = Value(v, Fun(t)) /\ Arg(Value(v, t)) = Value(v, Arg(t))
        /\ Fun(Value(v, u)) = Value(v, Fun(u)) /\ Arg(Value(v, u)) = Value(v, Arg(u))
    BY <1>1, <1>2, PartsOfAp
  <1> QED BY <1>1, <1>3

\* A leaf at the root is the whole signature.
LEMMA RootLeaf ==
    ASSUME NEW t \in Terms, NEW l \in t, l.at = <<>>
    PROVE  t = {l} /\ (l.is[1] = "var" => IsTypeVar(t))
  <1>2. t = {l}
    <2>1. \A m \in t : Above(l, m)
      BY DEF Above
    <2> QED BY <2>1 DEF Terms, Apart
  <1>3. l \in Leaves
    BY DEF Terms
  <1>4. l = [at |-> l.at, is |-> l.is] /\ l.is \in Symbols
    BY <1>3, LeafIs
  <1>5. l.is = <<l.is[1], l.is[2]>>
    <2>1. CASE \E a \in 1 .. NTypeVars : l.is = <<"var", a>>
      BY <2>1
    <2>2. CASE \E k \in UNION (Sigs \cup Ground) : l.is = k.is
      <3>1. PICK s \in Sigs \cup Ground : \E k \in s : l.is = k.is
        BY <2>2
      <3>2. IsSignature(s)
        BY SigsAssumption
      <3> QED BY <3>1, <3>2 DEF IsSignature
    <2> QED BY <1>4, <2>1, <2>2 DEF Symbols
  <1>6. ASSUME l.is[1] = "var" PROVE IsTypeVar(t)
    <2> DEFINE b == l.is[2]
    <2>1. l = [at |-> <<>>, is |-> <<"var", b>>]
      BY <1>4, <1>5, <1>6
    <2>2. t = TypeVar(b)
      BY <1>2, <2>1 DEF TypeVar
    <2> QED BY <2>2, TypeVarVars DEF IsTypeVar
  <1> QED BY <1>2, <1>6

\* What is neither a variable nor an application is a constructor, its own value.
LEMMA ValueCon ==
    ASSUME NEW v, NEW t \in Terms, ~IsAp(t), ~IsTypeVar(t)
    PROVE  Value(v, t) = t
  <1>1. PICK l \in t : l.at = <<>>
    BY DEF IsAp
  <1>2. t = {l} /\ l.is[1] # "var"
    BY <1>1, RootLeaf
  <1>3. Replace(t, v) = OneLeaf(l, v)
    BY <1>2, ReplaceEach
  <1> QED BY <1>2, <1>3 DEF OneLeaf, Value

\* A constructor and an application, or two constructors, never have the same value.
LEMMA ValueClash ==
    ASSUME NEW v \in Valuations, NEW n \in 0 .. NTypeVars, NEW t \in TermsOver(n), NEW u \in TermsOver(n),
           t # u, ~IsTypeVar(t), ~IsTypeVar(u), ~(IsAp(t) /\ IsAp(u))
    PROVE  Value(v, t) # Value(v, u)
  <1>1. t \in Terms /\ u \in Terms
    BY DEF TermsOver
  <1>2. \A r \in TermsOver(n) : IsAp(r) => IsAp(Value(v, r))
    BY ValueAp
  <1>3. \A r \in Terms : ~IsAp(r) /\ ~IsTypeVar(r) => Value(v, r) = r
    BY ValueCon
  <1> QED BY <1>1, <1>2, <1>3

\* Finitely many numbers have a bound.
LEMMA BoundedBy ==
    ASSUME NEW n \in Nat, NEW f, \A k \in 1 .. n : f[k] \in Nat
    PROVE  \E b \in Nat : \A k \in 1 .. n : f[k] <= b
  <1> DEFINE Bad == {m \in 0 .. n : ~\E b \in Nat : \A k \in 1 .. m : f[k] <= b}
  <1> SUFFICES ASSUME Bad # {} PROVE FALSE
    <2>1. n \in 0 .. n
      OBVIOUS
    <2> QED BY <2>1
  <1>1. PICK m \in Bad : \A k \in Bad : m <= k
    <2>1. Bad \subseteq Nat
      OBVIOUS
    <2> HIDE DEF Bad
    <2> QED BY <2>1, SubstEachFold!LeastNat
  <1>2. m # 0
    <2>1. \A k \in 1 .. 0 : f[k] <= 0
      OBVIOUS
    <2> QED BY <2>1
  <1>3. m - 1 \in 0 .. n /\ ~(m <= m - 1) /\ m \in 1 .. n
    BY <1>2
  <1>4. PICK b \in Nat : \A k \in 1 .. (m - 1) : f[k] <= b
    BY <1>1, <1>3
  <1> DEFINE d == f[m]
  <1>5. d \in Nat
    BY <1>3
  <1> HIDE DEF d, Bad
  <1>6. PICK c \in Nat : b <= c /\ d <= c
    <2>1. CASE d <= b
      BY <2>1, <1>5
    <2>2. CASE ~(d <= b)
      <3>1. b <= d /\ d <= d
        BY ONLY <2>2, <1>5, b \in Nat
      <3> QED BY <3>1, <1>5
    <2> QED BY <2>1, <2>2
  <1>7. ASSUME NEW k \in 1 .. m PROVE f[k] <= c
    <2>1. CASE k = m
      BY <2>1, <1>6 DEF d
    <2>2. CASE k # m
      <3> DEFINE e == f[k]
      <3>1. k \in 1 .. (m - 1) /\ k \in 1 .. n
        BY <2>2, <1>3
      <3>2. e \in Nat /\ e <= b
        BY <3>1, <1>4
      <3> HIDE DEF e
      <3>3. e <= c
        BY ONLY <3>2, <1>6, b \in Nat
      <3> QED BY <3>3 DEF e
    <2> QED BY <2>1, <2>2
  <1> QED BY <1>1, <1>3, <1>6, <1>7 DEF Bad

\* How far it is to the leaf that is farthest from the root.
IsHeight(t, h) == /\ h \in Nat /\ \A l \in t : Len(l.at) <= h
                  /\ \E l \in t : Len(l.at) = h
Height(t) == CHOOSE h : IsHeight(t, h)

\* A signature without variables has a height, because it is finite.
LEMMA HeightIs == \A t \in Ground : IsHeight(t, Height(t))
  <1> SUFFICES ASSUME NEW t \in Ground PROVE \E h : IsHeight(t, h)
    BY DEF Height
  <1>1. IsFiniteSet(t) /\ t # {} /\ t \subseteq Leaves
    BY SigsAssumption, SigsAreTerms DEF IsSignature, Terms
  <1>2. \A l \in t : Len(l.at) \in Nat
    BY <1>1, LeafIs
  <1>3. PICK n \in Nat : ExistsBijection(1 .. n, t)
    BY <1>1, FS_CardinalityType
  <1>4. PICK g \in [1 .. n -> t] : \A l \in t : \E k \in 1 .. n : g[k] = l
    BY <1>3 DEF ExistsBijection, Bijection, Surjection
  <1> DEFINE f == [k \in 1 .. n |-> Len(g[k].at)]
             Upper == {h \in Nat : \A l \in t : Len(l.at) <= h}
  <1>5. \E b \in Nat : \A k \in 1 .. n : f[k] <= b
    <2>1. \A k \in 1 .. n : f[k] \in Nat
      BY <1>2
    <2> HIDE DEF f
    <2> QED BY <2>1, BoundedBy
  <1>6. Upper # {}
    BY <1>4, <1>5
  <1>7. PICK h \in Upper : \A k \in Upper : h <= k
    <2>1. Upper \subseteq Nat
      OBVIOUS
    <2> HIDE DEF Upper
    <2> QED BY <1>6, <2>1, SubstEachFold!LeastNat
  <1>8. \E l \in t : Len(l.at) = h
    <2> SUFFICES ASSUME \A l \in t : Len(l.at) # h PROVE FALSE
      OBVIOUS
    <2>1. \A l \in t : Len(l.at) <= h - 1 /\ Len(l.at) \in Nat
      BY <1>2, <1>7
    <2>2. h - 1 \in Nat
      BY <1>1, <2>1
    <2>3. h - 1 \in Upper
      BY <2>1, <2>2
    <2>4. h <= h - 1
      BY <1>7, <2>3
    <2>5. h \in Nat
      OBVIOUS
    <2> HIDE DEF Upper
    <2> QED BY ONLY <2>4, <2>5
  <1> QED BY <1>7, <1>8 DEF IsHeight

\* What a variable stands for is higher than its variables, unless it is one.
LEMMA Higher ==
    ASSUME NEW v \in Valuations, NEW n \in 0 .. NTypeVars, NEW t \in TermsOver(n), NEW a \in 1 .. NTypeVars,
           v[a] = Value(v, t), NEW b \in TypeVarsIn(t)
    PROVE  /\ b \in 1 .. NTypeVars /\ Height(v[a]) \in Nat /\ Height(v[b]) \in Nat
           /\ Height(v[b]) <= Height(v[a])
           /\ ~IsTypeVar(t) => Height(v[b]) < Height(v[a])
  <1>1. b \in 1 .. NTypeVars /\ t \in Terms
    BY SupplyAssumption DEF TermsOver
  <1>2. IsHeight(v[a], Height(v[a])) /\ IsHeight(v[b], Height(v[b]))
    BY <1>1, ValueVar, HeightIs
  <1>3. PICK k \in v[b] : Len(k.at) = Height(v[b])
    BY <1>2 DEF IsHeight
  <1>4. PICK l \in t : l.is[1] = "var" /\ l.is[2] = b
    BY DEF TypeVarsIn, VarLeaves
  <1> DEFINE m == [at |-> l.at \o k.at, is |-> k.is]
  <1>5. m \in v[a] /\ m.at = l.at \o k.at
    <2>1. m \in OneLeaf(l, v)
      BY <1>4 DEF OneLeaf, Below
    <2> HIDE DEF m
    <2>2. m \in Replace(t, v)
      BY <2>1, ReplaceEach
    <2> QED BY <2>2 DEF Value, m
  <1>6. l.at \in Ways /\ k.at \in Ways
    BY <1>1, ValueVar, LeafIs DEF Terms, Ways
  <1>7. Len(l.at \o k.at) = Len(l.at) + Len(k.at) /\ Len(l.at) \in Nat /\ Len(k.at) \in Nat
    BY <1>6 DEF Ways
  <1>8. Len(l.at \o k.at) <= Height(v[a])
    BY <1>2, <1>5 DEF IsHeight
  <1>9. ~IsTypeVar(t) => Len(l.at) # 0
    <2>1. ~IsTypeVar(t) => l.at # <<>>
      BY <1>1, <1>4, RootLeaf
    <2> QED BY <2>1, <1>6 DEF Ways
  <1>10. Height(v[a]) \in Nat /\ Height(v[b]) \in Nat
    BY <1>2 DEF IsHeight
  <1> DEFINE p == Len(l.at)  q == Len(k.at)  ha == Height(v[a])  hb == Height(v[b])
  <1>11. p \in Nat /\ q = hb /\ ha \in Nat /\ hb \in Nat /\ p + q <= ha /\ (~IsTypeVar(t) => p # 0)
    BY <1>3, <1>7, <1>8, <1>9, <1>10
  <1> HIDE DEF p, q, ha, hb
  <1>12. hb <= ha
    BY ONLY <1>11
  <1>13. p # 0 => hb < ha
    BY ONLY <1>11
  <1> QED BY <1>1, <1>11, <1>12, <1>13 DEF ha, hb

(***************************************************************************)
(* The solutions of what is left to solve.                                 *)
(***************************************************************************)
\* The sides of the equation that is next have the same value in every solution.
LEMMA NextSides ==
    ASSUME Inv, Open
    PROVE  /\ X \in TermsOver(supply) /\ Y \in TermsOver(supply) /\ supply \in 0 .. NTypeVars
           /\ Tail(equations) \in Seq(Sides(supply))
           /\ \A v : SolvesSides(v, equations) <=>
                        Value(v, X) = Value(v, Y) /\ SolvesSides(v, Tail(equations))
  <1> DEFINE rest == Tail(equations)
  <1>1. equations \in Seq(Sides(supply)) /\ equations # <<>> /\ supply \in 0 .. NTypeVars
    BY DEF Inv, CallTyped, KnownTyped, Open
  <1>2. /\ X \in TermsOver(supply) /\ Y \in TermsOver(supply) /\ rest \in Seq(Sides(supply))
        /\ 1 \in DOMAIN equations
        /\ \A m \in DOMAIN rest : m + 1 \in DOMAIN equations /\ rest[m] = equations[m + 1]
    BY <1>1, FirstRest DEF X, Y
  <1>3. \A m \in DOMAIN equations : m = 1 \/ (m - 1 \in DOMAIN rest /\ rest[m - 1] = equations[m])
    BY <1>1
  <1> HIDE DEF rest
  <1>4. \A v : SolvesSides(v, equations) <=> Value(v, X) = Value(v, Y) /\ SolvesSides(v, rest)
    <2> SUFFICES ASSUME NEW v
                 PROVE  SolvesSides(v, equations) <=> Value(v, X) = Value(v, Y) /\ SolvesSides(v, rest)
      OBVIOUS
    <2>1. ASSUME SolvesSides(v, equations) PROVE Value(v, X) = Value(v, Y) /\ SolvesSides(v, rest)
      BY <2>1, <1>2 DEF SolvesSides, X, Y
    <2>2. ASSUME Value(v, X) = Value(v, Y), SolvesSides(v, rest) PROVE SolvesSides(v, equations)
      <3> SUFFICES ASSUME NEW m \in DOMAIN equations
                   PROVE  Value(v, equations[m].x) = Value(v, equations[m].y)
        BY DEF SolvesSides
      <3>1. CASE m = 1
        BY <3>1, <2>2 DEF X, Y
      <3>2. CASE m - 1 \in DOMAIN rest /\ rest[m - 1] = equations[m]
        BY <3>2, <2>2 DEF SolvesSides
      <3> QED BY <3>1, <3>2, <1>3
    <2> QED BY <2>1, <2>2
  <1> QED BY <1>1, <1>2, <1>4 DEF rest

\* A variable and what it is to stand for have the same value in every solution.
LEMMA BoundValue ==
    ASSUME Inv, Solvable, IsTypeVar(Lhs), NEW v \in Valuations
    PROVE  Value(v, X) = Value(v, Y) <=> v[VarOf(Lhs)] = Value(v, Rhs)
  <1>1. Lhs = TypeVar(VarOf(Lhs)) /\ VarOf(Lhs) \in 1 .. supply
    BY ToBind
  <1>2. VarOf(Lhs) \in 1 .. NTypeVars
    BY <1>1, NextSides, SupplyAssumption DEF Solvable
  <1>3. Value(v, Lhs) = v[VarOf(Lhs)]
    <2> DEFINE a == VarOf(Lhs)
    <2>1. Lhs = TypeVar(a) /\ a \in 1 .. NTypeVars
      BY <1>1, <1>2
    <2> HIDE DEF a
    <2>2. Value(v, Lhs) = v[a]
      BY <2>1, ValueVar
    <2> QED BY <2>2 DEF a
  <1>4. (Lhs = X /\ Rhs = Y) \/ (Lhs = Y /\ Rhs = X)
    BY DEF Lhs, Rhs
  <1> QED BY <1>3, <1>4

\* Where a variable occurs in what it would stand for there is no solution: its value would
\* be higher than itself.
LEMMA OccursNoSolution ==
    ASSUME Inv, Solvable, IsTypeVar(Lhs), Occurs, NEW v \in Valuations,
           SolvesSides(v, equations), SolvesList(v, ext), SolvesList(v, trial)
    PROVE  FALSE
  <1> DEFINE a == VarOf(Lhs)  t == Rhs
  <1>1. /\ a \in 1 .. supply /\ t \in TermsOver(supply) /\ Lhs = TypeVar(a)
        /\ supply \in 0 .. NTypeVars /\ ext \in Lists(supply) /\ trial \in Lists(supply)
    BY ToBind DEF Inv, KnownTyped, CallTyped
  <1>2. a \in 1 .. NTypeVars
    BY <1>1, SupplyAssumption
  <1>3. v[a] = Value(v, t)
    BY BoundValue, NextSides DEF Solvable
  <1>4. t # TypeVar(a)
    BY <1>1 DEF Solvable, Lhs, Rhs
  <1>5. fixed => a \in TypeVarsIn(t)
    BY DEF Occurs
  <1>6. ~fixed => OccursUnder(a, t, trial, ext) /\ ~Found(t)
    BY DEF Occurs, Solvable, Rhs
  <1> HIDE DEF a, t
  <1>7. ASSUME NEW u \in TermsOver(supply), NEW c \in 1 .. NTypeVars, v[c] = Value(v, u), NEW b \in TypeVarsIn(u)
        PROVE  /\ b \in 1 .. NTypeVars /\ Height(v[c]) \in Nat /\ Height(v[b]) \in Nat
               /\ Height(v[b]) <= Height(v[c])
               /\ ~IsTypeVar(u) => Height(v[b]) < Height(v[c])
    BY <1>1, <1>7, Higher
  <1>8. a \notin TypeVarsIn(t)
    <2> SUFFICES ASSUME a \in TypeVarsIn(t) PROVE FALSE
      OBVIOUS
    <2>1. ~IsTypeVar(t)
      BY <1>4, VarOfIs
    <2> DEFINE h == Height(v[a])
    <2>2. h \in Nat /\ h < h
      BY <1>1, <1>2, <1>3, <1>7, <2>1
    <2> HIDE DEF h
    <2> QED BY ONLY <2>2
  <1> SUFFICES ASSUME ~fixed PROVE FALSE
    BY <1>5, <1>8
  <1> DEFINE all == UNION ({TypeVarsIn(t)} \cup
                           {TypeVarsIn(trial[m].typeSig) : m \in DOMAIN trial} \cup
                           {TypeVarsIn(ext[m].typeSig) : m \in DOMAIN ext})
  <1>9. ASSUME NEW met \in SUBSET all, TypeVarsIn(t) \subseteq met, Closed(met, trial, ext)
        PROVE  a \in met
    BY <1>6, <1>9 DEF OccursUnder
  <1>10. ASSUME NEW list \in Lists(supply), list = trial \/ list = ext, NEW c, Substituted(c, list)
         PROVE  /\ c \in 1 .. NTypeVars /\ LookUp(c, list) \in TermsOver(supply)
                /\ TypeVarsIn(LookUp(c, list)) \subseteq all /\ v[c] = Value(v, LookUp(c, list))
    <2>1. PICK m \in 1 .. Len(list) : list[m].typeVar = c /\ LookUp(c, list) = list[m].typeSig
      BY <1>10, LookUpIs
    <2>2. /\ DOMAIN list = 1 .. Len(list) /\ list[m].typeVar \in 1 .. supply
          /\ list[m].typeSig \in TermsOver(supply)
      BY ListIs
    <2>3. TypeVarsIn(list[m].typeSig) \subseteq all
      BY <1>10, <2>2
    <2>4. v[list[m].typeVar] = Value(v, list[m].typeSig)
      BY <1>10, <2>2 DEF SolvesList
    <2>5. c \in 1 .. NTypeVars
      BY <2>1, <2>2, <1>1, SupplyAssumption
    <2> HIDE DEF all
    <2> QED BY <2>1, <2>2, <2>3, <2>4, <2>5
  <1>11. TypeVarsIn(t) \subseteq all
    OBVIOUS
  <1> HIDE DEF all
  <1>12. CASE IsTypeVar(t)
    <2>1. TypeVarsIn(t) = {VarOf(t)} /\ t = TypeVar(VarOf(t))
      BY <1>12, VarOfIs
    <2>2. ~Substituted(VarOf(t), trial) /\ ~Substituted(VarOf(t), ext)
      BY <1>6, <1>12 DEF Found
    <2>3. Closed(TypeVarsIn(t), trial, ext)
      BY <2>1, <2>2 DEF Closed, StandsFor
    <2> QED BY <1>8, <1>9, <1>11, <2>3
  <1>13. CASE ~IsTypeVar(t)
    <2> DEFINE met == {c \in all : c \in 1 .. NTypeVars /\ Height(v[c]) \in Nat /\ Height(v[c]) < Height(v[a])}
    <2>1. TypeVarsIn(t) \subseteq met
      BY <1>1, <1>2, <1>3, <1>7, <1>11, <1>13
    <2>2. ASSUME NEW c \in met, NEW list \in Lists(supply), list = trial \/ list = ext, Substituted(c, list)
          PROVE  TypeVarsIn(LookUp(c, list)) \subseteq met
      <3> SUFFICES ASSUME NEW b \in TypeVarsIn(LookUp(c, list)) PROVE b \in met
        OBVIOUS
      <3>1. /\ c \in 1 .. NTypeVars /\ LookUp(c, list) \in TermsOver(supply)
            /\ b \in all /\ v[c] = Value(v, LookUp(c, list))
        BY <1>10, <2>2
      <3> DEFINE ha == Height(v[a])  hb == Height(v[b])  hc == Height(v[c])
      <3>2. b \in 1 .. NTypeVars /\ hb \in Nat /\ hc \in Nat /\ hb <= hc
        BY <3>1, <1>7
      <3>3. hc < ha
        OBVIOUS
      <3>4. ha \in Nat
        BY <1>2, ValueVar, HeightIs DEF IsHeight
      <3> HIDE DEF ha, hb, hc
      <3>5. hb < ha
        BY ONLY <3>2, <3>3, <3>4
      <3> QED BY <3>1, <3>2, <3>5 DEF ha, hb
    <2>3. a \notin met
      <3> DEFINE h == Height(v[a])
      <3> SUFFICES ASSUME h \in Nat, h < h PROVE FALSE
        OBVIOUS
      <3> HIDE DEF h
      <3> QED OBVIOUS
    <2>4. met \subseteq all
      OBVIOUS
    <2> HIDE DEF met
    <2>5. Closed(met, trial, ext)
      <3> SUFFICES ASSUME NEW c \in met PROVE StandsFor(c, trial, ext) \subseteq met
        BY DEF Closed
      <3> QED BY <1>1, <2>2 DEF StandsFor
    <2> QED BY <1>9, <2>1, <2>3, <2>4, <2>5
  <1> QED BY <1>12, <1>13

\* An equation more to satisfy.
LEMMA OneMoreSide ==
    ASSUME NEW n, NEW x \in TermsOver(n), NEW y \in TermsOver(n), NEW eqs \in Seq(Sides(n)), NEW v
    PROVE  SolvesSides(v, <<[x |-> x, y |-> y]>> \o eqs) <=> Value(v, x) = Value(v, y) /\ SolvesSides(v, eqs)
  <1> DEFINE e == [x |-> x, y |-> y]
             new == <<e>> \o eqs
  <1>1. e \in Sides(n) /\ e.x = x /\ e.y = y
    BY DEF Sides
  <1> HIDE DEF e
  <1>2. /\ 1 \in DOMAIN new /\ new[1] = e
        /\ \A m \in DOMAIN eqs : m + 1 \in DOMAIN new /\ new[m + 1] = eqs[m]
        /\ \A m \in DOMAIN new : (m = 1 /\ new[m] = e) \/ (m - 1 \in DOMAIN eqs /\ new[m] = eqs[m - 1])
    BY <1>1
  <1> HIDE DEF new
  <1>3. SolvesSides(v, new) => Value(v, x) = Value(v, y) /\ SolvesSides(v, eqs)
    BY <1>1, <1>2 DEF SolvesSides
  <1>4. Value(v, x) = Value(v, y) /\ SolvesSides(v, eqs) => SolvesSides(v, new)
    BY <1>1, <1>2 DEF SolvesSides
  <1> QED BY <1>3, <1>4 DEF new, e

\* A substitution more to satisfy.
LEMMA OneMoreSolved ==
    ASSUME NEW n, NEW list \in Lists(n), NEW s \in Substs(n), NEW v
    PROVE  SolvesList(v, <<s>> \o list) <=> v[s.typeVar] = Value(v, s.typeSig) /\ SolvesList(v, list)
  <1> DEFINE new == <<s>> \o list
  <1>1. list \in Seq(Substs(n))
    BY DEF Lists
  <1>2. /\ 1 \in DOMAIN new /\ new[1] = s
        /\ \A m \in DOMAIN list : m + 1 \in DOMAIN new /\ new[m + 1] = list[m]
        /\ \A m \in DOMAIN new : (m = 1 /\ new[m] = s) \/ (m - 1 \in DOMAIN list /\ new[m] = list[m - 1])
    BY <1>1
  <1> HIDE DEF new
  <1>3. SolvesList(v, new) => v[s.typeVar] = Value(v, s.typeSig) /\ SolvesList(v, list)
    BY <1>2 DEF SolvesList
  <1>4. v[s.typeVar] = Value(v, s.typeSig) /\ SolvesList(v, list) => SolvesList(v, new)
    BY <1>2 DEF SolvesList
  <1> QED BY <1>3, <1>4 DEF new

\* A list that has the entries of two others.
LEMMA SolvedOf ==
    ASSUME NEW n, NEW new \in Lists(n), NEW list \in Lists(n), NEW other \in Lists(n), NEW v,
           \A m \in 1 .. Len(new) : \/ \E i \in 1 .. Len(list) : new[m] = list[i]
                                    \/ \E i \in 1 .. Len(other) : new[m] = other[i],
           \A i \in 1 .. Len(list) : \E m \in 1 .. Len(new) : new[m] = list[i],
           \A i \in 1 .. Len(other) : \E m \in 1 .. Len(new) : new[m] = other[i]
    PROVE  SolvesList(v, new) <=> SolvesList(v, list) /\ SolvesList(v, other)
  <1> DEFINE Good(s) == v[s.typeVar] = Value(v, s.typeSig)
  <1>1. DOMAIN new = 1 .. Len(new) /\ DOMAIN list = 1 .. Len(list) /\ DOMAIN other = 1 .. Len(other)
    BY ListIs
  <1>2. /\ SolvesList(v, new) <=> \A m \in 1 .. Len(new) : Good(new[m])
        /\ SolvesList(v, list) <=> \A m \in 1 .. Len(list) : Good(list[m])
        /\ SolvesList(v, other) <=> \A m \in 1 .. Len(other) : Good(other[m])
    BY <1>1 DEF SolvesList
  <1> HIDE DEF Good
  <1>3. ASSUME \A m \in 1 .. Len(new) : Good(new[m])
        PROVE  (\A m \in 1 .. Len(list) : Good(list[m])) /\ (\A m \in 1 .. Len(other) : Good(other[m]))
    <2>1. ASSUME NEW i \in 1 .. Len(list) PROVE Good(list[i])
      <3>1. PICK m \in 1 .. Len(new) : new[m] = list[i]
        OBVIOUS
      <3>2. Good(new[m])
        BY <1>3
      <3> QED BY ONLY <3>1, <3>2
    <2>2. ASSUME NEW i \in 1 .. Len(other) PROVE Good(other[i])
      <3>1. PICK m \in 1 .. Len(new) : new[m] = other[i]
        OBVIOUS
      <3>2. Good(new[m])
        BY <1>3
      <3> QED BY ONLY <3>1, <3>2
    <2> QED BY <2>1, <2>2
  <1>4. ASSUME \A m \in 1 .. Len(list) : Good(list[m]), \A m \in 1 .. Len(other) : Good(other[m]),
               NEW m \in 1 .. Len(new)
        PROVE  Good(new[m])
    <2>1. CASE \E i \in 1 .. Len(list) : new[m] = list[i]
      <3>1. PICK i \in 1 .. Len(list) : new[m] = list[i]
        BY <2>1
      <3>2. Good(list[i])
        BY <1>4
      <3> QED BY ONLY <3>1, <3>2
    <2>2. CASE \E i \in 1 .. Len(other) : new[m] = other[i]
      <3>1. PICK i \in 1 .. Len(other) : new[m] = other[i]
        BY <2>2
      <3>2. Good(other[i])
        BY <1>4
      <3> QED BY ONLY <3>1, <3>2
    <2> QED BY <2>1, <2>2
  <1> QED BY <1>2, <1>3, <1>4

\* Two lists to satisfy.
LEMMA JoinedSolved ==
    ASSUME NEW n, NEW list \in Lists(n), NEW other \in Lists(n), NEW v
    PROVE  SolvesList(v, list \o other) <=> SolvesList(v, list) /\ SolvesList(v, other)
  <1> DEFINE new == list \o other
  <1>1. /\ new \in Lists(n)
        /\ \A m \in 1 .. Len(new) :
              \/ \E i \in 1 .. Len(list) : m = i /\ new[m] = list[i]
              \/ \E i \in 1 .. Len(other) : m = Len(list) + i /\ new[m] = other[i]
        /\ \A i \in 1 .. Len(list) : \E m \in 1 .. Len(new) : new[m] = list[i]
        /\ \A i \in 1 .. Len(other) : \E m \in 1 .. Len(new) : new[m] = other[i]
        /\ Distinct(list) /\ Distinct(other) /\ BoundBy(list) \cap BoundBy(other) = {}
              => Distinct(new)
        /\ \A bound : Avoids(list, bound) /\ Avoids(other, bound) => Avoids(new, bound)
        /\ \A rank : Falls(rank, list) /\ Falls(rank, other) => Falls(rank, new)
    <2>1. list \in Lists(n) /\ other \in Lists(n)
      OBVIOUS
    <2> QED BY ONLY <2>1, ListsJoined, Zenon
  <1> HIDE DEF new
  <1>2. \A m \in 1 .. Len(new) : \/ \E i \in 1 .. Len(list) : new[m] = list[i]
                                 \/ \E i \in 1 .. Len(other) : new[m] = other[i]
    BY ONLY <1>1, Zenon
  <1>3. SolvesList(v, new) <=> SolvesList(v, list) /\ SolvesList(v, other)
    BY <1>1, <1>2, SolvedOf, Zenon
  <1> QED BY <1>3 DEF new

\* Where a variable has the value of what it stands for, it may be replaced in every
\* equation.
LEMMA SidesReplaced ==
    ASSUME NEW n \in 0 .. NTypeVars, NEW eqs \in Seq(Sides(n)), NEW a, NEW t \in TermsOver(n),
           NEW v \in Valuations, v[a] = Value(v, t)
    PROVE  SolvesSides(v, SubstSides(eqs, a, t)) <=> SolvesSides(v, eqs)
  <1> DEFINE new == SubstSides(eqs, a, t)
  <1>1. DOMAIN new = DOMAIN eqs
    BY DEF SubstSides
  <1>2. ASSUME NEW m \in DOMAIN eqs
        PROVE  Value(v, new[m].x) = Value(v, eqs[m].x) /\ Value(v, new[m].y) = Value(v, eqs[m].y)
    <2>1. eqs[m] \in Sides(n)
      OBVIOUS
    <2>2. eqs[m].x \in TermsOver(n) /\ eqs[m].y \in TermsOver(n)
      BY <2>1 DEF Sides
    <2>3. new[m].x = SubstTypeVar(a, t, eqs[m].x) /\ new[m].y = SubstTypeVar(a, t, eqs[m].y)
      BY DEF SubstSides
    <2> QED BY <2>2, <2>3, ValueSubst
  <1> HIDE DEF new
  <1> QED BY <1>1, <1>2 DEF SolvesSides, new

\* And in every substitution.
LEMMA ListReplaced ==
    ASSUME NEW n \in 0 .. NTypeVars, NEW list \in Lists(n), NEW a, NEW t \in TermsOver(n),
           NEW v \in Valuations, v[a] = Value(v, t)
    PROVE  SolvesList(v, SubstList(list, a, t)) <=> SolvesList(v, list)
  <1> DEFINE new == SubstList(list, a, t)
  <1>1. DOMAIN new = DOMAIN list /\ DOMAIN list = 1 .. Len(list)
    BY ListIs DEF SubstList
  <1>2. ASSUME NEW m \in DOMAIN list
        PROVE  new[m].typeVar = list[m].typeVar /\ Value(v, new[m].typeSig) = Value(v, list[m].typeSig)
    <2> DEFINE u == list[m].typeSig
    <2>1. list[m] = [typeVar |-> list[m].typeVar, typeSig |-> u] /\ u \in TermsOver(n)
      BY <1>1, ListIs DEF Subst
    <2>2. new[m] = [list[m] EXCEPT !.typeSig = SubstTypeVar(a, t, u)]
      BY DEF SubstList
    <2>3. new[m] = [typeVar |-> list[m].typeVar, typeSig |-> SubstTypeVar(a, t, u)]
      BY ONLY <2>1, <2>2
    <2>4. Value(v, SubstTypeVar(a, t, u)) = Value(v, u)
      BY <2>1, ValueSubst
    <2>5. new[m].typeVar = list[m].typeVar /\ new[m].typeSig = SubstTypeVar(a, t, u)
      BY ONLY <2>3
    <2> QED BY <2>4, <2>5
  <1> HIDE DEF new
  <1> QED BY <1>1, <1>2 DEF SolvesList, new

\* What is found, put in front of a set that is brought up to date with it, is to be
\* satisfied together with what was known.
LEMMA AppliedSolved ==
    ASSUME NEW n \in 0 .. NTypeVars, index \in Lists(n), Indexed(index, refs),
           NEW list \in Lists(n), Distinct(list), Flat(list), NEW v \in Valuations
    PROVE  SolvesList(v, Newest(list, Updated(list))) <=> SolvesList(v, list) /\ SolvesList(v, index)
  <1> DEFINE U == Updated(list)
             new == Newest(list, U)
  <1>1. U \in Lists(n) /\ Len(U) = Len(index) /\ DOMAIN U = 1 .. Len(index) /\ DOMAIN index = 1 .. Len(index)
    BY UpdatedIs, ListIs
  <1>2. SolvesList(v, new) <=> SolvesList(v, list) /\ SolvesList(v, U)
    <2> HIDE DEF U
    <2>1. /\ new \in Lists(n) /\ Len(new) = Len(list) + Len(U)
          /\ \A m \in 1 .. Len(new) :
                \/ \E i \in 1 .. Len(list) : m = Len(list) - i + 1 /\ new[m] = list[i]
                \/ \E i \in 1 .. Len(U) : m = Len(list) + i /\ new[m] = U[i]
          /\ \A i \in 1 .. Len(list) : \E m \in 1 .. Len(new) : new[m] = list[i]
          /\ \A i \in 1 .. Len(U) : \E m \in 1 .. Len(new) : new[m] = U[i]
          /\ BoundBy(new) = BoundBy(list) \cup BoundBy(U)
      <3>1. U \in Lists(n) /\ list \in Lists(n)
        BY <1>1
      <3> QED BY ONLY <3>1, NewIndexIs, Zenon
    <2> HIDE DEF new
    <2>2. \A m \in 1 .. Len(new) : \/ \E i \in 1 .. Len(list) : new[m] = list[i]
                                   \/ \E i \in 1 .. Len(U) : new[m] = U[i]
      BY ONLY <2>1, Zenon
    <2> QED BY <1>1, <2>1, <2>2, SolvedOf, Zenon
  <1>3. ASSUME SolvesList(v, list), NEW m \in 1 .. Len(index)
        PROVE  U[m].typeVar = index[m].typeVar /\ Value(v, U[m].typeSig) = Value(v, index[m].typeSig)
    <2> DEFINE a == index[m].typeVar  t == index[m].typeSig
    <2>1. index[m] = [typeVar |-> a, typeSig |-> t] /\ t \in TermsOver(n)
      BY ListIs DEF Subst
    <2>2. CASE a \in PendingEntries(list)
      <3>1. U[m] = [index[m] EXCEPT !.typeSig = SubstEach(t, list)]
        BY <1>1, <2>2 DEF Updated
      <3>2. U[m] = [typeVar |-> a, typeSig |-> SubstEach(t, list)]
        BY ONLY <2>1, <3>1
      <3>3. Value(v, SubstEach(t, list)) = Value(v, t)
        BY <2>1, <1>3, ValueEach
      <3>4. U[m].typeVar = a /\ U[m].typeSig = SubstEach(t, list)
        BY ONLY <3>2
      <3> QED BY <3>3, <3>4
    <2>3. CASE a \notin PendingEntries(list)
      <3>1. U[m] = index[m]
        BY <1>1, <2>3 DEF Updated
      <3> QED BY <3>1
    <2> QED BY <2>2, <2>3
  <1> HIDE DEF U
  <1>4. SolvesList(v, list) => (SolvesList(v, U) <=> SolvesList(v, index))
    BY <1>1, <1>3 DEF SolvesList
  <1> HIDE DEF new
  <1> QED BY <1>2, <1>4 DEF new, U

(***************************************************************************)
(* What unify answers.                                                     *)
(***************************************************************************)
\* What is left of a call is solved by the values, and what it has found so far.
Left(v, eqs, list) == SolvesSides(v, eqs) /\ SolvesList(v, list)

\* While a call runs, what is left and found has the solutions of what was asked, as far as
\* these are solutions of the caller's list.
Answer ==
    Unifying =>
        /\ asked.index = index /\ asked.trial = trial
        /\ \A v \in Valuations :
              SolvesList(v, trial) =>
                  (Value(v, asked.x) = Value(v, asked.y) <=> Left(v, equations, ext))

\* A step that changes only what is left, and not its solutions.
LEMMA LeftKept ==
    ASSUME Answer, Unifying, UNCHANGED <<index, trial, asked>>,
           \A v \in Valuations :
              SolvesList(v, trial) => (Left(v, equations', ext') <=> Left(v, equations, ext))
    PROVE  Answer'
  BY DEF Answer

\* A call starts with what is asked.
LEMMA StartAnswer ==
    ASSUME NEW x, NEW y, NEW mode, Start(x, y, mode), UNCHANGED <<index, trial>>
    PROVE  Answer'
  <1> DEFINE e == [x |-> x, y |-> y]
  <1>1. /\ equations' = <<e>> /\ ext' = <<>>
        /\ asked' = [x |-> x, y |-> y, index |-> index, trial |-> trial]
    BY DEF Start
  <1>2. e.x = x /\ e.y = y
    OBVIOUS
  <1> HIDE DEF e
  <1>3. DOMAIN equations' = {1} /\ equations'[1] = e /\ DOMAIN ext' = {}
    BY <1>1
  <1>4. \A v : Left(v, equations', ext') <=> Value(v, x) = Value(v, y)
    BY <1>2, <1>3 DEF Left, SolvesSides, SolvesList
  <1>5. asked'.x = x /\ asked'.y = y /\ asked'.index = index /\ asked'.trial = trial
    BY <1>1
  <1> QED BY <1>4, <1>5 DEF Answer

\* An equation between equal sides is solved by all values.
LEMMA DropEqualAnswer == ASSUME Inv, Answer, DropEqual PROVE Answer'
  <1>1. /\ Open /\ X = Y /\ equations' = Tail(equations) /\ Unifying
        /\ UNCHANGED <<index, trial, asked, ext>>
    BY DEF DropEqual, Open, Local
  <1>2. \A v : Left(v, equations', ext') <=> Left(v, equations, ext)
    BY <1>1, NextSides DEF Left
  <1> QED BY <1>1, <1>2, LeftKept

\* A variable has the value of what is looked up for it.
LEMMA FollowSubstsAnswer == ASSUME Inv, Answer, FollowSubsts PROVE Answer'
  <1> DEFINE e == [x |-> LookedUp(X), y |-> LookedUp(Y)]
  <1>1. /\ Open /\ equations' = [equations EXCEPT ![1] = e] /\ Unifying
        /\ UNCHANGED <<index, trial, asked, ext>>
    BY DEF FollowSubsts, Open, Local
  <1>2. /\ X \in TermsOver(supply) /\ Y \in TermsOver(supply) /\ supply \in 0 .. NTypeVars
        /\ ext \in Lists(supply) /\ trial \in Lists(supply) /\ equations \in Seq(Sides(supply))
    BY <1>1, NextSides DEF Inv, CallTyped
  <1>3. e.x = LookedUp(X) /\ e.y = LookedUp(Y)
    OBVIOUS
  <1> HIDE DEF e
  <1>4. /\ DOMAIN equations' = DOMAIN equations
        /\ \A m \in DOMAIN equations : equations'[m] = IF m = 1 THEN e ELSE equations[m]
    BY <1>1
  <1>5. ASSUME NEW v \in Valuations, SolvesList(v, trial)
        PROVE  Left(v, equations', ext') <=> Left(v, equations, ext)
    <2> SUFFICES ASSUME SolvesList(v, ext) PROVE SolvesSides(v, equations') <=> SolvesSides(v, equations)
      BY <1>1 DEF Left
    <2>1. Value(v, LookedUp(X)) = Value(v, X) /\ Value(v, LookedUp(Y)) = Value(v, Y)
      BY <1>2, <1>5, ValueLookedUp
    <2>2. ASSUME NEW m \in DOMAIN equations
          PROVE  /\ Value(v, equations'[m].x) = Value(v, equations[m].x)
                 /\ Value(v, equations'[m].y) = Value(v, equations[m].y)
      <3>1. CASE m = 1
        BY <3>1, <2>1, <1>3, <1>4 DEF X, Y
      <3>2. CASE m # 1
        BY <3>2, <1>4
      <3> QED BY <3>1, <3>2
    <2> QED BY <2>2, <1>4 DEF SolvesSides
  <1> QED BY <1>1, <1>5, LeftKept

\* A variable that has been solved for.
LEMMA BindAnswer == ASSUME Inv, Answer, BindTypeVar PROVE Answer'
  <1> DEFINE a == VarOf(Lhs)  t == Rhs  rest == Tail(equations)
  <1>1. /\ Solvable /\ IsTypeVar(Lhs) /\ Extend(a, t) /\ Open /\ Unifying
        /\ UNCHANGED <<index, trial, asked>>
    BY DEF BindTypeVar, Solvable, Open, Local
  <1>2. /\ a \in 1 .. supply /\ t \in TermsOver(supply) /\ supply \in 0 .. NTypeVars
        /\ ext \in Lists(supply) /\ rest \in Seq(Sides(supply))
    BY <1>1, ToBind DEF Inv, CallTyped, KnownTyped
  <1>3. ASSUME NEW v \in Valuations
        PROVE  SolvesSides(v, equations) <=> v[a] = Value(v, t) /\ SolvesSides(v, rest)
    BY <1>1, <1>3, NextSides, BoundValue
  <1>4. /\ fixed => /\ equations' = SubstSides(rest, a, t)
                    /\ ext' = <<Subst(a, t)>> \o SubstList(ext, a, t)
        /\ ~fixed => equations' = rest /\ ext' = <<Subst(a, t)>> \o ext
    BY <1>1 DEF Extend
  <1> HIDE DEF a, t, rest
  <1>5. Subst(a, t) \in Substs(supply) /\ Subst(a, t).typeVar = a /\ Subst(a, t).typeSig = t
    BY <1>2 DEF Substs, Subst
  <1>6. ASSUME NEW list \in Lists(supply), NEW v
        PROVE  SolvesList(v, <<Subst(a, t)>> \o list) <=> v[a] = Value(v, t) /\ SolvesList(v, list)
    <2> DEFINE s == Subst(a, t)
    <2>1. s \in Substs(supply) /\ s.typeVar = a /\ s.typeSig = t
      BY <1>5
    <2> HIDE DEF s
    <2>2. SolvesList(v, <<s>> \o list) <=> v[s.typeVar] = Value(v, s.typeSig) /\ SolvesList(v, list)
      BY <2>1, OneMoreSolved
    <2>3. SolvesList(v, <<s>> \o list) <=> v[a] = Value(v, t) /\ SolvesList(v, list)
      BY ONLY <2>1, <2>2
    <2> QED BY <2>3 DEF s
  <1>7. ASSUME NEW v \in Valuations
        PROVE  Left(v, equations', ext') <=> Left(v, equations, ext)
    <2>1. CASE fixed
      <3>1. SubstList(ext, a, t) \in Lists(supply)
        BY <1>2, SubstListIs
      <3>2. SolvesList(v, ext') <=> v[a] = Value(v, t) /\ SolvesList(v, SubstList(ext, a, t))
        <4> DEFINE list == SubstList(ext, a, t)
        <4>1. SolvesList(v, <<Subst(a, t)>> \o list) <=> v[a] = Value(v, t) /\ SolvesList(v, list)
          BY <3>1, <1>6, Zenon
        <4>2. ext' = <<Subst(a, t)>> \o list
          BY <2>1, <1>4
        <4> HIDE DEF list
        <4>3. SolvesList(v, ext') <=> v[a] = Value(v, t) /\ SolvesList(v, list)
          BY ONLY <4>1, <4>2
        <4> QED BY <4>3 DEF list
      <3>3. v[a] = Value(v, t) => /\ SolvesList(v, SubstList(ext, a, t)) <=> SolvesList(v, ext)
                                  /\ SolvesSides(v, SubstSides(rest, a, t)) <=> SolvesSides(v, rest)
        BY <1>2, SidesReplaced, ListReplaced
      <3> QED BY <2>1, <3>2, <3>3, <1>3, <1>4 DEF Left
    <2>2. CASE ~fixed
      <3>1. SolvesList(v, ext') <=> v[a] = Value(v, t) /\ SolvesList(v, ext)
        <4>1. SolvesList(v, <<Subst(a, t)>> \o ext) <=> v[a] = Value(v, t) /\ SolvesList(v, ext)
          BY <1>2, <1>6, Zenon
        <4>2. ext' = <<Subst(a, t)>> \o ext
          BY <2>2, <1>4
        <4> QED BY ONLY <4>1, <4>2
      <3> QED BY <2>2, <3>1, <1>3, <1>4 DEF Left
    <2> QED BY <2>1, <2>2
  <1> QED BY <1>1, <1>7, LeftKept

\* Two applications are equal when their parts are.
LEMMA DecomposeAnswer == ASSUME Inv, Answer, Decompose PROVE Answer'
  <1> DEFINE rest == Tail(equations)
             f == [x |-> Fun(X), y |-> Fun(Y)]
             e == [x |-> Arg(X), y |-> Arg(Y)]
             mid == IF Fun(X) # Fun(Y) THEN <<f>> \o rest ELSE rest
  <1>1. /\ Open /\ IsAp(X) /\ IsAp(Y) /\ Unifying /\ UNCHANGED <<index, trial, asked, ext>>
        /\ equations' = <<e>> \o (IF Fun(X) # Fun(Y) THEN <<f>> ELSE <<>>) \o rest
    BY DEF Decompose, DecomposeBoth, Solvable, Open, Local
  <1>2. /\ X \in TermsOver(supply) /\ Y \in TermsOver(supply) /\ supply \in 0 .. NTypeVars
        /\ rest \in Seq(Sides(supply))
    BY <1>1, NextSides
  <1>3. /\ Fun(X) \in TermsOver(supply) /\ Fun(Y) \in TermsOver(supply)
        /\ Arg(X) \in TermsOver(supply) /\ Arg(Y) \in TermsOver(supply)
    BY <1>1, <1>2, PartTerm DEF TermsOver, Fun, Arg
  <1>4. e \in Sides(supply) /\ f \in Sides(supply)
    BY <1>3 DEF Sides
  <1>5. \A v : SolvesSides(v, equations) <=> Value(v, X) = Value(v, Y) /\ SolvesSides(v, rest)
    BY <1>1, NextSides
  <1> HIDE DEF rest
  <1>6. equations' = <<e>> \o mid
    <2> HIDE DEF e, f
    <2> DEFINE S == Sides(supply)
    <2>1. <<e>> \in Seq(S) /\ <<f>> \in Seq(S) /\ <<>> \in Seq(S) /\ rest \in Seq(S)
      BY <1>2, <1>4
    <2> HIDE DEF S
    <2>2. (<<e>> \o <<f>>) \o rest = <<e>> \o (<<f>> \o rest)
      BY <2>1, ConcatAssociative
    <2>3. (<<e>> \o <<>>) \o rest = <<e>> \o rest
      BY <2>1
    <2> QED BY <1>1, <2>2, <2>3
  <1>7. ASSUME NEW v
        PROVE  SolvesSides(v, mid) <=> Value(v, Fun(X)) = Value(v, Fun(Y)) /\ SolvesSides(v, rest)
    <2>1. SolvesSides(v, <<f>> \o rest) <=> Value(v, Fun(X)) = Value(v, Fun(Y)) /\ SolvesSides(v, rest)
      BY <1>2, <1>3, OneMoreSide
    <2> QED BY <2>1
  <1>8. mid \in Seq(Sides(supply))
    BY <1>2, <1>3, OneEquation
  <1> HIDE DEF mid
  <1>9. ASSUME NEW v
        PROVE  SolvesSides(v, equations') <=> Value(v, Arg(X)) = Value(v, Arg(Y)) /\ SolvesSides(v, mid)
    <2>1. SolvesSides(v, <<e>> \o mid) <=> Value(v, Arg(X)) = Value(v, Arg(Y)) /\ SolvesSides(v, mid)
      BY <1>3, <1>8, OneMoreSide
    <2> QED BY <2>1, <1>6
  <1>10. ASSUME NEW v \in Valuations PROVE Left(v, equations', ext') <=> Left(v, equations, ext)
    <2>1. Value(v, X) = Value(v, Y) <=> Value(v, Fun(X)) = Value(v, Fun(Y)) /\ Value(v, Arg(X)) = Value(v, Arg(Y))
      BY <1>1, <1>2, ValueParts
    <2> QED BY <2>1, <1>1, <1>5, <1>7, <1>9 DEF Left
  <1> QED BY <1>1, <1>10, LeftKept

\* Nothing has been asked at first.
LEMMA InitAnswer == Init => Answer
  BY DEF Init, Answer, Unifying

\* Every step keeps what is left in agreement with what was asked.
LEMMA NextAnswer == ASSUME Inv, Answer, [Next]_vars PROVE Answer'
  <1>0. ASSUME outcome' # "unifying" PROVE Answer'
    BY <1>0 DEF Answer, Unifying
  <1>1. CASE DropEqual
    BY <1>1, DropEqualAnswer
  <1>2. CASE FollowSubsts
    BY <1>2, FollowSubstsAnswer
  <1>3. CASE OccursCheck
    BY <1>0, <1>3 DEF OccursCheck
  <1>4. CASE BindTypeVar
    BY <1>4, BindAnswer
  <1>5. CASE Decompose
    BY <1>5, DecomposeAnswer
  <1>6. CASE Clash
    BY <1>0, <1>6 DEF Clash
  <1>7. CASE Finish
    BY <1>0, <1>7 DEF Finish
  <1>8. CASE OpenScope \/ CloseScope \/ Accept \/ GiveUp
    BY <1>0, <1>8 DEF OpenScope, CloseScope, Accept, GiveUp, Inferring, Idle
  <1>9. CASE \E t \in Known \cap Patterns : Assume(t)
    BY <1>0, <1>9 DEF Assume, Inferring, Idle
  <1>10. CASE \E x, y \in Known : UnifyFixed(x, y) \/ UnifyTrial(x, y)
    BY <1>10, StartAnswer DEF UnifyFixed, UnifyTrial
  <1>11. CASE \E n \in Names : NameTypeVar(n)
    BY <1>0, <1>11 DEF NameTypeVar, Inferring, Idle
  <1>12. CASE \E x \in Known, n \in Names : NameScopes(n) = {} /\ Constrain(x, n)
    BY <1>12, StartAnswer DEF Constrain
  <1>13. CASE UNCHANGED vars
    BY <1>13 DEF vars, Answer, Unifying
  <1> QED
    BY <1>1, <1>2, <1>3, <1>4, <1>5, <1>6, <1>7, <1>8, <1>9, <1>10, <1>11, <1>12, <1>13
       DEF Next, UnifyStep, Between

\* The equations of a list are solved by the values that satisfy it.
LEMMA EquationsSolved ==
    ASSUME NEW n \in 0 .. NTypeVars, NEW list \in Lists(n), NEW v \in Valuations
    PROVE  (\A e \in Equations(list) : Value(v, e[1]) = Value(v, e[2])) <=> SolvesList(v, list)
  <1>1. ASSUME NEW m \in DOMAIN list
        PROVE  Value(v, TypeVar(list[m].typeVar)) = v[list[m].typeVar]
    <2> DEFINE a == list[m].typeVar
    <2>1. a \in 1 .. NTypeVars
      BY ListIs, SupplyAssumption
    <2> HIDE DEF a
    <2>2. Value(v, TypeVar(a)) = v[a]
      BY <2>1, ValueVar
    <2> QED BY <2>2 DEF a
  <1>2. (\A e \in Equations(list) : Value(v, e[1]) = Value(v, e[2])) <=>
           \A m \in DOMAIN list : Value(v, TypeVar(list[m].typeVar)) = Value(v, list[m].typeSig)
    <2> DEFINE pair(m) == <<TypeVar(list[m].typeVar), list[m].typeSig>>
    <2>1. Equations(list) = {pair(m) : m \in DOMAIN list}
      BY DEF Equations
    <2>2. \A m : pair(m)[1] = TypeVar(list[m].typeVar) /\ pair(m)[2] = list[m].typeSig
      OBVIOUS
    <2> HIDE DEF pair
    <2>3. (\A e \in Equations(list) : Value(v, e[1]) = Value(v, e[2])) <=>
             \A m \in DOMAIN list : Value(v, pair(m)[1]) = Value(v, pair(m)[2])
      BY ONLY <2>1
    <2> QED BY ONLY <2>2, <2>3
  <1> QED BY <1>1, <1>2 DEF SolvesList

\* The solutions of what was asked, under what was known then.
Wanted == Solutions({<<asked.x, asked.y>>} \cup Equations(asked.index) \cup Equations(asked.trial))

\* They are those of what is left.
LEMMA WantedIs ==
    ASSUME Inv, Answer, Unifying, NEW v
    PROVE  v \in Wanted <=> /\ v \in Valuations /\ Left(v, equations, ext)
                            /\ SolvesList(v, index) /\ SolvesList(v, trial)
  <1>1. supply \in 0 .. NTypeVars /\ index \in Lists(supply) /\ trial \in Lists(supply)
    BY DEF Inv, KnownTyped, CallTyped
  <1>2. asked.index = index /\ asked.trial = trial
    BY DEF Answer
  <1>3. v \in Wanted <=>
           /\ v \in Valuations /\ Value(v, asked.x) = Value(v, asked.y)
           /\ \A e \in Equations(index) : Value(v, e[1]) = Value(v, e[2])
           /\ \A e \in Equations(trial) : Value(v, e[1]) = Value(v, e[2])
    <2> DEFINE p == <<asked.x, asked.y>>  E == Equations(index)  F == Equations(trial)
    <2>1. v \in Wanted <=> v \in Valuations /\ \A e \in {p} \cup E \cup F : Value(v, e[1]) = Value(v, e[2])
      BY <1>2 DEF Wanted, Solutions, Valuations
    <2>2. p[1] = asked.x /\ p[2] = asked.y
      OBVIOUS
    <2> HIDE DEF p, E, F
    <2>3. v \in Wanted <=> /\ v \in Valuations /\ Value(v, p[1]) = Value(v, p[2])
                           /\ \A e \in E : Value(v, e[1]) = Value(v, e[2])
                           /\ \A e \in F : Value(v, e[1]) = Value(v, e[2])
      BY <2>1
    <2> QED BY <2>2, <2>3 DEF E, F
  <1>4. v \in Wanted <=> /\ v \in Valuations /\ Value(v, asked.x) = Value(v, asked.y)
                         /\ SolvesList(v, index) /\ SolvesList(v, trial)
    BY <1>1, <1>3, EquationsSolved
  <1> QED BY <1>4 DEF Answer

\* A call that fails was asked for what cannot be.
LEMMA FailedRight ==
    ASSUME Inv, Answer, OccursCheck \/ Clash
    PROVE  Wanted = {}
  <1> SUFFICES ASSUME NEW v \in Wanted PROVE FALSE
    OBVIOUS
  <1>1. Unifying /\ Open /\ Solvable
    BY DEF OccursCheck, Clash, Solvable, Open
  <1>2. /\ v \in Valuations /\ SolvesSides(v, equations) /\ SolvesList(v, ext)
        /\ SolvesList(v, index) /\ SolvesList(v, trial)
    BY <1>1, WantedIs DEF Left
  <1>3. CASE OccursCheck
    BY <1>1, <1>2, <1>3, OccursNoSolution DEF OccursCheck
  <1>4. CASE Clash
    <2>1. X \in TermsOver(supply) /\ Y \in TermsOver(supply) /\ supply \in 0 .. NTypeVars
          /\ Value(v, X) = Value(v, Y)
      BY <1>1, <1>2, NextSides
    <2>2. X # Y /\ ~IsTypeVar(X) /\ ~IsTypeVar(Y) /\ ~(IsAp(X) /\ IsAp(Y))
      BY <1>4 DEF Clash, Solvable
    <2> QED BY <1>2, <2>1, <2>2, ValueClash
  <1> QED BY <1>3, <1>4

\* A call that succeeds leaves the solutions of what was asked, no more and no fewer.
LEMMA UnifiedRight ==
    ASSUME Inv, Answer, Finish
    PROVE  Wanted = Solutions(Equations(index') \cup Equations(trial'))
  <1>1. /\ Unifying /\ equations = <<>> /\ supply' = supply /\ UNCHANGED <<supply, calls>>
        /\ supply \in 0 .. NTypeVars /\ ext \in Lists(supply) /\ trial \in Lists(supply)
        /\ index \in Lists(supply) /\ KnownTyped /\ Solved /\ ScopesRight
    BY DEF Finish, Inv, KnownTyped, CallTyped
  <1>2. Inv'
    BY FinishInv
  <1>3. index' \in Lists(supply) /\ trial' \in Lists(supply)
    BY <1>1, <1>2 DEF Inv, KnownTyped, CallTyped
  <1>4. ASSUME NEW v \in Valuations
        PROVE  SolvesList(v, index') /\ SolvesList(v, trial') <=>
                  SolvesList(v, ext) /\ SolvesList(v, index) /\ SolvesList(v, trial)
    <2>1. CASE fixed
      <3>1. ApplySubsts(ext) /\ trial' = trial /\ Flat(ext) /\ Distinct(ext) /\ Avoids(ext, BoundBy(index))
        BY <1>1, <2>1 DEF Finish, Inv, FixedApart, BoundApart
      <3>2. index' = Newest(ext, Updated(ext))
        BY <1>1, <3>1, AppliedKnown DEF Newest
      <3>3. SolvesList(v, Newest(ext, Updated(ext))) <=> SolvesList(v, ext) /\ SolvesList(v, index)
        BY <1>1, <3>1, AppliedSolved DEF Solved
      <3> QED BY <3>1, <3>2, <3>3
    <2>2. CASE ~fixed
      <3>1. trial' = ext \o trial /\ index' = index
        BY <2>2 DEF Finish
      <3>2. SolvesList(v, ext \o trial) <=> SolvesList(v, ext) /\ SolvesList(v, trial)
        BY <1>1, JoinedSolved
      <3> QED BY <3>1, <3>2
    <2> QED BY <2>1, <2>2
  <1>5. ASSUME NEW v
        PROVE  v \in Solutions(Equations(index') \cup Equations(trial')) <=>
                  v \in Valuations /\ SolvesList(v, index') /\ SolvesList(v, trial')
    <2> DEFINE i == index'  r == trial'
    <2>1. i \in Lists(supply) /\ r \in Lists(supply)
      BY <1>3
    <2> HIDE DEF i, r
    <2>2. v \in Solutions(Equations(i) \cup Equations(r)) <=>
             /\ v \in Valuations /\ \A e \in Equations(i) : Value(v, e[1]) = Value(v, e[2])
             /\ \A e \in Equations(r) : Value(v, e[1]) = Value(v, e[2])
      BY DEF Solutions, Valuations
    <2>3. v \in Solutions(Equations(i) \cup Equations(r)) <=>
             v \in Valuations /\ SolvesList(v, i) /\ SolvesList(v, r)
      BY <1>1, <2>1, <2>2, EquationsSolved
    <2> QED BY <2>3 DEF i, r
  <1>6. ASSUME NEW v
        PROVE  v \in Wanted <=> v \in Solutions(Equations(index') \cup Equations(trial'))
    <2>1. SolvesSides(v, equations)
      BY <1>1 DEF SolvesSides
    <2>2. v \in Wanted <=> /\ v \in Valuations /\ SolvesList(v, ext)
                           /\ SolvesList(v, index) /\ SolvesList(v, trial)
      BY <1>1, <2>1, WantedIs DEF Left
    <2> QED BY <2>2, <1>4, <1>5
  <1> QED BY <1>6 DEF Solutions, Wanted

\* A call ends in one of three ways.
LEMMA EndsBy ==
    ASSUME [Next]_vars, Unifying, outcome' # "unifying"
    PROVE  OccursCheck \/ Clash \/ Finish
  <1>1. outcome = "unifying" /\ ~Idle
    BY DEF Unifying, Idle
  <1>2. ~(UNCHANGED vars) /\ ~DropEqual /\ ~FollowSubsts /\ ~BindTypeVar /\ ~Decompose
    BY <1>1 DEF vars, DropEqual, FollowSubsts, BindTypeVar, Decompose
  <1>3. ~Between
    BY <1>1 DEF Between, OpenScope, CloseScope, Assume, UnifyFixed, UnifyTrial, Start, Accept, GiveUp, Inferring
  <1>4. (\A n \in Names : ~NameTypeVar(n)) /\ (\A x \in Known, n \in Names : ~Constrain(x, n))
    BY <1>1 DEF NameTypeVar, Constrain, Inferring
  <1> QED BY <1>2, <1>3, <1>4 DEF Next, UnifyStep

\* Every end of a call answers what was asked.
LEMMA EndRight ==
    ASSUME Inv, Answer, [Next]_vars, Unifying, outcome' # "unifying"
    PROVE  IF outcome' = "unified" THEN Wanted = Solutions(Equations(index') \cup Equations(trial'))
           ELSE Wanted = {}
  <1>1. CASE OccursCheck \/ Clash
    <2>1. outcome' # "unified"
      BY <1>1 DEF OccursCheck, Clash
    <2> QED BY <1>1, <2>1, FailedRight
  <1>2. CASE Finish
    <2>1. outcome' = "unified"
      BY <1>2 DEF Finish
    <2> QED BY <1>2, <2>1, UnifiedRight
  <1> QED BY <1>1, <1>2, EndsBy

\* What unify answers is the most general unifier: the values that satisfy what it leaves in
\* the set of substitutions, or in the caller's list, are those under which the two
\* signatures are equal and what was known before holds; where it fails there are none.
THEOREM TypeCheckAnswersRight == Spec => AnswersRight
  <1>1. Inv /\ Answer /\ [Next]_vars => (Inv /\ Answer)'
    BY NextInv, NextAnswer
  <1>2. Init => Inv /\ Answer
    BY InitInv, InitAnswer
  <1>3. Inv /\ Answer /\ [Next]_vars =>
           (Unifying /\ outcome' # "unifying" =>
              LET before == Solutions({<<asked.x, asked.y>>} \cup Equations(asked.index)
                                                            \cup Equations(asked.trial))
              IN  IF outcome' = "unified"
                  THEN before = Solutions(Equations(index') \cup Equations(trial'))
                  ELSE before = {})
    BY EndRight DEF Wanted
  <1> QED BY <1>1, <1>2, <1>3, PTL DEF Spec, AnswersRight
=============================================================================
