----------------------------- MODULE ThroughProofs -----------------------------
(***************************************************************************)
(* The loops of the tables (store and load go through entries, copySegment *)
(* and addTypeConNames through names, the compiler through constants) are  *)
(* written with Through.  What one turn of a loop keeps holds at its end:  *)
(* induction over the sequence, for an Op and a Holds given by INSTANCE.   *)
(***************************************************************************)
EXTENDS Loops, WellFoundedInduction, TLAPS

CONSTANTS
    Op(_, _, _),      \* one turn: what the loop runs with, what it has, the element
    Holds(_, _, _)    \* what is kept: the same two, and the number of turns done

Folded(p, base, seq) == Through(LAMBDA t, x : Op(p, t, x), base, seq)

\* A set of numbers that is not empty has a least one.
LEMMA LeastNat ==
    ASSUME NEW S, S \subseteq Nat, S # {}
    PROVE  \E x \in S : \A y \in S : x <= y
  <1>1. PICK x \in S : \A y \in S : ~(<<y, x>> \in OpToRel(<, Nat))
    BY NatLessThanWellFounded, WFMin
  <1>2. \A y \in S : ~(y < x)
    BY <1>1 DEF OpToRel
  <1> QED BY <1>2

\* f has the values of Through up to n.
Values(p, base, seq, n, f) ==
    /\ DOMAIN f = 0 .. n
    /\ f[0] = base
    /\ \A k \in 1 .. n : f[k] = Op(p, f[k - 1], seq[k])

\* There are values of Through up to any n.
LEMMA ValuesExist ==
    ASSUME NEW p, NEW base, NEW seq, NEW n \in Nat
    PROVE  \E f : Values(p, base, seq, n, f)
  <1> DEFINE Bad == {m \in Nat : ~\E f : Values(p, base, seq, m, f)}
  <1> SUFFICES ASSUME Bad # {} PROVE FALSE
    OBVIOUS
  <1>1. PICK m \in Bad : \A k \in Bad : m <= k
    BY LeastNat
  <1>2. m # 0
    <2>1. Values(p, base, seq, 0, [k \in 0 .. 0 |-> base])
      BY DEF Values
    <2> QED BY <2>1
  <1>3. m - 1 \in Nat /\ ~(m <= m - 1)
    BY <1>2
  <1>4. PICK f : Values(p, base, seq, m - 1, f)
    BY <1>1, <1>3
  <1> DEFINE g == [k \in 0 .. m |-> IF k = m THEN Op(p, f[m - 1], seq[m]) ELSE f[k]]
  <1>5. Values(p, base, seq, m, g)
    <2>1. DOMAIN g = 0 .. m /\ g[0] = f[0]
      BY <1>2
    <2>2. ASSUME NEW k \in 1 .. m PROVE g[k] = Op(p, g[k - 1], seq[k])
      <3>1. CASE k = m
        <4>1. g[k] = Op(p, f[m - 1], seq[m])
          BY <3>1
        <4>2. g[k - 1] = f[m - 1]
          BY <3>1, <1>3
        <4> QED BY <4>1, <4>2, <3>1
      <3>2. CASE k # m
        <4>1. k \in 1 .. (m - 1) /\ k - 1 \in 0 .. m /\ k - 1 # m /\ k \in 0 .. m
          BY <3>2
        <4>2. g[k] = f[k] /\ g[k - 1] = f[k - 1]
          BY <4>1, <3>2
        <4>3. f[k] = Op(p, f[k - 1], seq[k])
          BY <4>1, <1>4 DEF Values
        <4> QED BY <4>2, <4>3
      <3> QED BY <3>1, <3>2
    <2> QED BY <2>1, <2>2, <1>4 DEF Values
  <1> QED BY <1>5

\* Through, as a recursive function is a choice among the functions that satisfy
\* its equation.
LEMMA FoldedIs ==
    ASSUME NEW p, NEW base, NEW seq, Len(seq) \in Nat
    PROVE  \E f : Values(p, base, seq, Len(seq), f) /\ Folded(p, base, seq) = f[Len(seq)]
  <1> DEFINE D(G) == [n \in 0 .. Len(seq) |->
                        IF n = 0 THEN base
                        ELSE CHOOSE r \in {Op(p, before, seq[n]) : before \in {G[n - 1]}} : TRUE]
             C == CHOOSE G : G = D(G)
  <1>1. PICK f : Values(p, base, seq, Len(seq), f)
    BY ValuesExist
  <1>2. ASSUME NEW b, NEW x PROVE (CHOOSE r \in {Op(p, before, x) : before \in {b}} : TRUE) = Op(p, b, x)
    OBVIOUS
  <1>3. f = D(f)
    <2> DEFINE E == D(f)
    <2>1. DOMAIN E = 0 .. Len(seq) /\ DOMAIN f = 0 .. Len(seq) /\ f = [n \in 0 .. Len(seq) |-> f[n]]
      BY <1>1 DEF Values
    <2>2. ASSUME NEW n \in 0 .. Len(seq) PROVE E[n] = f[n]
      <3>1. CASE n = 0
        BY <3>1, <1>1 DEF Values
      <3>2. CASE n # 0
        <4>1. n \in 1 .. Len(seq)
          BY <3>2
        <4>2. f[n] = Op(p, f[n - 1], seq[n])
          BY <4>1, <1>1 DEF Values
        <4>3. E[n] = CHOOSE r \in {Op(p, before, seq[n]) : before \in {f[n - 1]}} : TRUE
          BY <3>2
        <4> QED BY ONLY <4>2, <4>3, <1>2
      <3> QED BY <3>1, <3>2
    <2>3. E = [n \in 0 .. Len(seq) |-> E[n]]
      OBVIOUS
    <2> HIDE DEF E
    <2>4. E = f
      BY ONLY <2>1, <2>2, <2>3
    <2> QED BY <2>4 DEF E
  <1>4. C = D(C)
    BY ONLY <1>3
  <1>5. Values(p, base, seq, Len(seq), C)
    <2> HIDE DEF C
    <2>1. DOMAIN C = 0 .. Len(seq)
      BY <1>4
    <2>2. \A n \in 0 .. Len(seq) : C[n] = IF n = 0 THEN base
              ELSE CHOOSE r \in {Op(p, before, seq[n]) : before \in {C[n - 1]}} : TRUE
      BY <1>4
    <2>3. ASSUME NEW n \in 1 .. Len(seq) PROVE C[n] = Op(p, C[n - 1], seq[n])
      <3>1. C[n] = CHOOSE r \in {Op(p, before, seq[n]) : before \in {C[n - 1]}} : TRUE
        BY <2>2
      <3> QED BY ONLY <3>1, <1>2
    <2>4. C[0] = base
      BY <2>2
    <2> QED BY ONLY <2>1, <2>3, <2>4 DEF Values
  <1>6. Folded(p, base, seq) = C[Len(seq)]
    BY DEF Folded, Through
  <1> QED BY <1>5, <1>6

\* What the base satisfies and every step carries on holds of the result.
LEMMA ThroughHolds ==
    ASSUME NEW p, NEW base, NEW seq, Len(seq) \in Nat,
           Holds(p, base, 0),
           \A n \in 1 .. Len(seq) : \A t : Holds(p, t, n - 1) => Holds(p, Op(p, t, seq[n]), n)
    PROVE  Holds(p, Folded(p, base, seq), Len(seq))
  <1>1. PICK f : Values(p, base, seq, Len(seq), f) /\ Folded(p, base, seq) = f[Len(seq)]
    BY FoldedIs
  <1> DEFINE Bad == {n \in 0 .. Len(seq) : ~Holds(p, f[n], n)}
  <1>2. Bad = {}
    <2> SUFFICES ASSUME Bad # {} PROVE FALSE
      OBVIOUS
    <2>0. Bad \subseteq Nat
      OBVIOUS
    <2>1. PICK n \in Bad : \A k \in Bad : n <= k
      <3> HIDE DEF Bad
      <3> QED BY <2>0, LeastNat
    <2>2. n # 0
      BY <1>1 DEF Values
    <2>3. n \in 1 .. Len(seq) /\ n - 1 \in 0 .. Len(seq) /\ ~(n <= n - 1)
      BY <2>2
    <2>4. Holds(p, f[n - 1], n - 1)
      BY <2>1, <2>3
    <2>5. f[n] = Op(p, f[n - 1], seq[n])
      BY <2>3, <1>1 DEF Values
    <2>6. Holds(p, f[n], n)
      BY <2>3, <2>4, <2>5
    <2> QED BY <2>6
  <1> QED BY <1>1, <1>2
===============================================================================
