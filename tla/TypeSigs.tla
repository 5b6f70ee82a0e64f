----------------------------- MODULE TypeSigs -----------------------------
(***************************************************************************)
(* Type signatures of the compiler and what class Subst does with them.    *)
(* A signature is a type variable, a constructor or the application of one *)
(* signature to another; here it is the set of its leaves, each with the   *)
(* way to it from the root, so that what the code computes by recursion is *)
(* said of all leaves at once.  A list of substitutions is a sequence,     *)
(* head first.  The code substitutes in place: a signature is mutable and  *)
(* its nodes are shared, which a value stands for because no substitution  *)
(* ever makes a signature contain itself (the occurs checks).              *)
(***************************************************************************)
EXTENDS Loops, FiniteSets, SequencesExt

(* The leaves of t below a node that is reached by the way p.              *)
Below(p, t) == {[at |-> p \o l.at, is |-> l.is] : l \in t}

TypeVar(a) == {[at |-> <<>>, is |-> <<"var", a>>]}
TypeCon(c) == {[at |-> <<>>, is |-> <<"con", c>>]}
Ap(f, a)   == Below(<<"fun">>, f) \cup Below(<<"arg">>, a)

Part(side, t) == {[at |-> Tail(l.at), is |-> l.is] :
                      l \in {l \in t : l.at # <<>> /\ Head(l.at) = side}}
Fun(t) == Part("fun", t)
Arg(t) == Part("arg", t)

VarLeaves(t) == {l \in t : l.is[1] = "var"}
TypeVarsIn(t) == {l.is[2] : l \in VarLeaves(t)}

IsAp(t)      == \A l \in t : l.at # <<>>
IsTypeVar(t) == \E a \in TypeVarsIn(t) : t = TypeVar(a)
VarOf(t)     == CHOOSE a \in TypeVarsIn(t) : TRUE

(* What the constants have to be: leaves that are variables or             *)
(* constructors, none of them above another.                               *)
Above(l, m) == /\ DOMAIN l.at \subseteq DOMAIN m.at
               /\ \A n \in DOMAIN l.at : l.at[n] = m.at[n]
Apart(t) == \A l, m \in t : Above(l, m) => l = m
IsSignature(t) ==
    /\ IsFiniteSet(t) /\ t # {} /\ Apart(t)
    /\ \A l \in t : /\ l = [at |-> l.at, is |-> l.is]
                    /\ l.at \in Seq({"fun", "arg"})
                    /\ l.is = <<l.is[1], l.is[2]>> /\ l.is[1] \in {"var", "con"}

(* A signature with what stands for them in place of its variables.        *)
Replace(t, by) ==
    UNION {IF l \in VarLeaves(t) THEN Below(l.at, by[l.is[2]]) ELSE {l} : l \in t}

Subst(a, t) == [typeVar |-> a, typeSig |-> t]

BoundBy(substs) == {substs[n].typeVar : n \in DOMAIN substs}

(* Subst::lookUp: the entries of a list for a variable, the nearest first. *)
Substituted(a, substs) == a \in BoundBy(substs)
LookUp(a, substs) ==
    LET hits == {n \in DOMAIN substs : substs[n].typeVar = a}
    IN  substs[CHOOSE n \in hits : \A m \in hits : n <= m].typeSig

(* Subst::substTypeVar: one variable, everywhere.                          *)
SubstTypeVar(a, sig, t) ==
    Replace(t, [b \in TypeVarsIn(t) |-> IF b = a THEN sig ELSE TypeVar(b)])

(* Subst::substTypeVars: one level, what it puts in is not looked at again.*)
SubstTypeVars(t, substs) ==
    Replace(t, [b \in TypeVarsIn(t) |->
                   IF Substituted(b, substs) THEN LookUp(b, substs) ELSE TypeVar(b)])

(* A list of substitutions applied one after the other.                    *)
SubstEach(t, substs) ==
    Through(LAMBDA sig, s : SubstTypeVar(s.typeVar, s.typeSig, sig), t, substs)

(* The variables in what a variable stands for under two lists, and those  *)
(* met on the way from some variables down.                                *)
StandsFor(a, substs, ext) ==
    IF Substituted(a, substs) THEN TypeVarsIn(LookUp(a, substs))
    ELSE IF Substituted(a, ext) THEN TypeVarsIn(LookUp(a, ext)) ELSE {}
Closed(met, substs, ext) == \A b \in met : StandsFor(b, substs, ext) \subseteq met

(* typeVarOccursInTypeSig under two lists of substitutions: a variable     *)
(* without a substitution is met on the way down from those of t.          *)
OccursUnder(a, t, substs, ext) ==
    LET all == UNION ({TypeVarsIn(t)} \cup
                      {TypeVarsIn(substs[n].typeSig) : n \in DOMAIN substs} \cup
                      {TypeVarsIn(ext[n].typeSig) : n \in DOMAIN ext})
    IN  /\ ~Substituted(a, substs) /\ ~Substituted(a, ext)
        /\ \A met \in SUBSET all :
              TypeVarsIn(t) \subseteq met /\ Closed(met, substs, ext) => a \in met

(* One pass of Subst::substSubsts over the list: an entry is fixed once no *)
(* variable that is still in the list occurs in it.                        *)
FixEntry(pass, substs, n) ==
    LET here == Subst(substs[n].typeVar, SubstTypeVars(substs[n].typeSig, pass.fixed))
        listed == BoundBy(pass.substs) \cup {substs[m].typeVar : m \in n..Len(substs)}
    IN  IF TypeVarsIn(here.typeSig) \cap listed # {}
        THEN [pass EXCEPT !.substs = Append(@, here)]
        ELSE [pass EXCEPT !.fixed = <<here>> \o @]

FixPass(substs, fixed) ==
    Through(LAMBDA pass, n : FixEntry(pass, substs, n),
            [substs |-> <<>>, fixed |-> fixed], [n \in DOMAIN substs |-> n])

(* Subst::substSubsts: nested substitutions applied, pass after pass; the  *)
(* code goes on while the list is not empty, for ever when a pass fixes    *)
(* nothing.  No more passes than the list is long can fix one, so that the *)
(* entries that are left after as many say that it does not end.           *)
SubstSubsts(substs, fixed) ==
    Through(LAMBDA pass, n : FixPass(pass.substs, pass.fixed),
            [substs |-> substs, fixed |-> fixed], substs)
=============================================================================
