----------------------------- MODULE TypeCheck -----------------------------
(***************************************************************************)
(* The unifier of the type checker and the state it works on: the set of   *)
(* substitutions found so far with its index of references (SubstSet), the *)
(* type variables of the assumptions in each scope (TypeEnv), and the list *)
(* of substitutions of a constraint that is being tried.  Unification is a *)
(* loop over a stack of equations, one action for each branch of it, in    *)
(* two modes: fixed, where a substitution is made everywhere at once and   *)
(* kept, and trial, where it only extends the caller's list.               *)
(***************************************************************************)
EXTENDS TypeSigs

CONSTANTS Sigs,       \* signatures that terms and constraints have
          Patterns,   \* of them, those that pattern variables have
          Ground,     \* signatures without variables, to compare answers by
          NTypeVars,  \* bound on the type variables
          NFresh,     \* of them, those that newTypeVar has still to supply
          Names,      \* type variables as a program spells them
          MaxCalls,   \* bound on the calls of unify
          MaxScopes,  \* bound on the nesting of scopes
          MaxAssumed  \* bound on the assumptions of a scope

ASSUME SupplyAssumption == NTypeVars \in Nat /\ NFresh \in 0..NTypeVars
ASSUME BoundsAssumption == MaxCalls \in Nat
ASSUME SigsAssumption == \A t \in Sigs \cup Ground : IsSignature(t)

VARIABLES
    equations, \* typeEquationList, the stack, head first
    ext,       \* extSubsts
    fixed,     \* no list of substitutions was given
    outcome,   \* what the last call of unify came to
    index,     \* SubstSet::_index, the newest entry for a variable first
    refs,      \* SubstSet::_refIndex: variable, and the entry it occurs in
    trial,     \* *substs, the list of the constraint that is being tried
    scopes,    \* the chain of TypeEnvs, innermost first
    supply,    \* the last variable that newTypeVar has given
    calls,     \* calls of unify
    asked      \* history: the two signatures and what was known when asked

vars == <<equations, ext, fixed, outcome, index, refs, trial, scopes, supply,
          calls, asked>>

Outcomes == {"none", "unifying", "unified", "failed", "rejected", "stopped", "looping"}
Idle == outcome \in {"none", "unified", "failed"}
Inferring == Idle /\ trial = <<>>   \* no constraint is being tried

Current(t) == SubstTypeVars(t, index)
Known == {t \in Sigs : TypeVarsIn(t) \subseteq 1..supply}

(* TypeEnv::addTypeSig: the variables that occur neither here nor further  *)
(* out; removeTypeSig takes the variables of a signature away again.       *)
VarsFrom(s, k) == UNION {s[m].typeVars : m \in k..Len(s)}
AddTypeSig(s, k, t) ==
    [s EXCEPT ![k].typeVars = @ \cup (TypeVarsIn(t) \ VarsFrom(s, k))]
RemoveTypeSig(s, below, t) ==
    [m \in DOMAIN s |->
        IF m < below THEN [s[m] EXCEPT !.typeVars = @ \ TypeVarsIn(t)] ELSE s[m]]

(* Mutant: the scopes further in keep the variables as well.               *)
SubstInScopeKeeping(s, subst) ==
    LET having == {k \in DOMAIN s : subst.typeVar \in s[k].typeVars}
    IN  IF having = {} THEN s
        ELSE LET k == CHOOSE k \in having : \A m \in having : k <= m
             IN  [s EXCEPT ![k].typeVars = (@ \ {subst.typeVar})
                                               \cup TypeVarsIn(subst.typeSig)]

(* TypeEnv::substTypeVars, one substitution: in the innermost scope that   *)
(* has the variable, the variables of what it stands for replace it, and   *)
(* the scopes further in give those up.                                    *)
SubstInScope(s, subst) ==
    LET having == {k \in DOMAIN s : subst.typeVar \in s[k].typeVars}
    IN  IF having = {} THEN s
        ELSE LET k    == CHOOSE k \in having : \A m \in having : k <= m
                 here == [RemoveTypeSig(s, k, subst.typeSig)
                              EXCEPT ![k].typeVars = @ \ {subst.typeVar}]
             IN  AddTypeSig(here, k, subst.typeSig)

SubstScopes(s, substs) == Through(SubstInScope, s, substs)

(* TypeEnv::lookUp, the names of the type variables that are in scope.     *)
NameScopes(n) == {k \in DOMAIN scopes : n \in DOMAIN scopes[k].named}
NamedVar(n) == scopes[CHOOSE k \in NameScopes(n) :
                          \A m \in NameScopes(n) : k <= m].named[n]

References(entries) ==
    UNION {{<<a, s.typeVar>> : a \in TypeVarsIn(s.typeSig)} : s \in entries}

(* SubstSet::preSubst: the entries in which a variable that is about to be *)
(* substituted occurs, as the reference index knows them.                  *)
Pending(substs) == {r \in refs : Substituted(r[1], substs)}
PendingEntries(substs) == {r[2] : r \in Pending(substs)}

(* Mutant: an entry that was substituted is not indexed again.             *)
RefsUnindexed(newIndex, substs) ==
    (refs \ Pending(substs)) \cup References(ToSet(substs))

(* SubstSet::addSubsts: the pending entries are indexed for the variables  *)
(* that came into them, and the new entries as well.                       *)
RefsAfter(newIndex, substs) ==
    (refs \ Pending(substs)) \cup References(ToSet(substs))
        \cup References({s \in ToSet(newIndex) : s.typeVar \in PendingEntries(substs)})

(* Mutant: the supply is not used up.                                      *)
NewTypeVarKept == supply' = supply

(* newTypeVar: the variable after the last one given out.                  *)
NewTypeVar == supply' = supply + 1

(* TypeCheck::applySubsts, and the end of checkConstraints, which does the *)
(* same with the solution of a constraint.                                 *)
ApplySubsts(substs) ==
    LET pending  == PendingEntries(substs)
        newIndex == Reverse(substs) \o
                    [n \in DOMAIN index |->
                        IF index[n].typeVar \in pending
                        THEN [index[n] EXCEPT !.typeSig = SubstEach(@, substs)]
                        ELSE index[n]]
    IN  /\ index' = newIndex
        /\ refs' = RefsAfter(newIndex, substs)
        /\ scopes' = SubstScopes(scopes, substs)

Nothing == [x |-> TypeVar(0), y |-> TypeVar(0), index |-> <<>>, trial |-> <<>>]

Init ==
    /\ equations = <<>> /\ ext = <<>> /\ fixed = TRUE /\ outcome = "none"
    /\ index = <<>> /\ refs = {} /\ trial = <<>>
    /\ scopes = <<[typeVars |-> {}, named |-> <<>>, assumed |-> {}]>>
    /\ supply = NTypeVars - NFresh
    /\ calls = 0
    /\ asked = Nothing

(***************************************************************************)
(* What inference does between two calls of unify.                         *)
(***************************************************************************)

(* TypeEnv localTypeEnv(typeEnv), and its end.                             *)
OpenScope ==
    /\ Inferring /\ Len(scopes) < MaxScopes
    /\ scopes' = <<[typeVars |-> {}, named |-> <<>>, assumed |-> {}]>> \o scopes
    /\ UNCHANGED <<equations, ext, fixed, outcome, index, refs, trial, supply, calls, asked>>

CloseScope ==
    /\ Inferring /\ Len(scopes) > 1
    /\ scopes' = Tail(scopes)
    /\ UNCHANGED <<equations, ext, fixed, outcome, index, refs, trial, supply, calls, asked>>

(* VarPattern::infer: a pattern variable is an assumption of its scope.    *)
Assume(t) ==
    /\ Inferring /\ TypeVarsIn(t) # {} /\ Cardinality(scopes[1].assumed) < MaxAssumed
    /\ scopes' = [AddTypeSig(scopes, 1, Current(t)) EXCEPT ![1].assumed = @ \cup {t}]
    /\ UNCHANGED <<equations, ext, fixed, outcome, index, refs, trial, supply, calls, asked>>

(* A call of unify.                                                        *)
Start(x, y, mode) ==
    /\ Idle /\ calls < MaxCalls
    /\ calls' = calls + 1
    /\ equations' = <<[x |-> x, y |-> y]>>
    /\ ext' = <<>> /\ fixed' = mode /\ outcome' = "unifying"
    /\ asked' = [x |-> x, y |-> y, index |-> index, trial |-> trial]

(* FnAp::infer and the like: both signatures are brought up to date first. *)
UnifyFixed(x, y) ==
    /\ Inferring
    /\ Start(Current(x), Current(y), TRUE)
    /\ UNCHANGED <<index, refs, trial, scopes, supply>>

(* CoercionConstraint::check and unifyTypeLists: the signatures of a       *)
(* constraint, which are kept up to date, and the list found so far.       *)
UnifyTrial(x, y) ==
    /\ Start(Current(x), Current(y), FALSE)
    /\ UNCHANGED <<index, refs, trial, scopes, supply>>

(* inferTriple: a term with a type written by hand.  The variables of that *)
(* type are those of the scope, or new ones in a scope of the term's own,  *)
(* and are unified as they stand, not brought up to date.                  *)
Constrain(x, n) ==
    /\ Inferring
    /\ IF NameScopes(n) # {}
       THEN /\ Start(Current(x), TypeVar(NamedVar(n)), TRUE)
            /\ UNCHANGED supply
       ELSE /\ supply < NTypeVars
            /\ Start(Current(x), TypeVar(supply + 1), TRUE)
            /\ NewTypeVar
    /\ UNCHANGED <<index, refs, trial, scopes>>

(* The names a scope knows, and one more.                                  *)
Naming(named, n, a) ==
    [m \in DOMAIN named \cup {n} |-> IF m = n THEN a ELSE named[m]]

(* Lambda::infer and VarPattern::infer: a parameter whose type is written  *)
(* with a type variable, which the scope knows from then on.               *)
NameTypeVar(n) ==
    /\ Inferring /\ NameScopes(n) = {} /\ supply < NTypeVars
    /\ NewTypeVar
    /\ scopes' = [AddTypeSig(scopes, 1, TypeVar(supply + 1))
                      EXCEPT ![1].named = Naming(@, n, supply + 1),
                             ![1].assumed = @ \cup {TypeVar(supply + 1)}]
    /\ UNCHANGED <<equations, ext, fixed, outcome, index, refs, trial, calls, asked>>

(***************************************************************************)
(* The loop of unify.                                                      *)
(***************************************************************************)
Unifying == outcome = "unifying"
Open == Unifying /\ equations # <<>>
X == equations[1].x
Y == equations[1].y

(* The two sides of an equation that is still to be solved: a variable of  *)
(* a trial that has a substitution is looked up first, a variable on the   *)
(* right is brought to the left when there is none there.                  *)
Found(t) == IsTypeVar(t) /\ (Substituted(VarOf(t), ext) \/ Substituted(VarOf(t), trial))
Solvable == Open /\ X # Y /\ (fixed \/ ~(Found(X) \/ Found(Y)))
Lhs == IF IsTypeVar(X) THEN X ELSE Y
Rhs == IF IsTypeVar(X) THEN Y ELSE X

Local == <<index, refs, scopes, supply, calls>>

Answered == fixed' = TRUE /\ asked' = Nothing

DropEqual ==
    /\ Open /\ X = Y
    /\ equations' = Tail(equations)
    /\ UNCHANGED <<ext, outcome, trial>> /\ UNCHANGED <<Local, fixed, asked>>

(* Mutant: an alias among the variables is not followed.                   *)
LookedUpNoAlias(t) ==
    IF ~Found(t) THEN t
    ELSE LET to == LookUp(VarOf(t), IF Substituted(VarOf(t), ext) THEN ext ELSE trial)
         IN  IF IsTypeVar(to) THEN t ELSE to

LookedUp(t) == IF ~Found(t) THEN t
               ELSE LookUp(VarOf(t), IF Substituted(VarOf(t), ext) THEN ext ELSE trial)

FollowSubsts ==
    /\ Open /\ X # Y /\ ~fixed /\ (Found(X) \/ Found(Y))
    /\ equations' = [equations EXCEPT ![1] = [x |-> LookedUp(X), y |-> LookedUp(Y)]]
    /\ UNCHANGED <<ext, outcome, trial>> /\ UNCHANGED <<Local, fixed, asked>>

(* Mutant: what is left is not looked through, as if the mode were fixed.  *)
OccursHere == VarOf(Lhs) \in TypeVarsIn(Rhs)

Occurs == IF fixed THEN VarOf(Lhs) \in TypeVarsIn(Rhs)
          ELSE OccursUnder(VarOf(Lhs), Rhs, trial, ext)

(* A variable occurs in what it would stand for.  A trial fails.  In fixed *)
(* mode the report prints the caller's list, which there is none of: the   *)
(* null pointer is dereferenced and the program stops.                     *)
OccursCheck ==
    /\ Solvable /\ IsTypeVar(Lhs) /\ Occurs
    /\ outcome' = IF fixed THEN "stopped" ELSE "failed"
    /\ equations' = <<>> /\ ext' = <<>>
    /\ Answered
    /\ UNCHANGED trial /\ UNCHANGED Local

SubstSides(eqs, a, t) ==
    [n \in DOMAIN eqs |-> [x |-> SubstTypeVar(a, t, eqs[n].x),
                           y |-> SubstTypeVar(a, t, eqs[n].y)]]
SubstList(substs, a, t) ==
    [n \in DOMAIN substs |-> [substs[n] EXCEPT !.typeSig = SubstTypeVar(a, t, @)]]

Extend(a, t) ==
    IF fixed THEN /\ equations' = SubstSides(Tail(equations), a, t)
                  /\ ext' = <<Subst(a, t)>> \o SubstList(ext, a, t)
    ELSE /\ equations' = Tail(equations)
         /\ ext' = <<Subst(a, t)>> \o ext

BindTypeVar ==
    /\ Solvable /\ IsTypeVar(Lhs) /\ ~Occurs
    /\ Extend(VarOf(Lhs), Rhs)
    /\ UNCHANGED <<outcome, trial>> /\ UNCHANGED <<Local, fixed, asked>>

(* Mutant: the functions of two applications are not compared.             *)
DecomposeArgs(rest) == <<[x |-> Arg(X), y |-> Arg(Y)]>> \o rest

(* Two applications: the arguments in place of the equation and, unless    *)
(* they are the same, the functions after it.                              *)
DecomposeBoth(rest) ==
    <<[x |-> Arg(X), y |-> Arg(Y)]>>
        \o (IF Fun(X) # Fun(Y) THEN <<[x |-> Fun(X), y |-> Fun(Y)]>> ELSE <<>>) \o rest

Decompose ==
    /\ Solvable /\ IsAp(X) /\ IsAp(Y)
    /\ equations' = DecomposeBoth(Tail(equations))
    /\ UNCHANGED <<ext, outcome, trial>> /\ UNCHANGED <<Local, fixed, asked>>

(* Anything else has no solution.  In fixed mode the program is rejected:  *)
(* inference goes on for the sake of more messages, on signatures that are *)
(* half substituted, and nothing is generated.                             *)
Clash ==
    /\ Solvable /\ ~IsTypeVar(X) /\ ~IsTypeVar(Y) /\ ~(IsAp(X) /\ IsAp(Y))
    /\ outcome' = IF fixed THEN "rejected" ELSE "failed"
    /\ equations' = <<>> /\ ext' = <<>>
    /\ Answered
    /\ UNCHANGED trial /\ UNCHANGED Local

(* All equations are solved: what was found is applied everywhere, or put  *)
(* in front of the caller's list.                                          *)
Finish ==
    /\ Unifying /\ equations = <<>>
    /\ outcome' = "unified" /\ ext' = <<>>
    /\ IF fixed THEN /\ ApplySubsts(ext)
                     /\ UNCHANGED trial
       ELSE /\ trial' = ext \o trial
            /\ UNCHANGED <<index, refs, scopes>>
    /\ Answered
    /\ UNCHANGED <<equations, supply, calls>>

(* checkConstraints, the constraint is satisfied: the substitutions in the *)
(* list are applied to each other and then everywhere.                     *)
Accept ==
    /\ Idle /\ trial # <<>>
    /\ LET flat == SubstSubsts(trial, <<>>)
       IN  IF flat.substs # <<>>
           THEN outcome' = "looping" /\ UNCHANGED <<index, refs, scopes, trial>>
           ELSE outcome' = "none" /\ trial' = <<>> /\ ApplySubsts(flat.fixed)
    /\ UNCHANGED <<equations, ext, fixed, supply, calls, asked>>

(* The constraint is unresolved, or another way to satisfy it is tried.    *)
GiveUp ==
    /\ Idle /\ trial # <<>>
    /\ trial' = <<>> /\ outcome' = "none"
    /\ UNCHANGED <<equations, ext, fixed, index, refs, scopes, supply, calls, asked>>

UnifyStep == \/ DropEqual \/ FollowSubsts \/ OccursCheck \/ BindTypeVar
             \/ Decompose \/ Clash \/ Finish

Between ==
    \/ OpenScope \/ CloseScope
    \/ \E t \in Known \cap Patterns : Assume(t)
    \/ \E x, y \in Known : UnifyFixed(x, y) \/ UnifyTrial(x, y)
    \/ Accept \/ GiveUp

Next == \/ UnifyStep \/ Between
        \/ \E n \in Names : NameTypeVar(n)
        \/ \E x \in Known, n \in Names : NameScopes(n) = {} /\ Constrain(x, n)

Spec == Init /\ [][Next]_vars /\ WF_vars(UnifyStep)

(* The same with a type variable of the scope in the type of a term.       *)
NextScoped == Next \/ \E x \in Known, n \in Names : Constrain(x, n)
SpecScoped == Init /\ [][NextScoped]_vars

(***************************************************************************)
(* Properties.                                                             *)
(***************************************************************************)
(* The state has its types: what is bound are variables that were given    *)
(* out, each scope knows names of such variables, a call has equations     *)
(* only while it runs.                                                     *)
TypeOK ==
    /\ outcome \in Outcomes /\ fixed \in BOOLEAN
    /\ supply \in 0..NTypeVars /\ calls \in 0..MaxCalls
    /\ ~Unifying => equations = <<>> /\ ext = <<>>
    /\ \A list \in {index, ext, trial} : \A n \in DOMAIN list :
          {list[n].typeVar} \cup TypeVarsIn(list[n].typeSig) \subseteq 1..supply
    /\ refs \subseteq (1..supply) \X (1..supply)
    /\ scopes # <<>>
    /\ \A k \in DOMAIN scopes :
          /\ scopes[k].typeVars \subseteq 1..supply
          /\ \A n \in DOMAIN scopes[k].named : scopes[k].named[n] \in 1..supply

BoundVars == BoundBy(index)

(* Every signature is brought up to date by one look-up for each of its    *)
(* variables (Subst::substTypeVars with a SubstSet), so no variable that   *)
(* has a substitution may be left in another one: the reference index has  *)
(* to lead preSubst and addSubsts to each of them.                         *)
SolvedForm ==
    \A n \in DOMAIN index : TypeVarsIn(index[n].typeSig) \cap BoundVars = {}

(* The variables a scope and those around it hold are those of the         *)
(* assumptions made there, as these stand now: a definition is generalised *)
(* over all the others (TypeCheck::isNonSchematic).                        *)
ScopeVars ==
    \A k \in DOMAIN scopes :
        VarsFrom(scopes, k) =
            UNION {TypeVarsIn(Current(t)) : t \in UNION {scopes[m].assumed : m \in k..Len(scopes)}}

Value(v, t) == Replace(t, v)

Equations(substs) == {<<TypeVar(substs[n].typeVar), substs[n].typeSig>> : n \in DOMAIN substs}
Solutions(eqs) == {v \in [1..NTypeVars -> Ground] :
                      \A e \in eqs : Value(v, e[1]) = Value(v, e[2])}

(* What unify answers is the most general unifier: the instances of the    *)
(* substitutions it leaves are those of the two signatures under what was  *)
(* known before; and when it fails there are none.                         *)
AnswersRight ==
    [][Unifying /\ outcome' # "unifying" =>
          LET before == Solutions({<<asked.x, asked.y>>} \cup Equations(asked.index)
                                                        \cup Equations(asked.trial))
          IN  IF outcome' = "unified"
              THEN before = Solutions(Equations(index') \cup Equations(trial'))
              ELSE before = {}]_vars

(* The substitutions that satisfy a constraint do not refer to each other  *)
(* in a circle, so that applying them to each other comes to an end: two   *)
(* calls of unify, each of which tests its own variable, have to see to it *)
(* that no cycle comes about through the list they share.                  *)
AcceptEnds == outcome # "looping"

(* A call of unify comes to an end.                                        *)
UnifyEnds == Unifying ~> ~Unifying

(* "Substitution already present": a variable is substituted once.         *)
BoundOnce == \A m, n \in DOMAIN index : index[m].typeVar = index[n].typeVar => m = n
=============================================================================
