-------------------------- MODULE ConstraintSets --------------------------
(***************************************************************************)
(* The constraints of the type checker, kept in sets by the type variables *)
(* they depend on (class Predicates: _unresolvedList and _workList).  Two  *)
(* constraints that share a variable are in one set, directly or through   *)
(* others, so that a set can be solved by itself.  A constraint here is    *)
(* what the sets know of it: its kind and the variables of its signatures; *)
(* what its check answers is left open.  A list of sets is a set of them:  *)
(* the order in which they are visited is left open as well.               *)
(***************************************************************************)
EXTENDS FiniteSets

CONSTANTS
    TypeVar,
    Constraint,
    Scheme,    \* constraints of kind SCHEME_CONSTRAINT
    Instance   \* and of kind SCHEMATIC_INSTANCE_CONSTRAINT

ASSUME KindAssumption ==
    Scheme \subseteq Constraint /\ Instance \subseteq Constraint /\ Scheme \cap Instance = {}

VARIABLES
    typeVars,    \* of the signatures of each constraint, as they stand now
    unresolved,  \* _unresolvedList
    workList,    \* _workList
    current,     \* the set that checkConstraints has taken off the work list
    pending,     \* constraints taken out of their sets, to be added again
    then,        \* what comes when all of them are added
    quiet,       \* addConstraintToSet's unresolved, for those pending
    fresh,       \* constraints made by a transformation, to be added later
    substs,      \* substitutions still to be made elsewhere
    made,        \* constraints made so far
    done,        \* of them, those satisfied, matched by another or removed
    bound,       \* type variables that have a substitution (SubstSet)
    flagged,     \* scheme constraints whose _substFlag is set
    pc,          \* where the checker is
    visit        \* fixCoercions: the sets still to be visited, its position

vars == <<typeVars, unresolved, workList, current, pending, then, quiet, fresh,
          substs, made, done, bound, flagged, pc, visit>>

ConstraintSet == [vars : SUBSET TypeVar, elems : SUBSET Constraint]
Linked  == unresolved \cup workList
NoSet   == [vars |-> {}, elems |-> {}]
NoVisit == [on |-> FALSE, sets |-> {}, at |-> NoSet]

Elems(sets) == UNION {s.elems : s \in sets}
Vars(sets)  == UNION {s.vars : s \in sets}

Schematic == Scheme \cup Instance

(* Mutant: whatever is substituted is flagged.                             *)
FlaggingAll(cs) == cs

(* substTypeVars notes of a scheme that it was substituted.                *)
Flagging(cs) == cs \cap Scheme

(* Substitutions: for some variables that have none yet, the variables of  *)
(* what each of them stands for from now on, in solved form.               *)
NoSubsts == [a \in {} |-> {}]
SubstsFor(from) ==
    UNION {[b -> SUBSET (TypeVar \ (b \cup bound))] : b \in SUBSET (from \ bound)}
SubstVars(s, V) == (V \ DOMAIN s) \cup UNION {s[a] : a \in V \cap DOMAIN s}

(* Constraints that instantiate gives: new ones, of signatures that are up *)
(* to date.  Schematic constraints are not instantiated.                   *)
Made(s) == UNION {[N -> SUBSET (TypeVar \ (bound \cup DOMAIN s))] :
                      N \in SUBSET (Constraint \ (made \cup Schematic))}
Recorded(tv, new) == [c \in Constraint |-> IF c \in DOMAIN new THEN new[c] ELSE tv[c]]

Init ==
    /\ typeVars = [c \in Constraint |-> {}]
    /\ unresolved = {} /\ workList = {} /\ current = NoSet
    /\ pending = {} /\ then = "idle" /\ quiet = FALSE /\ fresh = {} /\ substs = NoSubsts
    /\ made = {} /\ done = {} /\ bound = {} /\ flagged = {}
    /\ pc = "idle" /\ visit = NoVisit

(***************************************************************************)
(* addConstraintToSet.                                                     *)
(***************************************************************************)

(* Mutant: the search ends with the first set that has a variable.         *)
MergingOne(c) ==
    LET touching == {s \in Linked : s.vars \cap typeVars[c] # {}}
    IN  IF touching = {} THEN {} ELSE {CHOOSE s \in touching : TRUE}

(* addConstraintSetTypeVar, variable by variable: the sets that have one   *)
(* of the constraint's variables leave their lists, to become one set.     *)
Merging(c) == {s \in Linked : s.vars \cap typeVars[c] # {}}

(* Mutant: the merged sets' constraints are left behind.                   *)
MergedElemsNone(c) == {}

MergedVars(c)  == typeVars[c] \cup Vars(Merging(c))
MergedElems(c) == Elems(Merging(c))

(* A constraint of the same kind with the same signatures is in the set.   *)
Matches(c, d) ==
    typeVars[c] = typeVars[d] /\ (c \in Scheme <=> d \in Scheme) /\ (c \in Instance <=> d \in Instance)

(* The set goes to the unresolved list if the caller says so and there are *)
(* variables, and otherwise to the work list.                              *)
Link(c, set) ==
    LET toUnresolved == quiet /\ typeVars[c] # {}
    IN  /\ unresolved' = (unresolved \ Merging(c)) \cup (IF toUnresolved THEN {set} ELSE {})
        /\ workList' = (workList \ Merging(c)) \cup (IF toUnresolved THEN {} ELSE {set})
        /\ visit' = [visit EXCEPT !.sets = @ \ Merging(c)]

AddConstraintToSet(c) ==
    /\ pc = "add" /\ c \in pending
    /\ pending' = pending \ {c}
    /\ \/ /\ Link(c, [vars |-> MergedVars(c), elems |-> MergedElems(c) \cup {c}])
          /\ UNCHANGED done
       \/ /\ \E d \in MergedElems(c) : Matches(c, d)
          /\ Link(c, [vars |-> MergedVars(c), elems |-> MergedElems(c)])
          /\ done' = done \cup {c}
    /\ UNCHANGED <<typeVars, current, then, quiet, fresh, substs, made, bound, flagged, pc>>

(***************************************************************************)
(* What inference asks for, between two runs of the checker.               *)
(***************************************************************************)
Inferring == pc = "idle" /\ ~visit.on

(* addConstraint and, not checked, instantiate: the signatures are brought *)
(* up to date first.                                                       *)
AddConstraint(c, V, asUnresolved, checked) ==
    /\ Inferring /\ c \in Constraint \ made /\ V \cap bound = {}
    /\ asUnresolved \/ checked
    /\ made' = made \cup {c}
    /\ typeVars' = [typeVars EXCEPT ![c] = V]
    /\ pending' = {c} /\ quiet' = asUnresolved
    /\ pc' = "add" /\ then' = IF checked THEN "bind" ELSE "idle"
    /\ UNCHANGED <<unresolved, workList, current, fresh, substs, done, bound, flagged, visit>>

(* Mutant: a set is substituted only if all its variables are.             *)
DependingWhole(s) == {u \in unresolved : u.vars # {} /\ u.vars \subseteq DOMAIN s}

Depending(s) == {u \in unresolved : u.vars \cap DOMAIN s # {}}

(* substConstraints: every unresolved set that has one of the variables is *)
(* taken apart and its constraints, substituted, are added again.          *)
SubstConstraints(s) ==
    LET concerned == Elems(Depending(s))
    IN  /\ unresolved' = unresolved \ Depending(s)
        /\ typeVars' = [c \in Constraint |->
                           IF c \in concerned THEN SubstVars(s, typeVars[c]) ELSE typeVars[c]]
        /\ flagged' = flagged \cup Flagging(concerned)
        /\ visit' = [visit EXCEPT !.sets = @ \ Depending(s)]
        /\ pending' = concerned /\ quiet' = FALSE

(* applySubsts: two signatures were unified; by unifyDeferred also between *)
(* two steps of fixCoercions.                                              *)
ApplySubsts(s) ==
    /\ pc = "idle" /\ s \in SubstsFor(TypeVar)
    /\ visit.on => s # NoSubsts
    /\ SubstConstraints(s)
    /\ substs' = s /\ pc' = "add" /\ then' = "bind"
    /\ UNCHANGED <<workList, current, fresh, made, done, bound>>

(* removeSchematicConstraints: what is left of the sets that have a scheme *)
(* or an instance is added again as unresolved.                            *)
RemoveSchematicConstraints ==
    LET sets == {u \in unresolved : u.elems \cap Schematic # {}}
    IN  /\ Inferring /\ sets # {}
        /\ unresolved' = unresolved \ sets
        /\ pending' = Elems(sets) \ Schematic /\ quiet' = TRUE
        /\ done' = done \cup (Elems(sets) \cap Schematic)
        /\ pc' = "add" /\ then' = "idle"
        /\ UNCHANGED <<typeVars, workList, current, fresh, substs, made, bound, flagged, visit>>

(***************************************************************************)
(* checkConstraintsWorkList and checkConstraints.                          *)
(***************************************************************************)
TakeSet(s) ==
    /\ pc = "work" /\ s \in workList
    /\ workList' = workList \ {s} /\ current' = s /\ pc' = "check"
    /\ UNCHANGED <<typeVars, unresolved, pending, then, quiet, fresh, substs, made, done,
                   bound, flagged, visit>>

(* Mutant: the set is put where it came from.                              *)
PutBackAgain ==
    /\ workList' = workList \cup {current}
    /\ UNCHANGED <<unresolved, visit>>

(* The set goes to the head of the unresolved list, where fixCoercions     *)
(* finds it again if it has not passed over a set yet.                     *)
PutBack ==
    /\ unresolved' = unresolved \cup {current}
    /\ visit' = [visit EXCEPT !.sets = IF visit.on /\ visit.at = NoSet
                                       THEN @ \cup {current} ELSE @]
    /\ UNCHANGED workList

CheckUnresolved ==
    /\ pc = "check" /\ pc' = "work" /\ current' = NoSet
    /\ PutBack
    /\ UNCHANGED <<typeVars, pending, then, quiet, fresh, substs, made, done, bound, flagged>>

(* The program is rejected; the set's constraints are reported and left.   *)
CheckFails ==
    /\ pc = "check" /\ pc' = "work" /\ current' = NoSet
    /\ done' = done \cup current.elems
    /\ UNCHANGED <<typeVars, unresolved, workList, pending, then, quiet, fresh, substs, made,
                   bound, flagged, visit>>

(* Some of the set's constraints are resolved, under substitutions for its *)
(* variables.  What is left is substituted and added again; constraints    *)
(* that the transformations make, or detach from a coercion, come last.    *)
CheckSatisfied(resolved, s, new) ==
    /\ pc = "check"
    /\ resolved \subseteq current.elems \ Schematic /\ resolved # {}
    /\ s \in SubstsFor(current.vars) /\ new \in Made(s)
    /\ LET rest == current.elems \ resolved
       IN  /\ pending' = rest
           /\ typeVars' = [c \in Constraint |->
                              IF c \in rest THEN SubstVars(s, typeVars[c])
                              ELSE Recorded(typeVars, new)[c]]
           /\ flagged' = flagged \cup Flagging(rest)
    /\ done' = done \cup resolved /\ made' = made \cup DOMAIN new
    /\ fresh' = DOMAIN new /\ substs' = s /\ quiet' = FALSE
    /\ current' = NoSet /\ pc' = "add" /\ then' = "subst"
    /\ UNCHANGED <<unresolved, workList, bound, visit>>

(* All pending constraints are added: what the caller does next.           *)
Added == pc = "add" /\ pending = {}

SubstElsewhere ==
    /\ Added /\ then = "subst" /\ then' = "fresh"
    /\ SubstConstraints(substs)
    /\ UNCHANGED <<workList, current, fresh, substs, made, done, bound, pc>>

AddFresh ==
    /\ Added /\ then = "fresh" /\ then' = "bind"
    /\ pending' = fresh /\ fresh' = {}
    /\ UNCHANGED <<typeVars, unresolved, workList, current, quiet, substs, made, done, bound,
                   flagged, pc, visit>>

AddSubsts ==
    /\ Added /\ then \in {"bind", "idle"}
    /\ bound' = bound \cup DOMAIN substs /\ substs' = NoSubsts
    /\ pc' = IF then = "bind" THEN "work" ELSE "idle"
    /\ then' = "idle" /\ quiet' = FALSE
    /\ UNCHANGED <<typeVars, unresolved, workList, current, pending, fresh, made, done, flagged,
                   visit>>

(* Sets that onSchemeSubst takes out and links again at the list's head:   *)
(* fixCoercions misses them if it has passed over another set, and if it   *)
(* has passed over one of them, it starts again from there.                *)
Relink(moved) ==
    \E before \in SUBSET (moved \ {visit.at}) :
        visit' = [visit EXCEPT !.sets = IF visit.at = NoSet THEN @
                                        ELSE IF visit.at \in moved
                                             THEN unresolved \ (before \cup {visit.at})
                                             ELSE @ \ moved]

(* The work list is empty: every scheme that was substituted instantiates  *)
(* its constraints for each of its instances again, and if none comes of   *)
(* it the checker is done.                                                 *)
NotifySchemes(new) ==
    /\ pc = "work" /\ workList = {}
    /\ new \in Made(NoSubsts)
    /\ DOMAIN new # {} => flagged \cap Elems(unresolved) # {}
    /\ \E moved \in SUBSET {u \in unresolved : u.elems \cap flagged # {}} : Relink(moved)
    /\ flagged' = flagged \ Elems(unresolved)
    /\ typeVars' = Recorded(typeVars, new) /\ made' = made \cup DOMAIN new
    /\ pending' = DOMAIN new
    /\ IF DOMAIN new = {} THEN pc' = "idle" /\ UNCHANGED then
                          ELSE pc' = "add" /\ then' = "bind"
    /\ UNCHANGED <<unresolved, workList, current, quiet, fresh, substs, done, bound>>

(***************************************************************************)
(* fixCoercions.  It walks the unresolved list with a pointer to the link  *)
(* that leads to the next set: the list's own, as long as it has passed    *)
(* over none, and else that of the set it passed over last.  When that set *)
(* leaves the list meanwhile, it is lost, and the model stops.             *)
(***************************************************************************)
OnList == visit.at = NoSet \/ visit.at \in unresolved
Visiting == pc = "idle" /\ visit.on /\ OnList

FixCoercions ==
    /\ Inferring
    /\ visit' = [on |-> TRUE, sets |-> unresolved, at |-> NoSet]
    /\ UNCHANGED <<typeVars, unresolved, workList, current, pending, then, quiet, fresh,
                   substs, made, done, bound, flagged, pc>>

(* A set with coercions whose variables occur nowhere else is checked once *)
(* more, and its coercions are unified.                                    *)
FixSet(u) ==
    /\ Visiting /\ u \in visit.sets /\ u.elems \ Schematic # {}
    /\ unresolved' = unresolved \ {u} /\ workList' = workList \cup {u}
    /\ visit' = [visit EXCEPT !.sets = @ \ {u}]
    /\ pc' = "work"
    /\ UNCHANGED <<typeVars, current, pending, then, quiet, fresh, substs, made, done, bound,
                   flagged>>

PassSet(u) ==
    /\ Visiting /\ u \in visit.sets
    /\ visit' = [visit EXCEPT !.sets = @ \ {u}, !.at = u]
    /\ UNCHANGED <<typeVars, unresolved, workList, current, pending, then, quiet, fresh,
                   substs, made, done, bound, flagged, pc>>

EndFix ==
    /\ Visiting /\ visit.sets = {}
    /\ visit' = NoVisit
    /\ UNCHANGED <<typeVars, unresolved, workList, current, pending, then, quiet, fresh,
                   substs, made, done, bound, flagged, pc>>

Check ==
    \/ \E c \in pending : AddConstraintToSet(c)
    \/ SubstElsewhere \/ AddFresh \/ AddSubsts
    \/ \E s \in workList : TakeSet(s)
    \/ CheckUnresolved \/ CheckFails
    \/ /\ pc = "check"
       /\ \E resolved \in SUBSET current.elems, s \in SubstsFor(current.vars) :
             \E new \in Made(s) : CheckSatisfied(resolved, s, new)
    \/ /\ pc = "work" /\ workList = {}
       /\ \E new \in Made(NoSubsts) : NotifySchemes(new)

Fix == \/ FixCoercions \/ EndFix
       \/ \E u \in visit.sets : FixSet(u) \/ PassSet(u)

Infer ==
    \/ \E c \in Constraint, V \in SUBSET TypeVar, asUnresolved, checked \in BOOLEAN :
          AddConstraint(c, V, asUnresolved, checked)
    \/ pc = "idle" /\ \E s \in SubstsFor(TypeVar) : ApplySubsts(s)
    \/ RemoveSchematicConstraints

Next == Check \/ Fix \/ Infer

Spec == Init /\ [][Next]_vars

(* The checker runs to its end before inference goes on, and fixCoercions  *)
(* does not stop between two sets.                                         *)
FairSpec == Spec /\ WF_vars(Check) /\ WF_vars(Fix)

(***************************************************************************)
(* Properties.                                                             *)
(***************************************************************************)
TypeOK ==
    /\ typeVars \in [Constraint -> SUBSET TypeVar]
    /\ unresolved \subseteq ConstraintSet /\ workList \subseteq ConstraintSet
    /\ current \in ConstraintSet
    /\ pending \subseteq Constraint /\ fresh \subseteq Constraint
    /\ then \in {"idle", "bind", "subst", "fresh"} /\ quiet \in BOOLEAN
    /\ DOMAIN substs \subseteq TypeVar /\ \A a \in DOMAIN substs : substs[a] \subseteq TypeVar
    /\ made \subseteq Constraint /\ done \subseteq made
    /\ bound \subseteq TypeVar /\ flagged \subseteq Scheme
    /\ pc \in {"idle", "add", "work", "check"}
    /\ visit \in [on : BOOLEAN, sets : SUBSET ConstraintSet, at : ConstraintSet]

Live == Linked \cup (IF pc = "check" THEN {current} ELSE {})

Disjoint(sets) ==
    \A s, t \in sets : s # t => s.vars \cap t.vars = {} /\ s.elems \cap t.elems = {}

(* No two sets share a variable or a constraint, none is on two lists, and *)
(* a set has every variable of its constraints: so a set can be solved by  *)
(* itself, whatever was merged, taken apart, substituted or put back.      *)
Partition ==
    /\ Disjoint(Live)
    /\ unresolved \cap workList = {}
    /\ pc = "check" => current \notin Linked
    /\ \A s \in Live : s.elems # {} /\ \A c \in s.elems : typeVars[c] \subseteq s.vars

(* A constraint that was made and is neither satisfied, matched, removed   *)
(* nor reported is in exactly one place: in a set, on its way into one, or *)
(* made by a transformation and not yet added.                             *)
NoneLost ==
    /\ made \ done = pending \cup fresh \cup Elems(Live)
    /\ pending \cap fresh = {} /\ (pending \cup fresh) \cap Elems(Live) = {}

(* A variable that has a substitution occurs in no set any more, on        *)
(* neither list, although substConstraints looks at one of them only; and  *)
(* when the checker has come to its end, no set with a variable waits on   *)
(* the work list.                                                          *)
UpToDate ==
    /\ Vars(Linked) \cap bound = {}
    /\ pc = "idle" => Vars(workList) = {}

(* checkConstraintsWorkList returns, if the transformations make finitely  *)
(* many constraints.                                                       *)
WorkEnds == pc # "idle" ~> pc = "idle"

(* "Fixes any local coercions with type variables that are not:" (the      *)
(* comment at fixCoercions): the walk over the unresolved sets ends.       *)
FixEnds == visit.on ~> ~visit.on
=============================================================================
