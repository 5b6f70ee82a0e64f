------------------------ MODULE ConstraintSetsProofs ------------------------
(***************************************************************************)
(* The constraint sets stay apart, complete and up to date, whatever the   *)
(* type variables and the constraints are.                                 *)
(***************************************************************************)
EXTENDS ConstraintSets, TLAPS

(* Variables that have a substitution, in _substs or on its way there.     *)
Gone == bound \cup DOMAIN substs

Clean ==
    /\ Vars(Live) \cap Gone = {}
    /\ \A c \in pending \cup fresh : typeVars[c] \cap Gone = {}

(* What is under way where: substitutions and constraints only while some  *)
(* are added, and sets with variables on the work list only from there     *)
(* until the checker has come to its end.                                  *)
Phase ==
    /\ pc # "add" => pending = {} /\ fresh = {} /\ DOMAIN substs = {}
    /\ pc = "add" /\ then \in {"idle", "bind"} => fresh = {}
    /\ pc = "add" /\ then = "idle" => quiet /\ DOMAIN substs = {}
    /\ pc = "idle" \/ (pc = "add" /\ then = "idle") => Vars(workList) = {}

(* fixCoercions visits sets of the unresolved list only.                   *)
Walk ==
    /\ visit.sets \subseteq unresolved
    /\ ~visit.on => visit.sets = {} /\ visit.at = NoSet

Inv == TypeOK /\ Partition /\ NoneLost /\ Clean /\ Phase

-----------------------------------------------------------------------------
(* What a substitution and an instantiation may be.                        *)

LEMMA SubstsForType ==
    ASSUME NEW from \in SUBSET TypeVar, NEW s \in SubstsFor(from)
    PROVE  /\ DOMAIN s \subseteq from /\ DOMAIN s \cap bound = {}
           /\ \A x \in DOMAIN s : s[x] \subseteq TypeVar /\ s[x] \cap (bound \cup DOMAIN s) = {}
  <1>1. PICK d \in SUBSET (from \ bound) : s \in [d -> SUBSET (TypeVar \ (d \cup bound))]
    BY DEF SubstsFor
  <1>2. DOMAIN s = d
    BY <1>1
  <1>3. ASSUME NEW x \in d
        PROVE  s[x] \subseteq TypeVar \ (d \cup bound)
    BY <1>1
  <1> QED BY <1>1, <1>2, <1>3

LEMMA NoSubstsType == DOMAIN NoSubsts = {}
  BY DEF NoSubsts

LEMMA MadeType ==
    ASSUME NEW s, NEW new \in Made(s)
    PROVE  /\ DOMAIN new \subseteq Constraint \ (made \cup Schematic)
           /\ \A c \in DOMAIN new : new[c] \subseteq TypeVar /\ new[c] \cap (bound \cup DOMAIN s) = {}
  <1>1. PICK d \in SUBSET (Constraint \ (made \cup Schematic)) :
            new \in [d -> SUBSET (TypeVar \ (bound \cup DOMAIN s))]
    BY DEF Made
  <1>2. DOMAIN new = d
    BY <1>1
  <1>3. ASSUME NEW c \in d
        PROVE  new[c] \subseteq TypeVar \ (bound \cup DOMAIN s)
    BY <1>1
  <1> QED BY <1>1, <1>2, <1>3

(* Substituted variables are type variables, and none that is gone.        *)
LEMMA SubstVarsType ==
    ASSUME NEW from \in SUBSET TypeVar, NEW s \in SubstsFor(from),
           NEW V \in SUBSET TypeVar
    PROVE  /\ SubstVars(s, V) \subseteq TypeVar
           /\ V \cap bound = {} => SubstVars(s, V) \cap (bound \cup DOMAIN s) = {}
  BY SubstsForType DEF SubstVars

LEMMA LiveUnlessChecking ==
    /\ pc # "check" => Live = Linked
    /\ pc = "check" => Live = Linked \cup {current}
  BY DEF Live

LEMMA LiveUnlessCheckingNext ==
    /\ pc' # "check" => Live' = Linked'
    /\ pc' = "check" => Live' = Linked' \cup {current'}
  BY DEF Live

LEMMA LiveType == TypeOK => Live \subseteq ConstraintSet
  BY DEF TypeOK, Live, Linked

LEMMA SetType ==
    ASSUME NEW s \in ConstraintSet
    PROVE  s.vars \subseteq TypeVar /\ s.elems \subseteq Constraint
  BY DEF ConstraintSet

(* Sets taken out of a family leave nothing of theirs behind.              *)
LEMMA TakenOut ==
    ASSUME NEW F, NEW G \in SUBSET F, Disjoint(F)
    PROVE  /\ Disjoint(F \ G)
           /\ Elems(F) = Elems(F \ G) \cup Elems(G) /\ Elems(F \ G) \cap Elems(G) = {}
           /\ Vars(F) = Vars(F \ G) \cup Vars(G) /\ Vars(F \ G) \cap Vars(G) = {}
  BY DEF Disjoint, Elems, Vars

-----------------------------------------------------------------------------
LEMMA InitInv == Init => Inv
  <1> SUFFICES ASSUME Init PROVE Inv
    OBVIOUS
  <1>1. Linked = {} /\ Live = {} /\ DOMAIN substs = {}
    BY NoSubstsType DEF Init, Linked, Live
  <1>2. TypeOK
    BY KindAssumption, <1>1 DEF Init, TypeOK, NoVisit, NoSet, ConstraintSet
  <1>3. Partition
    BY <1>1 DEF Init, Partition, Disjoint
  <1>4. NoneLost
    BY <1>1 DEF Init, NoneLost, Elems
  <1>5. Clean
    BY <1>1 DEF Init, Clean, Vars
  <1>6. Phase
    BY <1>1 DEF Init, Phase, Vars
  <1> QED BY <1>2, <1>3, <1>4, <1>5, <1>6 DEF Inv

(* Steps that leave the sets, the signatures and the bookkeeping alone.    *)
LEMMA FixStepInv ==
    ASSUME Inv, FixCoercions \/ EndFix \/ \E u \in visit.sets : PassSet(u)
    PROVE  Inv'
  <1>1. /\ UNCHANGED <<typeVars, unresolved, workList, current, pending, then, quiet, fresh,
                       substs, made, done, bound, flagged, pc>>
        /\ visit' \in [on : BOOLEAN, sets : SUBSET ConstraintSet, at : ConstraintSet]
    <2>0. /\ visit \in [on : BOOLEAN, sets : SUBSET ConstraintSet, at : ConstraintSet]
          /\ unresolved \subseteq ConstraintSet /\ NoSet \in ConstraintSet
      BY DEF Inv, TypeOK, NoSet, ConstraintSet
    <2>1. CASE FixCoercions
      BY <2>0, <2>1 DEF FixCoercions
    <2>2. CASE EndFix
      BY <2>0, <2>2 DEF EndFix, NoVisit
    <2>3. ASSUME NEW u \in visit.sets, PassSet(u)
          PROVE  <1>1!1 /\ <1>1!2
      BY <2>0, <2>3 DEF PassSet
    <2> QED BY <2>1, <2>2, <2>3
  <1>2. Live' = Live /\ Linked' = Linked /\ Gone' = Gone
    BY <1>1 DEF Live, Linked, Gone
  <1>3. TypeOK'
    BY <1>1 DEF Inv, TypeOK
  <1>4. Partition' /\ NoneLost' /\ Clean' /\ Phase'
    BY <1>1, <1>2 DEF Inv, Partition, NoneLost, Clean, Phase
  <1> QED BY <1>3, <1>4 DEF Inv

(***************************************************************************)
(* Adding a constraint: the sets that have one of its variables become one *)
(* set with it, and every other set has neither its variables nor it.      *)
(***************************************************************************)
LEMMA MergedSet ==
    ASSUME Inv, pc = "add", NEW c \in pending, NEW set \in ConstraintSet,
           set.vars = MergedVars(c),
           set.elems = MergedElems(c) \cup {c} \/ (set.elems = MergedElems(c) /\ set.elems # {})
    PROVE  LET rest == Linked \ Merging(c)
           IN  /\ Merging(c) \subseteq Linked
               /\ \A s \in rest : s.vars \cap set.vars = {} /\ s.elems \cap set.elems = {}
               /\ set \notin rest
               /\ Disjoint(rest \cup {set})
               /\ \A d \in set.elems : typeVars[d] \subseteq set.vars
               /\ set.vars \cap Gone = {}
               /\ Elems(rest \cup {set}) \cup {c} = Elems(Linked) \cup {c}
               /\ set.elems # {}
  <1> DEFINE rest == Linked \ Merging(c)
  <1>1. Live = Linked
    BY LiveUnlessChecking
  <1>2. Disjoint(Linked) /\ Merging(c) \subseteq Linked
    BY <1>1 DEF Inv, Partition, Merging
  <1>3. c \notin Elems(Linked)
    BY <1>1 DEF Inv, NoneLost
  <1>4. \A s \in rest : s.vars \cap set.vars = {} /\ s.elems \cap set.elems = {}
    <2> SUFFICES ASSUME NEW s \in rest
                 PROVE  s.vars \cap set.vars = {} /\ s.elems \cap set.elems = {}
      OBVIOUS
    <2>1. s.vars \cap typeVars[c] = {}
      BY DEF Merging
    <2>2. \A m \in Merging(c) : s.vars \cap m.vars = {} /\ s.elems \cap m.elems = {}
      BY <1>2 DEF Disjoint
    <2>3. c \notin s.elems
      BY <1>3 DEF Elems
    <2> QED BY <2>1, <2>2, <2>3 DEF MergedVars, MergedElems, Vars, Elems
  <1>5. set.elems # {}
    OBVIOUS
  <1>6. set \notin rest
    BY <1>4, <1>5
  <1>7. Disjoint(rest \cup {set}) /\ Elems(rest \cup {set}) = Elems(rest) \cup set.elems
    <2>1. Disjoint(rest)
      BY <1>2 DEF Disjoint
    <2> HIDE DEF rest
    <2>2. Disjoint(rest \cup {set})
      BY <1>4, <2>1 DEF Disjoint
    <2> QED BY <2>2 DEF Elems
  <1>8. \A d \in set.elems : typeVars[d] \subseteq set.vars
    BY <1>1, <1>2 DEF Inv, Partition, MergedVars, MergedElems, Vars, Elems
  <1>9. set.vars \cap Gone = {}
    BY <1>1, <1>2 DEF Inv, Clean, MergedVars, Vars
  <1>10. Elems(rest \cup {set}) \cup {c} = Elems(Linked) \cup {c}
    <2>1. Merging(c) \in SUBSET Linked
      BY <1>2
    <2>2. Elems(Linked) = Elems(rest) \cup Elems(Merging(c))
      BY <1>2, <2>1, TakenOut
    <2> HIDE DEF rest
    <2> QED BY <1>7, <2>2 DEF MergedElems
  <1> QED BY <1>2, <1>4, <1>5, <1>6, <1>7, <1>8, <1>9, <1>10

LEMMA MergedType ==
    ASSUME Inv, pc = "add", NEW c \in pending
    PROVE  /\ MergedVars(c) \subseteq TypeVar
           /\ MergedElems(c) \subseteq Constraint
  <1>1. Linked \subseteq ConstraintSet /\ typeVars[c] \subseteq TypeVar
    BY DEF Inv, TypeOK, Linked
  <1>2. \A s \in Merging(c) : s.vars \subseteq TypeVar /\ s.elems \subseteq Constraint
    BY <1>1, SetType DEF Merging
  <1> QED BY <1>1, <1>2 DEF MergedVars, MergedElems, Vars, Elems

LEMMA AddConstraintToSetInv ==
    ASSUME Inv, NEW c \in pending, AddConstraintToSet(c)
    PROVE  Inv'
  <1> DEFINE rest == Linked \ Merging(c)
  <1>1. /\ pc = "add" /\ c \in Constraint /\ pending' = pending \ {c}
        /\ UNCHANGED <<typeVars, current, then, quiet, fresh, substs, made, bound, flagged, pc>>
    BY DEF Inv, TypeOK, AddConstraintToSet
  <1>2. PICK set \in ConstraintSet :
            /\ Link(c, set) /\ set.vars = MergedVars(c)
            /\ \/ set.elems = MergedElems(c) \cup {c} /\ done' = done
               \/ set.elems = MergedElems(c) /\ set.elems # {} /\ done' = done \cup {c}
    <2>1. /\ [vars |-> MergedVars(c), elems |-> MergedElems(c)] \in ConstraintSet
          /\ [vars |-> MergedVars(c), elems |-> MergedElems(c) \cup {c}] \in ConstraintSet
      BY <1>1, MergedType DEF ConstraintSet
    <2>2. CASE Link(c, [vars |-> MergedVars(c), elems |-> MergedElems(c) \cup {c}]) /\ done' = done
      BY <2>1, <2>2
    <2>3. CASE /\ \E d \in MergedElems(c) : Matches(c, d)
               /\ Link(c, [vars |-> MergedVars(c), elems |-> MergedElems(c)])
               /\ done' = done \cup {c}
      BY <2>1, <2>3
    <2> QED BY <2>2, <2>3 DEF AddConstraintToSet
  <1>3. /\ Merging(c) \subseteq Linked
        /\ set \notin rest /\ set.elems # {}
        /\ Disjoint(rest \cup {set})
        /\ \A d \in set.elems : typeVars[d] \subseteq set.vars
        /\ set.vars \cap Gone = {}
        /\ Elems(rest \cup {set}) \cup {c} = Elems(Linked) \cup {c}
    BY <1>1, <1>2, MergedSet
  <1>4. /\ Linked' = rest \cup {set}
        /\ unresolved' \cap workList' = {}
        /\ \/ /\ quiet /\ typeVars[c] # {}
              /\ unresolved' = (unresolved \ Merging(c)) \cup {set} /\ workList' = workList \ Merging(c)
           \/ /\ ~quiet \/ typeVars[c] = {}
              /\ unresolved' = unresolved \ Merging(c) /\ workList' = (workList \ Merging(c)) \cup {set}
    <2>1. unresolved \cap workList = {}
      BY DEF Inv, Partition
    <2>2. CASE quiet /\ typeVars[c] # {}
      <3>1. unresolved' = (unresolved \ Merging(c)) \cup {set} /\ workList' = workList \ Merging(c)
        BY <1>2, <2>2 DEF Link
      <3> QED BY <1>3, <2>1, <2>2, <3>1 DEF Linked
    <2>3. CASE ~(quiet /\ typeVars[c] # {})
      <3>1. unresolved' = unresolved \ Merging(c) /\ workList' = (workList \ Merging(c)) \cup {set}
        BY <1>2, <2>3 DEF Link
      <3> QED BY <1>3, <2>1, <2>3, <3>1 DEF Linked
    <2> QED BY <2>2, <2>3
  <1>5. /\ Live = Linked /\ Live' = rest \cup {set} /\ Gone' = Gone
        /\ c \notin fresh /\ c \notin Elems(Linked) /\ typeVars' = typeVars
    BY <1>1, <1>4, LiveUnlessChecking, LiveUnlessCheckingNext DEF Gone, Inv, NoneLost
  <1>6. TypeOK'
    <2>1. unresolved' \subseteq ConstraintSet /\ workList' \subseteq ConstraintSet
      BY <1>2, <1>4 DEF Inv, TypeOK
    <2>2. done' \subseteq made
      BY <1>1, <1>2 DEF Inv, TypeOK, NoneLost
    <2>3. visit' \in [on : BOOLEAN, sets : SUBSET ConstraintSet, at : ConstraintSet]
      BY <1>2 DEF Inv, TypeOK, Link
    <2> QED BY <1>1, <2>1, <2>2, <2>3 DEF Inv, TypeOK
  <1>7. Partition'
    <2>1. \A s \in rest : s.elems # {} /\ \A d \in s.elems : typeVars[d] \subseteq s.vars
      BY <1>5 DEF Inv, Partition
    <2> HIDE DEF rest
    <2> QED BY <1>1, <1>3, <1>4, <1>5, <2>1 DEF Partition
  <1>8. NoneLost'
    <2>1. Elems(Live') \cup {c} = Elems(Live) \cup {c}
      BY <1>3, <1>5
    <2>2. CASE set.elems = MergedElems(c) \cup {c} /\ done' = done
      <3>1. c \in Elems(Live')
        BY <1>5, <2>2 DEF Elems
      <3> QED BY <1>1, <2>1, <2>2, <3>1 DEF Inv, NoneLost
    <2>3. CASE set.elems = MergedElems(c) /\ done' = done \cup {c}
      <3>1. c \notin Elems(Live')
        BY <1>3, <1>5, <2>3 DEF Elems, MergedElems
      <3> QED BY <1>1, <1>5, <2>1, <2>3, <3>1 DEF Inv, NoneLost
    <2> QED BY <1>2, <2>2, <2>3
  <1>9. Clean'
    <2>1. Vars(Live') \cap Gone = {}
      BY <1>3, <1>5 DEF Inv, Clean, Vars
    <2> QED BY <1>1, <1>5, <2>1 DEF Inv, Clean
  <1>10. Phase'
    <2>1. ASSUME then = "idle" PROVE Vars(workList') = {}
      <3>1. quiet /\ Vars(workList) = {}
        BY <1>1, <2>1 DEF Inv, Phase
      <3>2. CASE typeVars[c] # {}
        BY <1>4, <3>1, <3>2 DEF Vars
      <3>3. CASE typeVars[c] = {}
        <4>1. set.vars = {}
          BY <1>2, <3>3 DEF MergedVars, Merging, Vars
        <4>2. workList' = (workList \ Merging(c)) \cup {set}
          BY <1>4, <3>3
        <4> QED BY <3>1, <4>1, <4>2 DEF Vars
      <3> QED BY <3>2, <3>3
    <2> QED BY <1>1, <2>1 DEF Inv, Phase
  <1> QED BY <1>6, <1>7, <1>8, <1>9, <1>10 DEF Inv

(***************************************************************************)
(* Inference.                                                              *)
(***************************************************************************)
LEMMA AddConstraintInv ==
    ASSUME Inv, NEW c \in Constraint, NEW V \in SUBSET TypeVar,
           NEW asUnresolved \in BOOLEAN, NEW checked \in BOOLEAN,
           AddConstraint(c, V, asUnresolved, checked)
    PROVE  Inv'
  <1>1. /\ pc = "idle" /\ pc' = "add" /\ c \notin made /\ V \cap bound = {}
        /\ asUnresolved \/ checked
        /\ made' = made \cup {c} /\ typeVars' = [typeVars EXCEPT ![c] = V]
        /\ pending' = {c} /\ quiet' = asUnresolved /\ then' = IF checked THEN "bind" ELSE "idle"
        /\ UNCHANGED <<unresolved, workList, current, fresh, substs, done, bound, flagged, visit>>
    BY DEF AddConstraint, Inferring
  <1>2. /\ Live = Linked /\ Live' = Linked /\ Linked' = Linked /\ Gone' = Gone
        /\ pending = {} /\ fresh = {} /\ DOMAIN substs = {}
    BY <1>1, LiveUnlessChecking, LiveUnlessCheckingNext DEF Linked, Gone, Inv, Phase
  <1>3. c \notin Elems(Linked)
    BY <1>1, <1>2 DEF Inv, NoneLost, TypeOK
  <1>4. typeVars' \in [Constraint -> SUBSET TypeVar] /\ \A d \in Constraint : d # c => typeVars'[d] = typeVars[d]
    BY <1>1 DEF Inv, TypeOK
  <1>5. typeVars'[c] = V
    BY <1>1 DEF Inv, TypeOK
  <1>6. TypeOK'
    BY <1>1, <1>4 DEF Inv, TypeOK
  <1>7. Partition'
    <2>1. \A s \in Linked : \A d \in s.elems : d \in Constraint /\ d # c
      BY <1>3, LiveType, SetType, <1>2 DEF Elems, Inv
    <2>2. \A s \in Linked : \A d \in s.elems : typeVars'[d] \subseteq s.vars
      BY <1>2, <1>4, <2>1 DEF Inv, Partition
    <2> QED BY <1>1, <1>2, <2>2 DEF Inv, Partition
  <1>8. NoneLost'
    BY <1>1, <1>2, <1>3 DEF Inv, NoneLost, TypeOK
  <1>9. Clean'
    BY <1>1, <1>2, <1>5 DEF Inv, Clean, Gone
  <1>10. Phase'
    BY <1>1, <1>2 DEF Inv, Phase
  <1> QED BY <1>6, <1>7, <1>8, <1>9, <1>10 DEF Inv

(* Constraints taken out of their sets, when no substitution is under way: *)
(* what is left is as it was, and what was taken out is clean.             *)
LEMMA TakenApart ==
    ASSUME Inv, pc # "check", NEW G \in SUBSET unresolved
    PROVE  /\ Live = Linked
           /\ Disjoint((unresolved \ G) \cup workList)
           /\ Elems(Linked) = Elems((unresolved \ G) \cup workList) \cup Elems(G)
           /\ Elems((unresolved \ G) \cup workList) \cap Elems(G) = {}
           /\ Vars((unresolved \ G) \cup workList) \cap Gone = {}
           /\ Elems(G) \subseteq Constraint
           /\ \A c \in Elems(G) : typeVars[c] \subseteq TypeVar /\ typeVars[c] \cap Gone = {}
           /\ \A s \in (unresolved \ G) \cup workList :
                  s.elems # {} /\ s.elems \subseteq Constraint \ Elems(G)
                  /\ \A c \in s.elems : typeVars[c] \subseteq s.vars
  <1> DEFINE kept == (unresolved \ G) \cup workList
  <1>1. Live = Linked
    BY LiveUnlessChecking
  <1>2. kept = Linked \ G /\ G \subseteq Linked
    BY DEF Inv, Partition, Linked
  <1>3. Disjoint(Linked)
    BY <1>1 DEF Inv, Partition
  <1>4. /\ Disjoint(kept) /\ Elems(Linked) = Elems(kept) \cup Elems(G)
        /\ Elems(kept) \cap Elems(G) = {}
    <2>1. G \in SUBSET Linked
      BY <1>2
    <2>2. /\ Disjoint(Linked \ G) /\ Elems(Linked) = Elems(Linked \ G) \cup Elems(G)
          /\ Elems(Linked \ G) \cap Elems(G) = {}
      BY <1>3, <2>1, TakenOut
    <2> QED BY <1>2, <2>2
  <1>5. Vars(kept) \cap Gone = {}
    BY <1>1, <1>2 DEF Inv, Clean, Vars
  <1>6. \A s \in Linked : s.vars \subseteq TypeVar /\ s.elems \subseteq Constraint
    BY <1>1, LiveType, SetType DEF Inv
  <1>7. Elems(G) \subseteq Constraint
    BY <1>2, <1>6 DEF Elems
  <1>8. \A c \in Elems(G) : typeVars[c] \subseteq TypeVar /\ typeVars[c] \cap Gone = {}
    BY <1>1, <1>2, <1>6 DEF Inv, Partition, Clean, Elems, Vars
  <1>9. \A s \in kept : /\ s.elems # {} /\ s.elems \subseteq Constraint \ Elems(G)
                        /\ \A c \in s.elems : typeVars[c] \subseteq s.vars
    <2>1. \A s \in kept : s.elems \subseteq Elems(kept)
      BY DEF Elems
    <2> QED BY <1>1, <1>2, <1>4, <1>6, <2>1 DEF Inv, Partition
  <1> QED BY <1>1, <1>4, <1>5, <1>7, <1>8, <1>9

LEMMA RemoveSchematicConstraintsInv ==
    ASSUME Inv, RemoveSchematicConstraints
    PROVE  Inv'
  <1> DEFINE G == {u \in unresolved : u.elems \cap Schematic # {}}
             kept == (unresolved \ G) \cup workList
  <1>1. /\ pc = "idle" /\ pc' = "add" /\ then' = "idle" /\ quiet' = TRUE
        /\ unresolved' = unresolved \ G
        /\ pending' = Elems(G) \ Schematic /\ done' = done \cup (Elems(G) \cap Schematic)
        /\ UNCHANGED <<typeVars, workList, current, fresh, substs, made, bound, flagged, visit>>
    BY DEF RemoveSchematicConstraints, Inferring
  <1>2. G \in SUBSET unresolved
    OBVIOUS
  <1> HIDE DEF G
  <1>3. /\ Linked' = kept /\ Live' = kept /\ Gone' = Gone /\ typeVars' = typeVars
        /\ pending = {} /\ fresh = {} /\ DOMAIN substs = {}
    BY <1>1, LiveUnlessCheckingNext DEF Linked, Gone, Inv, Phase
  <1>4. /\ Live = Linked /\ Disjoint(kept) /\ Elems(Linked) = Elems(kept) \cup Elems(G)
        /\ Elems(kept) \cap Elems(G) = {} /\ Vars(kept) \cap Gone = {}
        /\ Elems(G) \subseteq Constraint
        /\ \A c \in Elems(G) : typeVars[c] \cap Gone = {}
        /\ \A s \in kept : s.elems # {} /\ \A c \in s.elems : typeVars[c] \subseteq s.vars
    BY <1>1, <1>2, TakenApart
  <1>5. Elems(G) \subseteq made \ done
    BY <1>4 DEF Inv, NoneLost
  <1>6. TypeOK'
    BY <1>1, <1>4, <1>5 DEF Inv, TypeOK
  <1>7. Partition'
    BY <1>1, <1>3, <1>4 DEF Inv, Partition
  <1>8. NoneLost'
    <2> HIDE DEF kept
    <2> QED BY <1>1, <1>3, <1>4, <1>5 DEF Inv, NoneLost
  <1>9. Clean'
    BY <1>1, <1>3, <1>4 DEF Inv, Clean
  <1>10. Phase'
    BY <1>1, <1>3 DEF Inv, Phase
  <1> QED BY <1>6, <1>7, <1>8, <1>9, <1>10 DEF Inv

(* The sets that have a substituted variable are taken apart: no set that  *)
(* is left has one, the work list having no variables at all.              *)
LEMMA ApplySubstsInv ==
    ASSUME Inv, NEW s \in SubstsFor(TypeVar), ApplySubsts(s)
    PROVE  Inv'
  <1> DEFINE G == Depending(s)
             kept == (unresolved \ G) \cup workList
  <1>1. /\ pc = "idle" /\ pc' = "add" /\ then' = "bind" /\ quiet' = FALSE /\ substs' = s
        /\ unresolved' = unresolved \ G /\ pending' = Elems(G)
        /\ typeVars' = [c \in Constraint |->
                           IF c \in Elems(G) THEN SubstVars(s, typeVars[c]) ELSE typeVars[c]]
        /\ flagged' = flagged \cup Flagging(Elems(G))
        /\ visit' = [visit EXCEPT !.sets = @ \ G]
        /\ UNCHANGED <<workList, current, fresh, made, done, bound>>
    BY DEF ApplySubsts, SubstConstraints
  <1>2. G \in SUBSET unresolved
    BY DEF Depending
  <1>3. /\ DOMAIN s \subseteq TypeVar /\ \A x \in DOMAIN s : s[x] \subseteq TypeVar
    BY SubstsForType
  <1>4. /\ Linked' = kept /\ Live' = kept /\ Gone' = bound \cup DOMAIN s
        /\ pending = {} /\ fresh = {} /\ DOMAIN substs = {} /\ Gone = bound
        /\ Vars(workList) = {}
    BY <1>1, LiveUnlessCheckingNext DEF Linked, Gone, Inv, Phase
  <1>5. /\ Live = Linked /\ Disjoint(kept) /\ Elems(Linked) = Elems(kept) \cup Elems(G)
        /\ Elems(kept) \cap Elems(G) = {} /\ Vars(kept) \cap Gone = {}
        /\ Elems(G) \subseteq Constraint
        /\ \A c \in Elems(G) : typeVars[c] \subseteq TypeVar /\ typeVars[c] \cap Gone = {}
        /\ \A t \in kept : /\ t.elems # {} /\ t.elems \subseteq Constraint \ Elems(G)
                            /\ \A c \in t.elems : typeVars[c] \subseteq t.vars
    BY <1>1, <1>2, TakenApart
  <1>6. \A t \in unresolved \ G : t.vars \cap DOMAIN s = {}
    BY DEF Depending
  <1> HIDE DEF G
  <1>7. \A c \in Elems(G) : /\ typeVars'[c] = SubstVars(s, typeVars[c])
                             /\ typeVars'[c] \subseteq TypeVar
                             /\ typeVars'[c] \cap (bound \cup DOMAIN s) = {}
    <2> SUFFICES ASSUME NEW c \in Elems(G)
                 PROVE  /\ typeVars'[c] = SubstVars(s, typeVars[c])
                        /\ typeVars'[c] \subseteq TypeVar
                        /\ typeVars'[c] \cap (bound \cup DOMAIN s) = {}
      OBVIOUS
    <2>1. typeVars'[c] = SubstVars(s, typeVars[c])
      BY <1>1, <1>5
    <2>2. typeVars[c] \in SUBSET TypeVar /\ typeVars[c] \cap bound = {}
      BY <1>4, <1>5
    <2>3. TypeVar \in SUBSET TypeVar
      OBVIOUS
    <2> QED BY <2>1, <2>2, <2>3, SubstVarsType
  <1>8. \A c \in Constraint \ Elems(G) : typeVars'[c] = typeVars[c]
    BY <1>1
  <1>9. TypeOK'
    <2>1. typeVars' \in [Constraint -> SUBSET TypeVar]
      BY <1>1, <1>5, <1>7 DEF Inv, TypeOK
    <2>2. flagged' \subseteq Scheme
      BY <1>1 DEF Inv, TypeOK, Flagging
    <2>3. visit' \in [on : BOOLEAN, sets : SUBSET ConstraintSet, at : ConstraintSet]
      BY <1>1 DEF Inv, TypeOK
    <2> QED BY <1>1, <1>3, <1>5, <2>1, <2>2, <2>3 DEF Inv, TypeOK
  <1>10. Partition'
    <2>1. \A t \in kept : \A c \in t.elems : typeVars'[c] \subseteq t.vars
      BY <1>5, <1>8
    <2> QED BY <1>1, <1>4, <1>5, <2>1 DEF Inv, Partition
  <1>11. NoneLost'
    <2> HIDE DEF kept
    <2> QED BY <1>1, <1>4, <1>5 DEF Inv, NoneLost
  <1>12. Clean'
    <2>1. Vars(kept) \cap DOMAIN s = {}
      BY <1>4, <1>6 DEF Vars
    <2> QED BY <1>1, <1>4, <1>5, <1>7, <2>1 DEF Clean
  <1>13. Phase'
    BY <1>1, <1>4 DEF Inv, Phase
  <1> QED BY <1>9, <1>10, <1>11, <1>12, <1>13 DEF Inv

(***************************************************************************)
(* Checking.                                                               *)
(***************************************************************************)
LEMMA TakeSetInv ==
    ASSUME Inv, NEW s \in workList, TakeSet(s)
    PROVE  Inv'
  <1>1. /\ pc = "work" /\ pc' = "check" /\ current' = s /\ workList' = workList \ {s}
        /\ UNCHANGED <<typeVars, unresolved, pending, then, quiet, fresh, substs, made, done,
                       bound, flagged, visit>>
    BY DEF TakeSet
  <1>2. Live = Linked /\ Live' = Linked /\ Gone' = Gone /\ s \notin Linked'
    BY <1>1, LiveUnlessChecking, LiveUnlessCheckingNext DEF Linked, Gone, Inv, Partition
  <1>3. TypeOK'
    BY <1>1 DEF Inv, TypeOK
  <1>4. Partition' /\ NoneLost' /\ Clean' /\ Phase'
    BY <1>1, <1>2 DEF Inv, Partition, NoneLost, Clean, Phase
  <1> QED BY <1>3, <1>4 DEF Inv

LEMMA CheckUnresolvedInv ==
    ASSUME Inv, CheckUnresolved
    PROVE  Inv'
  <1>1. /\ pc = "check" /\ pc' = "work" /\ current' = NoSet
        /\ unresolved' = unresolved \cup {current} /\ workList' = workList
        /\ visit' = [visit EXCEPT !.sets = IF visit.on /\ visit.at = NoSet
                                           THEN @ \cup {current} ELSE @]
        /\ UNCHANGED <<typeVars, pending, then, quiet, fresh, substs, made, done, bound, flagged>>
    BY DEF CheckUnresolved, PutBack
  <1>2. Live' = Live /\ Gone' = Gone
    BY <1>1, LiveUnlessChecking, LiveUnlessCheckingNext DEF Linked, Gone
  <1>3. TypeOK'
    <2>1. current \in ConstraintSet /\ NoSet \in ConstraintSet
      BY DEF Inv, TypeOK, NoSet, ConstraintSet
    <2>2. visit' \in [on : BOOLEAN, sets : SUBSET ConstraintSet, at : ConstraintSet]
      BY <1>1, <2>1 DEF Inv, TypeOK
    <2> QED BY <1>1, <2>1, <2>2 DEF Inv, TypeOK
  <1>4. Partition' /\ NoneLost' /\ Clean' /\ Phase'
    BY <1>1, <1>2 DEF Inv, Partition, NoneLost, Clean, Phase, Linked
  <1> QED BY <1>3, <1>4 DEF Inv

(* The set being checked shares nothing with those that are linked.        *)
LEMMA CurrentApart ==
    ASSUME Inv, pc = "check"
    PROVE  /\ Disjoint(Linked) /\ Elems(Live) = Elems(Linked) \cup current.elems
           /\ Elems(Linked) \cap current.elems = {}
           /\ Vars(Linked) \cap current.vars = {}
           /\ Vars(Linked) \cap bound = {} /\ current.vars \cap bound = {}
           /\ current.vars \subseteq TypeVar /\ current.elems \subseteq Constraint
           /\ \A c \in current.elems : typeVars[c] \subseteq current.vars
           /\ \A t \in Linked : /\ t.elems # {} /\ t.elems \subseteq Constraint \ current.elems
                               /\ \A c \in t.elems : typeVars[c] \subseteq t.vars
  <1>1. Live = Linked \cup {current} /\ current \notin Linked
    BY LiveUnlessChecking DEF Inv, Partition
  <1>2. \A t \in Linked : t.vars \cap current.vars = {} /\ t.elems \cap current.elems = {}
    BY <1>1 DEF Inv, Partition, Disjoint
  <1>3. Disjoint(Linked)
    BY <1>1 DEF Inv, Partition, Disjoint
  <1>4. \A t \in Live : t.vars \subseteq TypeVar /\ t.elems \subseteq Constraint
    BY LiveType, SetType DEF Inv
  <1>5. Vars(Live) \cap bound = {}
    BY DEF Inv, Clean, Gone
  <1>6. Vars(Linked) \cap bound = {} /\ current.vars \cap bound = {}
    BY <1>1, <1>5 DEF Vars
  <1>7. \A t \in Live : t.elems # {} /\ \A c \in t.elems : typeVars[c] \subseteq t.vars
    BY DEF Inv, Partition
  <1>8. Elems(Live) = Elems(Linked) \cup current.elems
    BY <1>1 DEF Elems
  <1>9. Elems(Linked) \cap current.elems = {} /\ Vars(Linked) \cap current.vars = {}
    BY <1>2 DEF Elems, Vars
  <1> QED BY <1>1, <1>2, <1>3, <1>4, <1>6, <1>7, <1>8, <1>9

LEMMA CheckFailsInv ==
    ASSUME Inv, CheckFails
    PROVE  Inv'
  <1>1. /\ pc = "check" /\ pc' = "work" /\ current' = NoSet /\ done' = done \cup current.elems
        /\ UNCHANGED <<typeVars, unresolved, workList, pending, then, quiet, fresh, substs, made,
                       bound, flagged, visit>>
    BY DEF CheckFails
  <1>2. /\ Linked' = Linked /\ Live' = Linked /\ Gone' = Gone
        /\ pending = {} /\ fresh = {} /\ DOMAIN substs = {}
    BY <1>1, LiveUnlessCheckingNext DEF Linked, Gone, Inv, Phase
  <1>3. TypeOK'
    <2>1. current.elems \subseteq made
      BY <1>1, CurrentApart DEF Inv, NoneLost
    <2>2. NoSet \in ConstraintSet
      BY DEF NoSet, ConstraintSet
    <2> QED BY <1>1, <2>1, <2>2 DEF Inv, TypeOK
  <1>4. Partition' /\ NoneLost'
    BY <1>1, <1>2, CurrentApart DEF Inv, Partition, NoneLost
  <1>5. Clean' /\ Phase'
    BY <1>1, <1>2, CurrentApart DEF Inv, Clean, Phase, Gone
  <1> QED BY <1>3, <1>4, <1>5 DEF Inv

(* The substitutions are for variables of the set that was checked, which  *)
(* no other set has.                                                       *)
LEMMA CheckSatisfiedInv ==
    ASSUME Inv, pc = "check", NEW resolved \in SUBSET current.elems,
           NEW s \in SubstsFor(current.vars), NEW new \in Made(s),
           CheckSatisfied(resolved, s, new)
    PROVE  Inv'
  <1> DEFINE rest == current.elems \ resolved
  <1>1. /\ pc' = "add" /\ then' = "subst" /\ quiet' = FALSE /\ current' = NoSet
        /\ pending' = rest /\ fresh' = DOMAIN new /\ substs' = s
        /\ typeVars' = [c \in Constraint |->
                           IF c \in rest THEN SubstVars(s, typeVars[c])
                           ELSE Recorded(typeVars, new)[c]]
        /\ flagged' = flagged \cup Flagging(rest)
        /\ done' = done \cup resolved /\ made' = made \cup DOMAIN new
        /\ UNCHANGED <<unresolved, workList, bound, visit>>
    BY DEF CheckSatisfied
  <1>2. /\ Disjoint(Linked) /\ Elems(Live) = Elems(Linked) \cup current.elems
        /\ Elems(Linked) \cap current.elems = {}
        /\ Vars(Linked) \cap current.vars = {}
        /\ Vars(Linked) \cap bound = {} /\ current.vars \cap bound = {}
        /\ current.vars \subseteq TypeVar /\ current.elems \subseteq Constraint
        /\ \A c \in current.elems : typeVars[c] \subseteq current.vars
        /\ \A t \in Linked : /\ t.elems # {} /\ t.elems \subseteq Constraint \ current.elems
                             /\ \A c \in t.elems : typeVars[c] \subseteq t.vars
    BY CurrentApart
  <1>3. /\ DOMAIN s \subseteq current.vars
        /\ \A x \in DOMAIN s : s[x] \subseteq TypeVar
    BY <1>2, SubstsForType
  <1>4. /\ DOMAIN new \subseteq Constraint /\ DOMAIN new \cap made = {}
        /\ \A c \in DOMAIN new : new[c] \subseteq TypeVar /\ new[c] \cap (bound \cup DOMAIN s) = {}
    BY MadeType
  <1>5. /\ Linked' = Linked /\ Live' = Linked /\ Gone' = bound \cup DOMAIN s
        /\ pending = {} /\ fresh = {}
    BY <1>1, LiveUnlessCheckingNext DEF Linked, Gone, Inv, Phase
  <1>6. /\ made \ done = Elems(Linked) \cup current.elems
        /\ made \subseteq Constraint /\ done \subseteq made
    BY <1>2, <1>5 DEF Inv, NoneLost, TypeOK
  <1>7. \A c \in rest : /\ typeVars'[c] \subseteq TypeVar
                        /\ typeVars'[c] \cap (bound \cup DOMAIN s) = {}
    <2> SUFFICES ASSUME NEW c \in rest
                 PROVE  /\ typeVars'[c] \subseteq TypeVar
                        /\ typeVars'[c] \cap (bound \cup DOMAIN s) = {}
      OBVIOUS
    <2>1. typeVars'[c] = SubstVars(s, typeVars[c])
      BY <1>1, <1>2
    <2>2. typeVars[c] \in SUBSET TypeVar /\ typeVars[c] \cap bound = {}
      BY <1>2
    <2>3. current.vars \in SUBSET TypeVar
      BY <1>2
    <2> QED BY <2>1, <2>2, <2>3, SubstVarsType
  <1>8. \A c \in DOMAIN new : typeVars'[c] = new[c]
    <2>1. \A c \in DOMAIN new : c \notin rest /\ c \in Constraint
      BY <1>4, <1>6
    <2> QED BY <1>1, <2>1 DEF Recorded
  <1>9. \A c \in Constraint \ (rest \cup DOMAIN new) : typeVars'[c] = typeVars[c]
    BY <1>1 DEF Recorded
  <1>10. TypeOK'
    <2>1. \A c \in Constraint : typeVars'[c] \subseteq TypeVar
      <3>1. \A c \in Constraint : typeVars[c] \subseteq TypeVar
        BY DEF Inv, TypeOK
      <3> QED BY <1>4, <1>7, <1>8, <1>9, <3>1
    <2>2. typeVars' \in [Constraint -> SUBSET TypeVar]
      <3>1. /\ DOMAIN typeVars' = Constraint
            /\ typeVars' = [c \in Constraint |-> typeVars'[c]]
        BY <1>1
      <3> QED BY <2>1, <3>1
    <2>3. flagged' \subseteq Scheme
      BY <1>1 DEF Inv, TypeOK, Flagging
    <2>4. NoSet \in ConstraintSet
      BY DEF NoSet, ConstraintSet
    <2>5. done' \subseteq made'
      BY <1>1, <1>6
    <2> QED BY <1>1, <1>2, <1>3, <1>4, <2>2, <2>3, <2>4, <2>5 DEF Inv, TypeOK
  <1>11. Partition'
    <2>1. \A t \in Linked : \A c \in t.elems : typeVars'[c] \subseteq t.vars
      <3> SUFFICES ASSUME NEW t \in Linked, NEW c \in t.elems
                   PROVE  typeVars'[c] \subseteq t.vars
        OBVIOUS
      <3>1. c \in made /\ c \in Constraint /\ c \notin rest
        BY <1>2, <1>6 DEF Elems
      <3>2. typeVars'[c] = typeVars[c]
        BY <1>4, <1>9, <3>1
      <3> QED BY <1>2, <3>2
    <2> QED BY <1>1, <1>2, <1>5, <2>1 DEF Inv, Partition
  <1>12. NoneLost'
    BY <1>1, <1>2, <1>4, <1>5, <1>6 DEF NoneLost
  <1>13. Clean'
    <2>1. Vars(Linked) \cap (bound \cup DOMAIN s) = {}
      BY <1>2, <1>3
    <2> QED BY <1>1, <1>4, <1>5, <1>7, <1>8, <2>1 DEF Clean
  <1>14. Phase'
    BY <1>1 DEF Phase
  <1> QED BY <1>10, <1>11, <1>12, <1>13, <1>14 DEF Inv

(* Since no linked set has a variable of the set that was checked, there   *)
(* is nothing for substConstraints to take apart.                          *)
LEMMA SubstElsewhereInv ==
    ASSUME Inv, SubstElsewhere
    PROVE  Inv'
  <1>1. /\ pc = "add" /\ pending = {} /\ then = "subst" /\ then' = "fresh"
        /\ SubstConstraints(substs)
        /\ UNCHANGED <<workList, current, fresh, substs, made, done, bound, pc>>
    BY DEF SubstElsewhere, Added
  <1>2. Live = Linked
    BY <1>1, LiveUnlessChecking
  <1>3. Depending(substs) = {}
    BY <1>2 DEF Inv, Clean, Gone, Vars, Depending, Linked
  <1>4. Elems(Depending(substs)) = {}
    BY <1>3 DEF Elems
  <1>5. /\ unresolved' = unresolved /\ flagged' = flagged /\ pending' = {} /\ quiet' = FALSE
        /\ typeVars' = [c \in Constraint |-> typeVars[c]]
        /\ visit' = [visit EXCEPT !.sets = @ \ {}]
    BY <1>1, <1>3, <1>4 DEF SubstConstraints, Flagging
  <1>6. typeVars' = typeVars
    BY <1>5 DEF Inv, TypeOK
  <1>7. Live' = Live /\ Linked' = Linked /\ Gone' = Gone
    BY <1>1, <1>2, <1>5, LiveUnlessCheckingNext DEF Linked, Gone
  <1>8. TypeOK'
    BY <1>1, <1>5, <1>6 DEF Inv, TypeOK
  <1>9. Partition' /\ NoneLost' /\ Clean' /\ Phase'
    BY <1>1, <1>5, <1>6, <1>7 DEF Inv, Partition, NoneLost, Clean, Phase
  <1> QED BY <1>8, <1>9 DEF Inv

LEMMA AddFreshInv ==
    ASSUME Inv, AddFresh
    PROVE  Inv'
  <1>1. /\ pc = "add" /\ pending = {} /\ then = "fresh" /\ then' = "bind"
        /\ pending' = fresh /\ fresh' = {}
        /\ UNCHANGED <<typeVars, unresolved, workList, current, quiet, substs, made, done, bound,
                       flagged, pc, visit>>
    BY DEF AddFresh, Added
  <1>2. Live' = Live /\ Linked' = Linked /\ Gone' = Gone
    BY <1>1 DEF Live, Linked, Gone
  <1>3. TypeOK'
    BY <1>1 DEF Inv, TypeOK
  <1>4. Partition' /\ NoneLost' /\ Clean' /\ Phase'
    BY <1>1, <1>2 DEF Inv, Partition, NoneLost, Clean, Phase
  <1> QED BY <1>3, <1>4 DEF Inv

LEMMA AddSubstsInv ==
    ASSUME Inv, AddSubsts
    PROVE  Inv'
  <1>1. /\ pc = "add" /\ pending = {} /\ then \in {"bind", "idle"}
        /\ bound' = bound \cup DOMAIN substs /\ substs' = NoSubsts
        /\ pc' = (IF then = "bind" THEN "work" ELSE "idle") /\ then' = "idle" /\ quiet' = FALSE
        /\ UNCHANGED <<typeVars, unresolved, workList, current, pending, fresh, made, done, flagged,
                       visit>>
    BY DEF AddSubsts, Added
  <1>2. /\ Live' = Live /\ Linked' = Linked /\ Gone' = Gone /\ DOMAIN substs' = {}
        /\ pc' \in {"work", "idle"}
    BY <1>1, LiveUnlessChecking, LiveUnlessCheckingNext, NoSubstsType DEF Linked, Gone
  <1>3. TypeOK'
    BY <1>1, <1>2 DEF Inv, TypeOK
  <1>4. Partition' /\ NoneLost' /\ Clean'
    BY <1>1, <1>2 DEF Inv, Partition, NoneLost, Clean
  <1>5. Phase'
    BY <1>1, <1>2 DEF Inv, Phase
  <1> QED BY <1>3, <1>4, <1>5 DEF Inv

LEMMA NotifySchemesInv ==
    ASSUME Inv, NEW new \in Made(NoSubsts), NotifySchemes(new)
    PROVE  Inv'
  <1>1. /\ pc = "work" /\ workList = {} /\ pc' \in {"idle", "add"}
        /\ pc' = "idle" => DOMAIN new = {}
        /\ pc' = "add" => then' = "bind"
        /\ then' \in {then, "bind"}
        /\ flagged' = flagged \ Elems(unresolved)
        /\ typeVars' = Recorded(typeVars, new) /\ made' = made \cup DOMAIN new
        /\ pending' = DOMAIN new
        /\ \E moved \in SUBSET {u \in unresolved : u.elems \cap flagged # {}} : Relink(moved)
        /\ UNCHANGED <<unresolved, workList, current, quiet, fresh, substs, done, bound>>
    BY DEF NotifySchemes
  <1>2. /\ DOMAIN new \subseteq Constraint /\ DOMAIN new \cap made = {}
        /\ \A c \in DOMAIN new : new[c] \subseteq TypeVar /\ new[c] \cap bound = {}
    BY MadeType
  <1>3. /\ Live = Linked /\ Live' = Linked /\ Linked' = Linked /\ Gone' = Gone /\ Gone = bound
        /\ pending = {} /\ fresh = {} /\ DOMAIN substs = {}
    BY <1>1, LiveUnlessChecking, LiveUnlessCheckingNext DEF Linked, Gone, Inv, Phase
  <1>4. /\ \A c \in DOMAIN new : typeVars'[c] = new[c]
        /\ \A c \in Constraint \ DOMAIN new : typeVars'[c] = typeVars[c]
        /\ typeVars' \in [Constraint -> SUBSET TypeVar]
    <2>1. /\ \A c \in DOMAIN new : typeVars'[c] = new[c]
          /\ \A c \in Constraint \ DOMAIN new : typeVars'[c] = typeVars[c]
      BY <1>1, <1>2 DEF Recorded
    <2>2. \A c \in Constraint : typeVars[c] \subseteq TypeVar
      BY DEF Inv, TypeOK
    <2>3. \A c \in Constraint : typeVars'[c] \subseteq TypeVar
      BY <1>2, <2>1, <2>2
    <2>4. typeVars' = [c \in Constraint |-> typeVars'[c]]
      BY <1>1 DEF Recorded
    <2> QED BY <2>1, <2>3, <2>4
  <1>5. Elems(Linked) = made \ done
    BY <1>3 DEF Inv, NoneLost
  <1>6. TypeOK'
    <2>1. visit' \in [on : BOOLEAN, sets : SUBSET ConstraintSet, at : ConstraintSet]
      <3>1. PICK sets \in SUBSET ConstraintSet : visit' = [visit EXCEPT !.sets = sets]
        <4>1. visit.sets \subseteq ConstraintSet /\ unresolved \subseteq ConstraintSet
          BY DEF Inv, TypeOK
        <4>2. PICK moved : Relink(moved)
          BY <1>1
        <4>3. PICK before : visit' = [visit EXCEPT !.sets = IF visit.at = NoSet THEN @
                                        ELSE IF visit.at \in moved
                                             THEN unresolved \ (before \cup {visit.at})
                                             ELSE @ \ moved]
          BY <4>2 DEF Relink
        <4> QED BY <4>1, <4>3
      <3> QED BY <3>1 DEF Inv, TypeOK
    <2> QED BY <1>1, <1>2, <1>4, <2>1 DEF Inv, TypeOK
  <1>7. Partition'
    <2>1. \A t \in Linked : t.elems # {} /\ \A c \in t.elems : typeVars'[c] \subseteq t.vars
      <3> SUFFICES ASSUME NEW t \in Linked
                   PROVE  t.elems # {} /\ \A c \in t.elems : typeVars'[c] \subseteq t.vars
        OBVIOUS
      <3>1. t.elems # {} /\ \A c \in t.elems : typeVars[c] \subseteq t.vars
        BY <1>3 DEF Inv, Partition
      <3>2. \A c \in t.elems : c \in made /\ c \in Constraint
        BY <1>5 DEF Elems, Inv, TypeOK
      <3> QED BY <1>2, <1>4, <3>1, <3>2
    <2> QED BY <1>1, <1>3, <2>1 DEF Inv, Partition
  <1>8. NoneLost'
    BY <1>1, <1>2, <1>3, <1>5 DEF Inv, NoneLost, TypeOK
  <1>9. Clean'
    BY <1>1, <1>2, <1>3, <1>4 DEF Inv, Clean
  <1>10. Phase'
    BY <1>1, <1>3 DEF Inv, Phase, Vars
  <1> QED BY <1>6, <1>7, <1>8, <1>9, <1>10 DEF Inv

LEMMA FixSetInv ==
    ASSUME Inv, Walk, NEW u \in visit.sets, FixSet(u)
    PROVE  Inv'
  <1>1. /\ pc = "idle" /\ pc' = "work" /\ u \in visit.sets /\ u.elems \ Schematic # {}
        /\ unresolved' = unresolved \ {u} /\ workList' = workList \cup {u}
        /\ visit' = [visit EXCEPT !.sets = @ \ {u}]
        /\ UNCHANGED <<typeVars, current, pending, then, quiet, fresh, substs, made, done, bound,
                       flagged>>
    BY DEF FixSet, Visiting
  <1>2. Linked' = Linked /\ Live' = Live /\ Gone' = Gone
    BY <1>1, LiveUnlessChecking, LiveUnlessCheckingNext DEF Linked, Gone, Walk
  <1>3. TypeOK'
    BY <1>1 DEF Inv, TypeOK, Walk
  <1>4. Partition' /\ NoneLost' /\ Clean' /\ Phase'
    BY <1>1, <1>2 DEF Inv, Partition, NoneLost, Clean, Phase
  <1> QED BY <1>3, <1>4 DEF Inv

-----------------------------------------------------------------------------
(* A step keeps the sets still to be visited on the list, whichever it is. *)
LEMMA WalkInv ==
    ASSUME Inv, Walk, Next
    PROVE  Walk'
  <1>1. visit \in [on : BOOLEAN, sets : SUBSET ConstraintSet, at : ConstraintSet]
    BY DEF Inv, TypeOK
  <1>2. ASSUME UNCHANGED <<unresolved, visit>>
        PROVE  Walk'
    BY <1>2 DEF Walk
  <1>3. ASSUME NEW c \in pending, AddConstraintToSet(c)
        PROVE  Walk'
    <2>1. PICK set : Link(c, set)
      BY <1>3 DEF AddConstraintToSet
    <2>2. /\ visit' = [visit EXCEPT !.sets = @ \ Merging(c)]
          /\ unresolved \ Merging(c) \subseteq unresolved'
      BY <2>1 DEF Link
    <2> QED BY <1>1, <2>2 DEF Walk
  <1>4. ASSUME NEW s, SubstConstraints(s)
        PROVE  Walk'
    <2>1. unresolved' = unresolved \ Depending(s) /\ visit' = [visit EXCEPT !.sets = @ \ Depending(s)]
      BY <1>4 DEF SubstConstraints
    <2> QED BY <1>1, <2>1 DEF Walk
  <1>5. ASSUME CheckUnresolved
        PROVE  Walk'
    BY <1>1, <1>5 DEF CheckUnresolved, PutBack, Walk
  <1>6. ASSUME NEW new, NotifySchemes(new)
        PROVE  Walk'
    <2>1. unresolved' = unresolved
      BY <1>6 DEF NotifySchemes
    <2>2. PICK moved : Relink(moved)
      BY <1>6 DEF NotifySchemes
    <2>3. PICK before :
              visit' = [visit EXCEPT !.sets = IF visit.at = NoSet THEN @
                                     ELSE IF visit.at \in moved
                                          THEN unresolved \ (before \cup {visit.at})
                                          ELSE @ \ moved]
      BY <2>2 DEF Relink
    <2> QED BY <1>1, <2>1, <2>3 DEF Walk
  <1>7. ASSUME RemoveSchematicConstraints
        PROVE  Walk'
    BY <1>7 DEF RemoveSchematicConstraints, Inferring, Walk
  <1>8. ASSUME Fix
        PROVE  Walk'
    <2>1. CASE FixCoercions
      BY <2>1 DEF FixCoercions, Walk
    <2>2. CASE EndFix
      BY <2>2 DEF EndFix, NoVisit, Walk
    <2>3. ASSUME NEW u \in visit.sets, FixSet(u) \/ PassSet(u)
          PROVE  Walk'
      BY <1>1, <2>3 DEF FixSet, PassSet, Visiting, Walk
    <2> QED BY <1>8, <2>1, <2>2, <2>3 DEF Fix
  <1>9. ASSUME Check
        PROVE  Walk'
    <2>1. CASE \E c \in pending : AddConstraintToSet(c)
      BY <1>3, <2>1
    <2>2. CASE SubstElsewhere
      BY <1>4, <2>2 DEF SubstElsewhere
    <2>3. CASE AddFresh \/ AddSubsts \/ CheckFails \/ \E s \in workList : TakeSet(s)
      BY <1>2, <2>3 DEF AddFresh, AddSubsts, CheckFails, TakeSet
    <2>4. CASE \E resolved \in SUBSET current.elems, s \in SubstsFor(current.vars) :
                  \E new \in Made(s) : CheckSatisfied(resolved, s, new)
      BY <1>2, <2>4 DEF CheckSatisfied
    <2>5. CASE \E new \in Made(NoSubsts) : NotifySchemes(new)
      BY <1>6, <2>5
    <2> QED BY <1>5, <1>9, <2>1, <2>2, <2>3, <2>4, <2>5 DEF Check
  <1>10. ASSUME Infer
         PROVE  Walk'
    <2>1. CASE \E c \in Constraint, V \in SUBSET TypeVar, asUnresolved, checked \in BOOLEAN :
                  AddConstraint(c, V, asUnresolved, checked)
      BY <1>2, <2>1 DEF AddConstraint
    <2>2. CASE \E s \in SubstsFor(TypeVar) : ApplySubsts(s)
      BY <1>4, <2>2 DEF ApplySubsts
    <2> QED BY <1>7, <1>10, <2>1, <2>2 DEF Infer
  <1> QED BY <1>8, <1>9, <1>10 DEF Next

LEMMA NextInv ==
    ASSUME Inv, Walk, Next
    PROVE  Inv'
  <1>1. ASSUME Check
        PROVE  Inv'
    <2>1. CASE \E c \in pending : AddConstraintToSet(c)
      BY <2>1, AddConstraintToSetInv
    <2>2. CASE SubstElsewhere \/ AddFresh \/ AddSubsts
      BY <2>2, SubstElsewhereInv, AddFreshInv, AddSubstsInv
    <2>3. CASE \E s \in workList : TakeSet(s)
      BY <2>3, TakeSetInv
    <2>4. CASE CheckUnresolved \/ CheckFails
      BY <2>4, CheckUnresolvedInv, CheckFailsInv
    <2>5. CASE /\ pc = "check"
               /\ \E resolved \in SUBSET current.elems, s \in SubstsFor(current.vars) :
                     \E new \in Made(s) : CheckSatisfied(resolved, s, new)
      BY <2>5, CheckSatisfiedInv
    <2>6. CASE \E new \in Made(NoSubsts) : NotifySchemes(new)
      BY <2>6, NotifySchemesInv
    <2> QED BY <1>1, <2>1, <2>2, <2>3, <2>4, <2>5, <2>6 DEF Check
  <1>2. ASSUME Fix
        PROVE  Inv'
    <2>1. CASE FixCoercions \/ EndFix \/ \E u \in visit.sets : PassSet(u)
      BY <2>1, FixStepInv
    <2>2. CASE \E u \in visit.sets : FixSet(u)
      BY <2>2, FixSetInv
    <2> QED BY <1>2, <2>1, <2>2 DEF Fix
  <1>3. ASSUME Infer
        PROVE  Inv'
    <2>1. CASE \E c \in Constraint, V \in SUBSET TypeVar, asUnresolved, checked \in BOOLEAN :
                  AddConstraint(c, V, asUnresolved, checked)
      BY <2>1, AddConstraintInv
    <2>2. CASE \E s \in SubstsFor(TypeVar) : ApplySubsts(s)
      BY <2>2, ApplySubstsInv
    <2>3. CASE RemoveSchematicConstraints
      BY <2>3, RemoveSchematicConstraintsInv
    <2> QED BY <1>3, <2>1, <2>2, <2>3 DEF Infer
  <1> QED BY <1>1, <1>2, <1>3 DEF Next

LEMMA StutterInv ==
    ASSUME Inv, Walk, UNCHANGED vars
    PROVE  Inv' /\ Walk'
  <1>1. UNCHANGED <<typeVars, unresolved, workList, current, pending, then, quiet, fresh, substs,
                    made, done, bound, flagged, pc, visit>>
    BY DEF vars
  <1>2. Live' = Live /\ Linked' = Linked /\ Gone' = Gone
    BY <1>1 DEF Live, Linked, Gone
  <1>3. TypeOK'
    BY <1>1 DEF Inv, TypeOK
  <1>4. Partition' /\ NoneLost' /\ Clean' /\ Phase' /\ Walk'
    BY <1>1, <1>2 DEF Inv, Partition, NoneLost, Clean, Phase, Walk
  <1> QED BY <1>3, <1>4 DEF Inv

LEMMA SpecInv == Spec => [](Inv /\ Walk)
  <1>1. Init => Inv /\ Walk
    <2>1. Init => Walk
      BY DEF Init, NoVisit, Walk
    <2> QED BY <2>1, InitInv
  <1>2. (Inv /\ Walk) /\ [Next]_vars => (Inv /\ Walk)'
    BY NextInv, WalkInv, StutterInv
  <1> QED BY <1>1, <1>2, PTL DEF Spec

(* Type correctness of the constraint sets (class Predicates).             *)
THEOREM TypeCorrect == Spec => []TypeOK
  <1>1. Inv /\ Walk => TypeOK
    BY DEF Inv
  <1> QED BY <1>1, SpecInv, PTL

(* addConstraintToSet merges whatever shares a variable, and nothing that  *)
(* takes sets apart, substitutes, checks or fixes them brings two together *)
(* again: the sets partition the constraints by their variables.           *)
THEOREM SetsApart == Spec => []Partition
  <1>1. Inv /\ Walk => Partition
    BY DEF Inv
  <1> QED BY <1>1, SpecInv, PTL

(* No constraint is dropped, or entered twice, on its way between sets.    *)
THEOREM NothingLost == Spec => []NoneLost
  <1>1. Inv /\ Walk => NoneLost
    BY DEF Inv
  <1> QED BY <1>1, SpecInv, PTL

(* No set holds a variable that has a substitution, although the work list *)
(* is never searched for it.                                               *)
THEOREM SetsUpToDate == Spec => []UpToDate
  <1>1. Inv /\ Walk => UpToDate
    BY DEF Inv, Clean, Phase, Gone, Live, Vars, UpToDate
  <1> QED BY <1>1, SpecInv, PTL
=============================================================================
