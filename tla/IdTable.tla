------------------------------ MODULE IdTable ------------------------------
(***************************************************************************)
(* The table behind NameTable, TypeTable and SegmentTable: a vector from   *)
(* small integers to entries and a hash table of chains, newest first,     *)
(* from keys back to the integers.  The three classes repeat the same code *)
(* for identifiers, type signatures and byte-code segments; what they are  *)
(* keyed by is a parameter of the operators.                               *)
(***************************************************************************)
EXTENDS Loops, SequencesExt

CONSTANT NSlots          \* _nSlots: chains of the hash table

ASSUME NSlotsAssumption == NSlots \in Nat \ {0}

NoId == -1               \* NULL_NAME, NULL_TYPE, NULL_SEGMENT_ID
Vacant == [ref |-> 0]    \* a NULL element of the vector

EmptyTable == [vec     |-> <<>>,
               chain   |-> [s \in 0..(NSlots - 1) |-> <<>>],
               minFree |-> 0]

InUse(t, id) == id \in 0..(Len(t.vec) - 1) /\ t.vec[id + 1] # Vacant
Ids(t) == {id \in 0..(Len(t.vec) - 1) : t.vec[id + 1] # Vacant}
EntryOf(t, id) == t.vec[id + 1]
KeyOf(t, id) == EntryOf(t, id).key

(* The first entry of the chain that satisfies Test.                       *)
FirstInChain(t, hash, Test(_)) ==
    LET chain == t.chain[hash % NSlots]
        hits  == {p \in 1..Len(chain) : Test(EntryOf(t, chain[p]))}
    IN  IF hits = {} THEN NoId
        ELSE chain[CHOOSE p \in hits : \A q \in hits : p <= q]

LookUp(t, key, hash) == FirstInChain(t, hash, LAMBDA e : e.key = key)
LookUpByAlt(t, alt, hash) == FirstInChain(t, hash, LAMBDA e : e.alt = alt)

(* The lowest vacant integer from minFree on, or a new one.                *)
NextId(t) ==
    LET free == {id \in t.minFree..(Len(t.vec) - 1) : t.vec[id + 1] = Vacant}
    IN  IF free = {} THEN Len(t.vec)
        ELSE CHOOSE id \in free : \A other \in free : id <= other

Put(vec, id, entry) == IF id < Len(vec) THEN [vec EXCEPT ![id + 1] = entry]
                       ELSE vec \o [n \in 1..(id - Len(vec)) |-> Vacant] \o <<entry>>

(* Mutant: the chain is chosen by the integer instead of the hash value.   *)
AddEntryById(t, id, entry) ==
    [t EXCEPT !.vec = Put(t.vec, id, entry), !.chain[id % NSlots] = <<id>> \o @]

AddEntry(t, id, entry) ==
    [t EXCEPT !.vec = Put(t.vec, id, entry),
              !.chain[entry.hash % NSlots] = <<id>> \o @]

(* addName, addType, addSegment of a key that is not there: the integer is *)
(* taken, so the search for the next one starts after it.                  *)
Add(t, entry) ==
    [AddEntry(t, NextId(t), entry) EXCEPT !.minFree = NextId(t) + 1]

Drop(t, id) ==
    IF ~InUse(t, id) THEN t
    ELSE IF EntryOf(t, id).ref > 1
         THEN [t EXCEPT !.vec[id + 1].ref = @ - 1]
         ELSE [t EXCEPT !.vec[id + 1] = Vacant,
                        !.chain[EntryOf(t, id).hash % NSlots] = Remove(@, id),
                        !.minFree = IF id < @ THEN id ELSE @]

(* What store writes: the entries in use in the order of their integers,   *)
(* each with its integer, and what load builds from it, one addEntry per   *)
(* record: the vacant integers are kept, the chains are not, and the       *)
(* search for a vacant integer starts at 0 again.                          *)
Stored(t) ==
    Through(LAMBDA saved, id : IF InUse(t, id)
                               THEN Append(saved, [id |-> id, entry |-> EntryOf(t, id)])
                               ELSE saved,
            <<>>, [n \in 1..Len(t.vec) |-> n - 1])

(* ISegmentTable::load counts the records for the next id, which is the    *)
(* same here: without drops no id is vacant.                               *)
Loaded(records) ==
    Through(LAMBDA t, r : AddEntry(t, r.id, r.entry), EmptyTable, records)

----------------------------------------------------------------------------
(* What every operation keeps: a chain holds the integers in use whose     *)
(* hash is its own, each once, and no vacant integer is below minFree.     *)
ChainsSound(t) ==
    \A s \in 0..(NSlots - 1) :
        /\ IsInjective(t.chain[s])
        /\ ToSet(t.chain[s]) = {id \in Ids(t) : EntryOf(t, id).hash % NSlots = s}
VacantAboveMinFree(t) == \A id \in 0..(t.minFree - 1) : InUse(t, id)
TableSound(t) == ChainsSound(t) /\ VacantAboveMinFree(t)
=============================================================================
