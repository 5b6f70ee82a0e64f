---------------------------- MODULE Environments ----------------------------
(***************************************************************************)
(* Environments: the name, type and segment tables a script is compiled    *)
(* in, the tables of the environments it makes, and the linkage between    *)
(* them: names, types and byte-code segments are integers of one           *)
(* environment and are translated whenever code or data moves to another,  *)
(* is written to an archive, or is read back from one, possibly by a       *)
(* program with other built-in names.                                      *)
(*                                                                         *)
(* A type signature is the sequence of the identifiers of its type         *)
(* constructors, in the order storeTypeSig writes them.  A segment is its  *)
(* name constants and its type constants.                                  *)
(***************************************************************************)
EXTENDS IdTable, FiniteSets, Functions

CONSTANTS
    Sources,      \* environments scripts are compiled in: no segment table
    Targets,      \* environments made by mkEnv or read from an archive
    Codes,        \* the byte-code segments of the scripts
    Script,       \* [Sources -> Seq(Codes)]: the segments of each script
    CodeNames,    \* [Codes -> Seq(identifier)]: its name constants
    CodeSigs,     \* [Codes -> Seq(signature)]: its type constants
    FnCode,       \* signature -> the segment of its methods (_evalFnSeg)
    Builds,       \* the runs: built-in tables [names, sigs], each a sequence
    HashName,     \* identifier -> Nat
    HashSig,      \* signature -> Nat
    HashCode,     \* meaning of a segment -> Nat
    NoCode, NoArchive,
    MaxHeld,      \* names the program maps and holds
    MaxSegs,      \* segments in the targets when a copy starts
    WorkBound     \* nested calls of copySegment

Idents == DOMAIN HashName
Sigs == DOMAIN HashSig

ASSUME EnvironmentsAssumption ==
    /\ Sources \cap Targets = {}
    /\ Script \in [Sources -> Seq(Codes)]
    /\ Codes = UNION {ToSet(Script[s]) : s \in Sources}
    /\ CodeNames \in [Codes -> Seq(Idents)]
    /\ CodeSigs \in [Codes -> Seq(Sigs)]
    /\ Sigs \subseteq Seq(Idents)
    /\ FnCode \in [Sigs -> Codes \cup {NoCode}]
    /\ Builds \in Seq([names : Seq(Idents), sigs : Seq(Sigs)]) /\ Builds # <<>>
    /\ \A b \in ToSet(Builds) : IsInjective(b.names) /\ IsInjective(b.sigs)
    /\ HashName \in [Idents -> Nat] /\ HashSig \in [Sigs -> Nat]
    /\ \A c \in Codes : HashCode[[names |-> CodeNames[c], sigs |-> CodeSigs[c]]] \in Nat
    /\ WorkBound \in Nat \ {0}

VARIABLES
    program,      \* which of the runs of the program this is
    env,          \* environment -> [live, names, types, segs]
    code,         \* Codes -> the compiled segment or NoCode
    held,         \* names the program holds: [env, name, ident]
    work,         \* nested calls of copySegment, innermost last
    archive       \* what insertBinEnv wrote last, or NoArchive

vars == <<program, env, code, held, work, archive>>

Envs == Sources \cup Targets

NoSegs == EmptyTable
FreshEnv == [live |-> TRUE, names |-> EmptyTable, types |-> EmptyTable, segs |-> NoSegs]
DeadEnv == [FreshEnv EXCEPT !.live = FALSE]

----------------------------------------------------------------------------
(* Built-in names are 0 .. BNames - 1; the name of an environment's entry  *)
(* is its integer plus BNames.  The same for types.                        *)
built == Builds[program]
BNames == Len(built.names)
BTypes == Len(built.sigs)

PosIn(seq, x) == IF \E n \in 1..Len(seq) : seq[n] = x
                 THEN (CHOOSE n \in 1..Len(seq) : seq[n] = x) - 1 ELSE NoId

NameIn(names, ident) ==
    LET id == LookUp(names, ident, HashName[ident])
    IN  IF EntryOf(names, id).alt # NoId THEN EntryOf(names, id).alt ELSE BNames + id
TypeIn(types, sig) ==
    LET id == LookUp(types, sig, HashSig[sig])
    IN  IF EntryOf(types, id).alt # NoId THEN EntryOf(types, id).alt ELSE BTypes + id

(* useName: enters an identifier that is not there, with the built-in      *)
(* name, if it has one, as its alternate.                                  *)
UseName(names, ident) ==
    IF LookUp(names, ident, HashName[ident]) # NoId THEN names
    ELSE Add(names, [key |-> ident, hash |-> HashName[ident], ref |-> 1,
                     alt |-> PosIn(built.names, ident)])

UseNames(names, idents) == Through(UseName, names, idents)

(* nameString_ and typeSignature: what a name and a type stand for.  A     *)
(* type that is not in use, as a segment can have while it is mapped, is   *)
(* reported and has the signature ERROR, which is no type's: here <<>>.    *)
IdentOf(names, name) ==
    IF name < BNames THEN built.names[name + 1]
    ELSE IF InUse(names, name - BNames) THEN KeyOf(names, name - BNames) ELSE "none"
SigOf(types, type) ==
    IF type < BTypes THEN built.sigs[type + 1]
    ELSE IF InUse(types, type - BTypes) THEN KeyOf(types, type - BTypes) ELSE <<>>

(* Mutant: mapName does not look the identifier up first.                  *)
MapNameBlindly(dst, src, name) ==
    IF name < BNames THEN UseName(dst, built.names[name + 1])
    ELSE Add(dst, [EntryOf(src, name - BNames) EXCEPT !.ref = 1, !.alt = NoId])

(* mapName: a built-in name keeps its number, but the destination gets an  *)
(* entry for it; any other name is entered by its identifier.              *)
MapName(dst, src, name) ==
    IF name < BNames THEN UseName(dst, built.names[name + 1])
    ELSE LET e == EntryOf(src, name - BNames)
         IN  IF LookUp(dst, e.key, e.hash) # NoId THEN dst
             ELSE Add(dst, [e EXCEPT !.ref = 1, !.alt = NoId])
MappedName(dst, src, name) ==
    IF name < BNames THEN name
    ELSE BNames + LookUp(dst, KeyOf(src, name - BNames), EntryOf(src, name - BNames).hash)

(* Mutant: the names of type constructors are not entered.                 *)
LeaveTypeConNames(names, sig) == names

(* addTypeConNames: the destination has a name for every type constructor. *)
AddTypeConNames(names, sig) == UseNames(names, sig)

UseType(types, sig) ==
    IF LookUp(types, sig, HashSig[sig]) # NoId THEN types
    ELSE Add(types, [key |-> sig, hash |-> HashSig[sig], ref |-> 1, fn |-> NoId,
                     alt |-> PosIn(built.sigs, sig)])
UseTypeIn(e, sig) ==
    IF LookUp(e.types, sig, HashSig[sig]) # NoId THEN e
    ELSE [e EXCEPT !.types = UseType(@, sig), !.names = AddTypeConNames(@, sig)]

----------------------------------------------------------------------------
(* What a segment whose environment has these tables says.                 *)
Meaning(e, seg) ==
    [names |-> [n \in DOMAIN seg.names |-> IdentOf(e.names, seg.names[n])],
     sigs  |-> [n \in DOMAIN seg.types |-> SigOf(e.types, seg.types[n])]]
CodeMeaning(c) == [names |-> CodeNames[c], sigs |-> CodeSigs[c]]

(* A type with methods is not built in.  hashSegment, whose value is to be *)
(* unique for the code, the names and the types of a segment, tells one of *)
(* methods at least from one with the same names and as many other types.  *)
ASSUME MethodsAssumption ==
    /\ \A b \in ToSet(Builds) : \A sig \in ToSet(b.sigs) : FnCode[sig] = NoCode
    /\ NoCode \notin Codes
    /\ \A sig \in Sigs : \A c \in Codes :
          LET m == FnCode[sig]
          IN  /\ m # NoCode
              /\ HashCode[CodeMeaning(c)] = HashCode[CodeMeaning(m)]
              /\ CodeNames[c] = CodeNames[m] /\ Len(CodeSigs[c]) = Len(CodeSigs[m])
              => CodeSigs[c] = CodeSigs[m]

(* eqSegment: the headers, which have the hash value a segment was given   *)
(* when it was compiled, are equal, and so are the identifiers and         *)
(* signatures its constants stand for, each segment read through the       *)
(* environment its rack points to.                                         *)
EqSegment(e1, seg1, e2, seg2) ==
    seg1.hash = seg2.hash /\ Meaning(e1, seg1) = Meaning(e2, seg2)

(* Mutant: segments are compared byte by byte, constants included.         *)
LookUpSameBytes(e, src, seg) ==
    FirstInChain(e.segs, seg.hash, LAMBDA entry : entry.key = seg)

LookUpSegment(e, src, seg) ==
    FirstInChain(e.segs, seg.hash,
                 LAMBDA entry : EqSegment(e, entry.key, env[src], seg))

NamesMapped(dst, src, names) ==
    Through(LAMBDA acc, name : MapName(acc, src, name), dst, names)

(* copySegment of a segment that is not in the table: it is added, its     *)
(* environment pointer replaced and its names mapped; mapData then goes    *)
(* through its types one at a time, each of which may copy another.        *)
Copied(e, src, seg) ==
    LET names == NamesMapped(e.names, env[src].names, seg.names)
        copy  == [seg EXCEPT !.names = [n \in DOMAIN seg.names |->
                      MappedName(names, env[src].names, seg.names[n])]]
    IN  [e EXCEPT !.names = names,
                  !.segs = Add(@, [key |-> copy, hash |-> seg.hash, ref |-> 1])]

Frame(d, src, id) == [env |-> d, src |-> src, seg |-> id, next |-> 1]

CodeEnv == [c \in Codes |-> CHOOSE s \in Sources : c \in ToSet(Script[s])]

----------------------------------------------------------------------------
Init ==
    /\ program = 1
    /\ env = [e \in Envs |-> IF e \in Sources THEN FreshEnv ELSE DeadEnv]
    /\ code = [c \in Codes |-> NoCode]
    /\ held = {}
    /\ work = <<>>
    /\ archive = NoArchive

Idle == work = <<>>
Compiled == \A c \in Codes : code[c] # NoCode

(* The compiler enters the constants of the segments of a script in the    *)
(* script's environment.                                                   *)
CompiledIn(e, c) == Through(UseTypeIn, [e EXCEPT !.names = UseNames(@, CodeNames[c])],
                             CodeSigs[c])
Segment(e, c) ==
    [names |-> [n \in DOMAIN CodeNames[c] |-> NameIn(e.names, CodeNames[c][n])],
     types |-> [n \in DOMAIN CodeSigs[c] |-> TypeIn(e.types, CodeSigs[c][n])],
     hash  |-> HashCode[CodeMeaning(c)]]

Compile(s) ==
    LET e == Through(CompiledIn, env[s], Script[s])
    IN  /\ \A c \in ToSet(Script[s]) : code[c] = NoCode
        /\ env' = [env EXCEPT ![s] = e]
        /\ code' = [c \in Codes |-> IF CodeEnv[c] = s THEN Segment(e, c) ELSE code[c]]
        /\ UNCHANGED <<program, held, work, archive>>

(* The environments that can be made are alike: they are made in one order. *)
NextTarget(d) == ~env[d].live /\ d = CHOOSE t \in Targets : ~env[t].live

MkEnv(d) ==
    /\ Idle
    /\ Compiled
    /\ NextTarget(d)
    /\ env' = [env EXCEPT ![d] = FreshEnv]
    /\ UNCHANGED <<program, code, held, work, archive>>

HeldIn(d) == {h \in held : h.env = d}

(* MAP_N: a literal name of a running segment is mapped to d and held.     *)
MapHeldName(d, c, n) ==
    LET s    == CodeEnv[c]
        name == code[c].names[n]
        dst  == MapName(env[d].names, env[s].names, name)
    IN  /\ Idle
        /\ Compiled
        /\ env[d].live
        /\ Cardinality(held) < MaxHeld
        /\ env' = [env EXCEPT ![d].names = dst]
        /\ held' = held \cup {[env |-> d, name |-> MappedName(dst, env[s].names, name),
                               ident |-> CodeNames[c][n]]}
        /\ UNCHANGED <<program, code, work, archive>>

SegsMade == UNION {{<<t, id>> : id \in Ids(env[t].segs)} : t \in Targets}

CopySegment(d, src, seg) ==
    /\ Cardinality(SegsMade) < MaxSegs
    /\ LookUpSegment(env[d], src, seg) = NoId
    /\ env' = [env EXCEPT ![d] = Copied(@, src, seg)]
    /\ work' = <<Frame(d, src, NextId(env[d].segs))>>
    /\ UNCHANGED <<program, code, held, archive>>

(* A closure of a script, or of another environment, is copied to d; the   *)
(* segment of a type's methods is no closure's.                            *)
CopyCode(d, c) ==
    /\ Idle
    /\ c \notin Range(FnCode)
    /\ Compiled
    /\ env[d].live
    /\ CopySegment(d, CodeEnv[c], code[c])

CopyBetween(d, e, id) ==
    /\ Idle
    /\ env[d].live
    /\ env[e].live
    /\ e # d
    /\ \A t \in Ids(env[e].types) : EntryOf(env[e].types, t).fn # id
    /\ CopySegment(d, e, KeyOf(env[e].segs, id))

----------------------------------------------------------------------------
(* mapData: the next type constant of the innermost segment being copied.  *)
Top == work[Len(work)]
SegOfTop == KeyOf(env[Top.env].segs, Top.seg)
Advanced == [work EXCEPT ![Len(work)].next = @ + 1]
SetType(segs, id, n, type) == [segs EXCEPT !.vec[id + 1].key.types[n] = type]
MoreTypes == ~Idle /\ Top.next <= Len(SegOfTop.types)
NextType == SegOfTop.types[Top.next]

MapBuiltInType ==
    /\ MoreTypes
    /\ NextType < BTypes
    /\ env' = [env EXCEPT ![Top.env] = UseTypeIn(@, built.sigs[NextType + 1])]
    /\ work' = Advanced
    /\ UNCHANGED <<program, code, held, archive>>

SrcType == EntryOf(env[Top.src].types, NextType - BTypes)
DstType == LookUp(env[Top.env].types, SrcType.key, SrcType.hash)

MapKnownType ==
    /\ MoreTypes
    /\ NextType >= BTypes
    /\ DstType # NoId
    /\ env' = [env EXCEPT ![Top.env].segs =
                   SetType(@, Top.seg, Top.next, BTypes + DstType)]
    /\ work' = Advanced
    /\ UNCHANGED <<program, code, held, archive>>

(* The segment of the methods of a type of environment e: among the        *)
(* compiled segments, or in e's table.                                     *)
FnId(e, sig) == EntryOf(env[e].types, LookUp(env[e].types, sig, HashSig[sig])).fn
HasFn(e, sig) == IF e \in Sources THEN FnCode[sig] # NoCode ELSE FnId(e, sig) # NoId
FnSegment(e, sig) == IF e \in Sources THEN code[FnCode[sig]]
                     ELSE KeyOf(env[e].segs, FnId(e, sig))
FnEnv(e, sig) == IF e \in Sources THEN CodeEnv[FnCode[sig]] ELSE e

(* Mutant: the methods are not linked to the type.                         *)
EnteredWithoutMethods(e, fn) ==
    [e EXCEPT !.names = AddTypeConNames(@, SrcType.key),
              !.types = Add(@, [SrcType EXCEPT !.ref = 1, !.alt = NoId, !.fn = NoId])]

(* Mutant: the type is not entered until its methods have been copied.     *)
NotEntered(e, fn) == [e EXCEPT !.names = AddTypeConNames(@, SrcType.key)]

(* mapType of a type the destination does not know: it is entered before   *)
(* its methods are copied, so that a method that mentions its own type     *)
(* finds it; the constant itself is replaced when mapType has returned     *)
(* (MapKnownType).                                                         *)
Entered(e, fn) ==
    [e EXCEPT !.names = AddTypeConNames(@, SrcType.key),
              !.types = Add(@, [SrcType EXCEPT !.ref = 1, !.alt = NoId, !.fn = fn])]

NextIsNew == MoreTypes /\ NextType >= BTypes /\ DstType = NoId
FnInTop == LookUpSegment(Entered(env[Top.env], NoId), FnEnv(Top.src, SrcType.key),
                         FnSegment(Top.src, SrcType.key))

EnterType ==
    /\ NextIsNew
    /\ HasFn(Top.src, SrcType.key) => FnInTop # NoId
    /\ env' = [env EXCEPT ![Top.env] =
                   Entered(@, IF HasFn(Top.src, SrcType.key) THEN FnInTop ELSE NoId)]
    /\ UNCHANGED <<program, code, held, work, archive>>

EnterTypeAndCopyMethods ==
    LET src == FnEnv(Top.src, SrcType.key)
        id  == NextId(env[Top.env].segs)
    IN  /\ NextIsNew
        /\ HasFn(Top.src, SrcType.key)
        /\ FnInTop = NoId
        /\ Len(work) < WorkBound
        /\ env' = [env EXCEPT ![Top.env] =
                       Copied(Entered(@, id), src, FnSegment(Top.src, SrcType.key))]
        /\ work' = Append(work, Frame(Top.env, src, id))
        /\ UNCHANGED <<program, code, held, archive>>

EndCopy ==
    /\ ~Idle
    /\ ~MoreTypes
    /\ work' = SubSeq(work, 1, Len(work) - 1)
    /\ UNCHANGED <<program, env, code, held, archive>>

----------------------------------------------------------------------------
(* insertBinEnv, insertBinName: names and types are written as integers of *)
(* the environment's own tables, a built-in one as the entry that has it   *)
(* as its alternate.                                                       *)
NameIdOf(e, name) == IF name >= BNames THEN name - BNames
                     ELSE LookUpByAlt(e.names, name, HashName[built.names[name + 1]])
TypeIdOf(e, type) == IF type >= BTypes THEN type - BTypes
                     ELSE LookUpByAlt(e.types, type, HashSig[built.sigs[type + 1]])
ConId(e, ident) == LookUp(e.names, ident, HashName[ident])

(* The pointers lookUpByAlt and lookUp return are used without a test.     *)
CanStore(d) ==
    LET e == env[d]
    IN  /\ \A id \in Ids(e.segs) :
              /\ \A n \in DOMAIN KeyOf(e.segs, id).names :
                    InUse(e.names, NameIdOf(e, KeyOf(e.segs, id).names[n]))
              /\ \A n \in DOMAIN KeyOf(e.segs, id).types :
                    InUse(e.types, TypeIdOf(e, KeyOf(e.segs, id).types[n]))
        /\ \A id \in Ids(e.types) : \A n \in DOMAIN KeyOf(e.types, id) :
              ConId(e, KeyOf(e.types, id)[n]) # NoId
        /\ \A h \in HeldIn(d) : InUse(e.names, NameIdOf(e, h.name))

MapKeys(records, F(_)) ==
    [n \in DOMAIN records |-> [records[n] EXCEPT !.entry.key = F(@)]]

Store(d) ==
    LET e == env[d]
        sig(s) == [n \in DOMAIN s |-> ConId(e, s[n])]
        seg(s) == [s EXCEPT !.names = [n \in DOMAIN @ |-> NameIdOf(e, @[n])],
                            !.types = [n \in DOMAIN @ |-> TypeIdOf(e, @[n])]]
    IN  /\ Idle
        /\ env[d].live
        /\ CanStore(d)
        /\ archive = NoArchive
        /\ archive' = [names |-> Stored(e.names),
                       types |-> MapKeys(Stored(e.types), sig),
                       segs  |-> MapKeys(Stored(e.segs), seg),
                       held  |-> {[id |-> NameIdOf(e, h.name), ident |-> h.ident] :
                                  h \in HeldIn(d)}]
        /\ UNCHANGED <<program, env, code, held, work>>

(* Another run of the program, with its own scripts and perhaps another    *)
(* table of built-in names: only the archive is left.                      *)
Restart ==
    /\ archive # NoArchive
    /\ program < Len(Builds)
    /\ program' = program + 1
    /\ env' = [e \in Envs |-> IF e \in Sources THEN FreshEnv ELSE DeadEnv]
    /\ code' = [c \in Codes |-> NoCode]
    /\ held' = {}
    /\ work' = <<>>
    /\ UNCHANGED archive

(* Mutant: what was built in when the archive was written is kept.         *)
WithOldAlt(r, alt) == r

(* extractBinEnv: alternates are found again from what is built in now.    *)
WithAlt(r, alt) == [r EXCEPT !.entry.alt = alt]
LoadedNames == Loaded([n \in DOMAIN archive.names |->
                   WithAlt(archive.names[n], PosIn(built.names, archive.names[n].entry.key))])

LoadedTypes(names) ==
    LET sig(s)  == [n \in DOMAIN s |-> KeyOf(names, s[n])]
        decoded == MapKeys(archive.types, sig)
    IN  Loaded([n \in DOMAIN decoded |->
            WithAlt(decoded[n], PosIn(built.sigs, decoded[n].entry.key))])

NameFromId(names, id) == IF EntryOf(names, id).alt # NoId THEN EntryOf(names, id).alt
                         ELSE BNames + id
TypeFromId(types, id) == IF EntryOf(types, id).alt # NoId THEN EntryOf(types, id).alt
                         ELSE BTypes + id

LoadedSegs(names, types) ==
    LET seg(s) == [s EXCEPT !.names = [n \in DOMAIN @ |-> NameFromId(names, @[n])],
                            !.types = [n \in DOMAIN @ |-> TypeFromId(types, @[n])]]
    IN  Loaded(MapKeys(archive.segs, seg))

(* The type constructors are those of registered modules: the scripts that *)
(* declare them have been compiled.                                        *)
Load(d) ==
    LET names == LoadedNames
        types == LoadedTypes(names)
    IN  /\ Idle
        /\ Compiled
        /\ archive # NoArchive
        /\ NextTarget(d)
        /\ env' = [env EXCEPT ![d] = [live |-> TRUE, names |-> names, types |-> types,
                                      segs |-> LoadedSegs(names, types)]]
        /\ held' = held \cup {[env |-> d, name |-> NameFromId(names, h.id),
                               ident |-> h.ident] : h \in archive.held}
        /\ UNCHANGED <<program, code, work, archive>>

----------------------------------------------------------------------------
Mapping == \/ MapBuiltInType
           \/ MapKnownType
           \/ EnterType
           \/ EnterTypeAndCopyMethods
           \/ EndCopy

Next ==
    \/ \E s \in Sources : Compile(s)
    \/ \E d \in Targets :
          \/ MkEnv(d)
          \/ Store(d)
          \/ Load(d)
          \/ \E c \in Codes : \/ CopyCode(d, c)
                             \/ \E n \in DOMAIN CodeNames[c] : MapHeldName(d, c, n)
          \/ \E e \in Targets : \E id \in Ids(env[e].segs) : CopyBetween(d, e, id)
    \/ Mapping
    \/ Restart

(* copySegment and mapType are calls of one thread, which goes on while it *)
(* can: weak fairness of Mapping, with its guard in place of ENABLED.      *)
CanMap == ~Idle /\ (MoreTypes => \/ NextType < BTypes
                                 \/ DstType # NoId
                                 \/ ~HasFn(Top.src, SrcType.key)
                                 \/ FnInTop # NoId
                                 \/ Len(work) < WorkBound)
MappingGoesOn == []<>~CanMap \/ []<><<Mapping>>_vars

Spec == Init /\ [][Next]_vars /\ MappingGoesOn

----------------------------------------------------------------------------
(* The code keeps its tables: the shapes of the variables, and every table *)
(* sound as IdTable states it.                                             *)
TypeOK ==
    /\ program \in 1..Len(Builds)
    /\ DOMAIN env = Envs
    /\ \A e \in Envs :
          /\ env[e].live \in BOOLEAN
          /\ \A t \in {env[e].names, env[e].types, env[e].segs} : TableSound(t)
          /\ e \in Sources => env[e].segs = NoSegs
    /\ DOMAIN code = Codes
    /\ \A h \in held : h.env \in Targets /\ h.name \in Nat
    /\ Len(work) <= WorkBound
    /\ \A n \in DOMAIN work : work[n].env \in Targets /\ work[n].src \in Envs

(* eqName_ compares two names of one environment as integers, so an        *)
(* identifier must have one entry, whichever of useName, mapName,          *)
(* addTypeConNames and load came to it first; eqType_ needs the same of    *)
(* types.                                                                  *)
OneEntryEach ==
    \A e \in Envs :
        /\ \A i, j \in Ids(env[e].names) :
              KeyOf(env[e].names, i) = KeyOf(env[e].names, j) => i = j
        /\ \A i, j \in Ids(env[e].types) :
              KeyOf(env[e].types, i) = KeyOf(env[e].types, j) => i = j

(* While a segment is being mapped lookUpSegment may miss it, because its  *)
(* constants are read in an environment that is not theirs yet, so that    *)
(* methods which come back to a segment like themselves are copied again.  *)
(* But each type is entered once, and before its methods are copied: at    *)
(* rest a segment is in the table at most once for each type that has such *)
(* methods, and once more if it is a closure's.                            *)
Copies(d, c) == {id \in Ids(env[d].segs) :
                     Meaning(env[d], KeyOf(env[d].segs, id)) = CodeMeaning(c)}
Alike(c, codes) == {k \in codes : CodeMeaning(k) = CodeMeaning(c)}
TypesWith(c) == {sig \in Sigs : FnCode[sig] \in Alike(c, Codes)}
ClosuresLike(c) == Alike(c, Codes \ Range(FnCode))
CopiesBounded ==
    Idle => \A d \in Targets : \A c \in Codes :
        Cardinality(Copies(d, c)) <=
            Cardinality(TypesWith(c)) + (IF ClosuresLike(c) = {} THEN 0 ELSE 1)

(* Whatever environment a segment or a name has been copied, written or    *)
(* read into, it says what the script said: a segment in a table, when no  *)
(* copy is under way, has the constants of a compiled segment, and a name  *)
(* the program holds has the identifier it was made from.                  *)
SameMeaning ==
    /\ Idle => \A d \in Targets : \A id \in Ids(env[d].segs) :
          \E c \in Codes : Meaning(env[d], KeyOf(env[d].segs, id)) = CodeMeaning(c)
    /\ \A h \in held : IdentOf(env[h.env].names, h.name) = h.ident

(* storeSegment, storeTypeSig and insertBinName use what lookUpByAlt and   *)
(* lookUp find without a test: every built-in name and type of a segment   *)
(* or of a held name has an entry in the environment's own tables, and     *)
(* every type constructor a name.                                          *)
Storable == Idle => \A d \in Targets : CanStore(d)

(* A type descriptor's methods are the segment its type was compiled with, *)
(* also after the archive has renumbered nothing but what postLoad finds.  *)
MethodsKept ==
    Idle => \A d \in Targets : \A id \in Ids(env[d].types) :
        LET e == env[d]
            t == EntryOf(e.types, id)
        IN  IF FnCode[t.key] = NoCode \/ t.alt # NoId THEN t.fn = NoId
            ELSE /\ InUse(e.segs, t.fn)
                 /\ Meaning(e, KeyOf(e.segs, t.fn)) = CodeMeaning(FnCode[t.key])

(* mapType and copySegment call each other; the chain of calls ends,       *)
(* although a type's methods mention the type, and two types each other.   *)
CopyEnds == ~Idle ~> Idle

(* Both registries keep what Registry promises.                            *)
Bindings(t) == {<<KeyOf(t, id), id>> : id \in Ids(t)}
SavedNames == {<<r.entry.key, r.id>> : r \in ToSet(archive.names)}
SavedSig(s) == [n \in DOMAIN s |-> (CHOOSE p \in SavedNames : p[2] = s[n])[1]]
SavedTypes == {<<SavedSig(r.entry.key), r.id>> : r \in ToSet(archive.types)}
Names == INSTANCE Registry WITH
    Envs <- Targets,
    bind <- [e \in Targets |-> Bindings(env[e].names)],
    saved <- IF archive = NoArchive THEN NoArchive ELSE SavedNames,
    Nothing <- NoArchive
Types == INSTANCE Registry WITH
    Envs <- Targets,
    bind <- [e \in Targets |-> Bindings(env[e].types)],
    saved <- IF archive = NoArchive THEN NoArchive ELSE SavedTypes,
    Nothing <- NoArchive
RefinesRegistry == Names!Spec /\ Types!Spec
=============================================================================
