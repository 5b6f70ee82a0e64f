-------------------------- MODULE EnvironmentsMethods --------------------------
(***************************************************************************)
(* A type keeps the methods it was compiled with, wherever it is copied,   *)
(* written or read, for every script, table of built-in names and hash     *)
(* function that MethodsAssumption allows.  While a segment of methods is  *)
(* being copied only its header and its names can be told (HeaderIn); when *)
(* nothing is being copied the invariant of EnvironmentsProofs gives the   *)
(* rest.                                                                   *)
(***************************************************************************)
EXTENDS EnvironmentsProofs

-----------------------------------------------------------------------------
(* The inductive invariant.                                                *)

\* seg has the header and the names of c, and as many types.
HeaderIn(b, e, seg, c) ==
    /\ seg.hash = HashOf(c)
    /\ DOMAIN seg.names = DOMAIN CodeNames[c] /\ DOMAIN seg.types = DOMAIN CodeSigs[c]
    /\ \A n \in DOMAIN seg.names : Says(b.names, e.names, seg.names[n], CodeNames[c][n])

\* fn is the segment of the methods of sig in e, or sig has none.
MethodIn(b, e, sig, fn) ==
    IF FnCode[sig] = NoCode THEN fn = NoId
    ELSE fn \in Ids(e.segs) /\ HeaderIn(b, e, KeyOf(e.segs, fn), FnCode[sig])
FnsRight(b, e) == \A i \in Ids(e.types) : MethodIn(b, e, KeyOf(e.types, i), EntryOf(e.types, i).fn)

MethodSaved(names, types, segs, sig, fn) ==
    IF FnCode[sig] = NoCode THEN fn = NoId
    ELSE fn \in SavedIds(segs) /\ SegSays(names, types, SavedKey(segs, fn), FnCode[sig])
SavedFnsRight(names, types, segs) ==
    \A n \in DOMAIN types :
        MethodSaved(names, types, segs, SigFrom(names, types[n].entry.key), types[n].entry.fn)

MInv == /\ \A d \in Targets : FnsRight(built, env[d])
        /\ archive # NoArchive => SavedFnsRight(archive.names, archive.types, archive.segs)

-----------------------------------------------------------------------------
(* Methods are told by the header and the names of their segment.          *)

\* A header and its names are kept while names are added.
LEMMA HeaderGrows ==
    ASSUME NEW b, NEW e, NEW f, Grows(e.names, f.names), NEW seg, NEW s,
           s.hash = seg.hash, s.names = seg.names, DOMAIN s.types = DOMAIN seg.types,
           NEW c, HeaderIn(b, e, seg, c)
    PROVE  HeaderIn(b, f, s, c)
  <1>1. \A n \in DOMAIN s.names : Says(b.names, f.names, s.names[n], CodeNames[c][n])
    BY GrowthKeeps DEF HeaderIn
  <1> QED BY <1>1 DEF HeaderIn

\* No segment of e has been dropped, or given another header or other names, in f.
HeadersKept(e, f) ==
    \A i \in Ids(e.segs) :
        /\ i \in Ids(f.segs)
        /\ KeyOf(f.segs, i).hash = KeyOf(e.segs, i).hash
        /\ KeyOf(f.segs, i).names = KeyOf(e.segs, i).names
        /\ DOMAIN KeyOf(f.segs, i).types = DOMAIN KeyOf(e.segs, i).types

\* What is added to a table of types is all that must be looked at.
LEMMA FnsKept ==
    ASSUME NEW b, NEW e, NEW f, Grows(e.names, f.names), HeadersKept(e, f), FnsRight(b, e),
           \A i \in Ids(f.types) : \/ i \in Ids(e.types) /\ EntryOf(f.types, i) = EntryOf(e.types, i)
                                   \/ MethodIn(b, f, KeyOf(f.types, i), EntryOf(f.types, i).fn)
    PROVE  FnsRight(b, f)
  <1> SUFFICES ASSUME NEW i \in Ids(f.types) PROVE MethodIn(b, f, KeyOf(f.types, i), EntryOf(f.types, i).fn)
    BY DEF FnsRight
  <1>1. CASE i \in Ids(e.types) /\ EntryOf(f.types, i) = EntryOf(e.types, i)
    <2> DEFINE sig == KeyOf(e.types, i)
               fn == EntryOf(e.types, i).fn
    <2>1. MethodIn(b, e, sig, fn)
      BY <1>1 DEF FnsRight
    <2>2. KeyOf(f.types, i) = sig /\ EntryOf(f.types, i).fn = fn
      BY <1>1 DEF KeyOf
    <2> HIDE DEF sig, fn
    <2>3. MethodIn(b, f, sig, fn)
      BY <2>1, HeaderGrows DEF MethodIn, HeadersKept
    <2> QED BY <2>2, <2>3
  <1> QED BY <1>1

\* A type has been entered with the segment of its methods.
LEMMA FnsEntered ==
    ASSUME NEW b, NEW e, NEW f, Grows(e.names, f.names), HeadersKept(e, f), FnsRight(b, e),
           NEW sig, NEW fn, TypeEntered(e, f, sig, fn), MethodIn(b, f, sig, fn)
    PROVE  FnsRight(b, f)
  <1>1. \A i \in Ids(f.types) : \/ i \in Ids(e.types) /\ EntryOf(f.types, i) = EntryOf(e.types, i)
                                \/ MethodIn(b, f, KeyOf(f.types, i), EntryOf(f.types, i).fn)
    BY DEF TypeEntered
  <1> QED BY <1>1, FnsKept

\* A step that changes one environment.
LEMMA MethodsStep ==
    ASSUME EInv, MInv, NEW d \in Targets, NEW f, env' = [env EXCEPT ![d] = f], UNCHANGED <<program, archive>>,
           FnsRight(built, f)
    PROVE  MInv'
  <1>1. built' = built
    BY DEF built
  <1>2. \A e \in Targets : env'[e] = IF e = d THEN f ELSE env[e]
    BY EnvsAre DEF EInv
  <1> HIDE DEF built
  <1>3. \A e \in Targets : FnsRight(built', env'[e])
    BY <1>1, <1>2 DEF MInv
  <1> QED BY <1>3 DEF MInv

\* A script's code with the header and the names of a type's methods is the type's methods.
LEMMA Told ==
    ASSUME BuiltOK(built), NEW e, NameTable(built, e.names), NEW seg, NEW c \in Codes, CodeIn(built, e, seg, c),
           NEW sig \in Sigs, FnCode[sig] # NoCode, HeaderIn(built, e, seg, FnCode[sig])
    PROVE  /\ FnCode[sig] \in Codes
           /\ CodeNames[c] = CodeNames[FnCode[sig]] /\ CodeSigs[c] = CodeSigs[FnCode[sig]]
           /\ CodeIn(built, e, seg, FnCode[sig])
  <1> DEFINE m == FnCode[sig]
  <1>1. m \in Codes
    BY EnvironmentsAssumption
  <1>2. CodeNames[c] \in Seq(Idents) /\ CodeNames[m] \in Seq(Idents) /\ CodeSigs[c] \in Seq(Sigs) /\ CodeSigs[m] \in Seq(Sigs)
    BY <1>1, EnvironmentsAssumption
  <1> HIDE DEF m
  <1>3. DOMAIN CodeNames[c] = DOMAIN CodeNames[m] /\ DOMAIN CodeSigs[c] = DOMAIN CodeSigs[m] /\ HashOf(c) = HashOf(m)
    BY DEF CodeIn, HeaderIn, m
  <1>4. ASSUME NEW n \in DOMAIN CodeNames[c] PROVE CodeNames[c][n] = CodeNames[m][n]
    <2>1. Says(built.names, e.names, seg.names[n], CodeNames[c][n]) /\ Says(built.names, e.names, seg.names[n], CodeNames[m][n])
      BY DEF CodeIn, HeaderIn, m
    <2> QED BY <2>1, IdentOfIs
  <1>5. CodeNames[c] = CodeNames[m]
    BY <1>2, <1>3, <1>4
  <1>6. Len(CodeSigs[c]) = Len(CodeSigs[m])
    BY <1>2, <1>3
  <1>7. CodeSigs[c] = CodeSigs[m]
    BY <1>3, <1>5, <1>6, MethodsAssumption DEF HashOf, m
  <1>8. CodeIn(built, e, seg, m)
    BY <1>3, <1>5, <1>7 DEF CodeIn
  <1> QED BY <1>1, <1>5, <1>7, <1>8 DEF m

\* mapType finds the methods of a type that has some, whichever environment it comes from.
LEMMA FnSegmentIsMethods ==
    ASSUME EInv, MInv, NextIsNew
    PROVE  LET sig == SrcType.key
               src == FnEnv(Top.src, sig)
           IN  /\ sig \in Sigs
               /\ HasFn(Top.src, sig) <=> FnCode[sig] # NoCode
               /\ HasFn(Top.src, sig) => FnCode[sig] \in Codes /\ CodeIn(built, env[src], FnSegment(Top.src, sig), FnCode[sig])
  <1> DEFINE s == Top.src
             e == env[s]
             sig == SrcType.key
  <1> USE DEF EInv
  <1>1. /\ ~Idle /\ s \in Envs /\ s # Top.env /\ Compiled
        /\ \A n \in DOMAIN work : work[n].env = Top.env
    BY TopIs DEF NextIsNew, MoreTypes
  <1>2. sig \in Sigs /\ Has(e.types, sig)
    BY NextTypeIs DEF NextIsNew
  <1>3. CASE s \in Sources
    <2> DEFINE c == FnCode[sig]
    <2>1. HasFn(s, sig) <=> c # NoCode
      BY <1>3 DEF HasFn
    <2>2. c # NoCode => c \in Codes
      BY <1>2, EnvironmentsAssumption
    <2>3. FnEnv(s, sig) = CodeEnv[c] /\ FnSegment(s, sig) = code[c]
      BY <1>3 DEF FnEnv, FnSegment
    <2>4. c # NoCode => CodeIn(built, env[CodeEnv[c]], code[c], c)
      BY <2>2, <1>1 DEF CodeOK, Compiled
    <2> QED BY <1>2, <2>1, <2>2, <2>3, <2>4
  <1>4. CASE s \notin Sources
    <2> DEFINE i == LookUp(e.types, sig, HashSig[sig])
               fn == FnId(s, sig)
               seg == KeyOf(e.segs, fn)
    <2>1. /\ s \in Targets /\ e \in Environment /\ FnsIn(e) /\ Keyed(TypeEntry, HashSig, built.sigs, e.types)
          /\ BuiltOK(built) /\ NameTable(built, e.names) /\ NoId \notin Ids(e.segs)
      BY <1>1, <1>4, EnvsAre, IdsAreNat DEF Envs, TablesOK, TypeTable, Environment
    <2>2. i \in Ids(e.types) /\ KeyOf(e.types, i) = sig
      BY <2>1, <1>2, EnvironmentsAssumption, KeyedLookUp DEF Found
    <2>3. MethodIn(built, e, sig, fn)
      <3>1. fn = EntryOf(e.types, i).fn
        BY DEF FnId
      <3>2. FnsRight(built, e)
        BY <2>1 DEF MInv
      <3> HIDE DEF fn, i
      <3> QED BY <2>2, <3>1, <3>2 DEF FnsRight
    <2>4. HasFn(s, sig) <=> fn # NoId
      BY <1>4 DEF HasFn
    <2>5. FnEnv(s, sig) = s /\ FnSegment(s, sig) = seg
      BY <1>4 DEF FnEnv, FnSegment
    <2> HIDE DEF fn
    <2>6. HasFn(s, sig) <=> FnCode[sig] # NoCode
      BY <2>1, <2>3, <2>4 DEF MethodIn
    <2>7. ASSUME FnCode[sig] # NoCode PROVE FnCode[sig] \in Codes /\ CodeIn(built, e, seg, FnCode[sig])
      <3>1. fn \in Ids(e.segs) /\ HeaderIn(built, e, seg, FnCode[sig])
        BY <2>3, <2>7 DEF MethodIn
      <3>2. ~InWork(s, fn)
        BY <1>1 DEF InWork
      <3>3. PICK c \in Codes : Done(built, e, seg, c)
        BY <3>1, <3>2, <2>1 DEF SegsOK, HasDone
      <3>4. seg \in Segs
        BY <2>1, <3>1, SegKeyIs
      <3>5. CodeIn(built, e, seg, c)
        BY <3>3, <3>4, DoneIs
      <3> HIDE DEF seg, e, s, sig
      <3> QED BY <3>1, <3>5, <2>1, <1>2, <2>7, Told
    <2> QED BY <1>2, <2>5, <2>6, <2>7
  <1> QED BY <1>3, <1>4

\* A segment in a table, be it copied now or not, has the names of some code.
LEMMA SegNames ==
    ASSUME EInv, NEW d \in Targets, NEW id \in Ids(env[d].segs)
    PROVE  \E c \in Codes : HeaderIn(built, env[d], KeyOf(env[d].segs, id), c)
  <1> USE DEF EInv
  <1> DEFINE e == env[d]
             seg == KeyOf(e.segs, id)
  <1>1. ASSUME NEW src, NEW next, NEW c \in Codes, Copying(built, e, src, seg, next, c)
        PROVE  HeaderIn(built, e, seg, c)
    BY <1>1 DEF Copying, Kept, HeaderIn
  <1>2. CASE InWork(d, id)
    <2>1. PICK n \in DOMAIN work : work[n].env = d /\ work[n].seg = id
      BY <1>2 DEF InWork
    <2>2. FrameOK(built, env, work[n])
      BY DEF WorkOK
    <2>3. PICK c \in Codes : Copying(built, e, env[work[n].src], seg, work[n].next, c)
      BY <2>1, <2>2 DEF FrameOK
    <2> QED BY <2>3, <1>1
  <1>3. CASE HasDone(built, e, id)
    <2>1. PICK c \in Codes : Copying(built, e, e, seg, Len(seg.types) + 1, c)
      BY <1>3 DEF HasDone, Done
    <2> QED BY <2>1, <1>1
  <1> QED BY <1>2, <1>3 DEF SegsOK

\* The segment that lookUpSegment takes for the methods of a type has their header and names.
LEMMA FnInTopIs ==
    ASSUME EInv, MInv, NextIsNew, HasFn(Top.src, SrcType.key), FnInTop # NoId
    PROVE  MethodIn(built, env[Top.env], SrcType.key, FnInTop)
  <1> DEFINE d == Top.env
             e == env[d]
             sig == SrcType.key
             m == FnCode[sig]
             src == FnEnv(Top.src, sig)
             seg == FnSegment(Top.src, sig)
             g == Entered(e, NoId)
             s == KeyOf(e.segs, FnInTop)
  <1> USE DEF EInv
  <1>1. sig \in Sigs /\ m # NoCode /\ m \in Codes /\ CodeIn(built, env[src], seg, m)
    BY FnSegmentIsMethods
  <1>2. d \in Targets /\ d \in Envs /\ BuiltOK(built) /\ TablesOK(built, e) /\ src \in Envs
    BY TopIs, EnvsAre, FnSegmentIs DEF NextIsNew, MoreTypes
  <1>3. TablesOK(built, g) /\ g.segs = e.segs /\ GrowsEnv(e, g)
    BY EnteredIs DEF NoId
  <1>4. NameTable(built, env[src].names) /\ TypeTable(built, env[src].types)
    BY <1>2, EnvsAre DEF TablesOK
  <1>5. FnInTop \in Ids(e.segs) /\ EqSegment(g, s, env[src], seg)
    <2>1. seg.hash \in Nat
      BY <1>1 DEF CodeIn, Segs
    <2>2. FnInTop = LookUpSegment(g, src, seg)
      BY DEF FnInTop
    <2> HIDE DEF g, seg, src, s, e
    <2>3. FnInTop \in Ids(g.segs) /\ EqSegment(g, KeyOf(g.segs, FnInTop), env[src], seg)
      BY <1>3, <2>1, <2>2, LookUpSegmentIs
    <2> QED BY <2>3, <1>3 DEF s
  <1>6. Meaning(env[src], seg) = CodeMeaning(m)
    <2> HIDE DEF m, seg, src
    <2> QED BY <1>1, <1>2, <1>4, MeaningIs
  <1>7. PICK c \in Codes : HeaderIn(built, e, s, c)
    BY <1>2, <1>5, SegNames
  <1>8. s.hash = HashOf(m)
    BY <1>1, <1>5 DEF EqSegment, CodeIn
  <1>9. /\ [n \in DOMAIN s.names |-> IdentOf(g.names, s.names[n])] = CodeNames[m]
        /\ [n \in DOMAIN s.types |-> SigOf(g.types, s.types[n])] = CodeSigs[m]
    <2> HIDE DEF g, seg, src, s, e, m
    <2> QED BY <1>5, <1>6 DEF EqSegment, Meaning, CodeMeaning
  <1> HIDE DEF g, seg, src, s, m, d, e
  <1>10. DOMAIN s.names = DOMAIN CodeNames[m] /\ DOMAIN s.types = DOMAIN CodeSigs[m]
    BY <1>9
  <1>11. ASSUME NEW n \in DOMAIN s.names PROVE Says(built.names, e.names, s.names[n], CodeNames[m][n])
    <2>1. Says(built.names, e.names, s.names[n], CodeNames[c][n])
      BY <1>7 DEF HeaderIn
    <2>2. Says(built.names, g.names, s.names[n], CodeNames[c][n])
      BY <2>1, <1>3, GrowthKeeps DEF GrowsEnv
    <2>3. IdentOf(g.names, s.names[n]) = CodeNames[c][n]
      BY <2>2, <1>2, <1>3, IdentOfIs DEF TablesOK
    <2>4. CodeNames[m][n] = CodeNames[c][n]
      BY <1>9, <2>3
    <2> QED BY <2>1, <2>4
  <1>12. HeaderIn(built, e, s, m)
    BY <1>8, <1>10, <1>11 DEF HeaderIn
  <1> QED BY <1>1, <1>5, <1>12 DEF MethodIn, m, e, s, d

-----------------------------------------------------------------------------
(* Every step keeps the methods.                                           *)

\* A segment is added, or none.
LEMMA SegsKeepHeaders ==
    ASSUME NEW e, NEW f
    PROVE  /\ f.segs = e.segs => HeadersKept(e, f)
           /\ \A id : SegAdded(e, f, id) => HeadersKept(e, f)
  BY DEF HeadersKept, SegAdded, KeyOf

\* No type is added.
LEMMA TypesSame ==
    ASSUME EInv, MInv, NEW d \in Targets, NEW f, env' = [env EXCEPT ![d] = f], UNCHANGED <<program, archive>>,
           Grows(env[d].names, f.names), f.types = env[d].types, HeadersKept(env[d], f)
    PROVE  MInv'
  <1>1. FnsRight(built, env[d])
    BY DEF MInv
  <1>2. FnsRight(built, f)
    BY <1>1, FnsKept
  <1> QED BY <1>2, MethodsStep

\* useName, useType of a script: the targets are left alone.
LEMMA CompileKeepsMethods ==
    ASSUME EInv, MInv, NEW s \in Sources, Compile(s) PROVE MInv'
  <1>1. built' = built /\ archive' = archive
    BY DEF Compile, built
  <1>2. \A d \in Targets : env'[d] = env[d]
    BY EnvironmentsAssumption, EnvsAre DEF Compile, EInv
  <1> HIDE DEF built
  <1> QED BY <1>1, <1>2 DEF MInv

\* An environment without types has no methods to keep.
LEMMA NoTypesRight ==
    ASSUME NEW b, NEW e, Ids(e.types) = {} PROVE FnsRight(b, e)
  BY DEF FnsRight

LEMMA MkEnvKeepsMethods ==
    ASSUME EInv, MInv, NEW d \in Targets, MkEnv(d) PROVE MInv'
  <1>1. Ids(FreshEnv.types) = {}
    BY EmptyTableIs DEF FreshEnv
  <1>2. env' = [env EXCEPT ![d] = FreshEnv] /\ UNCHANGED <<program, archive>>
    BY DEF MkEnv
  <1>3. FnsRight(built, FreshEnv)
    BY <1>1, NoTypesRight
  <1> QED BY <1>2, <1>3, MethodsStep

\* Another run starts without environments, and reads what the archive had.
LEMMA RestartKeepsMethods ==
    ASSUME EInv, MInv, Restart PROVE MInv'
  <1>1. Restarted
    BY RestartKeeps
  <1>2. \A d \in Targets : FnsRight(built', env'[d])
    BY <1>1, NoTypesRight DEF Restarted
  <1> QED BY <1>1, <1>2 DEF MInv, Restarted

\* MAP_N adds names only.
LEMMA MapHeldNameKeepsMethods ==
    ASSUME EInv, MInv, NEW d \in Targets, NEW c \in Codes, NEW n \in DOMAIN CodeNames[c], MapHeldName(d, c, n)
    PROVE  MInv'
  <1> DEFINE f == env'[d]
  <1>1. PICK dst : env' = [env EXCEPT ![d].names = dst] /\ UNCHANGED <<program, archive>>
    BY DEF MapHeldName
  <1>2. d \in Envs /\ DOMAIN env = Envs /\ env[d] \in Environment
    BY EnvsAre DEF EInv
  <1>3. env' = [env EXCEPT ![d] = f] /\ f.types = env[d].types /\ f.segs = env[d].segs
    BY <1>1, <1>2 DEF Environment
  <1>4. GrowsEnv(env[d], f)
    BY MapHeldNameKeeps, GrowsEnvReflexive, <1>2 DEF Growth, GrownOnly
  <1> HIDE DEF f
  <1> QED BY <1>1, <1>3, <1>4, SegsKeepHeaders, TypesSame DEF GrowsEnv

\* copySegment adds a segment and names.
LEMMA CopySegmentKeepsMethods ==
    ASSUME EInv, MInv, NEW d \in Targets, NEW src \in Envs, NEW seg,
           NEW c \in Codes, CodeIn(built, env[src], seg, c), CopySegment(d, src, seg)
    PROVE  MInv'
  <1> DEFINE f == Copied(env[d], src, seg)
  <1>1. env' = [env EXCEPT ![d] = f] /\ UNCHANGED <<program, archive>>
    BY DEF CopySegment
  <1>2. BuiltOK(built) /\ TablesOK(built, env[d]) /\ NameTable(built, env[src].names)
    BY EnvsAre DEF EInv, TablesOK
  <1>3. GrowsEnv(env[d], f) /\ f.types = env[d].types /\ SegAdded(env[d], f, NextId(env[d].segs))
    BY <1>2, CopiedIs
  <1> HIDE DEF f
  <1>4. HeadersKept(env[d], f)
    BY <1>3, SegsKeepHeaders
  <1>5. Grows(env[d].names, f.names)
    BY <1>3 DEF GrowsEnv
  <1> QED BY <1>1, <1>3, <1>4, <1>5, TypesSame

LEMMA CopyCodeKeepsMethods ==
    ASSUME EInv, MInv, NEW d \in Targets, NEW c \in Codes, CopyCode(d, c) PROVE MInv'
  <1>1. CodeEnv[c] \in Envs
    BY CodeEnvIs, EnvsAre DEF EInv
  <1>2. Compiled /\ CopySegment(d, CodeEnv[c], code[c])
    BY DEF CopyCode
  <1>3. CodeIn(built, env[CodeEnv[c]], code[c], c)
    BY <1>2 DEF EInv, CodeOK, Compiled
  <1> QED BY <1>1, <1>2, <1>3, CopySegmentKeepsMethods

LEMMA CopyBetweenKeepsMethods ==
    ASSUME EInv, MInv, NEW d \in Targets, NEW e \in Targets, NEW id \in Ids(env[e].segs), CopyBetween(d, e, id)
    PROVE  MInv'
  <1>1. e \in Envs /\ Idle /\ CopySegment(d, e, KeyOf(env[e].segs, id))
    BY EnvsAre DEF EInv, CopyBetween
  <1>2. PICK c \in Codes : CodeIn(built, env[e], KeyOf(env[e].segs, id), c)
    BY <1>1, IdleSegment
  <1> QED BY <1>1, <1>2, CopySegmentKeepsMethods

\* mapType of a built-in type enters it, and a built-in type has no methods.
LEMMA MapBuiltInTypeKeepsMethods ==
    ASSUME EInv, MInv, MapBuiltInType PROVE MInv'
  <1> DEFINE d == Top.env
             sig == built.sigs[NextType + 1]
             f == UseTypeIn(env[d], sig)
  <1>1. MoreTypes /\ ~Idle /\ NextType < BTypes /\ env' = [env EXCEPT ![d] = f] /\ UNCHANGED <<program, archive>>
    BY DEF MapBuiltInType, MoreTypes
  <1>2. d \in Targets /\ d \in Envs /\ BuiltOK(built) /\ EnvOK(built, env[d])
    BY <1>1, TopIs, EnvsAre DEF EInv
  <1>3. NextType + 1 \in DOMAIN built.sigs
    <2>1. NextType \in Nat /\ BTypes \in Nat /\ built.sigs \in Seq(Sigs)
      BY <1>1, <1>2, NextTypeIs DEF BuiltOK
    <2> QED BY <2>1, <1>1 DEF BTypes
  <1>4. sig \in Sigs /\ FnCode[sig] = NoCode
    <2>1. sig \in ToSet(built.sigs)
      BY <1>3 DEF ToSet
    <2>2. built \in ToSet(Builds)
      BY EnvironmentsAssumption DEF built, EInv, EnvsOK, ToSet
    <2>3. sig \in Sigs
      BY <1>2, <1>3 DEF BuiltOK
    <2> HIDE DEF sig
    <2> QED BY <2>1, <2>2, <2>3, MethodsAssumption
  <1> HIDE DEF sig, d
  <1>5. GrowsEnv(env[d], f) /\ f.segs = env[d].segs /\ TypeEntered(env[d], f, sig, NoId)
    BY <1>2, <1>4, UseTypeInIs
  <1> HIDE DEF f
  <1>6. MethodIn(built, f, sig, NoId)
    BY <1>4 DEF MethodIn
  <1>7. FnsRight(built, f)
    BY <1>2, <1>5, <1>6, SegsKeepHeaders, FnsEntered DEF MInv, GrowsEnv
  <1> QED BY <1>1, <1>2, <1>7, MethodsStep

\* A constant that mapType has mapped is no name of the segment, nor in its header.
LEMMA MapKnownTypeKeepsMethods ==
    ASSUME EInv, MInv, MapKnownType PROVE MInv'
  <1> DEFINE d == Top.env
             e == env[d]
             id == Top.seg
             type == BTypes + DstType
             segs == SetType(e.segs, id, Top.next, type)
             f == [e EXCEPT !.segs = segs]
  <1>1. MoreTypes /\ ~Idle /\ DstType # NoId /\ env' = [env EXCEPT ![d] = f] /\ UNCHANGED <<program, archive>>
    BY DEF MapKnownType, MoreTypes
  <1>2. /\ d \in Targets /\ d \in Envs /\ id \in Ids(e.segs) /\ Top.next \in DOMAIN KeyOf(e.segs, id).types
        /\ BTypes \in Nat /\ e \in Environment /\ e.types \in Tables(TypeEntry)
        /\ e.segs \in Tables(SegEntry) /\ TableSound(e.segs) /\ Keyed(TypeEntry, HashSig, built.sigs, e.types)
    BY <1>1, TopIs, NextTypeIs, EnvsAre DEF SegOfTop, EInv, TablesOK, TypeTable, Environment
  <1>3. type \in Nat
    <2>1. ~(NextType < BTypes)
      BY <1>1, NextTypeIs DEF MapKnownType
    <2>2. SrcType.key \in Sigs /\ SrcType.hash = HashSig[SrcType.key]
      BY <1>1, <2>1, NextTypeIs
    <2>3. HashSig[SrcType.key] \in Nat /\ DstType = LookUp(e.types, SrcType.key, HashSig[SrcType.key])
      BY <2>2, EnvironmentsAssumption DEF DstType
    <2> HIDE DEF e
    <2>4. DstType \in Ids(e.types)
      BY <2>3, <1>1, <1>2, KeyedLookUp DEF Found
    <2> QED BY <2>4, <1>2, IdsAreNat
  <1> HIDE DEF type, d, e, id
  <1>4. /\ Ids(segs) = Ids(e.segs)
        /\ \A i \in Ids(e.segs) \ {id} : EntryOf(segs, i) = EntryOf(e.segs, i)
        /\ KeyOf(segs, id).names = KeyOf(e.segs, id).names /\ KeyOf(segs, id).hash = KeyOf(e.segs, id).hash
        /\ KeyOf(segs, id).types = [KeyOf(e.segs, id).types EXCEPT ![Top.next] = type]
    BY <1>2, <1>3, SetTypeIs
  <1> HIDE DEF segs
  <1>5. f.names = e.names /\ f.types = e.types /\ f.segs = segs
    BY <1>2 DEF Environment
  <1> HIDE DEF f
  <1>6. HeadersKept(e, f)
    <2> SUFFICES ASSUME NEW i \in Ids(e.segs)
                 PROVE  /\ i \in Ids(segs)
                        /\ KeyOf(segs, i).hash = KeyOf(e.segs, i).hash
                        /\ KeyOf(segs, i).names = KeyOf(e.segs, i).names
                        /\ DOMAIN KeyOf(segs, i).types = DOMAIN KeyOf(e.segs, i).types
      BY <1>5 DEF HeadersKept
    <2>1. CASE i = id
      BY <2>1, <1>4
    <2>2. CASE i # id
      BY <2>2, <1>4 DEF KeyOf
    <2> QED BY <2>1, <2>2
  <1>7. Grows(e.names, f.names)
    BY <1>5, GrowsReflexive
  <1> QED BY <1>1, <1>2, <1>5, <1>6, <1>7, TypesSame DEF e

\* mapType of a type whose methods are in the table, or which has none.
LEMMA EnterTypeKeepsMethods ==
    ASSUME EInv, MInv, EnterType PROVE MInv'
  <1> DEFINE d == Top.env
             sig == SrcType.key
             fn == IF HasFn(Top.src, sig) THEN FnInTop ELSE NoId
             f == Entered(env[d], fn)
  <1>1. /\ NextIsNew /\ ~Idle /\ env' = [env EXCEPT ![d] = f] /\ UNCHANGED <<program, archive>>
        /\ HasFn(Top.src, sig) => FnInTop # NoId
    BY DEF EnterType, NextIsNew, MoreTypes
  <1>2. d \in Targets /\ d \in Envs /\ env[d] \in Environment
    BY <1>1, TopIs, EnvsAre DEF EInv
  <1>3. MethodIn(built, env[d], sig, fn)
    <2>1. CASE HasFn(Top.src, sig)
      BY <2>1, <1>1, FnInTopIs
    <2>2. CASE ~HasFn(Top.src, sig)
      BY <2>2, <1>1, FnSegmentIsMethods DEF MethodIn
    <2> QED BY <2>1, <2>2
  <1>4. fn \in Int
    <2>1. fn \in Ids(env[d].segs) \cup {NoId}
      BY <1>3 DEF MethodIn
    <2> HIDE DEF fn
    <2> QED BY <2>1, <1>2, IdsAreNat DEF Environment, NoId
  <1> HIDE DEF fn
  <1>5. GrowsEnv(env[d], f) /\ f.segs = env[d].segs /\ TypeEntered(env[d], f, sig, fn)
    BY <1>1, <1>4, EnteredIs
  <1> HIDE DEF f, sig, d
  <1>6. HeadersKept(env[d], f) /\ Grows(env[d].names, f.names)
    BY <1>5, SegsKeepHeaders DEF GrowsEnv
  <1>7. MethodIn(built, f, sig, fn)
    BY <1>3, <1>5, <1>6, HeaderGrows DEF MethodIn
  <1>8. FnsRight(built, f)
    BY <1>2, <1>5, <1>6, <1>7, FnsEntered DEF MInv
  <1> QED BY <1>1, <1>2, <1>8, MethodsStep

\* mapType of a type whose methods are to be copied: it is entered with the integer that
\* copySegment gives them.
LEMMA EnterTypeAndCopyMethodsKeepsMethods ==
    ASSUME EInv, MInv, EnterTypeAndCopyMethods PROVE MInv'
  <1> DEFINE d == Top.env
             sig == SrcType.key
             m == FnCode[sig]
             src == FnEnv(Top.src, sig)
             seg == FnSegment(Top.src, sig)
             id == NextId(env[d].segs)
             g == Entered(env[d], id)
             f == Copied(g, src, seg)
  <1>1. /\ NextIsNew /\ ~Idle /\ HasFn(Top.src, sig) /\ env' = [env EXCEPT ![d] = f]
        /\ UNCHANGED <<program, archive>>
    BY DEF EnterTypeAndCopyMethods, NextIsNew, MoreTypes
  <1>2. d \in Targets /\ d \in Envs /\ BuiltOK(built) /\ TablesOK(built, env[d]) /\ src \in Envs
    BY <1>1, TopIs, EnvsAre, FnSegmentIs DEF EInv
  <1>3. m # NoCode /\ m \in Codes /\ CodeIn(built, env[src], seg, m)
    BY <1>1, FnSegmentIsMethods
  <1>4. id \in Int
    BY <1>2, NextIdIs DEF TablesOK, Environment, TableSound
  <1>5. NameTable(built, env[src].names)
    BY <1>2, EnvsAre DEF TablesOK, EInv
  <1> HIDE DEF id
  <1>6. TablesOK(built, g) /\ GrowsEnv(env[d], g) /\ g.segs = env[d].segs /\ TypeEntered(env[d], g, sig, id)
    BY <1>1, <1>4, EnteredIs
  <1> HIDE DEF g, seg, src, m, sig, d
  <1>7. /\ GrowsEnv(g, f) /\ f.types = g.types /\ SegAdded(g, f, id)
        /\ Copying(built, f, env[src], KeyOf(f.segs, id), 1, m)
    BY <1>2, <1>3, <1>5, <1>6, CopiedIs DEF id
  <1> HIDE DEF f
  <1>8. TypeEntered(env[d], f, sig, id)
    BY <1>6, <1>7 DEF TypeEntered
  <1>9. SegAdded(env[d], f, id)
    BY <1>6, <1>7 DEF SegAdded
  <1>10. HeadersKept(env[d], f)
    BY <1>9, SegsKeepHeaders
  <1>11. Grows(env[d].names, f.names)
    BY <1>6, <1>7, GrowsEnvTransitive DEF GrowsEnv
  <1>12. HeaderIn(built, f, KeyOf(f.segs, id), m)
    BY <1>7 DEF Copying, Kept, HeaderIn
  <1>13. MethodIn(built, f, sig, id)
    BY <1>3, <1>9, <1>12 DEF MethodIn, m, SegAdded
  <1>14. FnsRight(built, f)
    BY <1>2, <1>8, <1>10, <1>11, <1>13, FnsEntered DEF MInv
  <1> QED BY <1>1, <1>2, <1>14, MethodsStep

\* storeSegment and storeTypeSig write a type with its methods.
LEMMA StoreKeepsMethods ==
    ASSUME EInv, MInv, NEW d \in Targets, Store(d) PROVE MInv'
  <1> DEFINE e == env[d]
             names == archive'.names
             types == archive'.types
             segs == archive'.segs
  <1>1. /\ EInv' /\ env' = env /\ program' = program /\ NamesRead(names, e.names)
        /\ TypesRead(names, types, e.types) /\ FnsRead(types, e.types) /\ SegsRead(names, types, segs, e)
    <2>1. EInv' /\ StoredFrom(d)
      BY StoreKeeps
    <2>2. program' = program
      BY ONLY Store(d), ZenonT(60) DEF Store
    <2> QED BY <2>1, <2>2 DEF StoredFrom
  <1>2. built' = built
    BY <1>1 DEF built
  <1>3. BuiltOK(built) /\ NameTable(built, e.names) /\ FnsRight(built, e) /\ e.types \in Tables(TypeEntry)
    BY EnvsAre DEF EInv, TablesOK, MInv, Environment
  <1>4. archive' # NoArchive => OneRecordEach(types)
    BY <1>1 DEF EInv, ArchiveOK, SavedTypesOK
  <1> HIDE DEF names, types, segs, e
  <1>5. ASSUME archive' # NoArchive, NEW n \in DOMAIN types
        PROVE  MethodSaved(names, types, segs, SigFrom(names, types[n].entry.key), types[n].entry.fn)
    <2> DEFINE i == types[n].id
               sig == KeyOf(e.types, i)
               fn == EntryOf(e.types, i).fn
    <2>1. i \in Ids(e.types) /\ types[n].entry.fn = fn
      BY <1>1 DEF FnsRead
    <2>2. SigFrom(names, types[n].entry.key) = sig
      BY <1>1, <1>4, <1>5, <2>1, SavedKeyIs DEF TypesRead
    <2>3. MethodIn(built, e, sig, fn) /\ sig \in Sigs
      BY <1>3, <2>1, TypeKeyIs DEF FnsRight
    <2> HIDE DEF sig, fn
    <2>4. CASE FnCode[sig] = NoCode
      BY <2>1, <2>2, <2>3, <2>4 DEF MethodSaved, MethodIn
    <2>5. CASE FnCode[sig] # NoCode
      <3> DEFINE seg == KeyOf(e.segs, fn)
      <3>1. fn \in Ids(e.segs) /\ HeaderIn(built, e, seg, FnCode[sig])
        BY <2>3, <2>5 DEF MethodIn
      <3>2. fn \in SavedIds(segs)
        BY <1>1, <3>1 DEF SegsRead
      <3>3. PICK c \in Codes : KeptIn(e.names, e.types, seg, c) /\ SegSays(names, types, SavedKey(segs, fn), c)
        BY <1>1, <3>1 DEF SegsRead
      <3>4. CodeIn(built, e, seg, c)
        BY <3>3 DEF KeptIn, Kept, CodeIn
      <3> HIDE DEF seg
      <3>5. CodeNames[c] = CodeNames[FnCode[sig]] /\ CodeSigs[c] = CodeSigs[FnCode[sig]]
        BY <1>3, <2>3, <2>5, <3>1, <3>4, Told
      <3>6. SegSays(names, types, SavedKey(segs, fn), FnCode[sig])
        BY <3>3, <3>5 DEF SegSays, HashOf, CodeMeaning
      <3> QED BY <2>1, <2>2, <2>5, <3>2, <3>6 DEF MethodSaved
    <2> QED BY <2>4, <2>5
  <1>6. archive' # NoArchive => SavedFnsRight(names, types, segs)
    BY <1>5 DEF SavedFnsRight
  <1>7. \A t \in Targets : FnsRight(built', env'[t])
    BY <1>1, <1>2 DEF MInv
  <1> QED BY <1>6, <1>7 DEF MInv, names, types, segs

\* extractBinEnv and postLoad find the methods that were written.
LEMMA LoadKeepsMethods ==
    ASSUME EInv, MInv, NEW d \in Targets, Load(d) PROVE MInv'
  <1> DEFINE f == env'[d]
             names == archive.names
             types == archive.types
             segs == archive.segs
  <1> USE DEF EInv
  <1>1. /\ EInv' /\ env' = [env EXCEPT ![d] = f] /\ archive' = archive /\ archive # NoArchive
        /\ NamesRead(names, f.names) /\ TypesRead(names, types, f.types) /\ FnsRead(types, f.types)
        /\ SegsRead(names, types, segs, f) /\ UNCHANGED <<program, archive>>
    BY LoadKeeps DEF LoadedTo, Load
  <1>2. built' = built
    BY <1>1 DEF built
  <1>3. OneRecordEach(types) /\ SavedFnsRight(names, types, segs)
    BY <1>1 DEF ArchiveOK, SavedTypesOK, MInv
  <1> HIDE DEF names, types, segs, f
  <1>4. ASSUME NEW i \in Ids(f.types) PROVE MethodIn(built, f, KeyOf(f.types, i), EntryOf(f.types, i).fn)
    <2>1. PICK n \in DOMAIN types : types[n].id = i
      BY <1>1 DEF TypesRead, SavedIds
    <2> DEFINE sig == SigFrom(names, types[n].entry.key)
               fn == types[n].entry.fn
    <2>2. EntryOf(f.types, i).fn = fn
      BY <1>1, <2>1 DEF FnsRead
    <2>3. KeyOf(f.types, i) = sig
      BY <1>1, <1>3, <2>1, SavedKeyIs DEF TypesRead
    <2>4. MethodSaved(names, types, segs, sig, fn)
      BY <1>3 DEF SavedFnsRight
    <2> HIDE DEF sig, fn
    <2>5. CASE FnCode[sig] = NoCode
      BY <2>2, <2>3, <2>4, <2>5 DEF MethodSaved, MethodIn
    <2>6. CASE FnCode[sig] # NoCode
      <3> DEFINE m == FnCode[sig]
                 s == SavedKey(segs, fn)
                 seg == KeyOf(f.segs, fn)
      <3>1. fn \in Ids(f.segs) /\ SegSays(names, types, s, m)
        BY <1>1, <2>4, <2>6 DEF MethodSaved, SegsRead
      <3>2. PICK c \in Codes : KeptIn(f.names, f.types, seg, c) /\ SegSays(names, types, s, c)
        BY <1>1, <3>1 DEF SegsRead
      <3> HIDE DEF m, s, seg
      <3>3. DOMAIN CodeNames[c] = DOMAIN CodeNames[m] /\ DOMAIN CodeSigs[c] = DOMAIN CodeSigs[m] /\ HashOf(c) = HashOf(m)
        BY <3>1, <3>2 DEF SegSays
      <3>4. ASSUME NEW k \in DOMAIN CodeNames[m] PROVE CodeNames[c][k] = CodeNames[m][k]
        BY <3>1, <3>2, <3>3 DEF SegSays
      <3>5. HeaderIn(built, f, seg, m)
        <4>1. \A k \in DOMAIN seg.names : Says(built.names, f.names, seg.names[k], CodeNames[m][k])
          BY <3>2, <3>3, <3>4 DEF KeptIn, Kept
        <4> QED BY <4>1, <3>2, <3>3 DEF KeptIn, HeaderIn
      <3> QED BY <2>2, <2>3, <2>6, <3>1, <3>5 DEF MethodIn, m, seg
    <2> QED BY <2>5, <2>6
  <1>5. FnsRight(built, f)
    BY <1>4 DEF FnsRight
  <1> QED BY <1>1, <1>5, MethodsStep

\* Nothing that MInv reads is changed.
LEMMA MethodsUnread ==
    ASSUME MInv, UNCHANGED <<program, env, archive>> PROVE MInv'
  <1>1. built' = built
    BY DEF built
  <1> HIDE DEF built
  <1> QED BY <1>1 DEF MInv

LEMMA NextKeepsMethods == EInv /\ MInv /\ [Next]_vars => MInv'
  <1> SUFFICES ASSUME EInv, MInv, [Next]_vars PROVE MInv'
    OBVIOUS
  <1>1. ASSUME NEW s \in Sources, Compile(s) PROVE MInv'
    BY <1>1, CompileKeepsMethods
  <1>2. ASSUME NEW d \in Targets, MkEnv(d) PROVE MInv'
    BY <1>2, MkEnvKeepsMethods
  <1>3. ASSUME NEW d \in Targets, Store(d) PROVE MInv'
    BY <1>3, StoreKeepsMethods
  <1>4. ASSUME NEW d \in Targets, Load(d) PROVE MInv'
    BY <1>4, LoadKeepsMethods
  <1>5. ASSUME NEW d \in Targets, NEW c \in Codes, CopyCode(d, c) PROVE MInv'
    BY <1>5, CopyCodeKeepsMethods
  <1>6. ASSUME NEW d \in Targets, NEW c \in Codes, NEW n \in DOMAIN CodeNames[c], MapHeldName(d, c, n) PROVE MInv'
    BY <1>6, MapHeldNameKeepsMethods
  <1>7. ASSUME NEW d \in Targets, NEW e \in Targets, NEW id \in Ids(env[e].segs), CopyBetween(d, e, id) PROVE MInv'
    BY <1>7, CopyBetweenKeepsMethods
  <1>8. CASE MapBuiltInType
    BY <1>8, MapBuiltInTypeKeepsMethods
  <1>9. CASE MapKnownType
    BY <1>9, MapKnownTypeKeepsMethods
  <1>10. CASE EnterType
    BY <1>10, EnterTypeKeepsMethods
  <1>11. CASE EnterTypeAndCopyMethods
    BY <1>11, EnterTypeAndCopyMethodsKeepsMethods
  <1>12. CASE EndCopy
    BY <1>12, MethodsUnread DEF EndCopy
  <1>13. CASE Restart
    BY <1>13, RestartKeepsMethods
  <1>14. CASE UNCHANGED vars
    BY <1>14, MethodsUnread DEF vars
  <1> QED BY <1>1, <1>2, <1>3, <1>4, <1>5, <1>6, <1>7, <1>8, <1>9, <1>10, <1>11, <1>12, <1>13, <1>14 DEF Next, Mapping

\* A run starts without environments made and without an archive.
LEMMA InitMInv == Init => MInv
  <1> SUFFICES ASSUME Init PROVE MInv
    OBVIOUS
  <1>1. \A d \in Targets : Ids(env[d].types) = {}
    BY EnvironmentsAssumption, EmptyTableIs DEF Init, Envs, DeadEnv, FreshEnv
  <1> QED BY <1>1, NoTypesRight DEF Init, MInv

\* When nothing is being copied, the header and the names tell the methods.
LEMMA InvariantMethodsKept == EInv /\ MInv => MethodsKept
  <1> SUFFICES ASSUME EInv, MInv, Idle, NEW d \in Targets, NEW id \in Ids(env[d].types)
               PROVE  LET e == env[d]
                          t == EntryOf(e.types, id)
                      IN  IF FnCode[t.key] = NoCode \/ t.alt # NoId THEN t.fn = NoId
                          ELSE /\ InUse(e.segs, t.fn)
                               /\ Meaning(e, KeyOf(e.segs, t.fn)) = CodeMeaning(FnCode[t.key])
    BY DEF MethodsKept
  <1> DEFINE e == env[d]
             t == EntryOf(e.types, id)
             sig == KeyOf(e.types, id)
             seg == KeyOf(e.segs, t.fn)
  <1>1. /\ BuiltOK(built) /\ NameTable(built, e.names) /\ TypeTable(built, e.types)
        /\ e.types \in Tables(TypeEntry) /\ e.segs \in Tables(SegEntry) /\ FnsRight(built, e)
    BY EnvsAre DEF EInv, TablesOK, Environment, MInv
  <1>2. sig \in Sigs /\ t.key = sig /\ MethodIn(built, e, sig, t.fn)
    BY <1>1, TypeKeyIs DEF FnsRight, KeyOf
  <1>3. t.alt # NoId => FnCode[sig] = NoCode
    <2>1. t.alt = PosIn(built.sigs, sig)
      BY <1>1 DEF TypeTable, Keyed
    <2>2. built \in ToSet(Builds)
      BY EnvironmentsAssumption DEF built, EInv, EnvsOK, ToSet
    <2> HIDE DEF sig, t, e
    <2>3. ASSUME t.alt # NoId PROVE sig \in ToSet(built.sigs)
      <3>1. \E n \in 1 .. Len(built.sigs) : built.sigs[n] = sig
        BY <2>1, <2>3 DEF PosIn
      <3> QED BY <3>1, <1>1 DEF ToSet, BuiltOK
    <2> QED BY <2>2, <2>3, MethodsAssumption
  <1>4. CASE FnCode[sig] = NoCode
    BY <1>2, <1>4 DEF MethodIn
  <1>5. CASE FnCode[sig] # NoCode
    <2> DEFINE m == FnCode[sig]
    <2>1. t.fn \in Ids(e.segs) /\ HeaderIn(built, e, seg, m)
      BY <1>2, <1>5 DEF MethodIn
    <2>2. PICK c \in Codes : CodeIn(built, e, seg, c)
      BY <2>1, IdleSegment
    <2>3. InUse(e.segs, t.fn)
      BY <1>1, <2>1, TableFields
    <2> HIDE DEF seg, t, sig, e
    <2>4. m \in Codes /\ CodeIn(built, e, seg, m)
      BY <1>1, <1>2, <1>5, <2>1, <2>2, Told
    <2> HIDE DEF m
    <2>5. Meaning(e, seg) = CodeMeaning(m)
      BY <1>1, <2>4, MeaningIs
    <2> QED BY <1>2, <1>3, <1>5, <2>3, <2>5 DEF m, seg, t, sig, e
  <1> QED BY <1>4, <1>5

\* The methods of a type are the segment it was compiled with, whichever of mapType,
\* copySegment, insertBinEnv, extractBinEnv and postLoad gave an environment the type, and
\* also while the methods are still being copied (the inductive invariant MInv).
THEOREM MethodsStay == Spec => []MethodsKept
  <1>1. EInv /\ MInv /\ [Next]_vars => MInv'
    BY NextKeepsMethods
  <1>2. Spec => []MInv
    BY <1>1, InitMInv, Invariant, PTL DEF Spec
  <1> QED BY <1>2, Invariant, InvariantMethodsKept, PTL

=============================================================================
