--------------------------- MODULE MCEnvironments ---------------------------
(* Two scripts whose environments number the same identifiers differently, *)
(* one other environment, and two programs: "c" is built in in the second. *)
(* The methods of T and U, compiled in different scripts, are alike.       *)
EXTENDS Environments, TLC

T == <<"list", "x">>     \* a type of the scripts; the others are built in
U == <<"y">>
List == <<"list">>
W == <<"x">>

Scripts == [A |-> <<"c1", "c2">>, B |-> <<"c4", "c3">>]
NamesOf == [c1 |-> <<"b", "x">>, c2 |-> <<"x">>, c3 |-> <<"x">>, c4 |-> <<"c">>]
SigsOf == [c1 |-> <<W, T>>, c2 |-> <<List, T, U>>, c3 |-> <<List, T, U>>, c4 |-> <<U>>]
MethodsOf == T :> "c2" @@ U :> "c3" @@ List :> NoCode @@ W :> NoCode
Programs == <<[names |-> <<"b", "list">>, sigs |-> <<List>>],
              [names |-> <<"c", "b", "list">>, sigs |-> <<List>>]>>
HashOfName == [b |-> 0, c |-> 1, x |-> 2, y |-> 3, list |-> 4]
HashOfSig == T :> 1 @@ U :> 3 @@ List :> 2 @@ W :> 0
HashOfCode == [m \in {CodeMeaning(c) : c \in Codes} |-> Len(m.names)]
=============================================================================
