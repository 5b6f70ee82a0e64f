---------------------------- MODULE MCTypeCheck ----------------------------
(* The type checker with two constructors and a few signatures over three  *)
(* type variables, among them cycles of one and of two equations.          *)
EXTENDS TypeCheck

Num  == TypeCon("Int")
List == TypeCon("List")

MCSigs == {TypeVar(1), TypeVar(2), TypeVar(3), Num,
           Ap(List, TypeVar(1)), Ap(TypeVar(3), TypeVar(2))}
MCPatterns == {TypeVar(2)}
MCGround == {Num, List, Ap(List, Num)}
=============================================================================
