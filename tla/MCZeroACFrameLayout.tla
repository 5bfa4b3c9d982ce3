------------------------- MODULE MCZeroACFrameLayout -------------------------
(***************************************************************************)
(* Two functions and two names of variables; the types are an integer of 9 *)
(* bytes and a string of two characters.  Calls pass up to two arguments:  *)
(* as declarations choose any types, the declared one and another one are  *)
(* met at either place.                                                    *)
(***************************************************************************)
EXTENDS ZeroACFrameLayout, TLC

MCTypes    == {"int", "str"}
MCTypeSize == [t \in MCTypes |-> IF t = "int" THEN 9 ELSE 11]

MCTypeLists == {<<>>, <<"int">>, <<"int", "str">>, <<"str", "int">>}

\* names of variables are interchangeable if no function has one of them
Symmetric == Permutations(Vars)
================================================================================
