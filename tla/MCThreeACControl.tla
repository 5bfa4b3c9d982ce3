-------------------------- MODULE MCThreeACControl --------------------------
(***************************************************************************)
(* A small space of functions for ThreeACControl: one variable, which may  *)
(* be a parameter, and five statements in the function's block.            *)
(***************************************************************************)
EXTENDS ThreeACControl

CONSTANTS x

MaybeArg == {<<>>, <<x>>}
AnyDepth == {-1, 0, 1}
===============================================================================
