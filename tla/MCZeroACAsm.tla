----------------------------- MODULE MCZeroACAsm -----------------------------
(***************************************************************************)
(* Small spaces of programs for ZeroACAsm: at most two functions and two   *)
(* constants of different sizes, or one function with nested loops.        *)
(***************************************************************************)
EXTENDS ZeroACAsm

CONSTANTS start, f, c, d

OneFunc     == {start}
TwoFuncs    == {start, f}
NoConsts    == {}
TwoConsts   == {c, d}
AnyDepth    == {-1, 0, 1}
MCNumArgs   == [g \in Funcs |-> IF g = f THEN 1 ELSE 0]
MCConstSize == [x \in Consts |-> IF x = c THEN 2 ELSE 3]
===============================================================================
