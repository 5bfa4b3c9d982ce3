---------------------------- MODULE MCThreeACArrays ----------------------------
(***************************************************************************)
(* Instance of ThreeACArrays: arrays of up to 3 rows and columns, and      *)
(* indices in front of, in and behind them.                                *)
(***************************************************************************)
EXTENDS ThreeACArrays

AnyIndex == {-2, 0, 1, 2, 4}
================================================================================
