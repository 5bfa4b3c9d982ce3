------------------------------ MODULE MCVMArrays ------------------------------
(***************************************************************************)
(* A small frame for VMArrays: a string of at most three characters that   *)
(* has two, a vector of two numbers behind it, and a matrix of two rows    *)
(* and three columns.                                                      *)
(***************************************************************************)
EXTENDS VMArrayStore

MCVars == {"s", "v", "M"}
MCAddr == [s |-> 1, v |-> 6, M |-> 10]
MCType == [s |-> STR, v |-> VEC, M |-> MAT]
MCRows == [s |-> 1, v |-> 1, M |-> 2]
MCCols == [s |-> 3, v |-> 2, M |-> 3]

\* a cell on both sides that belongs to no variable
MCInitMem ==
  [a \in 0 .. 19 |->
     <<0,  STR, 2, 31, 32, 33,  VEC, 2, 41, 42,  MAT, 2, 3, 51, 52, 53, 54, 55, 56,  0>>[a + 1]]

MCVals  == {1, 2, 3, 4, 7}
MCLists == {<<>>, <<1, 2>>, <<1, 2, 3, 4>>}
MCIndices == -1 .. 1
===============================================================================
