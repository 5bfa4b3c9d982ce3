----------------------------- MODULE VMArrayStore -----------------------------
(***************************************************************************)
(* VMArrays implements ArrayStore: the cells of a variable are read back   *)
(* as its value.  An instruction takes effect when its loop has ended.     *)
(***************************************************************************)
EXTENDS VMArrays

Abstract == INSTANCE ArrayStore WITH
  Literals <- UNION { {Datum(REAL, 1, 1, <<x>>) : x \in Numbers},
                      {Datum(ty, 1, Len(xs), xs) : ty \in {STR, VEC}, xs \in Lists},
                      {Datum(MAT, Rows[v], Cols[v], [k \in 1 .. Rows[v] * Cols[v] |-> 0]) :
                         v \in {w \in Vars : Type[w] = MAT}} },
  Shapes <- {CastShape(v) : v \in {w \in Vars : Type[w] # STR}},
  NoCall <- NoIns,
  store  <- [v \in Vars |-> Contents(before, v)],
  acc    <- top,
  call   <- ins,
  status <- IF pc \in {"thrown", "undefined"} THEN "stopped" ELSE "running"

\* The frame with its computed addresses and the loops over ranges behave like
\* ArrayStore's separate variables: an instruction selects or replaces the elements that
\* its indices name, in their order, and leaves all others and all other variables alone.
StoreAbstracted == Abstract!Spec
===============================================================================
