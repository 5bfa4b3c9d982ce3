------------------------------ MODULE ArrayStore ------------------------------
(***************************************************************************)
(* What a programmer relies on when arrays are indexed: a variable has a   *)
(* value of its own, an element or a range is selected or replaced at      *)
(* once, in the order of its indices, and nothing else changes.  There are *)
(* no addresses, no loops and no memory that variables share.              *)
(*                                                                         *)
(* A datum is a table of elements, row after row; vectors and strings have *)
(* one row, a real number one element.                                     *)
(***************************************************************************)
EXTENDS Integers, Sequences

CONSTANTS
  Vars,
  REAL, STR, VEC, MAT,   \* the types
  Literals,              \* the data a program begins with
  Shapes,                \* the shapes that it casts to
  Nothing, NoCall

VARIABLES
  store,    \* the variables
  acc,      \* the operand, or Nothing
  call,     \* the array instruction that is under way, or NoCall
  status

vars == <<store, acc, call, status>>

\* the positions from a to b in this order; negative ones count from the end
Span(a, b, size) ==
  LET x == a % size
      y == b % size
  IN  IF x <= y THEN [k \in 1 .. y - x + 1 |-> x + k - 1]
                ELSE [k \in 1 .. x - y + 1 |-> x - k + 1]

\* the rows and the columns that c names in d; no rows: all
RowsOf(c, d) == IF c.rows = <<>> THEN Span(0, d.rows - 1, d.rows)
                ELSE Span(c.rows[1], c.rows[2], d.rows)
ColsOf(c, d) == Span(c.cols[1], c.cols[2], d.cols)

Element(d, row, col) == d.elems[row * d.cols + col + 1]

Selected(d, rs, cs) ==
  [k \in 1 .. Len(rs) * Len(cs) |->
     Element(d, rs[(k - 1) \div Len(cs) + 1], cs[((k - 1) % Len(cs)) + 1])]

\* the type of what is selected in a datum of type ty
SelectedType(op, ty) ==
  IF op = "RDARR1D" THEN CASE ty = VEC -> REAL [] ty = MAT -> VEC [] OTHER -> ty
                    ELSE ty

\* does d have an element for every one of n rows and m columns?
Supplies(d, n, m) ==
  CASE d.ty = REAL -> TRUE
    [] d.ty = MAT  -> n <= d.rows /\ m <= d.cols
    [] OTHER       -> n * m <= Len(d.elems)

\* the one for the p-th row and the q-th of m columns
Supplied(d, p, q, m) ==
  CASE d.ty = REAL -> d.elems[1]
    [] d.ty = MAT  -> Element(d, p - 1, q - 1)
    [] OTHER       -> d.elems[(p - 1) * m + q]

\* d with the elements in the rows rs and the columns cs replaced by those of e
Replaced(d, rs, cs, e) ==
  LET Places(k) == {pq \in (DOMAIN rs) \X (DOMAIN cs) : k = rs[pq[1]] * d.cols + cs[pq[2]] + 1}
  IN  [d EXCEPT !.elems =
        [k \in DOMAIN @ |->
           IF Places(k) = {} THEN @[k]
           ELSE LET pq == CHOOSE pq \in Places(k) : TRUE
                IN  Supplied(e, pq[1], pq[2], Len(cs))]]

Fill(s, x) == [s EXCEPT !.elems = [k \in 1 .. s.rows * s.cols |-> x]]

-------------------------------------------------------------------------------
Init ==
  /\ acc = Nothing /\ call = NoCall /\ status = "running"
  /\ DOMAIN store = Vars

Running == status = "running" /\ UNCHANGED status
Free    == Running /\ UNCHANGED call /\ call = NoCall

Push == Free /\ acc = Nothing /\ acc' \in Literals /\ UNCHANGED store

Read(v) == Free /\ acc = Nothing /\ acc' = store[v] /\ UNCHANGED store

\* a real number fills an array; vectors and matrices exchange their elements
Cast(s) ==
  /\ Free /\ acc # Nothing /\ acc.ty # s.ty
  /\ acc' = IF acc.ty = REAL THEN Fill(s, acc.elems[1])
            ELSE [s EXCEPT !.elems = [k \in 1 .. s.rows * s.cols |-> acc.elems[k]]]
  /\ UNCHANGED store

Assign(v) ==
  /\ Free /\ acc # Nothing
  /\ store' = [store EXCEPT ![v] = acc]
  /\ acc' = Nothing

\* an instruction takes its operands
Begin ==
  /\ Running
  /\ call = NoCall /\ call' # NoCall
  /\ acc # Nothing /\ call'.data = acc
  /\ acc' = Nothing
  /\ UNCHANGED store

\* RDARR2D gives some number
Index ==
  /\ Running
  /\ call # NoCall /\ call' = NoCall
  /\ call.op \in {"RDARR1D", "RDARR1DR", "RDARR2D", "RDARR2DR"}
  /\ acc'.ty = SelectedType(call.op, call.data.ty) \/ call.op = "RDARR2D"
  /\ \/ acc'.elems = Selected(call.data, RowsOf(call, call.data), ColsOf(call, call.data))
     \/ call.op = "RDARR2D" /\ acc'.ty = REAL
  /\ UNCHANGED store

Update ==
  /\ Running
  /\ call # NoCall /\ call' = NoCall
  /\ LET d  == store[call.var]
         rs == RowsOf(call, d)
         cs == ColsOf(call, d)
     IN  /\ Supplies(call.data, Len(rs), Len(cs))
         /\ store' = [store EXCEPT ![call.var] = Replaced(d, rs, cs, call.data)]
  /\ UNCHANGED acc

Fail == status = "running" /\ status' = "stopped" /\ UNCHANGED <<store, acc, call>>

Next ==
  \/ Push
  \/ \E v \in Vars : Read(v) \/ Assign(v)
  \/ \E s \in Shapes : Cast(s)
  \/ Begin \/ Index \/ Update
  \/ Fail

Spec == Init /\ [][Next]_vars
===============================================================================
