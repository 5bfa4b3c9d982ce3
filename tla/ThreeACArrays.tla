----------------------------- MODULE ThreeACArrays -----------------------------
(***************************************************************************)
(* The array code of the three-address code generator: the loops that it   *)
(* writes for an operation on vectors, matrices and strings, as they run.  *)
(* The VM has instructions for arrays; here every assignment, operator and *)
(* range is a loop of its own over memory on the stack, with index         *)
(* arithmetic that nothing checks when the program runs.                   *)
(*                                                                         *)
(* An element is known by where it comes from: a value is the sequence of  *)
(* the terms that have been added, a term the positions of the elements    *)
(* that have been multiplied.  An array is a function from positions in    *)
(* its memory, row after row; vectors and strings have one row.            *)
(***************************************************************************)
EXTENDS Integers, Sequences

CONSTANTS
  Sizes,     \* the numbers of rows and columns
  Indices    \* the values of index expressions

ASSUME ArraysAssumption == Sizes \subseteq Nat \ {0} /\ Indices \subseteq Int

VARIABLES
  pc,       \* the loop that runs, or "idle", "done", "thrown"
  op,       \* the operation, the shapes of its operands and its indices
  a,        \* the (first) array operand
  r,        \* the memory of the result, or of the variable that is assigned
  i, j, n,  \* the loop counters
  wild      \* an element outside of its array has been read or written

vars == <<pc, op, a, r, i, j, n, wild>>

-------------------------------------------------------------------------------
(***************************************************************************)
(* Memory.                                                                 *)
(***************************************************************************)
Shape(ty, rows, cols) == [ty |-> ty, rows |-> rows, cols |-> cols]
Length(s) == s.rows * s.cols

Vectors  == {Shape("VECTOR", 1, d) : d \in Sizes}
Strings  == {Shape("STRING", 1, d) : d \in Sizes}
Matrices == {Shape("MATRIX", d1, d2) : d1, d2 \in Sizes}
Scalar   == Shape("SCALAR", 1, 1)
Shapes   == [ty : {"SCALAR", "VECTOR", "STRING", "MATRIX"}, rows : Nat \ {0}, cols : Nat \ {0}]

Positions(s) == 0 .. (Length(s) - 1)

Unset    == << <<"unset">> >>       \* memory that nothing has been stored in
Zero     == << <<"zero">> >>        \* the end of a string
Kept(p)  == << <<"sym", p>> >>      \* an element of the variable
Elem(p)  == << <<"expr", p>> >>     \* an element of the operand
Prod(p, q) == << <<"mul", p, q>> >> \* a product of elements of the two operands
Sum(x, y)  == x \o y

\* a string fills its memory and ends with a zero
Contents(s) ==
  [p \in Positions(s) |-> IF s.ty = "STRING" /\ p = Length(s) - 1 THEN Zero ELSE Elem(p)]
Fresh(s)    == [p \in Positions(s) |-> Unset]
Variable(s) == [p \in Positions(s) |-> Kept(p)]

\* reading and writing an element of an array where it is not checked that there is one
Load(m, p)     == IF p \in DOMAIN m THEN m[p] ELSE Unset
Store(m, p, x) == IF p \in DOMAIN m THEN [m EXCEPT ![p] = x] ELSE m
Outside(m, p)  == p \notin DOMAIN m

\* safe_array_index; srem rounds toward zero
SafeIndex(idx, size) ==
  LET modidx == IF idx < 0 THEN - ((- idx) % size) ELSE idx % size
  IN  IF modidx < 0 THEN size - modidx ELSE modidx

\* check_sym_compat for arrays: a vector may be longer than the vector or matrix that it
\* is assigned to
Compatible(sym, expr) ==
  CASE expr.ty = "VECTOR" /\ sym.ty # "STRING" -> Length(sym) <= Length(expr)
    [] sym.ty = "MATRIX" /\ expr.ty = "MATRIX" -> sym = expr
    [] OTHER -> sym.ty = expr.ty

\* an operation with result or variable sym, operands e1 and e2, and indices ix
Op(kind, sym, e1, e2, ix, diff) ==
  [kind |-> kind, sym |-> sym, e1 |-> e1, e2 |-> e2, ix |-> ix, diff |-> diff]
NoOp == Op("none", Scalar, Scalar, Scalar, <<>>, {})

Init ==
  /\ pc = "idle" /\ op = NoOp
  /\ a = Contents(Scalar) /\ r = Fresh(Scalar)
  /\ i = 0 /\ j = 0 /\ n = 0 /\ wild = FALSE

\* the operation begins with loop l
Begin(o, l, m) ==
  /\ pc = "idle"
  /\ op' = o /\ a' = Contents(o.e1) /\ r' = m
  /\ pc' = l /\ i' = 0 /\ j' = 0 /\ n' = 0 /\ wild' = FALSE

Throw == pc = "idle" /\ pc' = "thrown" /\ UNCHANGED <<op, a, r, i, j, n, wild>>

-------------------------------------------------------------------------------
(***************************************************************************)
(* The operations.                                                         *)
(***************************************************************************)
\* visit(ASTAssign); what is assigned to a string has been converted by convert_sym
Assign(sym, expr) ==
  \/ Compatible(sym, expr) /\ Begin(Op("assign", sym, expr, Scalar, <<>>, {}), "flat", Variable(sym))
  \/ ~Compatible(sym, expr) /\ Throw

\* visit(ASTUMinus)
UMinus(e) == Begin(Op("map", e, e, Scalar, <<>>, {}), "flat", Fresh(e))

\* scalar_matrix_prod
ScalarProd(e) == Begin(Op("map", e, e, Scalar, <<>>, {}), "flat", Fresh(e))

\* visit(ASTPlus): for matrices always an error
Plus(e1, e2) ==
  \/ /\ e1.ty = "VECTOR" /\ e2 = e1
     /\ Begin(Op("add", e1, e1, e2, <<>>, {}), "flat", Fresh(e1))
  \/ (e1.ty = "MATRIX" \/ e2 # e1) /\ Throw

\* the inner product of visit(ASTMult), and visit(ASTNorm) of a vector with itself
Dot(e1, e2) ==
  \/ e1 = e2 /\ Begin(Op("dot", Scalar, e1, e2, <<>>, {}), "flat", [p \in {0} |-> <<>>])
  \/ e1 # e2 /\ Throw

\* visit(ASTTransp)
Transp(e) ==
  LET sym == Shape("MATRIX", e.cols, e.rows)
  IN  Begin(Op("transp", sym, e, Scalar, <<>>, {}), "flat", Fresh(sym))

\* convert_sym to a string: only the separators behind the elements are kept
ToString(e) == Begin(Op("str", e, e, Scalar, <<>>, {}), "flat", Fresh(e))

\* visit(ASTComp), == or != of arrays that differ at the positions diff
Compare(kind, e1, e2, diff) ==
  LET o == Op(kind, Scalar, e1, e2, <<>>, diff) IN
  \/ e1 = e2 /\ Begin(o, "comp", [p \in {0} |-> TRUE])
  \/ e1 # e2 /\ Begin(o, "done", [p \in {0} |-> kind = "neq"])

\* the products of visit(ASTMult) with a matrix
MatVec(e1, e2) ==
  LET sym == Shape("VECTOR", 1, e1.rows) IN
  \/ e1.cols = e2.cols /\ Begin(Op("matvec", sym, e1, e2, <<>>, {}), "vec_i", Fresh(sym))
  \/ e1.cols # e2.cols /\ Throw

MatMat(e1, e2) ==
  LET sym == Shape("MATRIX", e1.rows, e2.cols) IN
  \/ e1.cols = e2.rows /\ Begin(Op("matmat", sym, e1, e2, <<>>, {}), "mat_i", Fresh(sym))
  \/ e1.cols # e2.rows /\ Throw

\* mutant: a counter that goes down leaves out the last element
InRangeDown(ctr, from, to) == IF from <= to THEN ctr <= to ELSE ctr > to

\* a counter that goes from one index to another, up or down
InRange(ctr, from, to) == IF from <= to THEN ctr <= to ELSE ctr >= to
Stepped(ctr, from, to) == IF from <= to THEN ctr + 1 ELSE ctr - 1

\* the range of the rows and that of the columns of an array, after safe_array_index
Safe(s, ix) == << SafeIndex(ix[1], s.rows), SafeIndex(ix[2], s.rows),
                  SafeIndex(ix[3], s.cols), SafeIndex(ix[4], s.cols) >>

\* the array whose elements the operation picks
Indexed(o) == IF o.kind \in {"write", "shift", "put"} THEN o.sym
              ELSE IF o.kind = "assign" THEN o.e2 ELSE o.e1
At == Safe(Indexed(op), op.ix)

BeginRange(o, l, m) ==
  LET at == Safe(Indexed(o), o.ix) IN
  /\ pc = "idle"
  /\ op' = o /\ a' = Contents(o.e1) /\ r' = m
  /\ pc' = l /\ i' = at[1] /\ j' = at[3] /\ n' = 0 /\ wild' = FALSE

\* visit(ASTArrayAccess) with a range of a vector or a string
SliceVector(e, x, y) ==
  BeginRange(Op("slice", e, e, Scalar, <<0, 0, x, y>>, {}), "col", Fresh(e))

\* mutant: the result is allocated for the rows only
SliceMatrixShort(e, x, y, z, w) ==
  LET sym == Shape("VECTOR", 1, Length(e))
  IN  BeginRange(Op("slice", sym, e, Scalar, <<x, y, z, w>>, {}), "row",
                 Fresh(Shape("VECTOR", 1, e.rows)))

\* visit(ASTArrayAccess) with ranges of a matrix; the result is a vector
SliceMatrix(e, x, y, z, w) ==
  LET sym == Shape("VECTOR", 1, Length(e))
  IN  BeginRange(Op("slice", sym, e, Scalar, <<x, y, z, w>>, {}), "row", Fresh(sym))

\* visit(ASTArrayAssign) with a range of a vector or a string, and with ranges of a
\* matrix; the expression may be a scalar
AssignVectorRange(sym, e, x, y) ==
  BeginRange(Op("write", sym, e, Scalar, <<0, 0, x, y>>, {}), "col", Variable(sym))

AssignMatrixRange(sym, e, x, y, z, w) ==
  BeginRange(Op("write", sym, e, Scalar, <<x, y, z, w>>, {}), "row", Variable(sym))

\* the same where the expression is the variable itself, which is not copied
ShiftRange(sym, x, y, z, w) ==
  BeginRange(Op("shift", sym, sym, Scalar, <<x, y, z, w>>, {}),
             IF sym.ty = "MATRIX" THEN "row" ELSE "col", Variable(sym))

\* a single element of an array is read, or written, at once
ReadElement(e, x, y) ==
  LET p == SafeIndex(x, e.rows) * e.cols + SafeIndex(y, e.cols) IN
  /\ pc = "idle" /\ pc' = "done"
  /\ op' = Op("read", Scalar, e, Scalar, <<x, x, y, y>>, {})
  /\ a' = Contents(e) /\ r' = [q \in {0} |-> Load(Contents(e), p)]
  /\ wild' = Outside(Contents(e), p)
  /\ UNCHANGED <<i, j, n>>

AssignElement(sym, x, y) ==
  LET p == SafeIndex(x, sym.rows) * sym.cols + SafeIndex(y, sym.cols) IN
  /\ pc = "idle" /\ pc' = "done"
  /\ op' = Op("put", sym, Scalar, Scalar, <<x, x, y, y>>, {})
  /\ a' = Contents(Scalar) /\ r' = Store(Variable(sym), p, Elem(0))
  /\ wild' = Outside(Variable(sym), p)
  /\ UNCHANGED <<i, j, n>>

-------------------------------------------------------------------------------
(***************************************************************************)
(* The loops.                                                              *)
(***************************************************************************)
\* x is stored at position p, which is beside the array if "beside" says so of what
\* has been read
Put(p, x, beside) ==
  /\ r' = Store(r, p, x)
  /\ wild' = (wild \/ beside \/ Outside(r, p))
  /\ UNCHANGED <<op, a>>

End == pc' = "done" /\ UNCHANGED <<op, a, r, i, j, n, wild>>

Min2(x, y) == IF x < y THEN x ELSE y

\* mutant: the loop runs over the whole expression
CountExpr == Length(op.e1)

\* how often generate_loop with a managed counter runs its body
Count ==
  IF op.kind = "assign" /\ op.sym.ty = "STRING" THEN Min2(Length(op.e1), Length(op.sym))
  ELSE IF op.kind = "assign" THEN Length(op.sym) ELSE Length(op.e1)

\* ctr_result = (ctr%cols)*rows + ctr/cols
Transposed(p) == (p % op.e1.cols) * op.e1.rows + p \div op.e1.cols

\* behind the last element there is no separator, behind a row of a matrix "; "
Separator(p) ==
  IF p >= Length(op.e1) - 1 THEN <<>>
  ELSE IF op.e1.ty = "MATRIX" /\ (p + 1) % op.e1.rows = 0 THEN << <<"; ">> >> ELSE << <<", ">> >>

FlatStep ==
  /\ pc = "flat" /\ i < Count
  /\ LET x == Load(a, i)
         beside == Outside(a, i)
     IN  CASE op.kind \in {"assign", "map"} -> Put(i, x, beside)
           [] op.kind = "add"    -> Put(i, Sum(x, << <<"expr2", i>> >>), beside)
           [] op.kind = "dot"    -> Put(0, Sum(r[0], Prod(i, i)), beside)
           [] op.kind = "transp" -> Put(Transposed(i), x, beside)
           [] op.kind = "str"    -> Put(i, Separator(i), beside)
  /\ i' = i + 1
  /\ UNCHANGED <<pc, j, n>>

FlatEnd == pc = "flat" /\ i >= Count /\ End

\* the loop of visit(ASTComp) is left at the first difference
CompareStep ==
  /\ pc = "comp" /\ i < Length(op.e1)
  /\ Put(0, i \notin op.diff, Outside(a, i))
  /\ IF i \in op.diff THEN pc' = "end" /\ UNCHANGED i ELSE i' = i + 1 /\ UNCHANGED pc
  /\ UNCHANGED <<j, n>>

CompareEnd ==
  /\ pc = "comp" /\ i >= Length(op.e1)
  /\ pc' = "end" /\ UNCHANGED <<op, a, r, i, j, n, wild>>

Negate ==
  /\ pc = "end" /\ pc' = "done"
  /\ Put(0, IF op.kind = "neq" THEN ~r[0] ELSE r[0], FALSE)
  /\ UNCHANGED <<i, j, n>>

\* w[i] = 0, then w[i] += M[i*dim_j + j] * v[j] in a loop over j
VecRow ==
  /\ pc = "vec_i" /\ i < op.e1.rows
  /\ Put(i, <<>>, FALSE)
  /\ pc' = "vec_j" /\ j' = 0
  /\ UNCHANGED <<i, n>>

VecEnd == pc = "vec_i" /\ i >= op.e1.rows /\ End

VecStep ==
  /\ pc = "vec_j" /\ j < op.e1.cols
  /\ LET p == i * op.e1.cols + j IN
     Put(i, Sum(Load(r, i), Prod(p, j)), Outside(a, p) \/ j \notin Positions(op.e2))
  /\ j' = j + 1
  /\ UNCHANGED <<pc, i, n>>

\* mutant: the outer counter is not increased
VecRowEndStuck ==
  /\ pc = "vec_j" /\ j >= op.e1.cols
  /\ pc' = "vec_i"
  /\ UNCHANGED <<op, a, r, i, j, n, wild>>

VecRowEnd ==
  /\ pc = "vec_j" /\ j >= op.e1.cols
  /\ pc' = "vec_i" /\ i' = i + 1
  /\ UNCHANGED <<op, a, r, j, n, wild>>

MatRow ==
  /\ pc = "mat_i" /\ i < op.e1.rows
  /\ pc' = "mat_j" /\ j' = 0
  /\ UNCHANGED <<op, a, r, i, n, wild>>

MatEnd == pc = "mat_i" /\ i >= op.e1.rows /\ End

\* the element is the sum in a variable of its own, here its place in the result
MatElem ==
  /\ pc = "mat_j" /\ j < op.e2.cols
  /\ Put(i * op.e2.cols + j, <<>>, FALSE)
  /\ pc' = "mat_k" /\ n' = 0
  /\ UNCHANGED <<i, j>>

MatRowEnd ==
  /\ pc = "mat_j" /\ j >= op.e2.cols
  /\ pc' = "mat_i" /\ i' = i + 1
  /\ UNCHANGED <<op, a, r, j, n, wild>>

\* d += M[i*dim_k + k] * N[k*dim_j + j]
MatStep ==
  /\ pc = "mat_k" /\ n < op.e1.cols
  /\ LET p == i * op.e1.cols + n
         q == n * op.e2.cols + j
         l == i * op.e2.cols + j
     IN  Put(l, Sum(Load(r, l), Prod(p, q)), Outside(a, p) \/ q \notin Positions(op.e2))
  /\ n' = n + 1
  /\ UNCHANGED <<pc, i, j>>

MatElemEnd ==
  /\ pc = "mat_k" /\ n >= op.e1.cols
  /\ pc' = "mat_j" /\ j' = j + 1
  /\ UNCHANGED <<op, a, r, i, n, wild>>

\* the outer loop over a range, of the rows of a matrix
Row ==
  /\ pc = "row" /\ InRange(i, At[1], At[2])
  /\ pc' = "col" /\ j' = At[3]
  /\ UNCHANGED <<op, a, r, i, n, wild>>

RowsEnd == pc = "row" /\ ~InRange(i, At[1], At[2]) /\ End

\* the body of the inner loop, or of the only one for a vector or a string: elements
\* are read from the range, or written into it, one after the other
SliceStep ==
  /\ pc = "col" /\ op.kind = "slice" /\ InRange(j, At[3], At[4])
  /\ LET p == i * op.e1.cols + j IN Put(n, Load(a, p), Outside(a, p))
  /\ j' = Stepped(j, At[3], At[4]) /\ n' = n + 1
  /\ UNCHANGED <<pc, i>>

WriteStep ==
  /\ pc = "col" /\ op.kind \in {"write", "shift"} /\ InRange(j, At[3], At[4])
  /\ LET p == i * op.sym.cols + j
         q == IF op.e1.ty = "SCALAR" THEN 0 ELSE n
         e == IF op.kind = "shift" THEN r ELSE a
     IN  Put(p, Load(e, q), Outside(e, q))
  /\ j' = Stepped(j, At[3], At[4]) /\ n' = n + 1
  /\ UNCHANGED <<pc, i>>

ColsEnd ==
  /\ pc = "col" /\ ~InRange(j, At[3], At[4])
  /\ pc' = IF op.e1.ty = "MATRIX" \/ op.sym.ty = "MATRIX" THEN "row"
           ELSE IF op.kind = "slice" /\ op.e1.ty = "STRING" THEN "zero" ELSE "done"
  /\ i' = Stepped(i, At[1], At[2])
  /\ UNCHANGED <<op, a, r, j, n, wild>>

\* the part of a string gets a zero at its end
Terminate ==
  /\ pc = "zero" /\ pc' = "done"
  /\ Put(n, Zero, FALSE)
  /\ UNCHANGED <<i, j, n>>

\* the result of a range, which is as long as the array it was taken from, is assigned
\* to a variable
AssignSlice(sym) ==
  /\ pc = "done" /\ op.kind = "slice" /\ Compatible(sym, op.sym)
  /\ pc' = "flat" /\ i' = 0
  /\ op' = [op EXCEPT !.kind = "assign", !.sym = sym, !.e1 = op.sym, !.e2 = op.e1]
  /\ a' = r /\ r' = Variable(sym)
  /\ UNCHANGED <<j, n, wild>>

Loop ==
  \/ FlatStep \/ FlatEnd \/ CompareStep \/ CompareEnd \/ Negate
  \/ VecRow \/ VecEnd \/ VecStep \/ VecRowEnd
  \/ MatRow \/ MatEnd \/ MatElem \/ MatRowEnd \/ MatStep \/ MatElemEnd
  \/ Row \/ RowsEnd \/ SliceStep \/ WriteStep \/ ColsEnd \/ Terminate

Arrays == Vectors \union Strings \union Matrices

Start ==
  /\ pc = "idle"
  /\ \/ \E s, e \in Arrays : (s.ty = "STRING" => e.ty = "STRING") /\ Assign(s, e)
     \/ \E e \in Vectors \union Matrices : UMinus(e) \/ ScalarProd(e) \/ ToString(e)
     \/ \E e1, e2 \in Vectors \union Matrices :
          \/ Plus(e1, e2)
          \/ /\ e1.ty = e2.ty
             /\ \E kind \in {"equ", "neq"} : \E diff \in SUBSET Positions(e1) :
                  Compare(kind, e1, e2, diff)
     \/ \E e1, e2 \in Vectors : Dot(e1, e2)
     \/ \E e \in Matrices : Transp(e)
     \/ \E e1 \in Matrices : (\E e2 \in Vectors : MatVec(e1, e2)) \/ \E e2 \in Matrices : MatMat(e1, e2)
     \/ \E x, y \in Indices :
          \/ \E e \in Vectors \union Strings : SliceVector(e, x, y)
          \/ \E s, e \in Vectors : AssignVectorRange(s, e, x, y)
          \/ \E s, e \in Strings : AssignVectorRange(s, e, x, y)
          \/ \E s \in Vectors : AssignVectorRange(s, Scalar, x, y)
          \/ \E s \in Vectors \union Strings : ShiftRange(s, 0, 0, x, y)
          \/ \E e \in Matrices : ReadElement(e, x, y) \/ AssignElement(e, x, y)
          \/ \E z, w \in Indices : \E s \in Matrices :
               \/ SliceMatrix(s, x, y, z, w) \/ ShiftRange(s, x, y, z, w)
               \/ \E e \in Vectors \union Matrices \union {Scalar} : AssignMatrixRange(s, e, x, y, z, w)
     \/ \E y \in Indices : \E e \in Vectors \union Strings : ReadElement(e, 0, y) \/ AssignElement(e, 0, y)

Next == Start \/ Loop \/ \E s \in Arrays : AssignSlice(s)

\* nothing but the operation itself can stop it
Spec == Init /\ [][Next]_vars /\ WF_vars(Loop)

-------------------------------------------------------------------------------
(***************************************************************************)
(* Properties.                                                             *)
(***************************************************************************)

\* Types of the counters; the memory is as large as the operands' and the result's shapes.
TypeOK ==
  /\ pc \in {"idle", "done", "thrown", "flat", "comp", "end", "vec_i", "vec_j", "mat_i", "mat_j",
             "mat_k", "row", "col", "zero"}
  /\ op.sym \in Shapes /\ op.e1 \in Shapes /\ op.e2 \in Shapes
  /\ i \in Int /\ j \in Int /\ n \in Nat /\ wild \in BOOLEAN
  /\ DOMAIN a = Positions(op.e1) /\ DOMAIN r = Positions(op.sym)

\* how many elements there are in a range, and the k-th of them
Extent(from, to) == IF from <= to THEN to - from + 1 ELSE from - to + 1
Nth(k, from, to) == IF from <= to THEN from + k ELSE from - k

\* what the indices mean: an index of an array repeats with its size
Meant(s) == << op.ix[1] % s.rows, op.ix[2] % s.rows, op.ix[3] % s.cols, op.ix[4] % s.cols >>
Number(s) == Extent(Meant(s)[1], Meant(s)[2]) * Extent(Meant(s)[3], Meant(s)[4])
Picked(s, k) ==
  LET m == Meant(s)
      c == Extent(m[3], m[4])
  IN  Nth(k \div c, m[1], m[2]) * s.cols + Nth(k % c, m[3], m[4])

\* a range of an array, in memory that is as large as the array
Part(s, k) ==
  IF k < Number(s) THEN Contents(s)[Picked(s, k)]
  ELSE IF s.ty = "STRING" /\ k = Number(s) THEN Zero ELSE Unset

\* the definition of every operation
Expected(p) ==
  CASE op.kind = "assign" ->
         IF p >= Length(op.e1) THEN Kept(p)
         ELSE IF op.e2 = Scalar THEN Contents(op.e1)[p] ELSE Part(op.e2, p)
    [] op.kind = "map"    -> Elem(p)
    [] op.kind = "add"    -> Sum(Elem(p), << <<"expr2", p>> >>)
    [] op.kind = "dot"    -> [k \in 1 .. Length(op.e1) |-> <<"mul", k - 1, k - 1>>]
    [] op.kind = "transp" -> Elem((p % op.sym.cols) * op.e1.cols + p \div op.sym.cols)
    [] op.kind = "str"    ->
         IF p = Length(op.e1) - 1 THEN <<>>
         ELSE IF (p + 1) % op.e1.cols = 0 THEN << <<"; ">> >> ELSE << <<", ">> >>
    [] op.kind = "equ"    -> op.e1 = op.e2 /\ op.diff = {}
    [] op.kind = "neq"    -> op.e1 # op.e2 \/ op.diff # {}
    [] op.kind = "matvec" -> [k \in 1 .. op.e1.cols |-> <<"mul", p * op.e1.cols + k - 1, k - 1>>]
    [] op.kind = "matmat" ->
         LET row == p \div op.e2.cols
             col == p % op.e2.cols
         IN  [k \in 1 .. op.e1.cols |->
                <<"mul", row * op.e1.cols + k - 1, (k - 1) * op.e2.cols + col>>]
    [] op.kind = "slice"  -> Part(op.e1, p)
    [] op.kind = "read"   -> Contents(op.e1)[Picked(op.e1, 0)]
    [] op.kind = "put"    -> IF p = Picked(op.sym, 0) THEN Elem(0) ELSE Kept(p)
    [] op.kind \in {"write", "shift"} ->
         LET ks == {k \in 0 .. (Number(op.sym) - 1) : Picked(op.sym, k) = p}
             k1 == CHOOSE k \in ks : TRUE
         IN  IF ks = {} THEN Kept(p)
             ELSE IF op.kind = "shift" THEN Kept(k1)
             ELSE IF op.e1.ty = "SCALAR" THEN Elem(0) ELSE Contents(op.e1)[k1]

Picks == op.ix # <<>>

\* what the generated code relies on and does not check: every negative index is a
\* multiple of the size,
Regular ==
  Picks => /\ \A k \in {1, 2} : op.ix[k] < 0 => op.ix[k] % Indexed(op).rows = 0
           /\ \A k \in {3, 4} : op.ix[k] < 0 => op.ix[k] % Indexed(op).cols = 0
\* the expression for a range is as long as the range,
Fits == op.kind = "write" /\ op.e1.ty # "SCALAR" => Number(op.sym) <= Length(op.e1)
\* and a part of a string leaves room for its zero
Room ==
  /\ op.kind = "slice" /\ op.e1.ty = "STRING" => Number(op.e1) < Length(op.e1)
  /\ Picks /\ op.kind = "assign" /\ op.e2.ty = "STRING" => Number(op.e2) < Length(op.e2)

\* A range of a variable that is assigned the variable itself overwrites elements before
\* they are read, unless it is in front of the elements to be read.
Apart ==
  op.kind = "shift" =>
    \A k \in 0 .. (Number(op.sym) - 1) : \A k1 \in 0 .. (k - 1) : Picked(op.sym, k1) # k

\* Every operation computes what its definition says, element by element: sums and
\* products take the right elements in the right order, a transposed matrix has its rows
\* for columns, ranges go up or down, a write leaves everything beside its range as it
\* was, and a range that is assigned gives the elements in front and leaves the rest as
\* the loops left it.  Excepted are ranges that are assigned their own variable, and the
\* text of a matrix that is not square, its rows are separated in the wrong places.
Computed ==
  pc = "done" /\ Regular /\ Fits /\ Room /\ Apart
    /\ (op.kind = "str" => op.e1.ty = "VECTOR" \/ op.e1.rows = op.e1.cols)
    => \A p \in Positions(op.sym) : r[p] = Expected(p)

\* With regular indices, no loop leaves its arrays, except where the expression for a
\* range is too short or a string has no room: then the loops always do.
InBounds == pc = "done" /\ Regular => (wild <=> ~(Fits /\ Room))

\* The loops end: their counters reach their limits in whichever direction they go.
Finishes == pc \notin {"idle", "done", "thrown"} ~> pc = "done"

================================================================================
