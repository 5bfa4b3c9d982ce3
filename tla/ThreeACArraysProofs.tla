------------------------- MODULE ThreeACArraysProofs --------------------------
(***************************************************************************)
(* Proofs about the array code of the three-address code generator, for    *)
(* arrays of every size and every index: the memory has the shapes of the  *)
(* operands (TypeCorrect), the loops stay in their arrays (BoundsCorrect)  *)
(* and leave in them what the operations mean (ComputedCorrect).           *)
(*                                                                         *)
(* Three invariants build on each other.  Typed relates the operation, the *)
(* loop that runs and its counters; Bounded, for regular indices, relates  *)
(* the counters of a loop over a range to the elements that are picked, so *)
(* that every place is in its array; Contained says which elements of the  *)
(* result are done and what is in them.                                    *)
(***************************************************************************)
EXTENDS ThreeACArrays, TLAPS

-------------------------------------------------------------------------------
(***************************************************************************)
(* The operations and where their loops are.                               *)
(***************************************************************************)
Picking == {"slice", "write", "shift", "read", "put"}
Flats   == {"assign", "map", "add", "dot", "transp", "str"}
Ranges  == {"slice", "write", "shift"}
Compares == {"equ", "neq"}

Shaped(s) == s \in Shapes /\ (s.ty # "MATRIX" => s.rows = 1)

IsOp(o) == o = Op(o.kind, o.sym, o.e1, o.e2, o.ix, o.diff)

\* the shapes of an operation's operands fit together
OpShaped(o) ==
  /\ IsOp(o)
  /\ Shaped(o.sym) /\ Shaped(o.e1) /\ Shaped(o.e2)
  /\ o.kind \in Picking \union Flats \union Compares \union {"none", "matvec", "matmat"}
  /\ o.kind \in Picking => o.ix # <<>>
  /\ o.kind \notin Picking \union {"assign"} => o.ix = <<>>
  /\ o.ix # <<>> => (\A k \in 1 .. 4 : o.ix[k] \in Int) /\ Indexed(o).ty # "SCALAR"
  /\ o.kind = "assign" => /\ o.ix = <<>> => o.e2 = Scalar
                          /\ o.ix # <<>> => Length(o.e1) = Length(o.e2)
                          /\ o.sym.ty # "STRING" => Length(o.sym) <= Length(o.e1)
  /\ o.kind \in {"map", "add", "str", "shift"} => o.sym = o.e1
  /\ o.kind \in {"map", "add", "str", "transp", "matvec", "matmat", "dot"} => o.e1.ty # "STRING"
  /\ o.kind \in Compares \union {"dot"} => o.sym = Scalar
  /\ o.kind \in Compares => o.diff \subseteq Positions(o.e1)
  /\ o.kind = "transp" => o.sym.rows = o.e1.cols /\ o.sym.cols = o.e1.rows
  /\ o.kind = "matvec" => /\ o.sym.rows = 1 /\ o.sym.cols = o.e1.rows
                          /\ o.e2.rows = 1 /\ o.e2.cols = o.e1.cols
  /\ o.kind = "matmat" => /\ o.sym.rows = o.e1.rows /\ o.sym.cols = o.e2.cols
                          /\ o.e2.rows = o.e1.cols
  /\ o.kind = "slice" => /\ Length(o.sym) = Length(o.e1)
                         /\ o.e1.ty # "MATRIX" => o.sym = o.e1
                         /\ o.e1.ty = "MATRIX" => o.sym.ty = "VECTOR"
  /\ o.kind = "write" /\ o.e1.ty = "MATRIX" => o.sym.ty = "MATRIX"

\* the counters are in the ranges of their loops
PcShaped ==
  /\ pc \in {"idle", "thrown"} => op = NoOp /\ ~wild
  /\ pc = "flat" => op.kind \in Flats /\ i \in 0 .. Count
  /\ pc = "comp" => op.kind \in Compares /\ op.e1 = op.e2 /\ i \in 0 .. Length(op.e1)
  /\ pc = "end"  => op.kind \in Compares /\ op.e1 = op.e2
  /\ pc \in {"vec_i", "vec_j"} => op.kind = "matvec"
  /\ pc = "vec_i" => i \in 0 .. op.e1.rows
  /\ pc = "vec_j" => i \in 0 .. op.e1.rows - 1 /\ j \in 0 .. op.e1.cols
  /\ pc \in {"mat_i", "mat_j", "mat_k"} => op.kind = "matmat"
  /\ pc = "mat_i" => i \in 0 .. op.e1.rows
  /\ pc \in {"mat_j", "mat_k"} => i \in 0 .. op.e1.rows - 1
  /\ pc = "mat_j" => j \in 0 .. op.e2.cols
  /\ pc = "mat_k" => j \in 0 .. op.e2.cols - 1 /\ n \in 0 .. op.e1.cols
  /\ pc \in {"row", "col"} => op.kind \in Ranges
  /\ pc = "row" => Indexed(op).ty = "MATRIX"
  /\ pc = "zero" => op.kind = "slice" /\ op.e1.ty = "STRING"
  /\ pc = "done" => op.kind # "none"

Typed == TypeOK /\ OpShaped(op) /\ PcShaped

\* what the operations begin with
BeginOK(o, l, m) ==
  /\ OpShaped(o) /\ DOMAIN m = Positions(o.sym)
  /\ \/ l = "flat" /\ o.kind \in Flats /\ o.ix = <<>>
        /\ (o.kind = "assign" => m = Variable(o.sym)) /\ (o.kind = "dot" => m[0] = <<>>)
     \/ l = "comp" /\ o.kind \in Compares /\ o.e1 = o.e2 /\ m[0] = TRUE
     \/ l = "done" /\ o.kind \in Compares /\ o.e1 # o.e2 /\ m[0] = (o.kind = "neq")
     \/ l = "vec_i" /\ o.kind = "matvec"
     \/ l = "mat_i" /\ o.kind = "matmat"

BeginRangeOK(o, l, m) ==
  /\ OpShaped(o) /\ o.kind \in Ranges
  /\ l = IF Indexed(o).ty = "MATRIX" THEN "row" ELSE "col"
  /\ m = IF o.kind = "slice" THEN Fresh(o.sym) ELSE Variable(o.sym)

-------------------------------------------------------------------------------
(***************************************************************************)
(* Arithmetic.                                                             *)
(***************************************************************************)

\* Products of natural numbers are natural, and grow with their factors.
LEMMA Product ==
  ASSUME NEW x \in Nat, NEW y \in Nat, NEW c \in Nat, x <= y
  PROVE  x * c \in Nat /\ y * c \in Nat /\ x * c <= y * c
<1>1. \A k, l \in Nat : k * l \in Nat
  OBVIOUS
<1>2. (y - x) * c \in Nat
  BY <1>1
<1>3. y * c = x * c + (y - x) * c
  OBVIOUS
<1> QED
  BY <1>1, <1>2, <1>3

\* Division with remainder.
LEMMA Division ==
  ASSUME NEW x \in Int, NEW c \in Nat, c > 0
  PROVE  /\ x \div c \in Int /\ x % c \in 0 .. c - 1
         /\ x % c = x - c * (x \div c)
OBVIOUS

\* The row and the column of a position are its quotient and its remainder.
LEMMA Unique ==
  ASSUME NEW q \in Int, NEW c \in Nat, c > 0, NEW t \in 0 .. c - 1
  PROVE  (q * c + t) \div c = q /\ (q * c + t) % c = t
<1> DEFINE x == q * c + t
           d == x \div c
           m == x % c
<1>1. x \in Int /\ d \in Int /\ m \in 0 .. c - 1 /\ m = x - c * d
  BY Division
<1>2. x = q * c + t
  OBVIOUS
<1> HIDE DEF x, d, m
<1>0. x = d * c + m
  BY <1>1
<1>3. (d - q) * c = t - m
  BY <1>0, <1>1, <1>2
<1>4. ~(d > q)
  <2> SUFFICES ASSUME d > q PROVE FALSE
    OBVIOUS
  <2>1. d - q \in Nat /\ 1 <= d - q
    BY <1>1
  <2>2. 1 * c <= (d - q) * c
    BY <2>1, Product
  <2> QED
    BY <1>1, <1>3, <2>2
<1>5. ~(d < q)
  <2> SUFFICES ASSUME d < q PROVE FALSE
    OBVIOUS
  <2>1. q - d \in Nat /\ 1 <= q - d
    BY <1>1
  <2>2. 1 * c <= (q - d) * c
    BY <2>1, Product
  <2>3. (q - d) * c = m - t
    BY <1>0, <1>1, <1>2
  <2> QED
    BY <1>1, <2>2, <2>3
<1>6. d = q
  BY <1>1, <1>4, <1>5
<1> QED
  BY <1>1, <1>2, <1>6 DEF x, d, m

\* A row and a column of an array are a position in it.
LEMMA Place ==
  ASSUME NEW rows \in Nat, NEW cols \in Nat, NEW x \in 0 .. rows - 1, NEW y \in 0 .. cols - 1
  PROVE  x * cols + y \in 0 .. rows * cols - 1
<1>1. /\ x * cols \in Nat /\ (x + 1) * cols \in Nat /\ rows * cols \in Nat
      /\ (x + 1) * cols <= rows * cols
  BY Product
<1>2. (x + 1) * cols = x * cols + cols
  OBVIOUS
<1> QED
  BY <1>1, <1>2

\* The index that the generated code computes, for an index that is not negative or a
\* multiple of the size.
LEMMA IndexSafe ==
  ASSUME NEW idx \in Int, NEW size \in Nat, size > 0, idx < 0 => idx % size = 0
  PROVE  SafeIndex(idx, size) = idx % size /\ idx % size \in 0 .. size - 1
<1>1. CASE idx >= 0
  <2>1. idx % size \in 0 .. size - 1
    BY Division
  <2> QED
    BY <1>1, <2>1 DEF SafeIndex
<1>2. CASE idx < 0
  <2> DEFINE q == idx \div size
  <2>1. q \in Int /\ idx % size = 0 /\ idx % size = idx - size * q
    BY <1>2, Division
  <2> HIDE DEF q
  <2>2. - idx = (- q) * size + 0
    BY <2>1
  <2>3. ((- q) * size + 0) % size = 0
    BY <2>1, Unique
  <2>4. (- idx) % size = 0
    BY <2>2, <2>3
  <2> QED
    BY <1>2, <2>1, <2>4 DEF SafeIndex
<1> QED
  BY <1>1, <1>2

\* Any other index is still an integer.
LEMMA IndexInt ==
  ASSUME NEW idx \in Int, NEW size \in Nat, size > 0
  PROVE  SafeIndex(idx, size) \in Int
<1>1. (- idx) % size \in Int /\ idx % size \in Int
  BY Division
<1> QED
  BY <1>1 DEF SafeIndex

-------------------------------------------------------------------------------
(***************************************************************************)
(* The operations begin with shapes that fit.                              *)
(***************************************************************************)

\* Shapes of arrays.
LEMMA ArrayFacts ==
  /\ Shaped(Scalar) /\ Scalar.ty = "SCALAR" /\ Scalar.rows = 1 /\ Scalar.cols = 1
  /\ \A s \in Vectors : Shaped(s) /\ s.ty = "VECTOR" /\ s.rows = 1
  /\ \A s \in Strings : Shaped(s) /\ s.ty = "STRING" /\ s.rows = 1
  /\ \A s \in Matrices : Shaped(s) /\ s.ty = "MATRIX"
<1>1. \A x \in Sizes : x \in Nat \ {0}
  BY ArraysAssumption DEF ArraysAssumption
<1> QED
  BY <1>1 DEF Scalar, Vectors, Strings, Matrices, Shape, Shapes, Shaped

\* Sizes of shapes.
LEMMA ShapedFacts ==
  ASSUME NEW s, Shaped(s)
  PROVE  /\ s.rows \in Nat /\ s.rows > 0 /\ s.cols \in Nat /\ s.cols > 0
         /\ Length(s) \in Nat /\ Length(s) >= 1 /\ 0 \in Positions(s)
         /\ s.rows = 1 => Length(s) = s.cols
         /\ s.ty \in {"SCALAR", "VECTOR", "STRING", "MATRIX"}
<1>1. /\ s.rows \in Nat /\ s.rows > 0 /\ s.cols \in Nat /\ s.cols > 0
      /\ s.ty \in {"SCALAR", "VECTOR", "STRING", "MATRIX"}
  BY DEF Shaped, Shapes
<1>2. Length(s) = s.rows * s.cols
  BY DEF Length
<1>3. 1 * s.cols <= s.rows * s.cols /\ s.rows * s.cols \in Nat
  BY <1>1, Product
<1> QED
  BY <1>1, <1>2, <1>3 DEF Positions

\* Memory is as large as its shape.
LEMMA Memory ==
  \A s : DOMAIN Contents(s) = Positions(s) /\ DOMAIN Fresh(s) = Positions(s)
        /\ DOMAIN Variable(s) = Positions(s)
BY DEF Contents, Fresh, Variable

\* The fields of an operation.
LEMMA OpFields ==
  ASSUME NEW kind, NEW sym, NEW e1, NEW e2, NEW ix, NEW diff
  PROVE  LET o == Op(kind, sym, e1, e2, ix, diff) IN
         /\ o.kind = kind /\ o.sym = sym /\ o.e1 = e1 /\ o.e2 = e2 /\ o.ix = ix /\ o.diff = diff
         /\ IsOp(o)
BY DEF Op, IsOp

\* Assignments.
LEMMA AssignBegins ==
  ASSUME NEW s \in Arrays, NEW e \in Arrays, s.ty = "STRING" => e.ty = "STRING", Assign(s, e)
  PROVE  Throw \/ \E o, m : Begin(o, "flat", m) /\ BeginOK(o, "flat", m)
<1> DEFINE o == Op("assign", s, e, Scalar, <<>>, {})
<1> SUFFICES ASSUME ~Throw PROVE \E x, m : Begin(x, "flat", m) /\ BeginOK(x, "flat", m)
  OBVIOUS
<1>1. Compatible(s, e) /\ Begin(o, "flat", Variable(s))
  BY DEF Assign
<1>2. /\ o.kind = "assign" /\ o.sym = s /\ o.e1 = e /\ o.e2 = Scalar /\ o.ix = <<>>
      /\ o.diff = {} /\ IsOp(o)
  BY OpFields
<1> HIDE DEF o
<1>3. Shaped(s) /\ Shaped(e) /\ Shaped(Scalar)
  BY ArrayFacts DEF Arrays
<1>4. s.ty # "STRING" => Length(s) <= Length(e)
  <2>1. CASE e.ty = "VECTOR"
    BY <1>1, <2>1 DEF Compatible
  <2>2. CASE e.ty # "VECTOR" /\ s.ty = "MATRIX" /\ e.ty = "MATRIX"
    BY <1>1, <1>3, <2>2, ShapedFacts DEF Compatible
  <2>3. CASE e.ty # "VECTOR" /\ ~(s.ty = "MATRIX" /\ e.ty = "MATRIX")
    <3>1. s.ty = e.ty
      BY <1>1, <2>3 DEF Compatible
    <3> QED
      BY <2>3, <3>1, ArrayFacts DEF Arrays
  <2> QED
    BY <2>1, <2>2, <2>3
<1>5. OpShaped(o)
  BY <1>2, <1>3, <1>4 DEF OpShaped, Picking, Flats, Compares
<1>6. BeginOK(o, "flat", Variable(s))
  BY <1>2, <1>5, Memory DEF BeginOK, Flats
<1> QED
  BY <1>1, <1>6

\* Loops over all elements that give a new array.
LEMMA MapBegins ==
  ASSUME NEW e \in Vectors \union Matrices, UMinus(e) \/ ScalarProd(e) \/ ToString(e)
  PROVE  \E o, m : Begin(o, "flat", m) /\ BeginOK(o, "flat", m)
<1>1. PICK kind \in {"map", "str"} : Begin(Op(kind, e, e, Scalar, <<>>, {}), "flat", Fresh(e))
  BY DEF UMinus, ScalarProd, ToString
<1> DEFINE o == Op(kind, e, e, Scalar, <<>>, {})
<1>2. /\ o.kind = kind /\ o.sym = e /\ o.e1 = e /\ o.e2 = Scalar /\ o.ix = <<>>
      /\ o.diff = {} /\ IsOp(o)
  BY OpFields
<1>3. Begin(o, "flat", Fresh(e))
  BY <1>1
<1> HIDE DEF o
<1>4. Shaped(e) /\ Shaped(Scalar) /\ e.ty # "STRING"
  BY ArrayFacts
<1>5. OpShaped(o)
  BY <1>2, <1>4 DEF OpShaped, Picking, Flats, Compares
<1> QED
  BY <1>2, <1>3, <1>5, Memory DEF BeginOK, Flats

\* Sums of vectors.
LEMMA PlusBegins ==
  ASSUME NEW e1, NEW e2 \in Vectors \union Matrices, Plus(e1, e2)
  PROVE  Throw \/ \E o, m : Begin(o, "flat", m) /\ BeginOK(o, "flat", m)
<1> DEFINE o == Op("add", e1, e1, e2, <<>>, {})
<1> SUFFICES ASSUME ~Throw PROVE \E x, m : Begin(x, "flat", m) /\ BeginOK(x, "flat", m)
  OBVIOUS
<1>1. e1.ty = "VECTOR" /\ e2 = e1 /\ Begin(o, "flat", Fresh(e1))
  BY DEF Plus
<1>2. /\ o.kind = "add" /\ o.sym = e1 /\ o.e1 = e1 /\ o.e2 = e2 /\ o.ix = <<>>
      /\ o.diff = {} /\ IsOp(o)
  BY OpFields
<1> HIDE DEF o
<1>3. Shaped(e1)
  BY <1>1, ArrayFacts
<1>4. OpShaped(o)
  BY <1>1, <1>2, <1>3 DEF OpShaped, Picking, Flats, Compares
<1> QED
  BY <1>1, <1>2, <1>4, Memory DEF BeginOK, Flats

\* Inner products.
LEMMA DotBegins ==
  ASSUME NEW e1 \in Vectors, NEW e2 \in Vectors, Dot(e1, e2)
  PROVE  Throw \/ \E o, m : Begin(o, "flat", m) /\ BeginOK(o, "flat", m)
<1> DEFINE o == Op("dot", Scalar, e1, e2, <<>>, {})
           m == [p \in {0} |-> <<>>]
<1> SUFFICES ASSUME ~Throw PROVE \E x, y : Begin(x, "flat", y) /\ BeginOK(x, "flat", y)
  OBVIOUS
<1>1. e2 = e1 /\ Begin(o, "flat", m)
  BY DEF Dot
<1>2. /\ o.kind = "dot" /\ o.sym = Scalar /\ o.e1 = e1 /\ o.e2 = e2 /\ o.ix = <<>>
      /\ o.diff = {} /\ IsOp(o)
  BY OpFields
<1>3. DOMAIN m = {0} /\ m[0] = <<>>
  OBVIOUS
<1> HIDE DEF o, m
<1>4. Shaped(e1) /\ e1.ty = "VECTOR" /\ Shaped(Scalar) /\ Positions(Scalar) = {0}
  BY ArrayFacts DEF Positions, Length
<1>5. OpShaped(o)
  BY <1>1, <1>2, <1>4 DEF OpShaped, Picking, Flats, Compares
<1> QED
  BY <1>1, <1>2, <1>3, <1>4, <1>5 DEF BeginOK, Flats

\* Transposed matrices.
LEMMA TranspBegins ==
  ASSUME NEW e \in Matrices, Transp(e)
  PROVE  \E o, m : Begin(o, "flat", m) /\ BeginOK(o, "flat", m)
<1> DEFINE s == Shape("MATRIX", e.cols, e.rows)
           o == Op("transp", s, e, Scalar, <<>>, {})
<1>1. Begin(o, "flat", Fresh(s))
  BY DEF Transp
<1>2. /\ o.kind = "transp" /\ o.sym = s /\ o.e1 = e /\ o.e2 = Scalar /\ o.ix = <<>>
      /\ o.diff = {} /\ IsOp(o)
  BY OpFields
<1>3. Shaped(e) /\ e.ty = "MATRIX" /\ Shaped(Scalar)
  BY ArrayFacts
<1>4. Shaped(s) /\ s.rows = e.cols /\ s.cols = e.rows
  BY <1>3, ShapedFacts DEF Shape, Shaped, Shapes
<1> HIDE DEF o, s
<1>5. OpShaped(o)
  BY <1>2, <1>3, <1>4 DEF OpShaped, Picking, Flats, Compares
<1> QED
  BY <1>1, <1>2, <1>5, Memory DEF BeginOK, Flats

\* Comparisons.
LEMMA CompareBegins ==
  ASSUME NEW e1 \in Vectors \union Matrices, NEW e2 \in Vectors \union Matrices,
         NEW kind \in {"equ", "neq"}, NEW diff \in SUBSET Positions(e1),
         Compare(kind, e1, e2, diff)
  PROVE  \E o, l, m : Begin(o, l, m) /\ BeginOK(o, l, m)
<1> DEFINE o == Op(kind, Scalar, e1, e2, <<>>, diff)
<1>1. PICK l, x : /\ Begin(o, l, [p \in {0} |-> x])
                  /\ \/ e1 = e2 /\ l = "comp" /\ x = TRUE
                     \/ e1 # e2 /\ l = "done" /\ x = (kind = "neq")
  BY DEF Compare
<1> DEFINE m == [p \in {0} |-> x]
<1>2. /\ o.kind = kind /\ o.sym = Scalar /\ o.e1 = e1 /\ o.e2 = e2
      /\ o.ix = <<>> /\ o.diff = diff /\ IsOp(o)
  BY OpFields
<1>3. DOMAIN m = {0} /\ m[0] = x
  OBVIOUS
<1>4. Begin(o, l, m)
  BY <1>1
<1> HIDE DEF o, m
<1>5. Shaped(e1) /\ Shaped(e2) /\ Shaped(Scalar) /\ Positions(Scalar) = {0}
  BY ArrayFacts DEF Positions, Length
<1>6. OpShaped(o)
  BY <1>2, <1>5 DEF OpShaped, Picking, Flats, Compares
<1>7. BeginOK(o, l, m)
  BY <1>1, <1>2, <1>3, <1>5, <1>6, Zenon DEF BeginOK, Compares
<1> QED
  BY <1>4, <1>7

\* Products with a matrix.
LEMMA ProductBegins ==
  ASSUME NEW e1 \in Matrices, NEW e2 \in Vectors \union Matrices,
         \/ e2 \in Vectors /\ MatVec(e1, e2)
         \/ e2 \in Matrices /\ MatMat(e1, e2)
  PROVE  Throw \/ \E o, l, m : Begin(o, l, m) /\ BeginOK(o, l, m)
<1> SUFFICES ASSUME ~Throw PROVE \E x, l, y : Begin(x, l, y) /\ BeginOK(x, l, y)
  OBVIOUS
<1>1. Shaped(e1) /\ e1.ty = "MATRIX" /\ Shaped(e2)
  BY ArrayFacts
<1>2. CASE e2 \in Vectors /\ MatVec(e1, e2)
  <2> DEFINE s == Shape("VECTOR", 1, e1.rows)
             o == Op("matvec", s, e1, e2, <<>>, {})
  <2>1. Begin(o, "vec_i", Fresh(s)) /\ e1.cols = e2.cols
    BY <1>2 DEF MatVec
  <2>2. /\ o.kind = "matvec" /\ o.sym = s /\ o.e1 = e1 /\ o.e2 = e2 /\ o.ix = <<>>
        /\ o.diff = {} /\ IsOp(o)
    BY OpFields
  <2>3. Shaped(s) /\ s.rows = 1 /\ s.cols = e1.rows
    BY <1>1, ShapedFacts DEF Shape, Shaped, Shapes
  <2>4. e2.rows = 1
    BY <1>2, ArrayFacts
  <2> HIDE DEF o, s
  <2>5. OpShaped(o)
    BY <1>1, <2>1, <2>2, <2>3, <2>4 DEF OpShaped, Picking, Flats, Compares
  <2> QED
    BY <2>1, <2>2, <2>5, Memory DEF BeginOK
<1>3. CASE e2 \in Matrices /\ MatMat(e1, e2)
  <2> DEFINE s == Shape("MATRIX", e1.rows, e2.cols)
             o == Op("matmat", s, e1, e2, <<>>, {})
  <2>1. Begin(o, "mat_i", Fresh(s)) /\ e1.cols = e2.rows
    BY <1>3 DEF MatMat
  <2>2. /\ o.kind = "matmat" /\ o.sym = s /\ o.e1 = e1 /\ o.e2 = e2 /\ o.ix = <<>>
        /\ o.diff = {} /\ IsOp(o)
    BY OpFields
  <2>3. Shaped(s) /\ s.rows = e1.rows /\ s.cols = e2.cols
    BY <1>1, ShapedFacts DEF Shape, Shaped, Shapes
  <2> HIDE DEF o, s
  <2>4. OpShaped(o)
    BY <1>1, <2>1, <2>2, <2>3 DEF OpShaped, Picking, Flats, Compares
  <2> QED
    BY <2>1, <2>2, <2>4, Memory DEF BeginOK
<1> QED
  BY <1>2, <1>3

\* Ranges of vectors and strings that are read.
LEMMA SliceVectorBegins ==
  ASSUME NEW e \in Vectors \union Strings, NEW x \in Indices, NEW y \in Indices,
         SliceVector(e, x, y)
  PROVE  \E o, l, m : BeginRange(o, l, m) /\ BeginRangeOK(o, l, m)
<1> DEFINE o == Op("slice", e, e, Scalar, <<0, 0, x, y>>, {})
<1>1. BeginRange(o, "col", Fresh(e))
  BY DEF SliceVector
<1>2. /\ o.kind = "slice" /\ o.sym = e /\ o.e1 = e /\ o.e2 = Scalar
      /\ o.ix = <<0, 0, x, y>> /\ o.diff = {} /\ IsOp(o)
  BY OpFields
<1> HIDE DEF o
<1>3. Shaped(e) /\ e.ty \in {"VECTOR", "STRING"} /\ Shaped(Scalar)
  BY ArrayFacts
<1>4. Indexed(o) = e
  BY <1>2 DEF Indexed
<1>5. o.ix # <<>> /\ \A k \in 1 .. 4 : o.ix[k] \in Int
  BY <1>2, ArraysAssumption DEF ArraysAssumption
<1>6. OpShaped(o)
  BY <1>2, <1>3, <1>4, <1>5 DEF OpShaped, Picking, Flats, Compares
<1>7. BeginRangeOK(o, "col", Fresh(e))
  BY <1>2, <1>3, <1>4, <1>6 DEF BeginRangeOK, Ranges
<1> QED
  BY <1>1, <1>7

\* Ranges of matrices that are read.
LEMMA SliceMatrixBegins ==
  ASSUME NEW e \in Matrices, NEW x \in Indices, NEW y \in Indices, NEW z \in Indices,
         NEW w \in Indices, SliceMatrix(e, x, y, z, w)
  PROVE  \E o, l, m : BeginRange(o, l, m) /\ BeginRangeOK(o, l, m)
<1> DEFINE s == Shape("VECTOR", 1, Length(e))
           o == Op("slice", s, e, Scalar, <<x, y, z, w>>, {})
<1>1. BeginRange(o, "row", Fresh(s))
  BY DEF SliceMatrix
<1>2. /\ o.kind = "slice" /\ o.sym = s /\ o.e1 = e /\ o.e2 = Scalar
      /\ o.ix = <<x, y, z, w>> /\ o.diff = {} /\ IsOp(o)
  BY OpFields
<1>3. Shaped(e) /\ e.ty = "MATRIX" /\ Shaped(Scalar)
  BY ArrayFacts
<1>4. Length(e) \in Nat /\ Length(e) >= 1
  BY <1>3, ShapedFacts
<1>5. s.ty = "VECTOR" /\ s.rows = 1 /\ s.cols = Length(e) /\ Shaped(s)
  BY <1>4 DEF Shape, Shaped, Shapes
<1> HIDE DEF o, s
<1>6. Length(s) = Length(e)
  BY <1>5, ShapedFacts
<1>7. Indexed(o) = e
  BY <1>2 DEF Indexed
<1>8. o.ix # <<>> /\ \A k \in 1 .. 4 : o.ix[k] \in Int
  BY <1>2, ArraysAssumption DEF ArraysAssumption
<1>9. OpShaped(o)
  BY <1>2, <1>3, <1>5, <1>6, <1>7, <1>8 DEF OpShaped, Picking, Flats, Compares
<1>10. BeginRangeOK(o, "row", Fresh(s))
  BY <1>2, <1>3, <1>7, <1>9 DEF BeginRangeOK, Ranges
<1> QED
  BY <1>1, <1>10

\* Ranges that are written.
LEMMA WriteBegins ==
  ASSUME NEW s \in Arrays, NEW e \in Arrays \union {Scalar}, NEW ix, NEW l,
         ix # <<>>, \A k \in 1 .. 4 : ix[k] \in Int,
         e.ty = "MATRIX" => s.ty = "MATRIX",
         l = IF s.ty = "MATRIX" THEN "row" ELSE "col",
         NEW kind \in {"write", "shift"}, kind = "shift" => e = s,
         BeginRange(Op(kind, s, e, Scalar, ix, {}), l, Variable(s))
  PROVE  \E o, k, m : BeginRange(o, k, m) /\ BeginRangeOK(o, k, m)
<1> DEFINE o == Op(kind, s, e, Scalar, ix, {})
<1>1. BeginRange(o, l, Variable(s))
  OBVIOUS
<1>2. /\ o.kind = kind /\ o.sym = s /\ o.e1 = e /\ o.e2 = Scalar
      /\ o.ix = ix /\ o.diff = {} /\ IsOp(o)
  BY OpFields
<1> HIDE DEF o
<1>3. Shaped(s) /\ Shaped(e) /\ Shaped(Scalar) /\ s.ty # "SCALAR"
  BY ArrayFacts DEF Arrays
<1>4. Indexed(o) = s
  BY <1>2 DEF Indexed
<1>5. OpShaped(o)
  BY <1>2, <1>3, <1>4 DEF OpShaped, Picking, Flats, Compares
<1>6. BeginRangeOK(o, l, Variable(s))
  BY <1>2, <1>4, <1>5 DEF BeginRangeOK, Ranges
<1> QED
  BY <1>1, <1>6

\* The same for vectors and strings, for matrices, and for an array assigned to itself.
LEMMA AssignVectorBegins ==
  ASSUME NEW s, NEW e, NEW x \in Indices, NEW y \in Indices,
         \/ s \in Vectors /\ e \in Vectors \union {Scalar}
         \/ s \in Strings /\ e \in Strings,
         AssignVectorRange(s, e, x, y)
  PROVE  \E o, l, m : BeginRange(o, l, m) /\ BeginRangeOK(o, l, m)
<1> DEFINE ix == <<0, 0, x, y>>
<1>1. BeginRange(Op("write", s, e, Scalar, ix, {}), "col", Variable(s))
  BY DEF AssignVectorRange
<1>2. ix # <<>> /\ \A k \in 1 .. 4 : ix[k] \in Int
  BY ArraysAssumption DEF ArraysAssumption
<1> HIDE DEF ix
<1>3. s \in Arrays /\ e \in Arrays \union {Scalar} /\ s.ty # "MATRIX" /\ e.ty # "MATRIX"
  BY ArrayFacts DEF Arrays
<1> QED
  BY <1>1, <1>2, <1>3, WriteBegins

LEMMA AssignMatrixBegins ==
  ASSUME NEW s \in Matrices, NEW e \in Vectors \union Matrices \union {Scalar},
         NEW x \in Indices, NEW y \in Indices, NEW z \in Indices, NEW w \in Indices,
         AssignMatrixRange(s, e, x, y, z, w)
  PROVE  \E o, l, m : BeginRange(o, l, m) /\ BeginRangeOK(o, l, m)
<1> DEFINE ix == <<x, y, z, w>>
<1>1. BeginRange(Op("write", s, e, Scalar, ix, {}), "row", Variable(s))
  BY DEF AssignMatrixRange
<1>2. ix # <<>> /\ \A k \in 1 .. 4 : ix[k] \in Int
  BY ArraysAssumption DEF ArraysAssumption
<1> HIDE DEF ix
<1>3. s \in Arrays /\ e \in Arrays \union {Scalar} /\ s.ty = "MATRIX"
  BY ArrayFacts DEF Arrays
<1> QED
  BY <1>1, <1>2, <1>3, WriteBegins

LEMMA ShiftBegins ==
  ASSUME NEW s \in Arrays, NEW x \in Indices \union {0}, NEW y \in Indices \union {0},
         NEW z \in Indices, NEW w \in Indices, ShiftRange(s, x, y, z, w)
  PROVE  \E o, l, m : BeginRange(o, l, m) /\ BeginRangeOK(o, l, m)
<1> DEFINE ix == <<x, y, z, w>>
           k0 == IF s.ty = "MATRIX" THEN "row" ELSE "col"
<1>1. BeginRange(Op("shift", s, s, Scalar, ix, {}), k0, Variable(s))
  BY DEF ShiftRange
<1>2. ix # <<>> /\ \A k \in 1 .. 4 : ix[k] \in Int
  BY ArraysAssumption DEF ArraysAssumption
<1> HIDE DEF ix
<1>3. s \in Arrays \union {Scalar}
  OBVIOUS
<1> QED
  BY <1>1, <1>2, <1>3, WriteBegins

\* Elements.
ElementOK(p) ==
  /\ pc = "idle" /\ pc' = "done"
  /\ OpShaped(op') /\ op'.kind \in {"read", "put"} /\ op'.e2 = Scalar
  /\ op'.kind = "read" => /\ op'.sym = Scalar
                          /\ r' = [q \in {0} |-> Load(Contents(op'.e1), p)]
                          /\ wild' = Outside(Contents(op'.e1), p)
  /\ op'.kind = "put" => /\ op'.e1 = Scalar
                         /\ r' = Store(Variable(op'.sym), p, Elem(0))
                         /\ wild' = Outside(Variable(op'.sym), p)
  /\ a' = Contents(op'.e1)
  /\ p = SafeIndex(op'.ix[1], Indexed(op').rows) * Indexed(op').cols
         + SafeIndex(op'.ix[3], Indexed(op').cols)
  /\ op'.ix[1] = op'.ix[2] /\ op'.ix[3] = op'.ix[4]
  /\ op'.diff = {}
  /\ UNCHANGED <<i, j, n>>

\* Elements that are read or written.
LEMMA ElementBegins ==
  ASSUME NEW e \in Arrays, NEW x \in Indices \union {0}, NEW y \in Indices,
         ReadElement(e, x, y) \/ AssignElement(e, x, y)
  PROVE  \E p : ElementOK(p)
<1> DEFINE p == SafeIndex(x, e.rows) * e.cols + SafeIndex(y, e.cols)
           ix == <<x, x, y, y>>
<1>1. /\ Shaped(e) /\ e.ty # "SCALAR" /\ Shaped(Scalar)
      /\ ix # <<>> /\ \A k \in 1 .. 4 : ix[k] \in Int
      /\ ix[1] = x /\ ix[2] = x /\ ix[3] = y /\ ix[4] = y
  BY ArrayFacts, ArraysAssumption DEF ArraysAssumption, Arrays
<1>2. CASE ReadElement(e, x, y)
  <2> DEFINE o == Op("read", Scalar, e, Scalar, ix, {})
  <2>1. /\ pc = "idle" /\ pc' = "done" /\ op' = o
        /\ a' = Contents(e) /\ r' = [q \in {0} |-> Load(Contents(e), p)]
        /\ wild' = Outside(Contents(e), p)
        /\ UNCHANGED <<i, j, n>>
    BY <1>2 DEF ReadElement
  <2>2. /\ o.kind = "read" /\ o.sym = Scalar /\ o.e1 = e /\ o.e2 = Scalar
        /\ o.ix = ix /\ o.diff = {} /\ IsOp(o)
    BY OpFields
  <2> HIDE DEF o, ix
  <2>3. Indexed(o) = e
    BY <2>2 DEF Indexed
  <2>4. OpShaped(o)
    BY <1>1, <2>2, <2>3 DEF OpShaped, Picking, Flats, Compares
  <2> QED
    BY <1>1, <2>1, <2>2, <2>3, <2>4 DEF ElementOK
<1>3. CASE AssignElement(e, x, y)
  <2> DEFINE o == Op("put", e, Scalar, Scalar, ix, {})
  <2>1. /\ pc = "idle" /\ pc' = "done" /\ op' = o
        /\ a' = Contents(Scalar) /\ r' = Store(Variable(e), p, Elem(0))
        /\ wild' = Outside(Variable(e), p)
        /\ UNCHANGED <<i, j, n>>
    BY <1>3 DEF AssignElement
  <2>2. /\ o.kind = "put" /\ o.sym = e /\ o.e1 = Scalar /\ o.e2 = Scalar
        /\ o.ix = ix /\ o.diff = {} /\ IsOp(o)
    BY OpFields
  <2> HIDE DEF o, ix
  <2>3. Indexed(o) = e
    BY <2>2 DEF Indexed
  <2>4. OpShaped(o)
    BY <1>1, <2>2, <2>3 DEF OpShaped, Picking, Flats, Compares
  <2> QED
    BY <1>1, <2>1, <2>2, <2>3, <2>4 DEF ElementOK
<1> QED
  BY <1>2, <1>3

\* Every operation begins in one of four ways.
LEMMA Started ==
  ASSUME Start
  PROVE  \/ Throw
         \/ \E o, l, m : Begin(o, l, m) /\ BeginOK(o, l, m)
         \/ \E o, l, m : BeginRange(o, l, m) /\ BeginRangeOK(o, l, m)
         \/ \E p : ElementOK(p)
<1> DEFINE Goal == \/ Throw
                   \/ \E o, l, m : Begin(o, l, m) /\ BeginOK(o, l, m)
                   \/ \E o, l, m : BeginRange(o, l, m) /\ BeginRangeOK(o, l, m)
                   \/ \E p : ElementOK(p)
<1>1. ASSUME NEW s \in Arrays, NEW e \in Arrays, s.ty = "STRING" => e.ty = "STRING", Assign(s, e)
      PROVE  Goal
  BY <1>1, AssignBegins
<1>2. ASSUME NEW e \in Vectors \union Matrices, UMinus(e) \/ ScalarProd(e) \/ ToString(e)
      PROVE  Goal
  BY <1>2, MapBegins
<1>3. ASSUME NEW e1 \in Vectors \union Matrices, NEW e2 \in Vectors \union Matrices, Plus(e1, e2)
      PROVE  Goal
  BY <1>3, PlusBegins
<1>4. ASSUME NEW e1 \in Vectors \union Matrices, NEW e2 \in Vectors \union Matrices,
             NEW kind \in {"equ", "neq"}, NEW diff \in SUBSET Positions(e1),
             Compare(kind, e1, e2, diff)
      PROVE  Goal
  BY <1>4, CompareBegins
<1>5. ASSUME NEW e1 \in Vectors, NEW e2 \in Vectors, Dot(e1, e2)
      PROVE  Goal
  BY <1>5, DotBegins
<1>6. ASSUME NEW e \in Matrices, Transp(e)
      PROVE  Goal
  BY <1>6, TranspBegins
<1>7. ASSUME NEW e1 \in Matrices,
             (\E e2 \in Vectors : MatVec(e1, e2)) \/ \E e2 \in Matrices : MatMat(e1, e2)
      PROVE  Goal
  BY <1>7, ProductBegins
<1>8. ASSUME NEW e \in Vectors \union Strings, NEW x \in Indices, NEW y \in Indices,
             SliceVector(e, x, y)
      PROVE  Goal
  BY <1>8, SliceVectorBegins
<1>9. ASSUME NEW s, NEW e, NEW x \in Indices, NEW y \in Indices, AssignVectorRange(s, e, x, y),
             \/ s \in Vectors /\ e \in Vectors \union {Scalar}
             \/ s \in Strings /\ e \in Strings
      PROVE  Goal
  BY <1>9, AssignVectorBegins
<1>10. ASSUME NEW s \in Arrays, NEW x \in Indices \union {0}, NEW y \in Indices \union {0},
              NEW z \in Indices, NEW w \in Indices, ShiftRange(s, x, y, z, w)
       PROVE  Goal
  BY <1>10, ShiftBegins
<1>11. ASSUME NEW e \in Arrays, NEW x \in Indices \union {0}, NEW y \in Indices,
              ReadElement(e, x, y) \/ AssignElement(e, x, y)
       PROVE  Goal
  BY <1>11, ElementBegins
<1>12. ASSUME NEW s \in Matrices, NEW x \in Indices, NEW y \in Indices, NEW z \in Indices,
              NEW w \in Indices, SliceMatrix(s, x, y, z, w)
       PROVE  Goal
  BY <1>12, SliceMatrixBegins
<1>13. ASSUME NEW s \in Matrices, NEW e \in Vectors \union Matrices \union {Scalar},
              NEW x \in Indices, NEW y \in Indices, NEW z \in Indices, NEW w \in Indices,
              AssignMatrixRange(s, e, x, y, z, w)
       PROVE  Goal
  BY <1>13, AssignMatrixBegins
<1> SUFFICES Goal
  OBVIOUS
<1> HIDE DEF Goal
<1>14. CASE \E s, e \in Arrays : (s.ty = "STRING" => e.ty = "STRING") /\ Assign(s, e)
  BY <1>1, <1>14
<1>15. CASE \E e \in Vectors \union Matrices : UMinus(e) \/ ScalarProd(e) \/ ToString(e)
  BY <1>2, <1>15
<1>16. CASE \E e1, e2 \in Vectors \union Matrices :
          \/ Plus(e1, e2)
          \/ /\ e1.ty = e2.ty
             /\ \E kind \in {"equ", "neq"} : \E diff \in SUBSET Positions(e1) :
                  Compare(kind, e1, e2, diff)
  BY <1>3, <1>4, <1>16
<1>17. CASE \E e1, e2 \in Vectors : Dot(e1, e2)
  BY <1>5, <1>17
<1>18. CASE \E e \in Matrices : Transp(e)
  BY <1>6, <1>18
<1>19. CASE \E e1 \in Matrices : (\E e2 \in Vectors : MatVec(e1, e2)) \/ \E e2 \in Matrices : MatMat(e1, e2)
  BY <1>7, <1>19
<1>20. CASE \E x, y \in Indices :
          \/ \E e \in Vectors \union Strings : SliceVector(e, x, y)
          \/ \E s, e \in Vectors : AssignVectorRange(s, e, x, y)
          \/ \E s, e \in Strings : AssignVectorRange(s, e, x, y)
          \/ \E s \in Vectors : AssignVectorRange(s, Scalar, x, y)
          \/ \E s \in Vectors \union Strings : ShiftRange(s, 0, 0, x, y)
          \/ \E e \in Matrices : ReadElement(e, x, y) \/ AssignElement(e, x, y)
          \/ \E z, w \in Indices : \E s \in Matrices :
               \/ SliceMatrix(s, x, y, z, w) \/ ShiftRange(s, x, y, z, w)
               \/ \E e \in Vectors \union Matrices \union {Scalar} : AssignMatrixRange(s, e, x, y, z, w)
  <2> PICK x \in Indices, y \in Indices :
          \/ \E e \in Vectors \union Strings : SliceVector(e, x, y)
          \/ \E s, e \in Vectors : AssignVectorRange(s, e, x, y)
          \/ \E s, e \in Strings : AssignVectorRange(s, e, x, y)
          \/ \E s \in Vectors : AssignVectorRange(s, Scalar, x, y)
          \/ \E s \in Vectors \union Strings : ShiftRange(s, 0, 0, x, y)
          \/ \E e \in Matrices : ReadElement(e, x, y) \/ AssignElement(e, x, y)
          \/ \E z, w \in Indices : \E s \in Matrices :
               \/ SliceMatrix(s, x, y, z, w) \/ ShiftRange(s, x, y, z, w)
               \/ \E e \in Vectors \union Matrices \union {Scalar} : AssignMatrixRange(s, e, x, y, z, w)
    BY <1>20
  <2>1. CASE \E e \in Vectors \union Strings : SliceVector(e, x, y)
    BY <1>8, <2>1
  <2>2. CASE \/ \E s, e \in Vectors : AssignVectorRange(s, e, x, y)
             \/ \E s, e \in Strings : AssignVectorRange(s, e, x, y)
             \/ \E s \in Vectors : AssignVectorRange(s, Scalar, x, y)
    BY <1>9, <2>2
  <2>3. CASE \E s \in Vectors \union Strings : ShiftRange(s, 0, 0, x, y)
    BY <1>10, <2>3 DEF Arrays
  <2>4. CASE \E e \in Matrices : ReadElement(e, x, y) \/ AssignElement(e, x, y)
    BY <1>11, <2>4 DEF Arrays
  <2>5. CASE \E z, w \in Indices : \E s \in Matrices :
               \/ SliceMatrix(s, x, y, z, w) \/ ShiftRange(s, x, y, z, w)
               \/ \E e \in Vectors \union Matrices \union {Scalar} : AssignMatrixRange(s, e, x, y, z, w)
    BY <1>10, <1>12, <1>13, <2>5 DEF Arrays
  <2> QED
    BY <2>1, <2>2, <2>3, <2>4, <2>5
<1>21. CASE \E y \in Indices : \E e \in Vectors \union Strings :
              ReadElement(e, 0, y) \/ AssignElement(e, 0, y)
  BY <1>11, <1>21 DEF Arrays
<1> QED
  BY <1>14, <1>15, <1>16, <1>17, <1>18, <1>19, <1>20, <1>21 DEF Start

-------------------------------------------------------------------------------
(***************************************************************************)
(* Types.                                                                  *)
(***************************************************************************)

\* Storing an element.
LEMMA Stored ==
  ASSUME NEW m, NEW p, NEW x
  PROVE  /\ DOMAIN Store(m, p, x) = DOMAIN m
         /\ p \in DOMAIN m => Store(m, p, x)[p] = x
         /\ \A q \in DOMAIN m : q # p => Store(m, p, x)[q] = m[q]
BY DEF Store

\* A store leaves the operation, the operand and the size of the memory.
LEMMA PutKeeps ==
  ASSUME NEW p, NEW x, NEW beside, Put(p, x, beside)
  PROVE  op' = op /\ a' = a /\ DOMAIN r' = DOMAIN r /\ wild' \in BOOLEAN
<1>1. op' = op /\ a' = a /\ r' = Store(r, p, x)
  BY DEF Put
<1>2. wild' \in BOOLEAN
  BY DEF Put
<1> QED
  BY <1>1, <1>2, Stored

\* The body of a loop over all elements stores one element.
LEMMA FlatPuts ==
  ASSUME op.kind \in Flats, FlatStep
  PROVE  \E p, x : Put(p, x, Outside(a, i))
BY DEF FlatStep, Flats

\* So do all the loops.
LEMMA LoopKeeps ==
  ASSUME Typed, Loop
  PROVE  op' = op /\ a' = a /\ DOMAIN r' = DOMAIN r /\ wild' \in BOOLEAN
<1> DEFINE Keeps == op' = op /\ a' = a /\ DOMAIN r' = DOMAIN r /\ wild' \in BOOLEAN
<1>1. wild \in BOOLEAN /\ (pc = "flat" => op.kind \in Flats)
  BY DEF Typed, TypeOK, PcShaped
<1>2. ASSUME UNCHANGED <<op, a, r, wild>> PROVE Keeps
  BY <1>1, <1>2
<1>3. CASE FlatStep
  <2>1. pc = "flat"
    BY <1>3 DEF FlatStep
  <2> QED
    BY <1>1, <1>3, <2>1, FlatPuts, PutKeeps
<1>4. CASE FlatEnd \/ VecEnd \/ MatEnd \/ RowsEnd
  BY <1>2, <1>4 DEF FlatEnd, VecEnd, MatEnd, RowsEnd, End
<1>5. CASE CompareEnd \/ VecRowEnd \/ MatRow \/ MatRowEnd \/ MatElemEnd \/ Row \/ ColsEnd
  BY <1>2, <1>5 DEF CompareEnd, VecRowEnd, MatRow, MatRowEnd, MatElemEnd, Row, ColsEnd
<1>6. CASE CompareStep \/ Negate \/ VecRow
  BY <1>6, PutKeeps DEF CompareStep, Negate, VecRow
<1>7. CASE VecStep \/ MatElem \/ MatStep
  BY <1>7, PutKeeps DEF VecStep, MatElem, MatStep
<1>8. CASE SliceStep \/ WriteStep \/ Terminate
  BY <1>8, PutKeeps DEF SliceStep, WriteStep, Terminate
<1> QED
  BY <1>3, <1>4, <1>5, <1>6, <1>7, <1>8 DEF Loop

\* The positions of a range are integers.
LEMMA AtInt ==
  ASSUME NEW o, OpShaped(o), o.ix # <<>>
  PROVE  \A k \in 1 .. 4 : Safe(Indexed(o), o.ix)[k] \in Int
<1> DEFINE s == Indexed(o)
<1>1. Shaped(s) /\ o.ix[1] \in Int /\ o.ix[2] \in Int /\ o.ix[3] \in Int /\ o.ix[4] \in Int
  BY DEF OpShaped, Indexed
<1>2. Safe(s, o.ix) = << SafeIndex(o.ix[1], s.rows), SafeIndex(o.ix[2], s.rows),
                         SafeIndex(o.ix[3], s.cols), SafeIndex(o.ix[4], s.cols) >>
  BY DEF Safe
<1> HIDE DEF s
<1>3. s.rows \in Nat /\ s.rows > 0 /\ s.cols \in Nat /\ s.cols > 0
  BY <1>1, ShapedFacts
<1>4. /\ SafeIndex(o.ix[1], s.rows) \in Int /\ SafeIndex(o.ix[2], s.rows) \in Int
      /\ SafeIndex(o.ix[3], s.cols) \in Int /\ SafeIndex(o.ix[4], s.cols) \in Int
  BY <1>1, <1>3, IndexInt
<1>5. \A k \in 1 .. 4 : Safe(s, o.ix)[k] \in Int
  BY <1>2, <1>4
<1> QED
  BY <1>5 DEF s

\* The counters stay in the ranges of their loops.
LEMMA LoopTyped ==
  ASSUME Typed, Loop
  PROVE  Typed'
<1>1. op' = op /\ a' = a /\ DOMAIN r' = DOMAIN r /\ wild' \in BOOLEAN
  BY LoopKeeps
<1>2. /\ i \in Int /\ j \in Int /\ n \in Nat
      /\ OpShaped(op) /\ PcShaped
      /\ op.sym \in Shapes /\ op.e1 \in Shapes /\ op.e2 \in Shapes
      /\ DOMAIN a = Positions(op.e1) /\ DOMAIN r = Positions(op.sym)
  BY DEF Typed, TypeOK
<1>3. Count \in Nat /\ Length(op.e1) \in Nat
  BY <1>2, ShapedFacts DEF OpShaped, Count, Min2
<1>4. /\ op.e1.rows \in Nat /\ op.e1.rows > 0 /\ op.e1.cols \in Nat /\ op.e1.cols > 0
      /\ op.e2.rows \in Nat /\ op.e2.rows > 0 /\ op.e2.cols \in Nat /\ op.e2.cols > 0
  BY <1>2, ShapedFacts DEF OpShaped
<1> DEFINE Pcs == {"idle", "done", "thrown", "flat", "comp", "end", "vec_i", "vec_j", "mat_i",
                   "mat_j", "mat_k", "row", "col", "zero"}
<1> DEFINE Counters == pc' \in Pcs /\ i' \in Int /\ j' \in Int /\ n' \in Nat /\ PcShaped'
<1>0. SUFFICES Counters
  BY <1>1, <1>2 DEF Typed, TypeOK
<1>5. CASE FlatStep
  BY <1>1, <1>2, <1>3, <1>5 DEF FlatStep, PcShaped, Count
<1>6. CASE FlatEnd \/ CompareEnd \/ VecEnd \/ MatEnd \/ RowsEnd \/ Terminate \/ Negate
  BY <1>1, <1>2, <1>6
  DEF FlatEnd, CompareEnd, VecEnd, MatEnd, RowsEnd, Terminate, Negate, End, PcShaped,
      Flats, Compares, Ranges
<1>7. CASE CompareStep
  <2>0. /\ pc = "comp" /\ i < Length(op.e1) /\ UNCHANGED <<j, n>>
        /\ IF i \in op.diff THEN pc' = "end" /\ UNCHANGED i ELSE i' = i + 1 /\ UNCHANGED pc
    BY <1>7, Zenon DEF CompareStep
  <2>1. /\ pc = "comp" /\ i < Length(op.e1) /\ j' = j /\ n' = n
        /\ \/ pc' = "end" /\ i' = i
           \/ pc' = pc /\ i' = i + 1
    BY <2>0
  <2>2. op.kind \in Compares /\ op.e1 = op.e2 /\ i \in 0 .. Length(op.e1)
    BY <1>2, <2>1 DEF PcShaped
  <2> QED
    BY <1>1, <1>2, <1>3, <2>1, <2>2 DEF PcShaped
<1>8. CASE VecRow
  BY <1>1, <1>2, <1>4, <1>8 DEF VecRow, PcShaped
<1>14. CASE VecStep
  BY <1>1, <1>2, <1>4, <1>14 DEF VecStep, PcShaped
<1>15. CASE VecRowEnd
  BY <1>1, <1>2, <1>4, <1>15 DEF VecRowEnd, PcShaped
<1>9. CASE MatRow
  BY <1>1, <1>2, <1>4, <1>9 DEF MatRow, PcShaped
<1>16. CASE MatElem
  BY <1>1, <1>2, <1>4, <1>16 DEF MatElem, PcShaped
<1>17. CASE MatRowEnd
  BY <1>1, <1>2, <1>4, <1>17 DEF MatRowEnd, PcShaped
<1>10. CASE MatStep \/ MatElemEnd
  BY <1>1, <1>2, <1>4, <1>10 DEF MatStep, MatElemEnd, PcShaped
<1>11. CASE Row
  <2>1. op.kind \in Ranges /\ op.ix # <<>>
    BY <1>2, <1>11 DEF Row, PcShaped, OpShaped, Ranges, Picking
  <2>2. At[3] \in Int
    BY <1>2, <2>1, AtInt DEF At
  <2> QED
    BY <1>1, <1>2, <1>11, <2>1, <2>2 DEF Row, PcShaped
<1>12. CASE SliceStep \/ WriteStep
  BY <1>1, <1>2, <1>12 DEF SliceStep, WriteStep, PcShaped, Stepped
<1>13. CASE ColsEnd
  BY <1>1, <1>2, <1>13 DEF ColsEnd, PcShaped, Stepped, OpShaped, Indexed, Ranges
<1> HIDE DEF Counters
<1> QED
  BY <1>5, <1>6, <1>7, <1>8, <1>9, <1>10, <1>11, <1>12, <1>13, <1>14, <1>15, <1>16, <1>17 DEF Loop

\* A slice is assigned.
LEMMA AssignSliceFields ==
  ASSUME NEW s \in Arrays, AssignSlice(s), Typed
  PROVE  /\ pc = "done" /\ op.kind = "slice" /\ Compatible(s, op.sym)
         /\ op'.kind = "assign" /\ op'.sym = s /\ op'.e1 = op.sym /\ op'.e2 = op.e1
         /\ op'.ix = op.ix /\ op'.diff = op.diff
         /\ pc' = "flat" /\ i' = 0 /\ a' = r /\ r' = Variable(s)
         /\ UNCHANGED <<j, n, wild>> /\ IsOp(op')
<1>1. op = Op(op.kind, op.sym, op.e1, op.e2, op.ix, op.diff)
  BY DEF Typed, OpShaped, IsOp
<1>2. op' = Op("assign", s, op.sym, op.e1, op.ix, op.diff)
  BY <1>1 DEF AssignSlice, Op
<1>3. /\ op'.kind = "assign" /\ op'.sym = s /\ op'.e1 = op.sym /\ op'.e2 = op.e1
      /\ op'.ix = op.ix /\ op'.diff = op.diff /\ IsOp(op')
  BY <1>2, OpFields
<1> QED
  BY <1>3 DEF AssignSlice

LEMMA AssignSliceTyped ==
  ASSUME NEW s \in Arrays, AssignSlice(s), Typed
  PROVE  Typed'
<1>1. /\ pc = "done" /\ op.kind = "slice" /\ Compatible(s, op.sym)
      /\ op'.kind = "assign" /\ op'.sym = s /\ op'.e1 = op.sym /\ op'.e2 = op.e1
      /\ op'.ix = op.ix /\ op'.diff = op.diff
      /\ pc' = "flat" /\ i' = 0 /\ a' = r /\ r' = Variable(s)
      /\ j' = j /\ n' = n /\ wild' = wild /\ IsOp(op')
  BY AssignSliceFields
<1>2. /\ OpShaped(op) /\ j \in Int /\ n \in Nat /\ wild \in BOOLEAN
      /\ DOMAIN r = Positions(op.sym)
  BY DEF Typed, TypeOK
<1>3. Shaped(s) /\ Shaped(op.sym) /\ Shaped(op.e1) /\ s.ty # "SCALAR"
  BY <1>2, ArrayFacts DEF OpShaped, Arrays
<1>4. /\ op.ix # <<>> /\ (\A k \in 1 .. 4 : op.ix[k] \in Int) /\ op.e1.ty # "SCALAR"
      /\ Length(op.sym) = Length(op.e1)
  BY <1>1, <1>2 DEF OpShaped, Picking, Indexed
<1>5. op.sym.ty \in {"VECTOR", "STRING"}
  <2>1. op.e1.ty # "MATRIX" => op.sym = op.e1
    BY <1>1, <1>2 DEF OpShaped
  <2>2. op.e1.ty = "MATRIX" => op.sym.ty = "VECTOR"
    BY <1>1, <1>2 DEF OpShaped
  <2> QED
    BY <1>3, <1>4, <2>1, <2>2, ShapedFacts
<1>6. s.ty # "STRING" => Length(s) <= Length(op.sym)
  BY <1>1, <1>5 DEF Compatible
<1>7. Indexed(op').ty # "SCALAR"
  BY <1>1, <1>4 DEF Indexed
<1>8. OpShaped(op')
  BY <1>1, <1>3, <1>4, <1>6, <1>7 DEF OpShaped, Picking, Flats, Compares
<1>9. DOMAIN a' = Positions(op'.e1) /\ DOMAIN r' = Positions(op'.sym)
  BY <1>1, <1>2, Memory
<1>10. Length(op.sym) \in Nat /\ Length(s) \in Nat
  BY <1>3, ShapedFacts
<1>11. PcShaped'
  <2>1. Count' \in Nat
    BY <1>1, <1>10 DEF Count, Min2
  <2> QED
    BY <1>1, <2>1 DEF PcShaped, Flats
<1>12. op'.sym \in Shapes /\ op'.e1 \in Shapes /\ op'.e2 \in Shapes
  BY <1>8 DEF OpShaped, Shaped
<1> QED
  BY <1>1, <1>2, <1>8, <1>9, <1>11, <1>12 DEF Typed, TypeOK

\* The operations begin with their types.
LEMMA InitTyped ==
  ASSUME Init
  PROVE  Typed
<1>1. /\ op.kind = "none" /\ op.sym = Scalar /\ op.e1 = Scalar /\ op.e2 = Scalar
      /\ op.ix = <<>> /\ op.diff = {} /\ IsOp(op)
  BY OpFields DEF Init, NoOp
<1>2. Shaped(Scalar)
  BY ArrayFacts
<1>3. OpShaped(op)
  BY <1>1, <1>2 DEF OpShaped, Picking, Flats, Compares
<1>4. PcShaped
  BY DEF Init, PcShaped
<1>5. /\ pc = "idle" /\ i = 0 /\ j = 0 /\ n = 0 /\ wild = FALSE
      /\ DOMAIN a = Positions(op.e1) /\ DOMAIN r = Positions(op.sym)
  BY <1>1, Memory DEF Init
<1>6. Scalar \in Shapes
  BY <1>2 DEF Shaped
<1>7. i \in Int /\ j \in Int /\ n \in Nat
  BY <1>5
<1>10. wild \in BOOLEAN
  BY <1>5, Zenon
<1>8. op.sym \in Shapes /\ op.e1 \in Shapes /\ op.e2 \in Shapes
  BY <1>1, <1>6
<1>9. TypeOK
  BY <1>5, <1>7, <1>8, <1>10 DEF TypeOK
<1> QED
  BY <1>3, <1>4, <1>9 DEF Typed

LEMMA BeginTyped ==
  ASSUME NEW o, NEW l, NEW m, Begin(o, l, m), BeginOK(o, l, m)
  PROVE  Typed'
<1>1. /\ op' = o /\ a' = Contents(o.e1) /\ r' = m
      /\ pc' = l /\ i' = 0 /\ j' = 0 /\ n' = 0 /\ wild' = FALSE
  BY DEF Begin
<1>2. OpShaped(o) /\ DOMAIN m = Positions(o.sym)
  BY DEF BeginOK
<1>3. Shaped(o.sym) /\ Shaped(o.e1) /\ Shaped(o.e2)
  BY <1>2 DEF OpShaped
<1>4. /\ Length(o.e1) \in Nat /\ Length(o.sym) \in Nat
      /\ o.e1.rows \in Nat /\ o.e2.cols \in Nat
  BY <1>3, ShapedFacts
<1>5. Count' \in Nat
  BY <1>1, <1>4 DEF Count, Min2
<1>6. l \in {"flat", "comp", "done", "vec_i", "mat_i"}
  BY DEF BeginOK
<1>7. /\ l = "flat" => o.kind \in Flats
      /\ l = "comp" => o.kind \in Compares /\ o.e1 = o.e2
      /\ l = "done" => o.kind # "none"
      /\ l = "vec_i" => o.kind = "matvec"
      /\ l = "mat_i" => o.kind = "matmat"
  BY DEF BeginOK, Compares
<1>8. PcShaped'
  BY <1>1, <1>4, <1>5, <1>6, <1>7 DEF PcShaped
<1>9. DOMAIN a' = Positions(op'.e1) /\ DOMAIN r' = Positions(op'.sym)
  BY <1>1, <1>2, Memory
<1>10. op'.sym \in Shapes /\ op'.e1 \in Shapes /\ op'.e2 \in Shapes
  BY <1>1, <1>3 DEF Shaped
<1>11. i' \in Int /\ j' \in Int /\ n' \in Nat
  BY <1>1
<1>14. wild' \in BOOLEAN
  BY <1>1, Zenon
<1>12. OpShaped(op)'
  BY <1>1, <1>2
<1>13. TypeOK'
  BY <1>1, <1>6, <1>9, <1>10, <1>11, <1>14 DEF TypeOK
<1> QED
  BY <1>8, <1>12, <1>13 DEF Typed

LEMMA BeginRangeTyped ==
  ASSUME NEW o, NEW l, NEW m, BeginRange(o, l, m), BeginRangeOK(o, l, m)
  PROVE  Typed'
<1> DEFINE at == Safe(Indexed(o), o.ix)
<1>1. /\ op' = o /\ a' = Contents(o.e1) /\ r' = m
      /\ pc' = l /\ i' = at[1] /\ j' = at[3] /\ n' = 0 /\ wild' = FALSE
  BY DEF BeginRange
<1>2. /\ OpShaped(o) /\ o.kind \in Ranges
      /\ l = IF Indexed(o).ty = "MATRIX" THEN "row" ELSE "col"
      /\ m = IF o.kind = "slice" THEN Fresh(o.sym) ELSE Variable(o.sym)
  BY DEF BeginRangeOK
<1>3. Shaped(o.sym) /\ Shaped(o.e1) /\ Shaped(o.e2) /\ DOMAIN m = Positions(o.sym)
  BY <1>2, Memory DEF OpShaped
<1> HIDE DEF at
<1>5. o.ix # <<>>
  BY <1>2 DEF OpShaped, Ranges, Picking
<1>6. at[1] \in Int /\ at[3] \in Int
  BY <1>2, <1>5, AtInt DEF at
<1>7. PcShaped'
  BY <1>1, <1>2 DEF PcShaped
<1> QED
  BY <1>1, <1>2, <1>3, <1>6, <1>7, Memory DEF Typed, TypeOK, Shaped

LEMMA ElementTyped ==
  ASSUME NEW p, ElementOK(p), Typed
  PROVE  Typed'
<1>1. /\ OpShaped(op') /\ op'.kind \in {"read", "put"}
      /\ pc' = "done" /\ i' = i /\ j' = j /\ n' = n /\ a' = Contents(op'.e1)
  BY DEF ElementOK
<1>2. i \in Int /\ j \in Int /\ n \in Nat
  BY DEF Typed, TypeOK
<1>3. wild' \in BOOLEAN
  BY <1>1 DEF ElementOK, Outside
<1>4. DOMAIN r' = Positions(op'.sym)
  <2>1. CASE op'.kind = "read"
    <3>1. DOMAIN r' = {0} /\ op'.sym = Scalar
      BY <2>1 DEF ElementOK
    <3> QED
      BY <3>1, ArrayFacts DEF Positions, Length
  <2>2. CASE op'.kind = "put"
    BY <2>2, Stored, Memory DEF ElementOK
  <2> QED
    BY <1>1, <2>1, <2>2
<1>5. PcShaped'
  BY <1>1 DEF PcShaped
<1> QED
  BY <1>1, <1>2, <1>3, <1>4, <1>5, Memory DEF Typed, TypeOK, OpShaped, Shaped

\* Every step keeps the types.
LEMMA NextTyped ==
  ASSUME Typed, [Next]_vars
  PROVE  Typed'
<1>1. CASE Start
  <2>1. CASE Throw
    BY <2>1 DEF Throw, Typed, TypeOK, PcShaped, Count
  <2> QED
    BY <1>1, <2>1, Started, BeginTyped, BeginRangeTyped, ElementTyped
<1>2. CASE Loop
  BY <1>2, LoopTyped
<1>3. CASE \E s \in Arrays : AssignSlice(s)
  BY <1>3, AssignSliceTyped
<1>4. CASE UNCHANGED vars
  BY <1>4 DEF vars, Typed, TypeOK, PcShaped, Count
<1> QED
  BY <1>1, <1>2, <1>3, <1>4 DEF Next

LEMMA AlwaysTyped == Spec => []Typed
<1>1. Init => Typed
  BY InitTyped
<1>2. Typed /\ [Next]_vars => Typed'
  BY NextTyped
<1> QED
  BY <1>1, <1>2, PTL DEF Spec

\* The memory of every array is as large as its shape, from the beginning of an operation
\* to its end, whatever the sizes and the indices are.
THEOREM TypeCorrect == Spec => []TypeOK
<1>1. Typed => TypeOK
  BY DEF Typed
<1> QED
  BY <1>1, AlwaysTyped, PTL

-------------------------------------------------------------------------------
(***************************************************************************)
(* Ranges.                                                                 *)
(***************************************************************************)

\* how far a counter has come
Steps(ctr, from, to) == IF from <= to THEN ctr - from ELSE from - ctr

High(s) == Extent(Meant(s)[1], Meant(s)[2])
Wide(s) == Extent(Meant(s)[3], Meant(s)[4])

\* the indices are in the array
Inside(s) ==
  /\ Meant(s)[1] \in 0 .. s.rows - 1 /\ Meant(s)[2] \in 0 .. s.rows - 1
  /\ Meant(s)[3] \in 0 .. s.cols - 1 /\ Meant(s)[4] \in 0 .. s.cols - 1

\* A counter that goes from one index to another.
LEMMA Walk ==
  ASSUME NEW ctr \in Int, NEW from \in Int, NEW to \in Int
  PROVE  /\ Steps(ctr, from, to) \in Int
         /\ InRange(ctr, from, to) <=> Steps(ctr, from, to) < Extent(from, to)
         /\ Steps(Stepped(ctr, from, to), from, to) = Steps(ctr, from, to) + 1
         /\ Nth(Steps(ctr, from, to), from, to) = ctr
         /\ Steps(from, from, to) = 0
BY DEF Steps, InRange, Extent, Stepped, Nth

\* A range of an array has at most as many elements as the array, all of them in it.
LEMMA Extents ==
  ASSUME NEW size \in Nat, NEW x \in 0 .. size - 1, NEW y \in 0 .. size - 1
  PROVE  /\ Extent(x, y) \in 1 .. size
         /\ \A k \in 0 .. Extent(x, y) - 1 : Nth(k, x, y) \in 0 .. size - 1
         /\ \A k, l \in 0 .. Extent(x, y) - 1 : Nth(k, x, y) = Nth(l, x, y) => k = l
BY DEF Extent, Nth

\* A position has a row and a column.
LEMMA Decompose ==
  ASSUME NEW rows \in Nat, NEW cols \in Nat, cols > 0, NEW p \in 0 .. rows * cols - 1
  PROVE  \E x \in 0 .. rows - 1, y \in 0 .. cols - 1 : p = x * cols + y
<1> DEFINE x == p \div cols
           y == p % cols
<1>1. rows * cols \in Nat
  BY Product
<1>2. x \in Int /\ y \in 0 .. cols - 1 /\ y = p - cols * x
  BY <1>1, Division
<1> HIDE DEF x, y
<1>3. p = x * cols + y
  BY <1>1, <1>2
<1>4. ~(x < 0)
  <2> SUFFICES ASSUME x < 0 PROVE FALSE
    OBVIOUS
  <2>1. - x \in Nat /\ 1 <= - x
    BY <1>2
  <2>2. 1 * cols <= (- x) * cols
    BY <2>1, Product
  <2>3. (- x) * cols = y - p
    BY <1>2, <1>3
  <2> QED
    BY <1>1, <1>2, <2>2, <2>3
<1>5. ~(x >= rows)
  <2> SUFFICES ASSUME x >= rows PROVE FALSE
    OBVIOUS
  <2>1. rows * cols <= x * cols
    BY <1>2, <1>4, Product
  <2> QED
    BY <1>1, <1>2, <1>3, <2>1
<1>6. x \in 0 .. rows - 1
  BY <1>2, <1>4, <1>5
<1> QED
  BY <1>2, <1>3, <1>6

\* What the indices of a range mean, and that safe_array_index gives it for regular ones.
LEMMA Indexing ==
  ASSUME OpShaped(op), op.ix # <<>>
  PROVE  /\ Shaped(Indexed(op)) /\ Inside(Indexed(op))
         /\ Regular => /\ At[1] = Meant(Indexed(op))[1] /\ At[2] = Meant(Indexed(op))[2]
                       /\ At[3] = Meant(Indexed(op))[3] /\ At[4] = Meant(Indexed(op))[4]
<1> DEFINE s == Indexed(op)
<1>1. Shaped(s) /\ op.ix[1] \in Int /\ op.ix[2] \in Int /\ op.ix[3] \in Int /\ op.ix[4] \in Int
  BY DEF OpShaped, Indexed
<1>2. At = << SafeIndex(op.ix[1], s.rows), SafeIndex(op.ix[2], s.rows),
              SafeIndex(op.ix[3], s.cols), SafeIndex(op.ix[4], s.cols) >>
  BY DEF At, Safe
<1>3. Regular => /\ (op.ix[1] < 0 => op.ix[1] % s.rows = 0) /\ (op.ix[2] < 0 => op.ix[2] % s.rows = 0)
                 /\ (op.ix[3] < 0 => op.ix[3] % s.cols = 0) /\ (op.ix[4] < 0 => op.ix[4] % s.cols = 0)
  BY DEF Regular, Picks
<1> HIDE DEF s
<1>4. s.rows \in Nat /\ s.rows > 0 /\ s.cols \in Nat /\ s.cols > 0
  BY <1>1, ShapedFacts
<1>5. /\ Meant(s)[1] = op.ix[1] % s.rows /\ Meant(s)[2] = op.ix[2] % s.rows
      /\ Meant(s)[3] = op.ix[3] % s.cols /\ Meant(s)[4] = op.ix[4] % s.cols
  BY DEF Meant
<1>6. Inside(s)
  BY <1>1, <1>4, <1>5, Division DEF Inside
<1>7. Regular => /\ At[1] = Meant(s)[1] /\ At[2] = Meant(s)[2]
                 /\ At[3] = Meant(s)[3] /\ At[4] = Meant(s)[4]
  <2> SUFFICES ASSUME Regular
               PROVE  /\ At[1] = Meant(s)[1] /\ At[2] = Meant(s)[2]
                      /\ At[3] = Meant(s)[3] /\ At[4] = Meant(s)[4]
    OBVIOUS
  <2>1. /\ SafeIndex(op.ix[1], s.rows) = op.ix[1] % s.rows
        /\ SafeIndex(op.ix[2], s.rows) = op.ix[2] % s.rows
        /\ SafeIndex(op.ix[3], s.cols) = op.ix[3] % s.cols
        /\ SafeIndex(op.ix[4], s.cols) = op.ix[4] % s.cols
    BY <1>1, <1>3, <1>4, IndexSafe
  <2> QED
    BY <1>2, <1>5, <2>1
<1> QED
  BY <1>1, <1>6, <1>7 DEF s

\* The elements of a range.
LEMMA RangeSize ==
  ASSUME NEW s, Shaped(s), Inside(s)
  PROVE  /\ High(s) \in 1 .. s.rows /\ Wide(s) \in 1 .. s.cols
         /\ Number(s) = High(s) * Wide(s) /\ Number(s) \in Nat /\ Number(s) <= Length(s)
<1>1. s.rows \in Nat /\ s.cols \in Nat
  BY ShapedFacts
<1>2. High(s) \in 1 .. s.rows /\ Wide(s) \in 1 .. s.cols
  BY <1>1, Extents DEF High, Wide, Inside
<1>3. Number(s) = High(s) * Wide(s) /\ Length(s) = s.rows * s.cols
  BY DEF Number, High, Wide, Length
<1>4. High(s) * Wide(s) \in Nat /\ High(s) * Wide(s) <= s.rows * Wide(s)
  BY <1>1, <1>2, Product
<1>5. Wide(s) * s.rows <= s.cols * s.rows /\ Wide(s) * s.rows \in Nat /\ s.cols * s.rows \in Nat
  BY <1>1, <1>2, Product
<1>6. Wide(s) * s.rows = s.rows * Wide(s) /\ s.cols * s.rows = s.rows * s.cols
  BY <1>1, <1>2
<1> QED
  BY <1>2, <1>3, <1>4, <1>5, <1>6

\* The elements of a range are counted row after row.
LEMMA PickedPlace ==
  ASSUME NEW s, Shaped(s), Inside(s), NEW x \in 0 .. High(s) - 1, NEW y \in 0 .. Wide(s) - 1
  PROVE  /\ x * Wide(s) + y \in 0 .. Number(s) - 1
         /\ Picked(s, x * Wide(s) + y)
              = Nth(x, Meant(s)[1], Meant(s)[2]) * s.cols + Nth(y, Meant(s)[3], Meant(s)[4])
         /\ Picked(s, x * Wide(s) + y) \in Positions(s)
<1> DEFINE k == x * Wide(s) + y
<1>1. s.rows \in Nat /\ s.cols \in Nat /\ High(s) \in Nat /\ Wide(s) \in Nat /\ Wide(s) > 0
      /\ Number(s) = High(s) * Wide(s)
  BY RangeSize, ShapedFacts
<1>2. k \in 0 .. Number(s) - 1
  BY <1>1, Place
<1>3. k \div Wide(s) = x /\ k % Wide(s) = y
  <2>1. x \in Int
    OBVIOUS
  <2> QED
    BY <1>1, <2>1, Unique, Zenon
<1> HIDE DEF k
<1>4. Picked(s, k) = Nth(k \div Wide(s), Meant(s)[1], Meant(s)[2]) * s.cols
                     + Nth(k % Wide(s), Meant(s)[3], Meant(s)[4])
  BY DEF Picked, Wide
<1>5. Nth(x, Meant(s)[1], Meant(s)[2]) \in 0 .. s.rows - 1
  BY <1>1, Extents DEF High, Inside
<1>6. Nth(y, Meant(s)[3], Meant(s)[4]) \in 0 .. s.cols - 1
  BY <1>1, Extents DEF Wide, Inside
<1>7. Nth(x, Meant(s)[1], Meant(s)[2]) * s.cols + Nth(y, Meant(s)[3], Meant(s)[4]) \in Positions(s)
  BY <1>1, <1>5, <1>6, Place DEF Positions, Length
<1>8. Picked(s, k) = Nth(x, Meant(s)[1], Meant(s)[2]) * s.cols + Nth(y, Meant(s)[3], Meant(s)[4])
  BY <1>3, <1>4
<1> QED
  BY <1>2, <1>7, <1>8 DEF k

\* They are in the array.
LEMMA PickedIn ==
  ASSUME NEW s, Shaped(s), Inside(s), NEW k \in 0 .. Number(s) - 1
  PROVE  Picked(s, k) \in Positions(s)
<1>1. High(s) \in Nat /\ Wide(s) \in Nat /\ Wide(s) > 0 /\ Number(s) = High(s) * Wide(s)
  BY RangeSize, ShapedFacts
<1>0. k \in 0 .. High(s) * Wide(s) - 1
  BY <1>1, Zenon
<1>2. PICK x \in 0 .. High(s) - 1, y \in 0 .. Wide(s) - 1 : k = x * Wide(s) + y
  BY <1>0, <1>1, Decompose, Zenon
<1> QED
  BY <1>2, PickedPlace

\* No element is picked twice.
LEMMA PickedOnce ==
  ASSUME NEW s, Shaped(s), Inside(s), NEW k \in 0 .. Number(s) - 1, NEW l \in 0 .. Number(s) - 1,
         Picked(s, k) = Picked(s, l)
  PROVE  k = l
<1>1. High(s) \in Nat /\ Wide(s) \in Nat /\ Wide(s) > 0 /\ Number(s) = High(s) * Wide(s)
      /\ s.rows \in Nat /\ s.cols \in Nat /\ s.cols > 0
  BY RangeSize, ShapedFacts
<1>0. k \in 0 .. High(s) * Wide(s) - 1 /\ l \in 0 .. High(s) * Wide(s) - 1
  BY <1>1, Zenon
<1>2. PICK kx \in 0 .. High(s) - 1, ky \in 0 .. Wide(s) - 1 : k = kx * Wide(s) + ky
  BY <1>0, <1>1, Decompose, Zenon
<1>3. PICK lx \in 0 .. High(s) - 1, ly \in 0 .. Wide(s) - 1 : l = lx * Wide(s) + ly
  BY <1>0, <1>1, Decompose, Zenon
<1> DEFINE m == Meant(s)
           k1 == Nth(kx, m[1], m[2])
           k2 == Nth(ky, m[3], m[4])
           l1 == Nth(lx, m[1], m[2])
           l2 == Nth(ly, m[3], m[4])
<1>4. Picked(s, k) = k1 * s.cols + k2
  BY <1>2, PickedPlace
<1>5. Picked(s, l) = l1 * s.cols + l2
  BY <1>3, PickedPlace
<1>6. k1 \in 0 .. s.rows - 1 /\ l1 \in 0 .. s.rows - 1 /\ (k1 = l1 => kx = lx)
  <2>1. m[1] \in 0 .. s.rows - 1 /\ m[2] \in 0 .. s.rows - 1 /\ High(s) = Extent(m[1], m[2])
    BY DEF Inside, High
  <2> HIDE DEF m
  <2> QED
    BY <1>1, <2>1, Extents
<1>7. k2 \in 0 .. s.cols - 1 /\ l2 \in 0 .. s.cols - 1 /\ (k2 = l2 => ky = ly)
  <2>1. m[3] \in 0 .. s.cols - 1 /\ m[4] \in 0 .. s.cols - 1 /\ Wide(s) = Extent(m[3], m[4])
    BY DEF Inside, Wide
  <2> HIDE DEF m
  <2> QED
    BY <1>1, <2>1, Extents, SMTT(30)
<1> HIDE DEF m, k1, k2, l1, l2
<1>8. k1 = l1 /\ k2 = l2
  <2>1. k1 * s.cols + k2 = l1 * s.cols + l2
    BY <1>4, <1>5, Zenon
  <2>2. k1 \in Int /\ l1 \in Int
    BY <1>6
  <2>3. s.cols \in Nat /\ k2 \in 0 .. s.cols - 1 /\ l2 \in 0 .. s.cols - 1
    BY <1>1, <1>7
  <2>4. s.cols > 0
    BY <1>1
  <2>5. (k1 * s.cols + k2) \div s.cols = k1 /\ (k1 * s.cols + k2) % s.cols = k2
    BY <2>2, <2>3, <2>4, Unique, Zenon
  <2>6. (l1 * s.cols + l2) \div s.cols = l1 /\ (l1 * s.cols + l2) % s.cols = l2
    BY <2>2, <2>3, <2>4, Unique, Zenon
  <2> QED
    BY <2>1, <2>5, <2>6, Zenon
<1> QED
  BY <1>2, <1>3, <1>6, <1>7, <1>8

-------------------------------------------------------------------------------
(***************************************************************************)
(* Bounds.                                                                 *)
(***************************************************************************)

\* the rows and the columns of a range that have been done
Rows == Steps(i, Meant(Indexed(op))[1], Meant(Indexed(op))[2])
Cols == Steps(j, Meant(Indexed(op))[3], Meant(Indexed(op))[4])

\* the loops over ranges are where their counters say, and only the reads behind the
\* expression for a range have been outside
RangeOK ==
  /\ pc = "row" => Rows \in 0 .. High(Indexed(op)) /\ n = Rows * Wide(Indexed(op))
  /\ pc = "col" => /\ Rows \in 0 .. High(Indexed(op)) - 1 /\ Cols \in 0 .. Wide(Indexed(op))
                   /\ n = Rows * Wide(Indexed(op)) + Cols
  /\ pc \in {"row", "col"} =>
       (wild <=> op.kind = "write" /\ op.e1.ty # "SCALAR" /\ n > Length(op.e1))
  /\ pc = "zero" => n = Number(op.e1) /\ ~wild
  /\ pc \notin {"row", "col", "zero"} => (wild <=> ~(Fits /\ Room))

Bounded == Regular => RangeOK

\* What is said of an operation stays true as long as the operation does.
LEMMA OpKept ==
  ASSUME op' = op
  PROVE  /\ Regular' <=> Regular
         /\ Fits' <=> Fits
         /\ Room' <=> Room
         /\ Indexed(op)' = Indexed(op) /\ At' = At
         /\ Meant(Indexed(op))' = Meant(Indexed(op))
         /\ High(Indexed(op))' = High(Indexed(op)) /\ Wide(Indexed(op))' = Wide(Indexed(op))
         /\ Number(op.e1)' = Number(op.e1) /\ Length(op.e1)' = Length(op.e1)
<1>1. Regular' <=> Regular
  BY DEF Regular, Picks, Indexed
<1>2. (Fits' <=> Fits) /\ (Room' <=> Room)
  BY DEF Fits, Room, Picks, Number, Meant
<1>3. /\ Indexed(op)' = Indexed(op) /\ At' = At
      /\ Meant(Indexed(op))' = Meant(Indexed(op))
  BY DEF Indexed, At, Safe, Meant
<1>4. High(Indexed(op))' = High(Indexed(op)) /\ Wide(Indexed(op))' = Wide(Indexed(op))
  BY DEF High, Wide, Meant, Indexed
<1>5. Number(op.e1)' = Number(op.e1) /\ Length(op.e1)' = Length(op.e1)
  BY DEF Number, Meant
<1> QED
  BY <1>1, <1>2, <1>3, <1>4, <1>5

\* A store in an array changes nothing else.
LEMMA PutInside ==
  ASSUME NEW p, NEW x, NEW beside \in BOOLEAN, Put(p, x, beside), p \in DOMAIN r, wild \in BOOLEAN
  PROVE  wild' = (wild \/ beside)
BY DEF Put, Outside

\* Loops over all elements stay in their arrays.
LEMMA FlatInside ==
  ASSUME Typed, FlatStep
  PROVE  /\ i \in DOMAIN a /\ Length(op.e1) \in Nat
         /\ op.kind \in {"assign", "map", "add", "str"} => i \in DOMAIN r
         /\ op.kind = "dot" => 0 \in DOMAIN r
         /\ op.kind = "transp" => Transposed(i) \in DOMAIN r
<1>1. /\ OpShaped(op) /\ op.kind \in Flats /\ i \in 0 .. Count /\ i < Count
      /\ DOMAIN a = Positions(op.e1) /\ DOMAIN r = Positions(op.sym)
  BY DEF Typed, TypeOK, PcShaped, FlatStep
<1>2. /\ Length(op.e1) \in Nat /\ Length(op.sym) \in Nat /\ 0 \in Positions(op.sym)
      /\ op.e1.rows \in Nat /\ op.e1.cols \in Nat /\ op.e1.cols > 0
  BY <1>1, ShapedFacts DEF OpShaped
<1>3. Count <= Length(op.e1)
  BY <1>1, <1>2 DEF Count, Min2, OpShaped
<1>0. Count \in Nat
  BY <1>2 DEF Count, Min2
<1>4. op.kind \in {"assign", "map", "add", "str"} => Count <= Length(op.sym)
  <2>1. op.kind \in {"map", "add", "str"} => op.sym = op.e1
    BY <1>1 DEF OpShaped
  <2>2. op.kind = "assign" => Count <= Length(op.sym)
    BY <1>2 DEF Count, Min2
  <2> QED
    BY <1>3, <2>1, <2>2
<1>5. i \in Positions(op.e1)
  BY <1>0, <1>1, <1>2, <1>3 DEF Positions
<1>6. ASSUME op.kind = "transp" PROVE Transposed(i) \in Positions(op.sym)
  <2>1. i \in 0 .. op.e1.rows * op.e1.cols - 1
    BY <1>5 DEF Positions, Length
  <2>2. PICK x \in 0 .. op.e1.rows - 1, y \in 0 .. op.e1.cols - 1 : i = x * op.e1.cols + y
    BY <1>2, <2>1, Decompose, Zenon
  <2>3. x \in Int
    OBVIOUS
  <2>4. i \div op.e1.cols = x /\ i % op.e1.cols = y
    BY <1>2, <2>2, <2>3, Unique, Zenon
  <2>5. Transposed(i) = y * op.e1.rows + x
    BY <2>4 DEF Transposed
  <2>6. op.sym.rows = op.e1.cols /\ op.sym.cols = op.e1.rows
    BY <1>1, <1>6 DEF OpShaped
  <2>7. y * op.e1.rows + x \in 0 .. op.e1.cols * op.e1.rows - 1
    BY <1>2, Place
  <2> QED
    BY <2>5, <2>6, <2>7 DEF Positions, Length
<1> QED
  BY <1>0, <1>1, <1>2, <1>4, <1>5, <1>6 DEF Positions

\* The other loops do.
LEMMA NotOutside ==
  ASSUME Typed, Loop, pc \notin {"row", "col", "zero"}
  PROVE  wild' = wild /\ pc' \notin {"row", "col", "zero"}
<1>1. /\ wild \in BOOLEAN /\ OpShaped(op) /\ PcShaped
      /\ DOMAIN a = Positions(op.e1) /\ DOMAIN r = Positions(op.sym)
  BY DEF Typed, TypeOK
<1>2. /\ op.e1.rows \in Nat /\ op.e1.cols \in Nat /\ op.e2.cols \in Nat
      /\ Length(op.e1) \in Nat /\ 0 \in DOMAIN r
  BY <1>1, ShapedFacts DEF OpShaped
<1>3. CASE FlatStep
  <2>1. /\ i \in DOMAIN a /\ pc' = pc
        /\ op.kind \in {"assign", "map", "add", "str"} => i \in DOMAIN r
        /\ op.kind = "transp" => Transposed(i) \in DOMAIN r
    BY <1>3, FlatInside DEF FlatStep
  <2>2. op.kind \in Flats
    BY <1>1, <1>3 DEF FlatStep, PcShaped
  <2>3. \E p, x : Put(p, x, Outside(a, i)) /\ p \in DOMAIN r
    BY <1>2, <1>3, <2>1, <2>2 DEF FlatStep, Flats
  <2>4. Outside(a, i) = FALSE
    BY <2>1 DEF Outside
  <2> QED
    BY <1>1, <2>1, <2>3, <2>4, PutInside
<1>4. CASE FlatEnd \/ VecEnd \/ MatEnd
  BY <1>4 DEF FlatEnd, VecEnd, MatEnd, End
<1>5. CASE CompareEnd \/ VecRowEnd \/ MatRow \/ MatRowEnd \/ MatElemEnd
  BY <1>5 DEF CompareEnd, VecRowEnd, MatRow, MatRowEnd, MatElemEnd
<1>6. CASE CompareStep
  <2>1. pc = "comp" /\ i < Length(op.e1) /\ Put(0, i \notin op.diff, Outside(a, i))
        /\ (IF i \in op.diff THEN pc' = "end" /\ UNCHANGED i ELSE i' = i + 1 /\ UNCHANGED pc)
    BY <1>6, Zenon DEF CompareStep
  <2>2. i \in DOMAIN a
    BY <1>1, <1>2, <2>1 DEF PcShaped, Positions
  <2>3. Outside(a, i) = FALSE
    BY <2>2 DEF Outside
  <2>4. pc' \in {"comp", "end"}
    BY <2>1
  <2> QED
    BY <1>1, <1>2, <2>1, <2>3, <2>4, PutInside
<1>7. CASE Negate
  <2>1. \E x : Put(0, x, FALSE)
    BY <1>7 DEF Negate
  <2>2. pc' = "done"
    BY <1>7 DEF Negate
  <2> QED
    BY <1>1, <1>2, <2>1, <2>2, PutInside
<1>8. CASE VecRow \/ VecStep
  <2>1. /\ op.kind = "matvec" /\ i \in 0 .. op.e1.rows - 1
        /\ pc = "vec_j" => j \in 0 .. op.e1.cols
    <3>1. CASE VecRow
      BY <1>1, <1>2, <3>1 DEF VecRow, PcShaped
    <3>2. CASE VecStep
      BY <1>1, <1>2, <3>2 DEF VecStep, PcShaped
    <3> QED
      BY <1>8, <3>1, <3>2
  <2>2. op.sym.rows = 1 /\ op.sym.cols = op.e1.rows /\ op.e2.rows = 1 /\ op.e2.cols = op.e1.cols
    BY <1>1, <2>1 DEF OpShaped
  <2>3. i \in DOMAIN r
    BY <1>1, <1>2, <2>1, <2>2 DEF Positions, Length
  <2>4. CASE VecRow
    BY <1>1, <2>3, <2>4, PutInside DEF VecRow
  <2>5. CASE VecStep
    <3> DEFINE p == i * op.e1.cols + j
               beside == Outside(a, p) \/ j \notin Positions(op.e2)
    <3>1. j \in 0 .. op.e1.cols - 1
      BY <1>2, <2>1, <2>5 DEF VecStep
    <3>2. p \in DOMAIN a
      BY <1>1, <1>2, <2>1, <3>1, Place DEF Positions, Length
    <3>3. j \in Positions(op.e2)
      BY <1>2, <2>2, <3>1 DEF Positions, Length
    <3>4. beside = FALSE
      BY <3>2, <3>3 DEF Outside
    <3>5. \E x : Put(i, x, beside)
      BY <2>5 DEF VecStep
    <3>6. pc' = pc
      BY <2>5 DEF VecStep
    <3> QED
      BY <1>1, <2>3, <3>4, <3>5, <3>6, PutInside
  <2> QED
    BY <1>8, <2>4, <2>5
<1>9. CASE MatElem \/ MatStep
  <2>1. /\ op.kind = "matmat" /\ i \in 0 .. op.e1.rows - 1 /\ j \in 0 .. op.e2.cols - 1
        /\ pc = "mat_k" => n \in 0 .. op.e1.cols
    <3>1. CASE MatElem
      BY <1>1, <1>2, <3>1 DEF MatElem, PcShaped
    <3>2. CASE MatStep
      BY <1>1, <1>2, <3>2 DEF MatStep, PcShaped
    <3> QED
      BY <1>9, <3>1, <3>2
  <2>2. op.sym.rows = op.e1.rows /\ op.sym.cols = op.e2.cols /\ op.e2.rows = op.e1.cols
    BY <1>1, <2>1 DEF OpShaped
  <2>3. i * op.e2.cols + j \in DOMAIN r
    BY <1>1, <1>2, <2>1, <2>2, Place DEF Positions, Length
  <2>4. CASE MatElem
    BY <1>1, <2>3, <2>4, PutInside DEF MatElem
  <2>5. CASE MatStep
    <3> DEFINE p == i * op.e1.cols + n
               q == n * op.e2.cols + j
               beside == Outside(a, p) \/ q \notin Positions(op.e2)
    <3>1. n \in 0 .. op.e1.cols - 1
      BY <1>2, <2>1, <2>5 DEF MatStep
    <3>2. p \in DOMAIN a
      BY <1>1, <1>2, <2>1, <3>1, Place DEF Positions, Length
    <3>3. q \in Positions(op.e2)
      BY <1>2, <2>1, <2>2, <3>1, Place DEF Positions, Length
    <3>4. beside = FALSE
      BY <3>2, <3>3 DEF Outside
    <3>5. \E x : Put(i * op.e2.cols + j, x, beside)
      BY <2>5 DEF MatStep
    <3>6. pc' = pc
      BY <2>5 DEF MatStep
    <3> QED
      BY <1>1, <2>3, <3>4, <3>5, <3>6, PutInside
  <2> QED
    BY <1>9, <2>4, <2>5
<1>10. ~(Row \/ RowsEnd \/ SliceStep \/ WriteStep \/ ColsEnd \/ Terminate)
  BY DEF Row, RowsEnd, SliceStep, WriteStep, ColsEnd, Terminate
<1> QED
  BY <1>3, <1>4, <1>5, <1>6, <1>7, <1>8, <1>9, <1>10 DEF Loop

\* The element that the body of a loop over a range is at.
LEMMA ColPlace ==
  ASSUME Typed, Regular, RangeOK, pc = "col", InRange(j, At[3], At[4])
  PROVE  /\ Rows \in 0 .. High(Indexed(op)) - 1 /\ Cols \in 0 .. Wide(Indexed(op)) - 1
         /\ n \in 0 .. Number(Indexed(op)) - 1
         /\ Number(Indexed(op)) \in Nat /\ Number(Indexed(op)) <= Length(Indexed(op))
         /\ Picked(Indexed(op), n) = i * Indexed(op).cols + j
         /\ Picked(Indexed(op), n) \in Positions(Indexed(op))
<1> DEFINE s == Indexed(op)
           m == Meant(s)
<1>1. OpShaped(op) /\ op.kind \in Ranges /\ i \in Int /\ j \in Int
  BY DEF Typed, TypeOK, PcShaped
<1>2. op.ix # <<>>
  BY <1>1 DEF OpShaped, Ranges, Picking
<1>3. /\ Shaped(s) /\ Inside(s)
      /\ At[1] = m[1] /\ At[2] = m[2] /\ At[3] = m[3] /\ At[4] = m[4]
  BY <1>1, <1>2, Indexing
<1>4. /\ s.rows \in Nat /\ s.cols \in Nat
      /\ Rows = Steps(i, m[1], m[2]) /\ Cols = Steps(j, m[3], m[4])
      /\ High(s) = Extent(m[1], m[2]) /\ Wide(s) = Extent(m[3], m[4])
      /\ Rows \in 0 .. High(s) - 1 /\ Cols \in 0 .. Wide(s)
      /\ n = Rows * Wide(s) + Cols
  BY <1>3, ShapedFacts DEF Rows, Cols, High, Wide, RangeOK
<1>5. /\ High(s) \in Nat /\ Wide(s) \in Nat /\ Number(s) \in Nat /\ Number(s) <= Length(s)
  BY <1>3, <1>4, RangeSize
<1>6. m[1] \in Int /\ m[2] \in Int /\ m[3] \in Int /\ m[4] \in Int
  BY <1>3, <1>4 DEF Inside
<1>7. Cols < Wide(s)
  <2>1. InRange(j, m[3], m[4])
    BY <1>3
  <2> HIDE DEF s, m
  <2> QED
    BY <1>1, <1>4, <1>6, <2>1 DEF InRange, Steps, Extent
<1>8. /\ Nth(Rows, m[1], m[2]) = i /\ Nth(Cols, m[3], m[4]) = j
  <2> HIDE DEF s, m
  <2> QED
    BY <1>1, <1>4, <1>6, Walk
<1>9. Cols \in 0 .. Wide(s) - 1
  <2> HIDE DEF s, m
  <2> QED
    BY <1>4, <1>5, <1>7
<1> HIDE DEF s
<1>10. /\ n \in 0 .. Number(s) - 1
       /\ Picked(s, n) = Nth(Rows, m[1], m[2]) * s.cols + Nth(Cols, m[3], m[4])
       /\ Picked(s, n) \in Positions(s)
  BY <1>3, <1>4, <1>9, PickedPlace
<1>11. Picked(s, n) = i * s.cols + j
  BY <1>8, <1>10
<1> QED
  BY <1>4, <1>5, <1>9, <1>10, <1>11 DEF s

\* The loops over ranges.
LEMMA RangeBounded ==
  ASSUME Typed, Regular, RangeOK, Loop, pc \in {"row", "col", "zero"}
  PROVE  RangeOK'
<1> DEFINE s == Indexed(op)
           m == Meant(s)
           rows == Steps(i', m[1], m[2])
           cols == Steps(j', m[3], m[4])
           wide == Wide(s)
           high == High(s)
           long == op.kind = "write" /\ op.e1.ty # "SCALAR"
<1>1. op' = op /\ a' = a /\ DOMAIN r' = DOMAIN r /\ wild' \in BOOLEAN
  BY LoopKeeps
<1>2. /\ OpShaped(op) /\ PcShaped /\ i \in Int /\ j \in Int /\ n \in Nat /\ wild \in BOOLEAN
      /\ DOMAIN a = Positions(op.e1) /\ DOMAIN r = Positions(op.sym)
      /\ op.kind \in Ranges /\ op.ix # <<>>
  BY DEF Typed, TypeOK, PcShaped, OpShaped, Ranges, Picking
<1>3. /\ Shaped(s) /\ Inside(s) /\ Shaped(op.e1) /\ Shaped(op.sym)
      /\ At[1] = m[1] /\ At[2] = m[2] /\ At[3] = m[3] /\ At[4] = m[4]
  BY <1>2, Indexing DEF OpShaped
<1>4. /\ high \in Nat /\ high > 0 /\ wide \in Nat /\ wide > 0 /\ Number(s) = high * wide
      /\ Number(s) \in Nat /\ Number(s) <= Length(s) /\ Length(s) \in Nat
      /\ Length(op.e1) \in Nat /\ Length(op.sym) \in Nat /\ s.rows \in Nat
  BY <1>3, RangeSize, ShapedFacts
<1>5. m[1] \in Int /\ m[2] \in Int /\ m[3] \in Int /\ m[4] \in Int
  BY <1>3 DEF Inside
<1> DEFINE rows0 == Steps(i, m[1], m[2])
           cols0 == Steps(j, m[3], m[4])
<1>6. /\ pc = "row" => rows0 \in 0 .. high /\ n = rows0 * wide
      /\ pc = "col" => rows0 \in 0 .. high - 1 /\ cols0 \in 0 .. wide /\ n = rows0 * wide + cols0
      /\ pc \in {"row", "col"} => (wild <=> (long /\ n > Length(op.e1)))
      /\ pc = "zero" => n = Number(op.e1) /\ ~wild
  BY DEF RangeOK, Rows, Cols
<1>7. rows0 \in Int /\ cols0 \in Int
  <2> HIDE DEF s, m
  <2> QED
    BY <1>2, <1>5, Walk
<1>8. /\ op.kind = "slice" => s = op.e1 /\ Length(op.sym) = Length(op.e1)
      /\ op.kind \in {"write", "shift"} => s = op.sym
      /\ op.kind = "shift" => op.e1 = op.sym
      /\ s.ty = "MATRIX" <=> (op.e1.ty = "MATRIX" \/ op.sym.ty = "MATRIX")
  BY <1>2 DEF Ranges, Indexed, OpShaped
<1>9. /\ Fits <=> ~(long /\ Number(s) > Length(op.e1))
      /\ Room <=> ~(op.kind = "slice" /\ op.e1.ty = "STRING" /\ Number(s) >= Length(op.e1))
  <2>1. Fits <=> (long => Number(s) <= Length(op.e1))
    BY <1>8 DEF Fits
  <2>2. Room <=> (op.kind = "slice" /\ op.e1.ty = "STRING" => Number(s) < Length(op.e1))
    BY <1>2, <1>8 DEF Room, Ranges
  <2> QED
    BY <1>4, <2>1, <2>2
<1>10. s.ty # "MATRIX" => high = 1
  <2>1. s.ty # "MATRIX" => s.rows = 1
    BY <1>3 DEF Shaped
  <2>2. s.rows = 1 => m[1] = 0 /\ m[2] = 0
    BY <1>3 DEF Inside
  <2> QED
    BY <2>1, <2>2 DEF High, Extent
<1>11. InRange(i, At[1], At[2]) <=> rows0 < high
  <2>1. high = Extent(m[1], m[2])
    BY DEF High
  <2> HIDE DEF s, m, high
  <2> QED
    BY <1>2, <1>3, <1>5, <2>1 DEF InRange, Steps, Extent
<1>12. InRange(j, At[3], At[4]) <=> cols0 < wide
  <2>1. wide = Extent(m[3], m[4])
    BY DEF Wide
  <2> HIDE DEF s, m, wide
  <2> QED
    BY <1>2, <1>3, <1>5, <2>1 DEF InRange, Steps, Extent
<1>13. i' = Stepped(i, At[1], At[2]) => rows = rows0 + 1
  <2> HIDE DEF s, m
  <2> QED
    BY <1>2, <1>3, <1>5 DEF Stepped, Steps
<1>14. j' = Stepped(j, At[3], At[4]) => cols = cols0 + 1
  <2> HIDE DEF s, m
  <2> QED
    BY <1>2, <1>3, <1>5 DEF Stepped, Steps
<1>15. i' = i => rows = rows0
  OBVIOUS
<1>16. j' = At[3] => cols = 0
  <2> HIDE DEF s, m
  <2> QED
    BY <1>3, <1>5 DEF Steps
<1>17. (rows0 + 1) * wide = rows0 * wide + wide /\ 0 * wide = 0 /\ 1 * wide = wide
  <2> HIDE DEF wide, rows0, s, m
  <2> QED
    BY <1>4, <1>7
<1>18. pc = "col" /\ InRange(j, At[3], At[4]) =>
         /\ n \in 0 .. Number(s) - 1 /\ i * s.cols + j \in Positions(s)
  BY ColPlace
<1>19. RangeOK' <=>
         /\ pc' = "row" => rows \in 0 .. high /\ n' = rows * wide
         /\ pc' = "col" => rows \in 0 .. high - 1 /\ cols \in 0 .. wide /\ n' = rows * wide + cols
         /\ pc' \in {"row", "col"} => (wild' <=> (long /\ n' > Length(op.e1)))
         /\ pc' = "zero" => n' = Number(op.e1) /\ ~wild'
         /\ pc' \notin {"row", "col", "zero"} => (wild' <=> ~(Fits /\ Room))
  <2>1. /\ Fits' <=> Fits
        /\ Room' <=> Room
        /\ Meant(Indexed(op))' = m
        /\ High(Indexed(op))' = high /\ Wide(Indexed(op))' = wide
        /\ Number(op.e1)' = Number(op.e1) /\ Length(op.e1)' = Length(op.e1)
    BY <1>1, OpKept
  <2>2. Rows' = rows /\ Cols' = cols
    BY <2>1 DEF Rows, Cols
  <2> HIDE DEF s, m, rows, cols, wide, high
  <2> QED
    BY <1>1, <2>1, <2>2 DEF RangeOK
<1>20. CASE Row
  <2>1. /\ pc = "row" /\ rows0 < high /\ pc' = "col" /\ j' = At[3]
        /\ i' = i /\ n' = n /\ wild' = wild
    BY <1>11, <1>20 DEF Row
  <2> HIDE DEF s, m, rows, cols, wide, high, rows0, cols0, long
  <2> QED
    BY <1>1, <1>2, <1>4, <1>6, <1>7, <1>15, <1>16, <1>17, <1>19, <2>1
<1>21. CASE RowsEnd
  <2>1. /\ pc = "row" /\ ~(rows0 < high) /\ pc' = "done" /\ wild' = wild
    BY <1>11, <1>21 DEF RowsEnd, End
  <2>2. s.ty = "MATRIX"
    BY <1>2, <2>1 DEF PcShaped
  <2>3. Room
    BY <1>8, <1>9, <2>2
  <2> HIDE DEF s, m, rows, cols, wide, high, rows0, cols0, long
  <2>4. rows0 = high
    BY <1>4, <1>6, <1>7, <2>1
  <2>5. n = Number(s)
    BY <1>4, <1>6, <2>1, <2>4
  <2> QED
    BY <1>6, <1>9, <1>19, <2>1, <2>3, <2>5
<1>22. CASE ColsEnd
  <2>1. /\ pc = "col" /\ ~(cols0 < wide) /\ rows = rows0 + 1 /\ n' = n /\ wild' = wild
        /\ pc' = IF s.ty = "MATRIX" THEN "row"
                 ELSE IF op.kind = "slice" /\ op.e1.ty = "STRING" THEN "zero" ELSE "done"
    BY <1>8, <1>12, <1>13, <1>22 DEF ColsEnd
  <2> HIDE DEF s, m, rows, cols, wide, high, rows0, cols0
  <2>2. n = rows * wide /\ rows \in 0 .. high
    BY <1>4, <1>6, <1>7, <1>17, <2>1
  <2>3. CASE s.ty = "MATRIX"
    BY <1>6, <1>19, <2>1, <2>2, <2>3
  <2>4. CASE s.ty # "MATRIX"
    <3>1. rows = 1 /\ n = Number(s)
      BY <1>4, <1>6, <1>7, <1>10, <1>17, <2>1, <2>2, <2>4
    <3>2. CASE op.kind = "slice" /\ op.e1.ty = "STRING"
      BY <1>6, <1>8, <1>19, <2>1, <2>4, <3>1, <3>2
    <3>3. CASE ~(op.kind = "slice" /\ op.e1.ty = "STRING")
      BY <1>6, <1>9, <1>19, <2>1, <2>4, <3>1, <3>3
    <3> QED
      BY <3>2, <3>3
  <2> QED
    BY <2>3, <2>4
<1>23. CASE SliceStep
  <2> DEFINE p == i * op.e1.cols + j
  <2>1. /\ pc = "col" /\ op.kind = "slice" /\ cols0 < wide /\ cols = cols0 + 1
        /\ n' = n + 1 /\ pc' = pc /\ i' = i
        /\ Put(n, Load(a, p), Outside(a, p))
    BY <1>12, <1>14, <1>23 DEF SliceStep
  <2>2. n \in 0 .. Number(s) - 1 /\ p \in Positions(op.e1)
    BY <1>8, <1>12, <1>18, <2>1
  <2>3. n \in DOMAIN r /\ p \in DOMAIN a
    BY <1>2, <1>4, <1>8, <2>1, <2>2 DEF Positions
  <2>4. Outside(a, p) = FALSE
    BY <2>3 DEF Outside
  <2>5. wild' = wild
    BY <1>2, <2>1, <2>3, <2>4, PutInside
  <2>6. ~long
    BY <2>1
  <2> HIDE DEF s, m, rows, cols, wide, high, rows0, cols0, long, p
  <2> QED
    BY <1>2, <1>4, <1>6, <1>7, <1>15, <1>17, <1>19, <2>1, <2>5, <2>6
<1>24. CASE WriteStep
  <2> DEFINE p == i * op.sym.cols + j
             q == IF op.e1.ty = "SCALAR" THEN 0 ELSE n
             e == IF op.kind = "shift" THEN r ELSE a
  <2>1. /\ pc = "col" /\ op.kind \in {"write", "shift"} /\ cols0 < wide /\ cols = cols0 + 1
        /\ n' = n + 1 /\ pc' = pc /\ i' = i
        /\ Put(p, Load(e, q), Outside(e, q))
    BY <1>12, <1>14, <1>24 DEF WriteStep
  <2>2. n \in 0 .. Number(s) - 1 /\ p \in DOMAIN r
    BY <1>2, <1>8, <1>12, <1>18, <2>1
  <2>3. DOMAIN e = Positions(op.e1)
    BY <1>2, <1>8
  <2>4. Outside(e, q) \in BOOLEAN
    BY DEF Outside
  <2>5. wild' = (wild \/ Outside(e, q))
    BY <1>2, <2>1, <2>2, <2>4, PutInside
  <2>6. 0 \in Positions(op.e1)
    BY <1>4, <1>3, ShapedFacts
  <2>7. Outside(e, q) <=> op.e1.ty # "SCALAR" /\ n >= Length(op.e1)
    BY <1>2, <1>4, <2>3, <2>6 DEF Outside, Positions
  <2>8. op.kind = "shift" => ~(n >= Length(op.e1))
    BY <1>4, <1>8, <2>2
  <2>9. wild' <=> (long /\ n' > Length(op.e1))
    <3>1. wild <=> (long /\ n > Length(op.e1))
      BY <1>6, <2>1
    <3>2. wild' <=> (wild \/ (op.e1.ty # "SCALAR" /\ n >= Length(op.e1)))
      BY <2>5, <2>7
    <3> QED
      BY <1>2, <1>4, <2>1, <2>8, <3>1, <3>2
  <2> HIDE DEF s, m, rows, cols, wide, high, rows0, cols0, long, p, q, e
  <2> QED
    BY <1>2, <1>4, <1>6, <1>7, <1>15, <1>17, <1>19, <2>1, <2>9
<1>25. CASE Terminate
  <2>1. pc = "zero" /\ pc' = "done" /\ Put(n, Zero, FALSE)
    BY <1>25 DEF Terminate
  <2>2. op.kind = "slice" /\ op.e1.ty = "STRING" /\ n = Number(op.e1) /\ ~wild
    BY <1>2, <1>6, <2>1 DEF PcShaped
  <2>3. wild' <=> n \notin DOMAIN r
    BY <2>1, <2>2 DEF Put, Outside
  <2>4. wild' <=> n >= Length(op.e1)
    BY <1>2, <1>4, <1>8, <2>2, <2>3 DEF Positions
  <2>5. ~long
    BY <2>2
  <2> HIDE DEF s, m, rows, cols, wide, high, rows0, cols0, long
  <2> QED
    BY <1>4, <1>8, <1>9, <1>19, <2>1, <2>2, <2>4, <2>5
<1>26. ~(FlatStep \/ FlatEnd \/ CompareStep \/ CompareEnd \/ Negate
         \/ VecRow \/ VecEnd \/ VecStep \/ VecRowEnd
         \/ MatRow \/ MatEnd \/ MatElem \/ MatRowEnd \/ MatStep \/ MatElemEnd)
  BY DEF FlatStep, FlatEnd, CompareStep, CompareEnd, Negate, VecRow, VecEnd, VecStep, VecRowEnd,
         MatRow, MatEnd, MatElem, MatRowEnd, MatStep, MatElemEnd
<1> QED
  BY <1>20, <1>21, <1>22, <1>23, <1>24, <1>25, <1>26, Zenon DEF Loop

\* All loops stay in their arrays.
LEMMA LoopBounded ==
  ASSUME Typed, Bounded, Loop
  PROVE  Bounded'
<1>1. op' = op
  BY LoopKeeps
<1> SUFFICES ASSUME Regular' PROVE RangeOK'
  BY DEF Bounded
<1>2. Regular /\ RangeOK
  BY <1>1, OpKept DEF Bounded
<1>3. CASE pc \in {"row", "col", "zero"}
  BY <1>2, <1>3, RangeBounded
<1>4. CASE pc \notin {"row", "col", "zero"}
  <2>1. wild' = wild /\ pc' \notin {"row", "col", "zero"}
    BY <1>4, NotOutside
  <2>2. (Fits' <=> Fits) /\ (Room' <=> Room)
    BY <1>1, OpKept
  <2>3. wild <=> ~(Fits /\ Room)
    BY <1>2, <1>4 DEF RangeOK
  <2> QED
    BY <2>1, <2>2, <2>3 DEF RangeOK
<1> QED
  BY <1>3, <1>4

\* What begins an operation does not leave an array either.
LEMMA AssignSliceBounded ==
  ASSUME Typed, Bounded, NEW s \in Arrays, AssignSlice(s)
  PROVE  Bounded'
<1>1. /\ pc = "done" /\ op.kind = "slice"
      /\ op'.kind = "assign" /\ op'.sym = s /\ op'.e1 = op.sym /\ op'.e2 = op.e1
      /\ op'.ix = op.ix
      /\ pc' = "flat" /\ wild' = wild
  BY AssignSliceFields
<1>2. op.ix # <<>>
  BY <1>1 DEF Typed, OpShaped, Picking
<1>3. Regular' <=> Regular
  BY <1>1, <1>2 DEF Regular, Picks, Indexed
<1>4. Number(op.e2)' = Number(op.e1)
  BY <1>1 DEF Number, Meant
<1>5. Fits /\ Fits'
  BY <1>1 DEF Fits
<1>6. Room' <=> Room
  BY <1>1, <1>2, <1>4 DEF Room, Picks
<1>7. RangeOK => (wild <=> ~(Fits /\ Room))
  BY <1>1 DEF RangeOK
<1>8. (wild' <=> ~(Fits' /\ Room')) => RangeOK'
  BY <1>1 DEF RangeOK
<1> QED
  BY <1>1, <1>3, <1>5, <1>6, <1>7, <1>8 DEF Bounded

LEMMA InitBounded ==
  ASSUME Init
  PROVE  Bounded
<1>1. op.kind = "none" /\ op.ix = <<>>
  BY OpFields DEF Init, NoOp
<1>2. Fits /\ Room
  BY <1>1 DEF Fits, Room, Picks
<1>3. pc = "idle" /\ ~wild
  BY DEF Init
<1> QED
  BY <1>2, <1>3 DEF Bounded, RangeOK

LEMMA BeginBounded ==
  ASSUME NEW o, NEW l, NEW m, Begin(o, l, m), BeginOK(o, l, m)
  PROVE  Bounded'
<1>1. op' = o /\ pc' = l /\ ~wild'
  BY DEF Begin
<1>2. /\ l \in {"flat", "comp", "done", "vec_i", "mat_i"}
      /\ o.ix = <<>> /\ o.kind \notin {"write", "slice"}
  BY DEF BeginOK, OpShaped, Flats, Compares, Picking
<1>3. Fits' /\ Room'
  BY <1>1, <1>2 DEF Fits, Room, Picks
<1> QED
  BY <1>1, <1>2, <1>3 DEF Bounded, RangeOK

\* At the beginning of a range nothing has been done.
AtStart ==
  Regular /\ OpShaped(op) /\ op.kind \in Ranges /\ i = At[1] /\ j = At[3] /\ n = 0 =>
    /\ Rows = 0 /\ Cols = 0
    /\ High(Indexed(op)) \in Nat /\ High(Indexed(op)) > 0
    /\ Wide(Indexed(op)) \in Nat /\ Wide(Indexed(op)) > 0
    /\ Length(op.e1) \in Nat

LEMMA RangeStart == AtStart
<1> SUFFICES ASSUME Regular, OpShaped(op), op.kind \in Ranges, i = At[1], j = At[3], n = 0
             PROVE  /\ Rows = 0 /\ Cols = 0
                    /\ High(Indexed(op)) \in Nat /\ High(Indexed(op)) > 0
                    /\ Wide(Indexed(op)) \in Nat /\ Wide(Indexed(op)) > 0
                    /\ Length(op.e1) \in Nat
  BY DEF AtStart
<1> DEFINE s == Indexed(op)
           m == Meant(s)
<1>1. op.ix # <<>> /\ Shaped(op.e1)
  BY DEF OpShaped, Ranges, Picking
<1>2. Shaped(s) /\ Inside(s) /\ i = m[1] /\ j = m[3]
  BY <1>1, Indexing
<1>3. /\ High(s) \in Nat /\ High(s) > 0 /\ Wide(s) \in Nat /\ Wide(s) > 0
      /\ Length(op.e1) \in Nat
  BY <1>1, <1>2, RangeSize, ShapedFacts
<1>4. m[1] \in Int /\ m[2] \in Int /\ m[3] \in Int /\ m[4] \in Int
  BY <1>2 DEF Inside
<1>5. Rows = 0 /\ Cols = 0
  BY <1>2, <1>4 DEF Rows, Cols, Steps
<1> QED
  BY <1>3, <1>5

LEMMA BeginRangeBounded ==
  ASSUME NEW o, NEW l, NEW m, BeginRange(o, l, m), BeginRangeOK(o, l, m)
  PROVE  Bounded'
<1>1. /\ op' = o /\ pc' = l /\ n' = 0 /\ wild' = FALSE
      /\ i' = At[1]' /\ j' = At[3]'
  BY DEF BeginRange, At
<1>2. OpShaped(o) /\ o.kind \in Ranges /\ l \in {"row", "col"}
  BY DEF BeginRangeOK
<1> SUFFICES ASSUME Regular' PROVE RangeOK'
  BY DEF Bounded
<1>3. AtStart'
  BY RangeStart, PTL
<1>4. /\ Rows' = 0 /\ Cols' = 0
      /\ High(Indexed(op))' \in Nat /\ High(Indexed(op))' > 0
      /\ Wide(Indexed(op))' \in Nat /\ Wide(Indexed(op))' > 0
      /\ Length(op.e1)' \in Nat
  BY <1>1, <1>2, <1>3 DEF AtStart
<1>5. 0 * Wide(Indexed(op))' = 0
  BY <1>4
<1> QED
  BY <1>1, <1>2, <1>4, <1>5 DEF RangeOK

\* A single element is where the indices say.
ElementPlace ==
  Regular /\ OpShaped(op) /\ op.kind \in {"read", "put"} /\ op.ix[1] = op.ix[2] /\ op.ix[3] = op.ix[4] =>
    /\ Picked(Indexed(op), 0) \in Positions(Indexed(op))
    /\ Picked(Indexed(op), 0) = SafeIndex(op.ix[1], Indexed(op).rows) * Indexed(op).cols
                                + SafeIndex(op.ix[3], Indexed(op).cols)

LEMMA ElementHere == ElementPlace
<1> DEFINE s == Indexed(op)
           m == Meant(s)
<1> SUFFICES ASSUME Regular, OpShaped(op), op.kind \in {"read", "put"},
                    op.ix[1] = op.ix[2], op.ix[3] = op.ix[4]
             PROVE  /\ Picked(s, 0) \in Positions(s)
                    /\ Picked(s, 0) = SafeIndex(op.ix[1], s.rows) * s.cols + SafeIndex(op.ix[3], s.cols)
  BY DEF ElementPlace
<1>1. op.ix # <<>>
  BY DEF OpShaped, Picking
<1>2. Shaped(s) /\ Inside(s) /\ At[1] = m[1] /\ At[3] = m[3]
  BY <1>1, Indexing
<1>3. m[1] = m[2] /\ m[3] = m[4]
  BY DEF Meant
<1>4. /\ At[1] = SafeIndex(op.ix[1], s.rows) /\ At[3] = SafeIndex(op.ix[3], s.cols)
  BY DEF At, Safe
<1>5. m[1] \in Int /\ m[3] \in Int /\ m[2] \in Int /\ m[4] \in Int
  BY <1>2 DEF Inside
<1>6. /\ High(s) = Extent(m[1], m[2]) /\ Wide(s) = Extent(m[3], m[4])
  BY DEF High, Wide
<1> HIDE DEF s, m
<1>7. High(s) = 1 /\ Wide(s) = 1 /\ Nth(0, m[1], m[2]) = m[1] /\ Nth(0, m[3], m[4]) = m[3]
  BY <1>3, <1>5, <1>6 DEF Extent, Nth
<1>8. 0 \in 0 .. High(s) - 1 /\ 0 \in 0 .. Wide(s) - 1 /\ 0 * Wide(s) + 0 = 0
  BY <1>7
<1>9. /\ Picked(s, 0) = Nth(0, m[1], m[2]) * s.cols + Nth(0, m[3], m[4])
      /\ Picked(s, 0) \in Positions(s)
  <2>1. /\ Picked(s, 0 * Wide(s) + 0)
             = Nth(0, Meant(s)[1], Meant(s)[2]) * s.cols + Nth(0, Meant(s)[3], Meant(s)[4])
        /\ Picked(s, 0 * Wide(s) + 0) \in Positions(s)
    BY <1>2, <1>8, PickedPlace, Zenon
  <2>2. Picked(s, 0 * Wide(s) + 0) = Picked(s, 0)
    BY <1>8
  <2> QED
    BY <2>1, <2>2, Zenon DEF m
<1> QED
  BY <1>2, <1>4, <1>7, <1>9

LEMMA ElementBounded ==
  ASSUME NEW p, ElementOK(p)
  PROVE  Bounded'
<1>1. pc' = "done" /\ OpShaped(op)' /\ op'.kind \in {"read", "put"}
      /\ op'.ix[1] = op'.ix[2] /\ op'.ix[3] = op'.ix[4]
  BY DEF ElementOK
<1>2. Fits' /\ Room'
  BY <1>1 DEF Fits, Room
<1> SUFFICES ASSUME Regular' PROVE ~wild'
  BY <1>1, <1>2 DEF Bounded, RangeOK
<1>3. ElementPlace'
  BY ElementHere, PTL
<1>4. p \in Positions(Indexed(op'))
  <2>1. p = SafeIndex(op'.ix[1], Indexed(op').rows) * Indexed(op').cols
            + SafeIndex(op'.ix[3], Indexed(op').cols)
    BY DEF ElementOK
  <2>2. Picked(Indexed(op), 0)' = p /\ Picked(Indexed(op), 0)' \in Positions(Indexed(op'))
    BY <1>1, <1>3, <2>1 DEF ElementPlace
  <2> QED
    BY <2>2
<1>5. CASE op'.kind = "read"
  BY <1>4, <1>5, Memory DEF ElementOK, Outside, Indexed
<1>6. CASE op'.kind = "put"
  BY <1>4, <1>6, Memory DEF ElementOK, Outside, Indexed
<1> QED
  BY <1>1, <1>5, <1>6

LEMMA NextBounded ==
  ASSUME Typed, Bounded, [Next]_vars
  PROVE  Bounded'
<1>1. CASE Start
  <2>1. CASE Throw
    <3>1. op' = op /\ wild' = wild /\ pc = "idle" /\ pc' = "thrown"
      BY <2>1 DEF Throw
    <3>2. (Regular' <=> Regular) /\ (Fits' <=> Fits) /\ (Room' <=> Room)
      BY <3>1, OpKept
    <3> QED
      BY <3>1, <3>2 DEF Bounded, RangeOK
  <2> QED
    BY <1>1, <2>1, Started, BeginBounded, BeginRangeBounded, ElementBounded
<1>2. CASE Loop
  BY <1>2, LoopBounded
<1>3. CASE \E s \in Arrays : AssignSlice(s)
  BY <1>3, AssignSliceBounded
<1>4. CASE UNCHANGED vars
  <2>1. op' = op /\ wild' = wild /\ pc' = pc /\ i' = i /\ j' = j /\ n' = n
    BY <1>4 DEF vars
  <2>2. /\ (Regular' <=> Regular) /\ (Fits' <=> Fits) /\ (Room' <=> Room)
        /\ Meant(Indexed(op))' = Meant(Indexed(op))
        /\ High(Indexed(op))' = High(Indexed(op)) /\ Wide(Indexed(op))' = Wide(Indexed(op))
        /\ Number(op.e1)' = Number(op.e1) /\ Length(op.e1)' = Length(op.e1)
    BY <2>1, OpKept
  <2>3. Rows' = Rows /\ Cols' = Cols
    BY <2>1, <2>2 DEF Rows, Cols
  <2> QED
    BY <2>1, <2>2, <2>3 DEF Bounded, RangeOK
<1> QED
  BY <1>1, <1>2, <1>3, <1>4 DEF Next

LEMMA AlwaysBounded == Spec => []Bounded
<1>1. Init => Bounded
  BY InitBounded
<1>2. Typed /\ Bounded /\ [Next]_vars => Bounded'
  BY NextBounded
<1> QED
  BY <1>1, <1>2, AlwaysTyped, PTL DEF Spec

\* For arrays of every size and for all regular indices, no loop reads or writes outside of
\* its arrays, except where the expression for a range is shorter than the range or a part
\* of a string has no room for its zero: and there the loops always do.
THEOREM BoundsCorrect == Spec => []InBounds
<1>1. Bounded => InBounds
  BY DEF Bounded, RangeOK, InBounds
<1> QED
  BY <1>1, AlwaysBounded, PTL

-------------------------------------------------------------------------------
(***************************************************************************)
(* Contents.                                                               *)
(***************************************************************************)

\* the sums of the first c products of an inner product and of those for an element of a
\* product with a matrix
DotSum(c) == [k \in 1 .. c |-> <<"mul", k - 1, k - 1>>]
VecSum(x, cols, c) == [k \in 1 .. c |-> <<"mul", x * cols + k - 1, k - 1>>]
MatSum(x, y, cols, cols2, c) ==
  [k \in 1 .. c |-> <<"mul", x * cols + k - 1, (k - 1) * cols2 + y>>]

\* the position of an element in the transposed array
Turned(p, rows, cols) == (p % cols) * rows + p \div cols

\* the cases in which the operations compute what they should
Good ==
  /\ Regular /\ Fits /\ Room /\ Apart
  /\ op.kind = "str" => op.e1.ty = "VECTOR" \/ op.e1.rows = op.e1.cols

\* the operand is still what it was
OperandOK ==
  IF op.kind = "assign" /\ Picks THEN \A p \in Positions(op.e1) : a[p] = Part(op.e2, p)
  ELSE a = Contents(op.e1)

\* the elements in front of the counter are done
FlatOK ==
  pc = "flat" =>
    /\ op.kind = "assign" => \A p \in Positions(op.sym) : r[p] = IF p < i THEN a[p] ELSE Kept(p)
    /\ op.kind = "map" => \A p \in Positions(op.sym) : p < i => r[p] = a[p]
    /\ op.kind = "add" => \A p \in Positions(op.sym) : p < i => r[p] = Sum(a[p], << <<"expr2", p>> >>)
    /\ op.kind = "str" => \A p \in Positions(op.sym) : p < i => r[p] = Separator(p)
    /\ op.kind = "dot" => r[0] = DotSum(i)
    /\ op.kind = "transp" =>
         \A p \in 0 .. i - 1 : r[Turned(p, op.e1.rows, op.e1.cols)] = a[p]

CompareOK ==
  /\ pc = "comp" => r[0] = TRUE /\ \A p \in op.diff : p >= i
  /\ pc = "end" => r[0] = (op.diff = {})

VecOK ==
  /\ pc \in {"vec_i", "vec_j"} => \A x \in 0 .. i - 1 : r[x] = VecSum(x, op.e1.cols, op.e1.cols)
  /\ pc = "vec_j" => r[i] = VecSum(i, op.e1.cols, j)

\* an element of the product of two matrices is done
MatDone(m, o, x, y) ==
  m[x * o.e2.cols + y] = MatSum(x, y, o.e1.cols, o.e2.cols, o.e1.cols)

MatOK ==
  /\ pc \in {"mat_i", "mat_j", "mat_k"} =>
       \A x \in 0 .. i - 1 : \A y \in 0 .. op.e2.cols - 1 : MatDone(r, op, x, y)
  /\ pc \in {"mat_j", "mat_k"} => \A y \in 0 .. j - 1 : MatDone(r, op, i, y)
  /\ pc = "mat_k" => r[i * op.e2.cols + j] = MatSum(i, j, op.e1.cols, op.e2.cols, n)

SliceOK ==
  pc \in {"row", "col", "zero"} /\ op.kind = "slice" =>
    \A p \in Positions(op.sym) :
      r[p] = IF p < n THEN Contents(op.e1)[Picked(op.e1, p)] ELSE Unset

\* what a range is assigned
Given(k) == IF op.kind = "shift" THEN Kept(k)
            ELSE IF op.e1.ty = "SCALAR" THEN Elem(0) ELSE Contents(op.e1)[k]

WriteOK ==
  pc \in {"row", "col"} /\ op.kind \in {"write", "shift"} =>
    /\ \A k \in 0 .. n - 1 : r[Picked(op.sym, k)] = Given(k)
    /\ \A p \in Positions(op.sym) : (\A k \in 0 .. n - 1 : Picked(op.sym, k) # p) => r[p] = Kept(p)

DoneOK == pc = "done" => \A p \in Positions(op.sym) : r[p] = Expected(p)

LoopsOK == FlatOK /\ CompareOK /\ VecOK /\ MatOK /\ SliceOK /\ WriteOK

Contained == Good => OperandOK /\ LoopsOK /\ DoneOK

\* A sum with one more product.
LEMMA Grow ==
  ASSUME NEW c \in Nat, NEW S, NEW f \in [1 .. c + 1 -> S]
  PROVE  [k \in 1 .. c |-> f[k]] \o << f[c + 1] >> = f
<1> DEFINE g == [k \in 1 .. c |-> f[k]]
           h == g \o << f[c + 1] >>
<1>1. g \in Seq(S) /\ Len(g) = c /\ f[c + 1] \in S
  OBVIOUS
<1>2. \A k \in 1 .. c : g[k] = f[k]
  OBVIOUS
<1> HIDE DEF g
<1>3. << f[c + 1] >> \in Seq(S) /\ Len(<< f[c + 1] >>) = 1
  BY <1>1
<1>4. h \in Seq(S) /\ Len(h) = c + 1
  BY <1>1, <1>3
<1>5. \A k \in 1 .. c + 1 : h[k] = f[k]
  BY <1>1, <1>2, <1>3
<1>6. h = f
  BY <1>4, <1>5
<1> QED
  BY <1>6 DEF g

LEMMA Sums ==
  ASSUME NEW c \in Nat, NEW x, NEW y, NEW cols, NEW cols2
  PROVE  /\ DotSum(0) = <<>> /\ Sum(DotSum(c), Prod(c, c)) = DotSum(c + 1)
         /\ VecSum(x, cols, 0) = <<>>
         /\ x \in Nat /\ cols \in Nat =>
              Sum(VecSum(x, cols, c), Prod(x * cols + c, c)) = VecSum(x, cols, c + 1)
         /\ MatSum(x, y, cols, cols2, 0) = <<>>
         /\ x \in Nat /\ cols \in Nat /\ y \in Nat /\ cols2 \in Nat =>
              Sum(MatSum(x, y, cols, cols2, c), Prod(x * cols + c, c * cols2 + y))
                = MatSum(x, y, cols, cols2, c + 1)
<1>1. DotSum(0) = <<>> /\ VecSum(x, cols, 0) = <<>> /\ MatSum(x, y, cols, cols2, 0) = <<>>
  BY DEF DotSum, VecSum, MatSum
<1>2. Sum(DotSum(c), Prod(c, c)) = DotSum(c + 1)
  <2> DEFINE f == DotSum(c + 1)
             S == {f[k] : k \in 1 .. c + 1}
  <2>1. f \in [1 .. c + 1 -> S] /\ [k \in 1 .. c |-> f[k]] = DotSum(c)
    BY DEF DotSum
  <2>2. << f[c + 1] >> = Prod(c, c)
    BY DEF DotSum, Prod
  <2> HIDE DEF f, S
  <2>3. DotSum(c) \o Prod(c, c) = f
    BY <2>1, <2>2, Grow
  <2> QED
    BY <2>3 DEF f, Sum
<1>3. ASSUME x \in Nat, cols \in Nat
      PROVE  Sum(VecSum(x, cols, c), Prod(x * cols + c, c)) = VecSum(x, cols, c + 1)
  <2> DEFINE f == VecSum(x, cols, c + 1)
             S == {f[k] : k \in 1 .. c + 1}
  <2>0. x * cols \in Nat
    BY <1>3, Product
  <2>1. f \in [1 .. c + 1 -> S] /\ [k \in 1 .. c |-> f[k]] = VecSum(x, cols, c)
    BY DEF VecSum
  <2>2. << f[c + 1] >> = Prod(x * cols + c, c)
    BY <2>0 DEF VecSum, Prod
  <2> HIDE DEF f, S
  <2>3. VecSum(x, cols, c) \o Prod(x * cols + c, c) = f
    BY <2>1, <2>2, Grow
  <2> QED
    BY <2>3 DEF f, Sum
<1>4. ASSUME x \in Nat, cols \in Nat, y \in Nat, cols2 \in Nat
      PROVE  Sum(MatSum(x, y, cols, cols2, c), Prod(x * cols + c, c * cols2 + y))
               = MatSum(x, y, cols, cols2, c + 1)
  <2> DEFINE f == MatSum(x, y, cols, cols2, c + 1)
             S == {f[k] : k \in 1 .. c + 1}
  <2>0. x * cols \in Nat /\ (c + 1) - 1 = c
    BY <1>4, Product
  <2>1. f \in [1 .. c + 1 -> S] /\ [k \in 1 .. c |-> f[k]] = MatSum(x, y, cols, cols2, c)
    BY DEF MatSum
  <2>2. << f[c + 1] >> = Prod(x * cols + c, c * cols2 + y)
    BY <2>0 DEF MatSum, Prod
  <2> HIDE DEF f, S
  <2>3. MatSum(x, y, cols, cols2, c) \o Prod(x * cols + c, c * cols2 + y) = f
    BY <2>1, <2>2, Grow
  <2> QED
    BY <2>3 DEF f, Sum
<1> QED
  BY <1>1, <1>2, <1>3, <1>4

\* An array that is transposed twice is as it was.
LEMMA TurnedTwice ==
  ASSUME NEW rows \in Nat, NEW cols \in Nat, NEW p \in 0 .. rows * cols - 1
  PROVE  /\ Turned(p, rows, cols) \in 0 .. cols * rows - 1
         /\ Turned(Turned(p, rows, cols), cols, rows) = p
<1>0. rows * cols \in Nat
  BY Product
<1>1. rows > 0 /\ cols > 0
  <2>1. rows = 0 => rows * cols = 0
    OBVIOUS
  <2>2. cols = 0 => rows * cols = 0
    OBVIOUS
  <2> QED
    BY <1>0, <2>1, <2>2
<1>2. PICK x \in 0 .. rows - 1, y \in 0 .. cols - 1 : p = x * cols + y
  BY <1>1, Decompose, Zenon
<1>3. x \in Int /\ y \in Int
  OBVIOUS
<1>4. p \div cols = x /\ p % cols = y
  BY <1>1, <1>2, <1>3, Unique, Zenon
<1>5. Turned(p, rows, cols) = y * rows + x
  BY <1>4 DEF Turned
<1>6. y * rows + x \in 0 .. cols * rows - 1
  BY <1>1, Place
<1>7. (y * rows + x) \div rows = y /\ (y * rows + x) % rows = x
  BY <1>1, <1>3, Unique, Zenon
<1>8. Turned(y * rows + x, cols, rows) = x * cols + y
  BY <1>7 DEF Turned
<1> QED
  BY <1>2, <1>5, <1>6, <1>8, Zenon

\* What an operation picks stays the same as long as the operation does.
LEMMA PickedKept ==
  ASSUME op'.ix = op.ix, NEW s, NEW k
  PROVE  Picked(s, k)' = Picked(s, k) /\ Number(s)' = Number(s) /\ Part(s, k)' = Part(s, k)
<1>1. Picked(s, k)' = Picked(s, k) /\ Number(s)' = Number(s)
  BY DEF Picked, Meant, Number
<1> QED
  BY <1>1 DEF Part

\* Neither do the cases in which it computes what it should.
LEMMA GoodKept ==
  ASSUME op' = op
  PROVE  Good' <=> Good
<1>1. (Regular' <=> Regular) /\ (Fits' <=> Fits) /\ (Room' <=> Room)
  BY OpKept
<1>2. Number(op.sym)' = Number(op.sym)
  BY PickedKept
<1>3. \A k : Picked(op.sym, k)' = Picked(op.sym, k)
  BY PickedKept
<1>4. Apart' <=> Apart
  BY <1>2, <1>3 DEF Apart
<1> QED
  BY <1>1, <1>4 DEF Good

\* Loops over all elements.
LEMMA FlatStores ==
  ASSUME Typed, FlatStep
  PROVE  /\ op' = op /\ a' = a /\ i' = i + 1 /\ pc = "flat" /\ pc' = "flat"
         /\ op.kind \in {"assign", "map"} => r' = Store(r, i, a[i])
         /\ op.kind = "add" => r' = Store(r, i, Sum(a[i], << <<"expr2", i>> >>))
         /\ op.kind = "dot" => r' = Store(r, 0, Sum(r[0], Prod(i, i)))
         /\ op.kind = "transp" => r' = Store(r, Transposed(i), a[i])
         /\ op.kind = "str" => r' = Store(r, i, Separator(i))
<1>1. op' = op /\ a' = a
  BY LoopKeeps DEF Loop
<1>2. i' = i + 1 /\ pc = "flat" /\ pc' = "flat"
  BY DEF FlatStep
<1>3. Load(a, i) = a[i]
  BY FlatInside DEF Load
<1>4. op.kind \in {"assign", "map"} => r' = Store(r, i, Load(a, i))
  BY DEF FlatStep, Put
<1>5. op.kind = "add" => r' = Store(r, i, Sum(Load(a, i), << <<"expr2", i>> >>))
  BY DEF FlatStep, Put
<1>6. op.kind = "dot" => r' = Store(r, 0, Sum(r[0], Prod(i, i)))
  BY DEF FlatStep, Put
<1>7. op.kind = "transp" => r' = Store(r, Transposed(i), Load(a, i))
  BY DEF FlatStep, Put
<1>8. op.kind = "str" => r' = Store(r, i, Separator(i))
  BY DEF FlatStep, Put
<1> QED
  BY <1>1, <1>2, <1>3, <1>4, <1>5, <1>6, <1>7, <1>8

\* Each of them does the element at the counter.
LEMMA FlatKeeps ==
  ASSUME Typed, FlatOK, FlatStep
  PROVE  FlatOK'
<1>1. /\ op' = op /\ a' = a /\ i' = i + 1 /\ pc = "flat" /\ pc' = "flat"
      /\ op.kind \in {"assign", "map"} => r' = Store(r, i, a[i])
      /\ op.kind = "add" => r' = Store(r, i, Sum(a[i], << <<"expr2", i>> >>))
      /\ op.kind = "dot" => r' = Store(r, 0, Sum(r[0], Prod(i, i)))
      /\ op.kind = "transp" => r' = Store(r, Transposed(i), a[i])
      /\ op.kind = "str" => r' = Store(r, i, Separator(i))
  BY FlatStores
<1>2. /\ OpShaped(op) /\ i \in 0 .. Count
      /\ DOMAIN a = Positions(op.e1) /\ DOMAIN r = Positions(op.sym)
  BY <1>1 DEF Typed, TypeOK, PcShaped
<1>3. /\ i \in DOMAIN a
      /\ op.kind \in {"assign", "map", "add", "str"} => i \in DOMAIN r
      /\ op.kind = "dot" => 0 \in DOMAIN r
      /\ op.kind = "transp" => Transposed(i) \in DOMAIN r
  BY FlatInside
<1>4. i \in Nat /\ \A p \in Positions(op.sym) : p \in Int
  <2>1. Length(op.sym) \in Nat /\ Length(op.e1) \in Nat
    BY <1>2, ShapedFacts DEF OpShaped
  <2> QED
    BY <1>2, <1>3, <2>1 DEF Positions
<1>5. op.kind = "assign" =>
        \A p \in Positions(op.sym) : r'[p] = IF p < i + 1 THEN a[p] ELSE Kept(p)
  <2> SUFFICES ASSUME op.kind = "assign", NEW p \in Positions(op.sym)
               PROVE  r'[p] = IF p < i + 1 THEN a[p] ELSE Kept(p)
    OBVIOUS
  <2>1. r[p] = IF p < i THEN a[p] ELSE Kept(p)
    BY <1>1 DEF FlatOK
  <2>2. r'[p] = IF p = i THEN a[i] ELSE r[p]
    BY <1>1, <1>2, <1>3, Stored
  <2> QED
    BY <1>4, <2>1, <2>2
<1>6. op.kind = "map" => \A p \in Positions(op.sym) : p < i + 1 => r'[p] = a[p]
  <2> SUFFICES ASSUME op.kind = "map", NEW p \in Positions(op.sym), p < i + 1
               PROVE  r'[p] = a[p]
    OBVIOUS
  <2>1. p < i => r[p] = a[p]
    BY <1>1 DEF FlatOK
  <2>2. r'[p] = IF p = i THEN a[i] ELSE r[p]
    BY <1>1, <1>2, <1>3, Stored
  <2> QED
    BY <1>4, <2>1, <2>2
<1>7. op.kind = "add" =>
        \A p \in Positions(op.sym) : p < i + 1 => r'[p] = Sum(a[p], << <<"expr2", p>> >>)
  <2> SUFFICES ASSUME op.kind = "add", NEW p \in Positions(op.sym), p < i + 1
               PROVE  r'[p] = Sum(a[p], << <<"expr2", p>> >>)
    OBVIOUS
  <2>1. p < i => r[p] = Sum(a[p], << <<"expr2", p>> >>)
    BY <1>1 DEF FlatOK
  <2>2. r'[p] = IF p = i THEN Sum(a[i], << <<"expr2", i>> >>) ELSE r[p]
    BY <1>1, <1>2, <1>3, Stored
  <2>3. p < i \/ p = i
    BY <1>4
  <2> QED
    BY <1>4, <2>1, <2>2, <2>3
<1>8. op.kind = "str" => \A p \in Positions(op.sym) : p < i + 1 => r'[p] = Separator(p)
  <2> SUFFICES ASSUME op.kind = "str", NEW p \in Positions(op.sym), p < i + 1
               PROVE  r'[p] = Separator(p)
    OBVIOUS
  <2>1. p < i => r[p] = Separator(p)
    BY <1>1 DEF FlatOK
  <2>2. r'[p] = IF p = i THEN Separator(i) ELSE r[p]
    BY <1>1, <1>2, <1>3, Stored
  <2>3. p < i \/ p = i
    BY <1>4
  <2> QED
    BY <1>4, <2>1, <2>2, <2>3
<1>9. op.kind = "dot" => r'[0] = DotSum(i + 1)
  <2> SUFFICES ASSUME op.kind = "dot" PROVE r'[0] = DotSum(i + 1)
    OBVIOUS
  <2>1. r[0] = DotSum(i)
    BY <1>1 DEF FlatOK
  <2>2. r'[0] = Sum(DotSum(i), Prod(i, i))
    BY <1>1, <1>3, <2>1, Stored
  <2> QED
    BY <1>4, <2>2, Sums
<1>10. op.kind = "transp" => \A p \in 0 .. i : r'[Turned(p, op.e1.rows, op.e1.cols)] = a[p]
  <2> SUFFICES ASSUME op.kind = "transp", NEW p \in 0 .. i
               PROVE  r'[Turned(p, op.e1.rows, op.e1.cols)] = a[p]
    OBVIOUS
  <2> DEFINE q == Turned(p, op.e1.rows, op.e1.cols)
             t == Turned(i, op.e1.rows, op.e1.cols)
  <2>0. /\ op.e1.rows \in Nat /\ op.e1.cols \in Nat
        /\ op.sym.rows = op.e1.cols /\ op.sym.cols = op.e1.rows
    BY <1>2, ShapedFacts DEF OpShaped
  <2>1. p \in 0 .. op.e1.rows * op.e1.cols - 1 /\ i \in 0 .. op.e1.rows * op.e1.cols - 1
    <3>1. i \in 0 .. op.e1.rows * op.e1.cols - 1
      BY <1>2, <1>3 DEF Positions, Length
    <3>2. op.e1.rows * op.e1.cols \in Nat
      BY <2>0, Product
    <3> QED
      BY <3>1, <3>2
  <2>2. q \in Positions(op.sym)
    <3>1. q \in 0 .. op.e1.cols * op.e1.rows - 1
      BY <2>0, <2>1, TurnedTwice
    <3> QED
      BY <2>0, <3>1 DEF Positions, Length
  <2>3. /\ Turned(q, op.e1.cols, op.e1.rows) = p
        /\ Turned(t, op.e1.cols, op.e1.rows) = i
    BY <2>0, <2>1, TurnedTwice
  <2>4. r' = Store(r, t, a[i])
    BY <1>1 DEF Transposed, Turned
  <2>5. t \in DOMAIN r
    BY <1>3 DEF Transposed, Turned
  <2>6. p # i => p \in 0 .. i - 1
    BY <1>4
  <2>7. p # i => r[q] = a[p]
    BY <1>1, <2>6 DEF FlatOK
  <2> HIDE DEF q, t
  <2>8. ASSUME p = i PROVE r'[q] = a[p]
    <3>1. q = t
      BY <2>8 DEF q, t
    <3> QED
      BY <2>4, <2>5, <2>8, <3>1, Stored
  <2>9. ASSUME p # i PROVE r'[q] = a[p]
    <3>1. q # t
      BY <2>3, <2>9
    <3>2. r'[q] = r[q]
      BY <1>2, <2>2, <2>4, <3>1, Stored
    <3> QED
      BY <2>7, <2>9, <3>2
  <2>10. r'[q] = a[p]
    BY <2>8, <2>9
  <2> QED
    BY <2>10 DEF q
<1>11. \A p : Separator(p)' = Separator(p)
  BY <1>1 DEF Separator
<1>12. (i + 1) - 1 = i
  BY <1>4
<1> QED
  BY <1>1, <1>5, <1>6, <1>7, <1>8, <1>9, <1>10, <1>11, <1>12 DEF FlatOK

\* Comparisons.
LEMMA CompareKeeps ==
  ASSUME Typed, CompareOK, CompareStep \/ CompareEnd
  PROVE  CompareOK'
<1>1. op' = op
  BY LoopKeeps DEF Loop
<1>2. /\ pc = "comp" /\ i \in 0 .. Length(op.e1) /\ op.diff \subseteq Positions(op.e1)
      /\ 0 \in DOMAIN r /\ Length(op.e1) \in Nat
  <2>1. pc = "comp"
    BY DEF CompareStep, CompareEnd
  <2>2. OpShaped(op) /\ i \in 0 .. Length(op.e1) /\ op.kind \in Compares /\ DOMAIN r = Positions(op.sym)
    BY <2>1 DEF Typed, TypeOK, PcShaped
  <2> QED
    BY <2>1, <2>2, ShapedFacts DEF OpShaped
<1>3. r[0] = TRUE /\ \A p \in op.diff : p >= i
  BY <1>2, Zenon DEF CompareOK
<1>4. \A p \in op.diff : p \in 0 .. Length(op.e1) - 1
  BY <1>2 DEF Positions
<1>5. CASE CompareStep
  <2>1. r' = Store(r, 0, i \notin op.diff)
    BY <1>5, Zenon DEF CompareStep, Put
  <2>2. r'[0] = (i \notin op.diff)
    BY <1>2, <2>1, Stored, Zenon
  <2>3. IF i \in op.diff THEN pc' = "end" /\ UNCHANGED i ELSE i' = i + 1 /\ UNCHANGED pc
    BY <1>5, Zenon DEF CompareStep
  <2>4. CASE i \in op.diff
    <3>1. pc' = "end" /\ ~(op.diff = {}) /\ ~r'[0]
      BY <2>2, <2>3, <2>4
    <3>2. r'[0] = FALSE /\ (op'.diff = {}) = FALSE
      BY <1>1, <2>2, <2>4, <3>1, Zenon
    <3>3. pc' # "comp"
      BY <3>1
    <3> QED
      BY <3>2, <3>3, Zenon DEF CompareOK
  <2>5. CASE i \notin op.diff
    <3>1. pc' = "comp" /\ i' = i + 1
      BY <1>2, <2>3, <2>5
    <3>2. \A p \in op.diff : p >= i + 1
      BY <1>2, <1>3, <1>4, <2>5
    <3>3. r'[0] = TRUE
      BY <2>2, <2>5, Zenon
    <3>4. pc' # "end"
      BY <3>1
    <3> QED
      BY <1>1, <3>1, <3>2, <3>3, <3>4, Zenon DEF CompareOK
  <2> QED
    BY <2>4, <2>5
<1>6. CASE CompareEnd
  <2>1. pc' = "end" /\ r' = r /\ i >= Length(op.e1)
    BY <1>6 DEF CompareEnd
  <2>2. op.diff = {}
    BY <1>2, <1>3, <1>4, <2>1
  <2>3. (op'.diff = {}) = TRUE /\ r'[0] = TRUE
    BY <1>1, <1>3, <2>1, <2>2, Zenon
  <2>4. pc' # "comp"
    BY <2>1
  <2> QED
    BY <2>3, <2>4, Zenon DEF CompareOK
<1> QED
  BY <1>5, <1>6

\* Products of a matrix and a vector.
LEMMA VecKeeps ==
  ASSUME Typed, VecOK, VecRow \/ VecStep \/ VecRowEnd
  PROVE  VecOK'
<1>1. op' = op
  BY LoopKeeps DEF Loop
<1>2. /\ OpShaped(op) /\ PcShaped /\ DOMAIN r = Positions(op.sym)
  BY DEF Typed, TypeOK
<1>3. op.e1.rows \in Nat /\ op.e1.cols \in Nat
  BY <1>2, ShapedFacts DEF OpShaped
<1>4. /\ pc \in {"vec_i", "vec_j"} /\ op.kind = "matvec"
  BY <1>2 DEF VecRow, VecStep, VecRowEnd, PcShaped
<1>5. op.sym.rows = 1 /\ op.sym.cols = op.e1.rows
  BY <1>2, <1>4 DEF OpShaped
<1>6. DOMAIN r = 0 .. op.e1.rows - 1
  BY <1>2, <1>3, <1>5 DEF Positions, Length
<1>7. \A x \in 0 .. i - 1 : r[x] = VecSum(x, op.e1.cols, op.e1.cols)
  BY <1>4 DEF VecOK
<1>8. CASE VecRow
  <2>1. /\ pc' = "vec_j" /\ i' = i /\ j' = 0 /\ r' = Store(r, i, <<>>) /\ i \in 0 .. op.e1.rows - 1
    BY <1>2, <1>3, <1>8 DEF VecRow, PcShaped, Put
  <2>2. r'[i] = VecSum(i, op.e1.cols, 0)
    BY <1>6, <2>1, Stored, Sums
  <2>3. \A x \in 0 .. i - 1 : r'[x] = r[x]
    BY <1>3, <1>6, <2>1, Stored
  <2> QED
    BY <1>1, <1>7, <2>1, <2>2, <2>3 DEF VecOK
<1>9. CASE VecStep
  <2>1. /\ pc = "vec_j" /\ pc' = "vec_j" /\ i' = i /\ j' = j + 1
        /\ r' = Store(r, i, Sum(Load(r, i), Prod(i * op.e1.cols + j, j)))
        /\ i \in 0 .. op.e1.rows - 1 /\ j \in 0 .. op.e1.cols
    BY <1>2, <1>3, <1>9 DEF VecStep, PcShaped, Put
  <2>0. r[i] = VecSum(i, op.e1.cols, j) /\ i \in DOMAIN r
    BY <1>6, <2>1 DEF VecOK
  <2>2. Load(r, i) = VecSum(i, op.e1.cols, j)
    BY <2>0 DEF Load
  <2>3. r'[i] = Sum(VecSum(i, op.e1.cols, j), Prod(i * op.e1.cols + j, j))
    <3> DEFINE v == Sum(Load(r, i), Prod(i * op.e1.cols + j, j))
    <3>1. r' = Store(r, i, v) /\ i \in DOMAIN r
      BY <2>0, <2>1
    <3> HIDE DEF v
    <3>2. r'[i] = v
      BY <3>1, Stored
    <3> QED
      BY <2>2, <3>2, Zenon DEF v
  <2>4. i \in Nat /\ j \in Nat
    BY <2>1
  <2>5. r'[i] = VecSum(i, op.e1.cols, j + 1)
    BY <1>3, <2>3, <2>4, Sums
  <2>6. \A x \in 0 .. i - 1 : r'[x] = r[x]
    BY <1>3, <1>6, <2>1, Stored
  <2> QED
    BY <1>1, <1>7, <2>1, <2>5, <2>6 DEF VecOK
<1>10. CASE VecRowEnd
  <2>1. /\ pc = "vec_j" /\ pc' = "vec_i" /\ i' = i + 1 /\ r' = r
        /\ i \in 0 .. op.e1.rows - 1 /\ j \in 0 .. op.e1.cols /\ j >= op.e1.cols
    BY <1>2, <1>10 DEF VecRowEnd, PcShaped
  <2>2. j = op.e1.cols
    BY <1>3, <2>1
  <2>3. r[i] = VecSum(i, op.e1.cols, op.e1.cols)
    BY <2>1, <2>2 DEF VecOK
  <2>4. \A x \in 0 .. (i + 1) - 1 : x \in 0 .. i - 1 \/ x = i
    BY <2>1
  <2>5. \A x \in 0 .. (i + 1) - 1 : r[x] = VecSum(x, op.e1.cols, op.e1.cols)
    BY <1>7, <2>3, <2>4
  <2> QED
    BY <1>1, <2>1, <2>5 DEF VecOK
<1> QED
  BY <1>8, <1>9, <1>10

\* A store in one element of a matrix leaves the others.
MatOnly(m, rows, cols, x0, y0, v) ==
  /\ x0 * cols + y0 \in DOMAIN m
  /\ Store(m, x0 * cols + y0, v)[x0 * cols + y0] = v
  /\ \A x \in 0 .. rows - 1, y \in 0 .. cols - 1 :
       x # x0 \/ y # y0 => Store(m, x0 * cols + y0, v)[x * cols + y] = m[x * cols + y]

LEMMA MatBeside ==
  ASSUME NEW rows \in Nat, NEW cols \in Nat, NEW m, DOMAIN m = 0 .. rows * cols - 1,
         NEW x0 \in 0 .. rows - 1, NEW y0 \in 0 .. cols - 1, NEW v
  PROVE  MatOnly(m, rows, cols, x0, y0, v)
<1> DEFINE q == x0 * cols + y0
<1>1. \A x \in 0 .. rows - 1, y \in 0 .. cols - 1 : x * cols + y \in DOMAIN m
  BY Place
<1>2. ASSUME NEW x \in 0 .. rows - 1, NEW y \in 0 .. cols - 1, x # x0 \/ y # y0
      PROVE  Store(m, q, v)[x * cols + y] = m[x * cols + y]
  <2> DEFINE p == x * cols + y
  <2>1. x \in Int /\ x0 \in Int /\ cols > 0
    OBVIOUS
  <2>2. p \div cols = x /\ p % cols = y
    BY <2>1, Unique, Zenon
  <2>3. q \div cols = x0 /\ q % cols = y0
    BY <2>1, Unique, Zenon
  <2>4. p \in DOMAIN m
    BY <1>1
  <2> HIDE DEF p, q
  <2>5. p # q
    BY <1>2, <2>2, <2>3, Zenon
  <2>6. Store(m, q, v)[p] = m[p]
    BY <2>4, <2>5, Stored
  <2> QED
    BY <2>6 DEF p
<1>3. q \in DOMAIN m
  BY <1>1
<1> HIDE DEF q
<1>4. Store(m, q, v)[q] = v
  BY <1>3, Stored
<1>5. \A x \in 0 .. rows - 1, y \in 0 .. cols - 1 :
        x # x0 \/ y # y0 => Store(m, q, v)[x * cols + y] = m[x * cols + y]
  BY <1>2, Zenon
<1> QED
  BY <1>3, <1>4, <1>5, Zenon DEF q, MatOnly

\* Products of two matrices.
LEMMA MatKeeps ==
  ASSUME Typed, MatOK, MatRow \/ MatElem \/ MatRowEnd \/ MatStep \/ MatElemEnd
  PROVE  MatOK'
<1>1. op' = op
  BY LoopKeeps DEF Loop
<1>2. /\ OpShaped(op) /\ PcShaped /\ DOMAIN r = Positions(op.sym)
  BY DEF Typed, TypeOK
<1>3. op.e1.rows \in Nat /\ op.e1.cols \in Nat /\ op.e2.cols \in Nat
  BY <1>2, ShapedFacts DEF OpShaped
<1>4. /\ pc \in {"mat_i", "mat_j", "mat_k"} /\ op.kind = "matmat"
  BY <1>2 DEF MatRow, MatElem, MatRowEnd, MatStep, MatElemEnd, PcShaped
<1>5. op.sym.rows = op.e1.rows /\ op.sym.cols = op.e2.cols
  BY <1>2, <1>4 DEF OpShaped
<1>6. DOMAIN r = 0 .. op.e1.rows * op.e2.cols - 1
  BY <1>2, <1>3, <1>5 DEF Positions, Length
<1>7. \A x \in 0 .. i - 1 : \A y \in 0 .. op.e2.cols - 1 : MatDone(r, op, x, y)
  BY <1>4 DEF MatOK
<1>8. /\ pc \in {"mat_i", "mat_j", "mat_k"} /\ i \in 0 .. op.e1.rows
      /\ pc \in {"mat_j", "mat_k"} => i \in 0 .. op.e1.rows - 1
      /\ pc = "mat_j" => j \in 0 .. op.e2.cols
      /\ pc = "mat_k" => j \in 0 .. op.e2.cols - 1 /\ n \in 0 .. op.e1.cols
  BY <1>2, <1>3, <1>4 DEF PcShaped
<1>9. CASE MatRow
  <2>1. /\ pc' = "mat_j" /\ i' = i /\ j' = 0 /\ r' = r
    BY <1>9 DEF MatRow
  <2> QED
    BY <1>1, <1>7, <2>1 DEF MatOK
<1>10. CASE MatRowEnd
  <2>1. /\ pc = "mat_j" /\ pc' = "mat_i" /\ i' = i + 1 /\ r' = r /\ j >= op.e2.cols
    BY <1>10 DEF MatRowEnd
  <2>2. j = op.e2.cols /\ i \in Nat
    BY <1>3, <1>8, <2>1
  <2>3. \A y \in 0 .. op.e2.cols - 1 : MatDone(r, op, i, y)
    BY <2>1, <2>2 DEF MatOK
  <2>4. \A x \in 0 .. (i + 1) - 1 : x \in 0 .. i - 1 \/ x = i
    BY <2>2
  <2>5. \A x \in 0 .. (i + 1) - 1 : \A y \in 0 .. op.e2.cols - 1 : MatDone(r, op, x, y)
    BY <1>7, <2>3, <2>4
  <2> QED
    BY <1>1, <2>1, <2>5 DEF MatOK
<1>11. CASE MatElemEnd
  <2>1. /\ pc = "mat_k" /\ pc' = "mat_j" /\ i' = i /\ j' = j + 1 /\ r' = r /\ n >= op.e1.cols
    BY <1>11 DEF MatElemEnd
  <2>2. n = op.e1.cols /\ j \in Nat
    BY <1>3, <1>8, <2>1
  <2>3. MatDone(r, op, i, j)
    BY <2>1, <2>2 DEF MatOK, MatDone
  <2>4. \A y \in 0 .. (j + 1) - 1 : y \in 0 .. j - 1 \/ y = j
    BY <2>2
  <2>5. \A y \in 0 .. (j + 1) - 1 : MatDone(r, op, i, y)
    BY <2>1, <2>3, <2>4 DEF MatOK
  <2> QED
    BY <1>1, <1>7, <2>1, <2>5 DEF MatOK
<1>12. ASSUME NEW v, i \in 0 .. op.e1.rows - 1, j \in 0 .. op.e2.cols - 1,
              pc \in {"mat_j", "mat_k"}, r' = Store(r, i * op.e2.cols + j, v)
       PROVE  /\ \A x \in 0 .. i - 1 : \A y \in 0 .. op.e2.cols - 1 : MatDone(r', op, x, y)
              /\ \A y \in 0 .. j - 1 : MatDone(r', op, i, y)
              /\ i * op.e2.cols + j \in DOMAIN r
              /\ r'[i * op.e2.cols + j] = v
  <2>1. /\ i * op.e2.cols + j \in DOMAIN r
        /\ r'[i * op.e2.cols + j] = v
        /\ \A x \in 0 .. op.e1.rows - 1, y \in 0 .. op.e2.cols - 1 :
             x # i \/ y # j => r'[x * op.e2.cols + y] = r[x * op.e2.cols + y]
    <3>1. MatOnly(r, op.e1.rows, op.e2.cols, i, j, v)
      BY <1>3, <1>6, <1>12, MatBeside
    <3> QED
      BY <1>12, <3>1, Zenon DEF MatOnly
  <2>2. ASSUME NEW x \in 0 .. i - 1, NEW y \in 0 .. op.e2.cols - 1
        PROVE  MatDone(r', op, x, y)
    <3>1. x \in 0 .. op.e1.rows - 1 /\ x # i
      BY <1>3, <1>12
    <3>2. r'[x * op.e2.cols + y] = r[x * op.e2.cols + y]
      BY <2>1, <3>1, Zenon
    <3>3. MatDone(r, op, x, y)
      BY <1>7
    <3> QED
      BY <3>2, <3>3, Zenon DEF MatDone
  <2>3. ASSUME NEW y \in 0 .. j - 1
        PROVE  MatDone(r', op, i, y)
    <3>1. y \in 0 .. op.e2.cols - 1 /\ y # j
      BY <1>3, <1>12
    <3>2. r'[i * op.e2.cols + y] = r[i * op.e2.cols + y]
      BY <1>12, <2>1, <3>1, Zenon
    <3>3. MatDone(r, op, i, y)
      BY <1>12 DEF MatOK
    <3> QED
      BY <3>2, <3>3, Zenon DEF MatDone
  <2> QED
    BY <2>1, <2>2, <2>3
<1>13. CASE MatElem
  <2>1. /\ pc = "mat_j" /\ pc' = "mat_k" /\ i' = i /\ j' = j /\ n' = 0
        /\ r' = Store(r, i * op.e2.cols + j, <<>>) /\ j < op.e2.cols
    BY <1>13 DEF MatElem, Put
  <2>2. i \in 0 .. op.e1.rows - 1 /\ j \in 0 .. op.e2.cols - 1
    BY <1>3, <1>8, <2>1
  <2>3. /\ \A x \in 0 .. i - 1 : \A y \in 0 .. op.e2.cols - 1 : MatDone(r', op, x, y)
        /\ \A y \in 0 .. j - 1 : MatDone(r', op, i, y)
        /\ r'[i * op.e2.cols + j] = <<>>
    BY <1>12, <2>1, <2>2
  <2>4. r'[i * op.e2.cols + j] = MatSum(i, j, op.e1.cols, op.e2.cols, 0)
    BY <2>3, Sums
  <2> QED
    BY <1>1, <2>1, <2>3, <2>4 DEF MatOK
<1>14. CASE MatStep
  <2> DEFINE l == i * op.e2.cols + j
  <2>1. /\ pc = "mat_k" /\ pc' = "mat_k" /\ i' = i /\ j' = j /\ n' = n + 1
        /\ r' = Store(r, l, Sum(Load(r, l), Prod(i * op.e1.cols + n, n * op.e2.cols + j)))
    BY <1>14 DEF MatStep, Put
  <2>2. i \in 0 .. op.e1.rows - 1 /\ j \in 0 .. op.e2.cols - 1 /\ n \in Nat /\ i \in Nat /\ j \in Nat
    BY <1>3, <1>8, <2>1
  <2>3. /\ \A x \in 0 .. i - 1 : \A y \in 0 .. op.e2.cols - 1 : MatDone(r', op, x, y)
        /\ \A y \in 0 .. j - 1 : MatDone(r', op, i, y)
        /\ l \in DOMAIN r
        /\ r'[l] = Sum(Load(r, l), Prod(i * op.e1.cols + n, n * op.e2.cols + j))
    BY <1>12, <2>1, <2>2
  <2>0. r[l] = MatSum(i, j, op.e1.cols, op.e2.cols, n)
    BY <2>1 DEF MatOK
  <2>4. Load(r, l) = MatSum(i, j, op.e1.cols, op.e2.cols, n)
    BY <2>0, <2>3, Zenon DEF Load
  <2>5. r'[l] = MatSum(i, j, op.e1.cols, op.e2.cols, n + 1)
    <3>1. Sum(MatSum(i, j, op.e1.cols, op.e2.cols, n), Prod(i * op.e1.cols + n, n * op.e2.cols + j))
            = MatSum(i, j, op.e1.cols, op.e2.cols, n + 1)
      BY <1>3, <2>2, Sums, Zenon
    <3> QED
      BY <2>3, <2>4, <3>1, Zenon
  <2> QED
    BY <1>1, <2>1, <2>3, <2>5 DEF MatOK
<1> QED
  BY <1>9, <1>10, <1>11, <1>13, <1>14

\* What an operation on a range picks from or writes into.
LEMMA RangeFacts ==
  ASSUME Typed, pc \in {"row", "col", "zero"}
  PROVE  /\ OpShaped(op) /\ op.kind \in Ranges /\ op.ix # <<>>
         /\ Shaped(Indexed(op)) /\ Inside(Indexed(op)) /\ Indexed(op).ty # "SCALAR"
         /\ op.kind = "slice" => Indexed(op) = op.e1 /\ Length(op.sym) = Length(op.e1)
         /\ op.kind \in {"write", "shift"} => Indexed(op) = op.sym
         /\ op.kind = "shift" => op.e1 = op.sym
         /\ DOMAIN a = Positions(op.e1) /\ DOMAIN r = Positions(op.sym)
         /\ n \in Nat /\ Length(op.e1) \in Nat /\ Length(op.sym) \in Nat
         /\ Number(Indexed(op)) \in Nat /\ Number(Indexed(op)) <= Length(Indexed(op))
<1>1. /\ OpShaped(op) /\ op.kind \in Ranges /\ n \in Nat
      /\ DOMAIN a = Positions(op.e1) /\ DOMAIN r = Positions(op.sym)
  BY DEF Typed, TypeOK, PcShaped, Ranges
<1>2. op.ix # <<>>
  BY <1>1 DEF OpShaped, Ranges, Picking
<1>3. Shaped(Indexed(op)) /\ Inside(Indexed(op))
  BY <1>1, <1>2, Indexing
<1>4. Indexed(op).ty # "SCALAR" /\ Shaped(op.e1) /\ Shaped(op.sym)
  BY <1>1, <1>2 DEF OpShaped
<1>5. Length(op.e1) \in Nat /\ Length(op.sym) \in Nat
  BY <1>4, ShapedFacts
<1>6. Number(Indexed(op)) \in Nat /\ Number(Indexed(op)) <= Length(Indexed(op))
  BY <1>3, RangeSize
<1>7. /\ op.kind = "slice" => Indexed(op) = op.e1 /\ Length(op.sym) = Length(op.e1)
      /\ op.kind \in {"write", "shift"} => Indexed(op) = op.sym
      /\ op.kind = "shift" => op.e1 = op.sym
  BY <1>1 DEF OpShaped, Indexed
<1> QED
  BY <1>1, <1>2, <1>3, <1>4, <1>5, <1>6, <1>7

\* Ranges that are read.
LEMMA SliceKeeps ==
  ASSUME Typed, Regular, RangeOK, OperandOK, SliceOK, Row \/ ColsEnd \/ SliceStep
  PROVE  SliceOK'
<1>1. op' = op
  BY LoopKeeps DEF Loop
<1>2. pc \in {"row", "col"}
  BY DEF Row, ColsEnd, SliceStep
<1> SUFFICES ASSUME op.kind = "slice"
             PROVE  \A p \in Positions(op.sym) :
                      r'[p] = IF p < n' THEN Contents(op.e1)[Picked(op.e1, p)] ELSE Unset
  BY <1>1, PickedKept DEF SliceOK
<1>3. \A p \in Positions(op.sym) :
        r[p] = IF p < n THEN Contents(op.e1)[Picked(op.e1, p)] ELSE Unset
  BY <1>2 DEF SliceOK
<1>4. CASE Row \/ ColsEnd
  <2>1. r' = r /\ n' = n
    BY <1>4 DEF Row, ColsEnd
  <2> QED
    BY <1>3, <2>1
<1>5. CASE SliceStep
  <2> DEFINE p0 == i * op.e1.cols + j
  <2>1. /\ pc = "col" /\ InRange(j, At[3], At[4]) /\ n' = n + 1 /\ r' = Store(r, n, Load(a, p0))
    BY <1>5 DEF SliceStep, Put
  <2>2. /\ Indexed(op) = op.e1 /\ Length(op.sym) = Length(op.e1) /\ Length(op.e1) \in Nat
        /\ DOMAIN a = Positions(op.e1) /\ DOMAIN r = Positions(op.sym) /\ n \in Nat
    BY <1>2, RangeFacts
  <2>3. /\ n \in 0 .. Number(op.e1) - 1 /\ Number(op.e1) \in Nat /\ Number(op.e1) <= Length(op.e1)
        /\ Picked(op.e1, n) = p0 /\ p0 \in Positions(op.e1)
    BY <2>1, <2>2, ColPlace
  <2>4. a = Contents(op.e1)
    BY DEF OperandOK
  <2>5. Load(a, p0) = Contents(op.e1)[Picked(op.e1, n)]
    BY <2>2, <2>3, <2>4 DEF Load
  <2>6. n \in DOMAIN r
    BY <2>2, <2>3 DEF Positions
  <2> HIDE DEF p0
  <2> SUFFICES ASSUME NEW p \in Positions(op.sym)
               PROVE  r'[p] = IF p < n + 1 THEN Contents(op.e1)[Picked(op.e1, p)] ELSE Unset
    BY <2>1
  <2>7. p \in Int
    BY <2>2 DEF Positions
  <2>8. CASE p = n
    BY <2>1, <2>2, <2>5, <2>6, <2>8, Stored
  <2>9. CASE p # n
    <3>1. r'[p] = r[p]
      BY <2>1, <2>2, <2>9, Stored
    <3>2. p < n + 1 <=> p < n
      BY <2>2, <2>7, <2>9
    <3> QED
      BY <1>3, <3>1, <3>2
  <2> QED
    BY <2>8, <2>9
<1> QED
  BY <1>4, <1>5

\* The value that is written next is the one that belongs there.
LEMMA WriteReads ==
  ASSUME Typed, Good, OperandOK, WriteOK, pc = "col", op.kind \in {"write", "shift"},
         n \in 0 .. Number(op.sym) - 1
  PROVE  Load(IF op.kind = "shift" THEN r ELSE a, IF op.e1.ty = "SCALAR" THEN 0 ELSE n) = Given(n)
<1>1. /\ Indexed(op) = op.sym /\ Indexed(op).ty # "SCALAR" /\ OpShaped(op)
      /\ op.kind = "shift" => op.e1 = op.sym
      /\ DOMAIN a = Positions(op.e1) /\ DOMAIN r = Positions(op.sym)
      /\ n \in Nat /\ Length(op.e1) \in Nat /\ Length(op.sym) \in Nat
      /\ Number(op.sym) \in Nat /\ Number(op.sym) <= Length(op.sym)
  BY RangeFacts
<1>2. CASE op.kind = "shift"
  <2>1. op.e1.ty # "SCALAR"
    BY <1>1, <1>2
  <2>2. n \in Positions(op.sym)
    BY <1>1 DEF Positions
  <2>3. \A k \in 0 .. n - 1 : Picked(op.sym, k) # n
    BY <1>2 DEF Good, Apart
  <2>4. r[n] = Kept(n)
    BY <2>2, <2>3 DEF WriteOK
  <2> QED
    BY <1>1, <1>2, <2>1, <2>2, <2>4 DEF Load, Given
<1>3. CASE op.kind = "write"
  <2>1. a = Contents(op.e1)
    BY <1>3 DEF OperandOK
  <2>2. CASE op.e1.ty = "SCALAR"
    <3>1. 0 \in Positions(op.e1)
      BY <1>1, ShapedFacts DEF OpShaped
    <3>2. Contents(op.e1)[0] = Elem(0)
      BY <2>2, <3>1 DEF Contents
    <3> QED
      BY <1>1, <1>3, <2>1, <2>2, <3>1, <3>2 DEF Load, Given
  <2>3. CASE op.e1.ty # "SCALAR"
    <3>1. Number(op.sym) <= Length(op.e1)
      BY <1>3, <2>3 DEF Good, Fits
    <3>2. n \in Positions(op.e1)
      BY <1>1, <3>1 DEF Positions
    <3> QED
      BY <1>1, <1>3, <2>1, <2>3, <3>2 DEF Load, Given
  <2> QED
    BY <2>2, <2>3
<1> QED
  BY <1>2, <1>3

\* Ranges that are written.
LEMMA WriteKeeps ==
  ASSUME Typed, Good, RangeOK, OperandOK, WriteOK, Row \/ ColsEnd \/ WriteStep
  PROVE  WriteOK'
<1>1. op' = op
  BY LoopKeeps DEF Loop
<1>2. pc \in {"row", "col"} /\ Regular
  BY DEF Row, ColsEnd, WriteStep, Good
<1>3. \A k : Given(k)' = Given(k)
  BY <1>1 DEF Given
<1> SUFFICES ASSUME op.kind \in {"write", "shift"}
             PROVE  /\ \A k \in 0 .. n' - 1 : r'[Picked(op.sym, k)] = Given(k)
                    /\ \A p \in Positions(op.sym) :
                         (\A k \in 0 .. n' - 1 : Picked(op.sym, k) # p) => r'[p] = Kept(p)
  <2>1. \A k : Picked(op.sym, k)' = Picked(op.sym, k)
    BY <1>1, PickedKept
  <2> QED
    BY <1>1, <1>3, <2>1 DEF WriteOK
<1>4. /\ \A k \in 0 .. n - 1 : r[Picked(op.sym, k)] = Given(k)
      /\ \A p \in Positions(op.sym) :
           (\A k \in 0 .. n - 1 : Picked(op.sym, k) # p) => r[p] = Kept(p)
  BY <1>2 DEF WriteOK
<1>5. CASE Row \/ ColsEnd
  <2>1. r' = r /\ n' = n
    BY <1>5 DEF Row, ColsEnd
  <2> QED
    BY <1>4, <2>1
<1>6. CASE WriteStep
  <2> DEFINE p0 == i * op.sym.cols + j
             v == Load(IF op.kind = "shift" THEN r ELSE a, IF op.e1.ty = "SCALAR" THEN 0 ELSE n)
  <2>1. /\ pc = "col" /\ InRange(j, At[3], At[4]) /\ n' = n + 1 /\ r' = Store(r, p0, v)
    BY <1>6 DEF WriteStep, Put
  <2>2. /\ Indexed(op) = op.sym /\ DOMAIN r = Positions(op.sym) /\ n \in Nat
        /\ Shaped(op.sym) /\ Inside(op.sym) /\ Number(op.sym) \in Nat
    BY <1>2, RangeFacts
  <2>3. /\ n \in 0 .. Number(op.sym) - 1
        /\ Picked(op.sym, n) = p0 /\ p0 \in DOMAIN r
    BY <1>2, <2>1, <2>2, ColPlace
  <2>4. v = Given(n)
    BY <2>1, <2>3, WriteReads
  <2> HIDE DEF p0, v
  <2>5. ASSUME NEW k \in 0 .. n PROVE r'[Picked(op.sym, k)] = Given(k)
    <3>1. CASE k = n
      BY <2>1, <2>3, <2>4, <3>1, Stored
    <3>2. CASE k # n
      <4>1. k \in 0 .. n - 1 /\ k \in 0 .. Number(op.sym) - 1
        BY <2>2, <2>3, <3>2
      <4>2. Picked(op.sym, k) # p0
        BY <2>2, <2>3, <3>2, <4>1, PickedOnce
      <4>3. Picked(op.sym, k) \in DOMAIN r
        BY <2>2, <4>1, PickedIn
      <4>4. r'[Picked(op.sym, k)] = r[Picked(op.sym, k)]
        BY <2>1, <4>2, <4>3, Stored
      <4> QED
        BY <1>4, <4>1, <4>4
    <3> QED
      BY <3>1, <3>2
  <2>6. ASSUME NEW p \in Positions(op.sym), \A k \in 0 .. n : Picked(op.sym, k) # p
        PROVE  r'[p] = Kept(p)
    <3>1. n \in 0 .. n /\ \A k \in 0 .. n - 1 : k \in 0 .. n
      BY <2>2
    <3>2. p # p0 /\ \A k \in 0 .. n - 1 : Picked(op.sym, k) # p
      BY <2>3, <2>6, <3>1
    <3>3. r[p] = Kept(p)
      BY <1>4, <3>2
    <3> QED
      BY <2>1, <2>2, <3>2, <3>3, Stored
  <2>7. n' - 1 = n
    BY <2>1, <2>2
  <2> QED
    BY <2>5, <2>6, <2>7
<1> QED
  BY <1>5, <1>6

-------------------------------------------------------------------------------
(***************************************************************************)
(* The definitions of the operations.                                      *)
(***************************************************************************)

\* the elements of a range that are at a position
Spots(p) == {k \in 0 .. Number(op.sym) - 1 : Picked(op.sym, k) = p}
Spot(ks) == CHOOSE k \in ks : TRUE

ExpectedIs ==
  \A p :
    /\ op.kind = "assign" =>
         Expected(p) = IF p >= Length(op.e1) THEN Kept(p)
                       ELSE IF op.e2 = Scalar THEN Contents(op.e1)[p] ELSE Part(op.e2, p)
    /\ op.kind = "map" => Expected(p) = Elem(p)
    /\ op.kind = "add" => Expected(p) = Sum(Elem(p), << <<"expr2", p>> >>)
    /\ op.kind = "dot" => Expected(p) = DotSum(Length(op.e1))
    /\ op.kind = "transp" => Expected(p) = Elem(Turned(p, op.e1.cols, op.sym.cols))
    /\ op.kind = "str" =>
         Expected(p) = IF p = Length(op.e1) - 1 THEN <<>>
                       ELSE IF (p + 1) % op.e1.cols = 0 THEN << <<"; ">> >> ELSE << <<", ">> >>
    /\ op.kind = "equ" => Expected(p) = (op.e1 = op.e2 /\ op.diff = {})
    /\ op.kind = "neq" => Expected(p) = (op.e1 # op.e2 \/ op.diff # {})
    /\ op.kind = "matvec" => Expected(p) = VecSum(p, op.e1.cols, op.e1.cols)
    /\ op.kind = "matmat" =>
         Expected(p) = MatSum(p \div op.e2.cols, p % op.e2.cols, op.e1.cols, op.e2.cols, op.e1.cols)
    /\ op.kind = "slice" => Expected(p) = Part(op.e1, p)
    /\ op.kind = "read" => Expected(p) = Contents(op.e1)[Picked(op.e1, 0)]
    /\ op.kind = "put" => Expected(p) = IF p = Picked(op.sym, 0) THEN Elem(0) ELSE Kept(p)
    /\ op.kind \in {"write", "shift"} =>
         Expected(p) = IF Spots(p) = {} THEN Kept(p) ELSE Given(Spot(Spots(p)))

\* What the definition of an operation is for each kind.
LEMMA ExpectedHere == ExpectedIs
<1> SUFFICES ASSUME NEW p
             PROVE
    /\ op.kind = "assign" =>
         Expected(p) = IF p >= Length(op.e1) THEN Kept(p)
                       ELSE IF op.e2 = Scalar THEN Contents(op.e1)[p] ELSE Part(op.e2, p)
    /\ op.kind = "map" => Expected(p) = Elem(p)
    /\ op.kind = "add" => Expected(p) = Sum(Elem(p), << <<"expr2", p>> >>)
    /\ op.kind = "dot" => Expected(p) = DotSum(Length(op.e1))
    /\ op.kind = "transp" => Expected(p) = Elem(Turned(p, op.e1.cols, op.sym.cols))
    /\ op.kind = "str" =>
         Expected(p) = IF p = Length(op.e1) - 1 THEN <<>>
                       ELSE IF (p + 1) % op.e1.cols = 0 THEN << <<"; ">> >> ELSE << <<", ">> >>
    /\ op.kind = "equ" => Expected(p) = (op.e1 = op.e2 /\ op.diff = {})
    /\ op.kind = "neq" => Expected(p) = (op.e1 # op.e2 \/ op.diff # {})
    /\ op.kind = "matvec" => Expected(p) = VecSum(p, op.e1.cols, op.e1.cols)
    /\ op.kind = "matmat" =>
         Expected(p) = MatSum(p \div op.e2.cols, p % op.e2.cols, op.e1.cols, op.e2.cols, op.e1.cols)
    /\ op.kind = "slice" => Expected(p) = Part(op.e1, p)
    /\ op.kind = "read" => Expected(p) = Contents(op.e1)[Picked(op.e1, 0)]
    /\ op.kind = "put" => Expected(p) = IF p = Picked(op.sym, 0) THEN Elem(0) ELSE Kept(p)
    /\ op.kind \in {"write", "shift"} =>
         Expected(p) = IF Spots(p) = {} THEN Kept(p) ELSE Given(Spot(Spots(p)))
  BY Zenon DEF ExpectedIs
<1>1. op.kind = "assign" =>
         Expected(p) = IF p >= Length(op.e1) THEN Kept(p)
                       ELSE IF op.e2 = Scalar THEN Contents(op.e1)[p] ELSE Part(op.e2, p)
  BY DEF Expected
<1>2. op.kind = "map" => Expected(p) = Elem(p)
  BY DEF Expected
<1>3. op.kind = "add" => Expected(p) = Sum(Elem(p), << <<"expr2", p>> >>)
  BY DEF Expected
<1>4. op.kind = "dot" => Expected(p) = DotSum(Length(op.e1))
  BY DEF Expected, DotSum
<1>5. op.kind = "transp" => Expected(p) = Elem(Turned(p, op.e1.cols, op.sym.cols))
  BY DEF Expected, Turned
<1>6. op.kind = "str" =>
         Expected(p) = IF p = Length(op.e1) - 1 THEN <<>>
                       ELSE IF (p + 1) % op.e1.cols = 0 THEN << <<"; ">> >> ELSE << <<", ">> >>
  BY DEF Expected
<1>7. op.kind = "equ" => Expected(p) = (op.e1 = op.e2 /\ op.diff = {})
  BY DEF Expected
<1>8. op.kind = "neq" => Expected(p) = (op.e1 # op.e2 \/ op.diff # {})
  BY DEF Expected
<1>9. op.kind = "matvec" => Expected(p) = VecSum(p, op.e1.cols, op.e1.cols)
  BY DEF Expected, VecSum
<1>10. op.kind = "matmat" =>
         Expected(p) = MatSum(p \div op.e2.cols, p % op.e2.cols, op.e1.cols, op.e2.cols, op.e1.cols)
  BY DEF Expected, MatSum
<1>11. op.kind = "slice" => Expected(p) = Part(op.e1, p)
  BY DEF Expected
<1>12. op.kind = "read" => Expected(p) = Contents(op.e1)[Picked(op.e1, 0)]
  BY DEF Expected
<1>13. op.kind = "put" => Expected(p) = IF p = Picked(op.sym, 0) THEN Elem(0) ELSE Kept(p)
  BY DEF Expected
<1>14. op.kind \in {"write", "shift"} =>
         Expected(p) = IF Spots(p) = {} THEN Kept(p) ELSE Given(Spot(Spots(p)))
  BY DEF Expected, Spots, Spot, Given
<1> QED
  BY <1>1, <1>2, <1>3, <1>4, <1>5, <1>6, <1>7, <1>8, <1>9, <1>10, <1>11, <1>12, <1>13, <1>14

\* The definition of an operation stays the same as long as the operation does.
Kinds == Flats \union Compares \union Picking \union {"matvec", "matmat"}

LEMMA ExpectedKept ==
  ASSUME op' = op, op.kind \in Kinds, NEW p
  PROVE  Expected(p)' = Expected(p)
<1>1. ExpectedIs /\ ExpectedIs'
  BY ExpectedHere, PTL
<1>2. /\ \A s, k : Picked(s, k)' = Picked(s, k)
      /\ \A s : Number(s)' = Number(s)
      /\ \A s, k : Part(s, k)' = Part(s, k)
  BY PickedKept
<1>3. Spots(p)' = Spots(p)
  BY <1>2 DEF Spots
<1>4. \A k : Given(k)' = Given(k)
  BY DEF Given
<1>5. CASE op.kind = "assign"
  BY <1>1, <1>2, <1>5 DEF ExpectedIs
<1>6. CASE op.kind = "map"
  BY <1>1, <1>6, ZenonT(30) DEF ExpectedIs
<1>7. CASE op.kind = "add"
  BY <1>1, <1>7, ZenonT(30) DEF ExpectedIs
<1>8. CASE op.kind = "dot"
  <2> DEFINE x == DotSum(Length(op.e1))
  <2>1. Expected(p) = x
    BY <1>1, <1>8, Zenon DEF ExpectedIs
  <2>2. Expected(p)' = x'
    BY <1>1, <1>8, Zenon DEF ExpectedIs
  <2>3. x' = x
    BY Zenon
  <2> QED
    BY <2>1, <2>2, <2>3
<1>9. CASE op.kind = "transp"
  <2> DEFINE x == Elem(Turned(p, op.e1.cols, op.sym.cols))
  <2>1. Expected(p) = x
    BY <1>1, <1>9, Zenon DEF ExpectedIs
  <2>2. Expected(p)' = x'
    BY <1>1, <1>9, Zenon DEF ExpectedIs
  <2>3. x' = x
    BY Zenon
  <2> QED
    BY <2>1, <2>2, <2>3
<1>10. CASE op.kind = "str"
  <2> DEFINE x == IF p = Length(op.e1) - 1 THEN <<>>
         ELSE IF (p + 1) % op.e1.cols = 0 THEN << <<"; ">> >> ELSE << <<", ">> >>
  <2>1. Expected(p) = x
    BY <1>1, <1>10, Zenon DEF ExpectedIs
  <2>2. Expected(p)' = x'
    BY <1>1, <1>10, Zenon DEF ExpectedIs
  <2>3. x' = x
    OBVIOUS
  <2> HIDE DEF x
  <2> QED
    BY <2>1, <2>2, <2>3
<1>11. CASE op.kind = "equ"
  BY <1>1, <1>11, Zenon DEF ExpectedIs
<1>12. CASE op.kind = "neq"
  BY <1>1, <1>12, Zenon DEF ExpectedIs
<1>13. CASE op.kind = "matvec"
  <2> DEFINE x == VecSum(p, op.e1.cols, op.e1.cols)
  <2>1. Expected(p) = x
    BY <1>1, <1>13, Zenon DEF ExpectedIs
  <2>2. Expected(p)' = x'
    BY <1>1, <1>13, Zenon DEF ExpectedIs
  <2>3. x' = x
    BY Zenon
  <2> QED
    BY <2>1, <2>2, <2>3
<1>14. CASE op.kind = "matmat"
  <2> DEFINE x == MatSum(p \div op.e2.cols, p % op.e2.cols, op.e1.cols, op.e2.cols, op.e1.cols)
  <2>1. Expected(p) = x
    BY <1>1, <1>14, Zenon DEF ExpectedIs
  <2>2. Expected(p)' = x'
    BY <1>1, <1>14, Zenon DEF ExpectedIs
  <2>3. x' = x
    BY Zenon
  <2> QED
    BY <2>1, <2>2, <2>3
<1>15. CASE op.kind = "slice"
  <2> DEFINE x == Part(op.e1, p)
  <2>1. Expected(p) = x
    BY <1>1, <1>15, Zenon DEF ExpectedIs
  <2>2. Expected(p)' = x'
    BY <1>1, <1>15, Zenon DEF ExpectedIs
  <2>3. x' = x
    BY <1>2, Zenon
  <2> QED
    BY <2>1, <2>2, <2>3
<1>16. CASE op.kind = "read"
  <2> DEFINE x == Contents(op.e1)[Picked(op.e1, 0)]
  <2>1. Expected(p) = x
    BY <1>1, <1>16, Zenon DEF ExpectedIs
  <2>2. Expected(p)' = x'
    BY <1>1, <1>16, Zenon DEF ExpectedIs
  <2>3. x' = x
    BY <1>2, Zenon
  <2> QED
    BY <2>1, <2>2, <2>3
<1>17. CASE op.kind = "put"
  <2> DEFINE x == IF p = Picked(op.sym, 0) THEN Elem(0) ELSE Kept(p)
  <2>1. Expected(p) = x
    BY <1>1, <1>17, Zenon DEF ExpectedIs
  <2>2. Expected(p)' = x'
    BY <1>1, <1>17, Zenon DEF ExpectedIs
  <2>3. x' = x
    BY <1>2, Zenon
  <2> QED
    BY <2>1, <2>2, <2>3
<1>18. CASE op.kind \in {"write", "shift"}
  <2> DEFINE x == IF Spots(p) = {} THEN Kept(p) ELSE Given(Spot(Spots(p)))
  <2>1. Expected(p) = x
    BY <1>1, <1>18, Zenon DEF ExpectedIs
  <2>2. Expected(p)' = x'
    BY <1>1, <1>18, Zenon DEF ExpectedIs
  <2>3. x' = x
    BY <1>3, <1>4, Zenon
  <2> QED
    BY <2>1, <2>2, <2>3
<1> QED
  BY <1>5, <1>6, <1>7, <1>8, <1>9, <1>10, <1>11, <1>12, <1>13, <1>14, <1>15, <1>16, <1>17, <1>18 DEF Kinds, Flats, Compares, Picking

\* What a loop over all elements leaves.
LEMMA AssignDone ==
  ASSUME Typed, OperandOK, FlatOK, FlatEnd, op.kind = "assign"
  PROVE  \A p \in Positions(op.sym) : r[p] = Expected(p)
<1>1. /\ pc = "flat" /\ i >= Count /\ i \in 0 .. Count /\ OpShaped(op)
      /\ DOMAIN a = Positions(op.e1)
  BY DEF FlatEnd, Typed, TypeOK, PcShaped
<1>2. Length(op.e1) \in Nat /\ Length(op.sym) \in Nat
  BY <1>1, ShapedFacts DEF OpShaped
<1>3. i = Count
  BY <1>1, <1>2 DEF Count, Min2
<1> SUFFICES ASSUME NEW p \in Positions(op.sym) PROVE r[p] = Expected(p)
  OBVIOUS
<1>4. p \in 0 .. Length(op.sym) - 1
  BY DEF Positions
<1>5. r[p] = IF p < i THEN a[p] ELSE Kept(p)
  BY <1>1 DEF FlatOK
<1>6. p < i <=> p < Length(op.e1)
  <2>1. op.sym.ty # "STRING" => Length(op.sym) <= Length(op.e1)
    BY <1>1 DEF OpShaped
  <2> QED
    BY <1>2, <1>3, <1>4, <2>1 DEF Count, Min2
<1>7. Expected(p) = IF p >= Length(op.e1) THEN Kept(p)
                    ELSE IF op.e2 = Scalar THEN Contents(op.e1)[p] ELSE Part(op.e2, p)
  BY ExpectedHere DEF ExpectedIs
<1>8. p < Length(op.e1) => a[p] = IF op.e2 = Scalar THEN Contents(op.e1)[p] ELSE Part(op.e2, p)
  <2> SUFFICES ASSUME p < Length(op.e1)
               PROVE  a[p] = IF op.e2 = Scalar THEN Contents(op.e1)[p] ELSE Part(op.e2, p)
    OBVIOUS
  <2>1. p \in Positions(op.e1)
    BY <1>2, <1>4 DEF Positions
  <2>2. CASE op.ix = <<>>
    <3>1. op.e2 = Scalar
      BY <1>1, <2>2 DEF OpShaped
    <3> QED
      BY <2>2, <3>1 DEF OperandOK, Picks
  <2>3. CASE op.ix # <<>>
    <3>1. op.e2 # Scalar
      BY <1>1, <2>3, ArrayFacts DEF OpShaped, Indexed
    <3> QED
      BY <2>1, <2>3, <3>1 DEF OperandOK, Picks
  <2> QED
    BY <2>2, <2>3
<1> QED
  BY <1>2, <1>4, <1>5, <1>6, <1>7, <1>8

\* Operations that keep the shape, and inner products.
LEMMA MapDone ==
  ASSUME Typed, Good, OperandOK, FlatOK, FlatEnd, op.kind \in {"map", "add", "str", "dot"}
  PROVE  \A p \in Positions(op.sym) : r[p] = Expected(p)
<1>1. /\ pc = "flat" /\ i >= Count /\ i \in 0 .. Count /\ OpShaped(op)
  BY DEF FlatEnd, Typed, TypeOK, PcShaped
<1>2. /\ Length(op.e1) \in Nat /\ op.e1.rows \in Nat /\ op.e1.cols \in Nat /\ op.e1.cols > 0
      /\ op.e1.rows = 1 => Length(op.e1) = op.e1.cols
  BY <1>1, ShapedFacts DEF OpShaped
<1>3. i = Length(op.e1)
  BY <1>1, <1>2 DEF Count
<1>4. a = Contents(op.e1) /\ op.e1.ty # "STRING"
  BY <1>1 DEF OperandOK, OpShaped
<1> SUFFICES ASSUME NEW p \in Positions(op.sym) PROVE r[p] = Expected(p)
  OBVIOUS
<1>5. CASE op.kind = "dot"
  <2>1. p = 0
    BY <1>1, <1>5, ArrayFacts DEF OpShaped, Positions, Length
  <2>2. r[0] = DotSum(Length(op.e1))
    BY <1>1, <1>3, <1>5 DEF FlatOK
  <2>3. Expected(p) = DotSum(Length(op.e1))
    BY <1>5, ExpectedHere DEF ExpectedIs
  <2> QED
    BY <2>1, <2>2, <2>3
<1>6. CASE op.kind # "dot"
  <2>1. op.sym = op.e1
    BY <1>1, <1>6 DEF OpShaped
  <2>2. p \in Positions(op.e1) /\ p \in 0 .. Length(op.e1) - 1
    BY <2>1 DEF Positions
  <2>3. p < i
    BY <1>2, <1>3, <2>2
  <2>4. a[p] = Elem(p)
    BY <1>4, <2>2 DEF Contents
  <2>5. CASE op.kind = "map"
    <3>1. r[p] = a[p]
      BY <1>1, <2>3, <2>5 DEF FlatOK
    <3>2. Expected(p) = Elem(p)
      BY <2>5, ExpectedHere DEF ExpectedIs
    <3> QED
      BY <2>4, <3>1, <3>2
  <2>6. CASE op.kind = "add"
    <3>1. r[p] = Sum(a[p], << <<"expr2", p>> >>)
      BY <1>1, <2>3, <2>6 DEF FlatOK
    <3>2. Expected(p) = Sum(Elem(p), << <<"expr2", p>> >>)
      BY <2>6, ExpectedHere DEF ExpectedIs
    <3> QED
      BY <2>4, <3>1, <3>2
  <2>7. CASE op.kind = "str"
    <3>1. r[p] = Separator(p)
      BY <1>1, <2>3, <2>7 DEF FlatOK
    <3>2. Expected(p) = IF p = Length(op.e1) - 1 THEN <<>>
                        ELSE IF (p + 1) % op.e1.cols = 0 THEN << <<"; ">> >> ELSE << <<", ">> >>
      BY <2>7, ExpectedHere DEF ExpectedIs
    <3>3. p >= Length(op.e1) - 1 <=> p = Length(op.e1) - 1
      BY <1>2, <2>2
    <3>4. CASE p = Length(op.e1) - 1
      BY <3>1, <3>2, <3>3, <3>4 DEF Separator
    <3>5. CASE p # Length(op.e1) - 1 /\ op.e1.ty = "MATRIX"
      <4>1. op.e1.rows = op.e1.cols
        BY <2>7, <3>5 DEF Good
      <4> QED
        BY <3>1, <3>2, <3>3, <3>5, <4>1 DEF Separator
    <3>6. CASE p # Length(op.e1) - 1 /\ op.e1.ty # "MATRIX"
      <4>1. op.e1.cols = Length(op.e1)
        BY <1>1, <1>2, <3>6 DEF OpShaped, Shaped
      <4>2. p + 1 \in 0 .. op.e1.cols - 1 /\ p + 1 = 0 * op.e1.cols + (p + 1) /\ p + 1 # 0
        BY <1>2, <2>2, <3>6, <4>1
      <4>3. (0 * op.e1.cols + (p + 1)) % op.e1.cols = p + 1
        BY <1>2, <4>2, Unique
      <4>4. (p + 1) % op.e1.cols # 0
        BY <4>2, <4>3, Zenon
      <4>5. Separator(p) = << <<", ">> >>
        BY <3>3, <3>6 DEF Separator
      <4> QED
        BY <3>1, <3>2, <3>6, <4>4, <4>5
    <3> QED
      BY <3>4, <3>5, <3>6
  <2> QED
    BY <1>6, <2>5, <2>6, <2>7
<1> QED
  BY <1>5, <1>6

\* Transposed arrays.
LEMMA TranspDone ==
  ASSUME Typed, OperandOK, FlatOK, FlatEnd, op.kind = "transp"
  PROVE  \A p \in Positions(op.sym) : r[p] = Expected(p)
<1>1. /\ pc = "flat" /\ i >= Count /\ i \in 0 .. Count /\ OpShaped(op)
  BY DEF FlatEnd, Typed, TypeOK, PcShaped
<1>2. /\ Length(op.e1) \in Nat /\ op.e1.rows \in Nat /\ op.e1.cols \in Nat
      /\ op.sym.rows = op.e1.cols /\ op.sym.cols = op.e1.rows
  BY <1>1, ShapedFacts DEF OpShaped
<1>3. i = Length(op.e1)
  BY <1>1, <1>2 DEF Count
<1>4. a = Contents(op.e1) /\ op.e1.ty # "STRING"
  BY <1>1 DEF OperandOK, OpShaped
<1> SUFFICES ASSUME NEW p \in Positions(op.sym) PROVE r[p] = Expected(p)
  OBVIOUS
<1> DEFINE q == Turned(p, op.e1.cols, op.e1.rows)
<1>5. p \in 0 .. op.e1.cols * op.e1.rows - 1
  BY <1>2 DEF Positions, Length
<1>6. q \in 0 .. op.e1.rows * op.e1.cols - 1 /\ Turned(q, op.e1.rows, op.e1.cols) = p
  BY <1>2, <1>5, TurnedTwice
<1>7. Expected(p) = Elem(q)
  BY <1>2, ExpectedHere DEF ExpectedIs
<1> HIDE DEF q
<1>8. q \in Positions(op.e1) /\ q \in 0 .. i - 1
  BY <1>3, <1>6 DEF Positions, Length
<1>9. r[Turned(q, op.e1.rows, op.e1.cols)] = a[q]
  BY <1>1, <1>8 DEF FlatOK
<1>10. a[q] = Elem(q)
  BY <1>4, <1>8 DEF Contents
<1> QED
  BY <1>6, <1>7, <1>9, <1>10

\* All operations with a loop over all elements.
LEMMA FlatDone ==
  ASSUME Typed, Good, OperandOK, FlatOK, FlatEnd
  PROVE  \A p \in Positions(op.sym) : r[p] = Expected(p)
<1>1. op.kind \in Flats
  BY DEF FlatEnd, Typed, PcShaped
<1> QED
  BY <1>1, AssignDone, MapDone, TranspDone DEF Flats

\* What the products with a matrix leave.
LEMMA VecDone ==
  ASSUME Typed, VecOK, VecEnd
  PROVE  \A p \in Positions(op.sym) : r[p] = Expected(p)
<1>1. /\ pc = "vec_i" /\ i >= op.e1.rows /\ i \in 0 .. op.e1.rows /\ OpShaped(op) /\ op.kind = "matvec"
  BY DEF VecEnd, Typed, TypeOK, PcShaped
<1>2. op.e1.rows \in Nat /\ op.sym.rows = 1 /\ op.sym.cols = op.e1.rows
  BY <1>1, ShapedFacts DEF OpShaped
<1>3. i = op.e1.rows
  BY <1>1, <1>2
<1>4. \A p \in 0 .. op.e1.rows - 1 : r[p] = VecSum(p, op.e1.cols, op.e1.cols)
  BY <1>1, <1>3 DEF VecOK
<1>5. \A p : Expected(p) = VecSum(p, op.e1.cols, op.e1.cols)
  BY <1>1, ExpectedHere DEF ExpectedIs
<1>6. Positions(op.sym) = 0 .. op.e1.rows - 1
  BY <1>2 DEF Positions, Length
<1> QED
  BY <1>4, <1>5, <1>6

\* The same for two matrices.
LEMMA MatEnds ==
  ASSUME Typed, MatOK, MatEnd
  PROVE  \A p \in Positions(op.sym) : r[p] = Expected(p)
<1>1. /\ pc = "mat_i" /\ i >= op.e1.rows /\ i \in 0 .. op.e1.rows /\ OpShaped(op) /\ op.kind = "matmat"
  BY DEF MatEnd, Typed, TypeOK, PcShaped
<1>2. /\ op.e1.rows \in Nat /\ op.e2.cols \in Nat /\ op.e2.cols > 0
      /\ op.sym.rows = op.e1.rows /\ op.sym.cols = op.e2.cols
  BY <1>1, ShapedFacts DEF OpShaped
<1>3. i = op.e1.rows
  BY <1>1, <1>2
<1> SUFFICES ASSUME NEW p \in Positions(op.sym) PROVE r[p] = Expected(p)
  OBVIOUS
<1>4. p \in 0 .. op.e1.rows * op.e2.cols - 1
  BY <1>2 DEF Positions, Length
<1>5. PICK x \in 0 .. op.e1.rows - 1, y \in 0 .. op.e2.cols - 1 : p = x * op.e2.cols + y
  BY <1>2, <1>4, Decompose, Zenon
<1>6. MatDone(r, op, x, y)
  BY <1>1, <1>3 DEF MatOK
<1>7. x \in Int
  OBVIOUS
<1>8. p \div op.e2.cols = x /\ p % op.e2.cols = y
  BY <1>2, <1>5, <1>7, Unique, Zenon
<1>9. Expected(p)
        = MatSum(p \div op.e2.cols, p % op.e2.cols, op.e1.cols, op.e2.cols, op.e1.cols)
  BY <1>1, ExpectedHere DEF ExpectedIs
<1> QED
  BY <1>5, <1>6, <1>8, <1>9, Zenon DEF MatDone

\* What a comparison leaves.
LEMMA CompareDone ==
  ASSUME Typed, CompareOK, Negate
  PROVE  \A p \in Positions(op.sym) : r'[p] = Expected(p)
<1>1. pc = "end" /\ OpShaped(op) /\ op.kind \in Compares /\ op.e1 = op.e2 /\ DOMAIN r = Positions(op.sym)
  BY DEF Negate, Typed, TypeOK, PcShaped
<1>2. \A p \in Positions(op.sym) : p = 0
  BY <1>1, ArrayFacts DEF OpShaped, Positions, Length
<1>3. 0 \in DOMAIN r
  BY <1>1, ShapedFacts DEF OpShaped
<1>4. r[0] = (op.diff = {})
  BY <1>1, Zenon DEF CompareOK
<1>5. r' = Store(r, 0, IF op.kind = "neq" THEN ~r[0] ELSE r[0])
  BY Zenon DEF Negate, Put
<1>6. r'[0] = IF op.kind = "neq" THEN ~r[0] ELSE r[0]
  BY <1>3, <1>5, Stored, Zenon
<1>7. CASE op.kind = "neq"
  <2>1. Expected(0) = (op.e1 # op.e2 \/ op.diff # {})
    BY <1>7, ExpectedHere, Zenon DEF ExpectedIs
  <2>2. r'[0] = (~(op.diff = {}))
    BY <1>4, <1>6, <1>7, Zenon
  <2>3. r'[0] = Expected(0)
    BY <1>1, <2>1, <2>2, Zenon
  <2> QED
    BY <1>2, <2>3, Zenon
<1>8. CASE op.kind = "equ"
  <2>1. Expected(0) = (op.e1 = op.e2 /\ op.diff = {})
    BY <1>8, ExpectedHere, Zenon DEF ExpectedIs
  <2>2. op.kind # "neq"
    BY <1>8
  <2>3. r'[0] = (op.diff = {})
    BY <1>4, <1>6, <2>2, Zenon
  <2>4. r'[0] = Expected(0)
    BY <1>1, <2>1, <2>3, Zenon
  <2> QED
    BY <1>2, <2>4, Zenon
<1> QED
  BY <1>1, <1>7, <1>8, Zenon DEF Compares

\* When the loops over a range end, every element of it has been done.
LEMMA RangeEnds ==
  ASSUME Typed, Regular, RangeOK, RowsEnd \/ (ColsEnd /\ pc' # "row")
  PROVE  n = Number(Indexed(op)) /\ Number(Indexed(op)) \in Nat
<1> DEFINE s == Indexed(op)
           m == Meant(s)
<1>1. pc \in {"row", "col"}
  BY DEF RowsEnd, ColsEnd
<1>2. /\ OpShaped(op) /\ op.kind \in Ranges /\ op.ix # <<>> /\ Shaped(s) /\ Inside(s)
  BY <1>1, RangeFacts
<1>3. At[1] = m[1] /\ At[2] = m[2] /\ At[3] = m[3] /\ At[4] = m[4]
  BY <1>2, Indexing
<1>4. /\ High(s) \in Nat /\ High(s) > 0 /\ Wide(s) \in Nat /\ Wide(s) > 0
      /\ Number(s) = High(s) * Wide(s) /\ Number(s) \in Nat
  BY <1>2, RangeSize
<1>5. m[1] \in Int /\ m[2] \in Int /\ m[3] \in Int /\ m[4] \in Int /\ i \in Int /\ j \in Int
  <2>1. s.rows \in Nat /\ s.cols \in Nat
    BY <1>2, ShapedFacts
  <2> QED
    BY <1>2, <2>1 DEF Inside, Typed, TypeOK
<1>6. /\ Rows = Steps(i, m[1], m[2]) /\ Cols = Steps(j, m[3], m[4])
      /\ High(s) = Extent(m[1], m[2]) /\ Wide(s) = Extent(m[3], m[4])
  BY DEF Rows, Cols, High, Wide
<1>7. CASE RowsEnd
  <2>1. pc = "row" /\ ~InRange(i, m[1], m[2]) /\ Rows \in 0 .. High(s) /\ n = Rows * Wide(s)
    BY <1>3, <1>7 DEF RowsEnd, RangeOK
  <2> HIDE DEF s, m
  <2>2. ~(Rows < High(s))
    BY <1>5, <1>6, <2>1, Walk
  <2>3. Rows = High(s)
    BY <1>4, <2>1, <2>2
  <2> QED
    BY <1>4, <2>1, <2>3 DEF s
<1>8. CASE ColsEnd /\ pc' # "row"
  <2>1. /\ pc = "col" /\ ~InRange(j, m[3], m[4])
        /\ Rows \in 0 .. High(s) - 1 /\ Cols \in 0 .. Wide(s) /\ n = Rows * Wide(s) + Cols
        /\ op.e1.ty # "MATRIX" /\ op.sym.ty # "MATRIX"
    BY <1>3, <1>8 DEF ColsEnd, RangeOK
  <2>2. s.ty # "MATRIX"
    BY <1>2, <2>1 DEF Ranges, Indexed
  <2>3. s.rows = 1
    BY <1>2, <2>2 DEF Shaped
  <2>4. m[1] = 0 /\ m[2] = 0
    BY <1>2, <2>3 DEF Inside
  <2> HIDE DEF s, m
  <2>5. High(s) = 1
    BY <1>6, <2>4 DEF Extent
  <2>6. ~(Cols < Wide(s))
    BY <1>5, <1>6, <2>1, Walk
  <2>7. Rows = 0 /\ Cols = Wide(s)
    BY <1>4, <2>1, <2>5, <2>6
  <2>8. 0 * Wide(s) + Wide(s) = Wide(s) /\ 1 * Wide(s) = Wide(s)
    BY <1>4
  <2> QED
    BY <1>4, <2>1, <2>5, <2>7, <2>8 DEF s
<1> QED
  BY <1>7, <1>8

\* What the loops over a range that is read leave.
LEMMA SliceDone ==
  ASSUME Typed, Regular, RangeOK, SliceOK, RowsEnd \/ (ColsEnd /\ pc' = "done"), op.kind = "slice"
  PROVE  \A p \in Positions(op.sym) : r[p] = Expected(p)
<1>1. pc \in {"row", "col"}
  BY DEF RowsEnd, ColsEnd
<1>2. /\ OpShaped(op) /\ op.kind \in Ranges /\ Indexed(op) = op.e1
  BY <1>1, RangeFacts
<1>3. n = Number(op.e1) /\ Number(op.e1) \in Nat
  BY <1>2, RangeEnds
<1>4. op.e1.ty # "STRING"
  <2>1. CASE RowsEnd
    BY <1>2, <2>1 DEF RowsEnd, Typed, PcShaped
  <2>2. CASE ColsEnd /\ pc' = "done"
    BY <2>2 DEF ColsEnd
  <2> QED
    BY <2>1, <2>2
<1> SUFFICES ASSUME NEW p \in Positions(op.sym) PROVE r[p] = Expected(p)
  OBVIOUS
<1>5. r[p] = IF p < n THEN Contents(op.e1)[Picked(op.e1, p)] ELSE Unset
  BY <1>1 DEF SliceOK
<1>6. Expected(p) = Part(op.e1, p)
  BY ExpectedHere DEF ExpectedIs
<1> QED
  BY <1>3, <1>4, <1>5, <1>6 DEF Part

\* The zero behind a part of a string.
LEMMA ZeroDone ==
  ASSUME Typed, Good, RangeOK, SliceOK, Terminate
  PROVE  \A p \in Positions(op.sym) : r'[p] = Expected(p)
<1>1. pc = "zero" /\ r' = Store(r, n, Zero) /\ op.kind = "slice" /\ op.e1.ty = "STRING"
  BY DEF Terminate, Put, Typed, PcShaped
<1>2. /\ Indexed(op) = op.e1 /\ Length(op.sym) = Length(op.e1) /\ Length(op.e1) \in Nat
      /\ DOMAIN r = Positions(op.sym) /\ n \in Nat
  BY <1>1, RangeFacts
<1>3. n = Number(op.e1)
  BY <1>1 DEF RangeOK
<1>4. Number(op.e1) < Length(op.e1)
  BY <1>1 DEF Good, Room
<1>5. n \in DOMAIN r
  BY <1>2, <1>3, <1>4 DEF Positions
<1> SUFFICES ASSUME NEW p \in Positions(op.sym) PROVE r'[p] = Expected(p)
  OBVIOUS
<1>6. r[p] = IF p < n THEN Contents(op.e1)[Picked(op.e1, p)] ELSE Unset
  BY <1>1 DEF SliceOK
<1>7. r'[p] = IF p = n THEN Zero ELSE r[p]
  BY <1>1, <1>2, <1>5, Stored
<1>8. Expected(p) = Part(op.e1, p)
  BY <1>1, ExpectedHere DEF ExpectedIs
<1>9. p = n => ~(p < n)
  BY <1>2
<1> QED
  BY <1>1, <1>3, <1>6, <1>7, <1>8, <1>9 DEF Part

\* What the loops over a range that is written leave.
LEMMA WriteDone ==
  ASSUME Typed, Regular, RangeOK, WriteOK, RowsEnd \/ (ColsEnd /\ pc' = "done"),
         op.kind \in {"write", "shift"}
  PROVE  \A p \in Positions(op.sym) : r[p] = Expected(p)
<1>1. pc \in {"row", "col"}
  BY DEF RowsEnd, ColsEnd
<1>2. Indexed(op) = op.sym
  BY <1>1, RangeFacts
<1>3. n = Number(op.sym) /\ Number(op.sym) \in Nat
  BY <1>2, RangeEnds
<1> SUFFICES ASSUME NEW p \in Positions(op.sym) PROVE r[p] = Expected(p)
  OBVIOUS
<1>4. Expected(p) = IF Spots(p) = {} THEN Kept(p) ELSE Given(Spot(Spots(p)))
  BY ExpectedHere DEF ExpectedIs
<1>5. CASE Spots(p) = {}
  <2>1. \A k \in 0 .. n - 1 : Picked(op.sym, k) # p
    BY <1>3, <1>5 DEF Spots
  <2>2. r[p] = Kept(p)
    BY <1>1, <2>1 DEF WriteOK
  <2> QED
    BY <1>4, <1>5, <2>2
<1>6. CASE Spots(p) # {}
  <2>1. Spot(Spots(p)) \in Spots(p)
    BY <1>6, Zenon DEF Spot
  <2>2. Spot(Spots(p)) \in 0 .. n - 1 /\ Picked(op.sym, Spot(Spots(p))) = p
    BY <1>3, <2>1 DEF Spots
  <2>3. r[Picked(op.sym, Spot(Spots(p)))] = Given(Spot(Spots(p)))
    BY <1>1, <2>2 DEF WriteOK
  <2> QED
    BY <1>4, <1>6, <2>2, <2>3
<1> QED
  BY <1>5, <1>6

\* Every loop that ends has computed what the operation says.
LEMMA LoopDone ==
  ASSUME Typed, Good, RangeOK, OperandOK, LoopsOK, Loop
  PROVE  DoneOK'
<1> SUFFICES ASSUME pc' = "done"
             PROVE  \A p \in Positions(op.sym)' : r'[p] = Expected(p)'
  BY DEF DoneOK
<1>1. op' = op
  BY LoopKeeps
<1>2. FlatOK /\ CompareOK /\ VecOK /\ MatOK /\ SliceOK /\ WriteOK /\ PcShaped /\ Regular
  BY DEF LoopsOK, Typed, Good
<1>3. ASSUME \A p \in Positions(op.sym) : r'[p] = Expected(p), op.kind \in Kinds
      PROVE  \A p \in Positions(op.sym)' : r'[p] = Expected(p)'
  BY <1>1, <1>3, ExpectedKept
<1>4. CASE FlatEnd
  BY <1>2, <1>3, <1>4, FlatDone DEF FlatEnd, End, PcShaped, Kinds
<1>5. CASE VecEnd
  BY <1>2, <1>3, <1>5, VecDone DEF VecEnd, End, PcShaped, Kinds
<1>6. CASE MatEnd
  BY <1>2, <1>3, <1>6, MatEnds DEF MatEnd, End, PcShaped, Kinds
<1>7. CASE Negate
  <2>1. op.kind \in Kinds
    BY <1>2, <1>7 DEF Negate, PcShaped, Kinds
  <2> QED
    BY <1>2, <1>3, <1>7, <2>1, CompareDone
<1>8. CASE RowsEnd \/ ColsEnd
  <2>1. r' = r /\ pc \in {"row", "col"}
    BY <1>8 DEF RowsEnd, ColsEnd, End
  <2>2. op.kind \in Ranges /\ op.kind \in Kinds
    BY <1>2, <2>1 DEF PcShaped, Ranges, Kinds, Picking
  <2>3. \A p \in Positions(op.sym) : r[p] = Expected(p)
    BY <1>2, <1>8, <2>2, SliceDone, WriteDone DEF Ranges
  <2> QED
    BY <1>3, <2>1, <2>2, <2>3
<1>9. CASE Terminate
  <2>1. op.kind \in Kinds
    BY <1>2, <1>9 DEF Terminate, PcShaped, Kinds, Picking
  <2> QED
    BY <1>2, <1>3, <1>9, <2>1, ZeroDone
<1>10. ~(FlatStep \/ CompareStep \/ CompareEnd \/ VecRow \/ VecStep \/ VecRowEnd)
  BY DEF FlatStep, CompareStep, CompareEnd, VecRow, VecStep, VecRowEnd
<1>11. ~(MatRow \/ MatElem \/ MatRowEnd \/ MatStep \/ MatElemEnd \/ Row \/ SliceStep \/ WriteStep)
  BY DEF MatRow, MatElem, MatRowEnd, MatStep, MatElemEnd, Row, SliceStep, WriteStep
<1> QED
  BY <1>4, <1>5, <1>6, <1>7, <1>8, <1>9, <1>10, <1>11, Zenon DEF Loop

\* Where a loop does not run, nothing is said of it.
LEMMA Elsewhere ==
  /\ pc' # "flat" => FlatOK'
  /\ pc' \notin {"comp", "end"} => CompareOK'
  /\ pc' \notin {"vec_i", "vec_j"} => VecOK'
  /\ pc' \notin {"mat_i", "mat_j", "mat_k"} => MatOK'
  /\ pc' \notin {"row", "col", "zero"} \/ op'.kind # "slice" => SliceOK'
  /\ pc' \notin {"row", "col"} \/ op'.kind \notin {"write", "shift"} => WriteOK'
<1>1. pc' # "flat" => FlatOK'
  BY DEF FlatOK
<1>2. pc' \notin {"comp", "end"} => CompareOK'
  BY Zenon DEF CompareOK
<1>3. pc' \notin {"vec_i", "vec_j"} => VecOK'
  BY DEF VecOK
<1>4. pc' \notin {"mat_i", "mat_j", "mat_k"} => MatOK'
  BY DEF MatOK
<1>5. pc' \notin {"row", "col", "zero"} \/ op'.kind # "slice" => SliceOK'
  BY DEF SliceOK
<1>6. pc' \notin {"row", "col"} \/ op'.kind \notin {"write", "shift"} => WriteOK'
  BY DEF WriteOK
<1> QED
  BY <1>1, <1>2, <1>3, <1>4, <1>5, <1>6

\* The loops do one element after the other.
LEMMA LoopsKept ==
  ASSUME Typed, Good, RangeOK, OperandOK, LoopsOK, Loop
  PROVE  LoopsOK'
<1> DEFINE Kept1 == FlatOK' /\ CompareOK' /\ VecOK' /\ MatOK' /\ SliceOK' /\ WriteOK'
<1>1. FlatOK /\ CompareOK /\ VecOK /\ MatOK /\ SliceOK /\ WriteOK /\ PcShaped /\ Regular
  BY DEF LoopsOK, Typed, Good
<1>2. op' = op
  BY LoopKeeps
<1> SUFFICES Kept1
  BY DEF LoopsOK
<1>3. CASE FlatStep
  <2>1. pc' = "flat"
    BY <1>3 DEF FlatStep
  <2>2. FlatOK'
    BY <1>1, <1>3, FlatKeeps
  <2> QED
    BY <2>1, <2>2, Elsewhere
<1>4. CASE FlatEnd \/ VecEnd \/ MatEnd \/ RowsEnd \/ Negate \/ Terminate
  <2>1. pc' = "done"
    BY <1>4 DEF FlatEnd, VecEnd, MatEnd, RowsEnd, Negate, Terminate, End
  <2> QED
    BY <2>1, Elsewhere
<1>5. CASE CompareStep \/ CompareEnd
  <2>1. pc' \in {"comp", "end"}
    BY <1>5 DEF CompareStep, CompareEnd
  <2>2. CompareOK'
    BY <1>1, <1>5, CompareKeeps
  <2> QED
    BY <2>1, <2>2, Elsewhere
<1>6. CASE VecRow \/ VecStep \/ VecRowEnd
  <2>1. pc' \in {"vec_i", "vec_j"}
    BY <1>6 DEF VecRow, VecStep, VecRowEnd
  <2>2. VecOK'
    BY <1>1, <1>6, VecKeeps
  <2> QED
    BY <2>1, <2>2, Elsewhere
<1>7. CASE MatRow \/ MatElem \/ MatRowEnd \/ MatStep \/ MatElemEnd
  <2>1. pc' \in {"mat_i", "mat_j", "mat_k"}
    BY <1>7 DEF MatRow, MatElem, MatRowEnd, MatStep, MatElemEnd
  <2>2. MatOK'
    BY <1>1, <1>7, MatKeeps
  <2> QED
    BY <2>1, <2>2, Elsewhere
<1>8. CASE Row \/ ColsEnd \/ SliceStep \/ WriteStep
  <2>1. pc' \in {"row", "col", "zero", "done"}
    BY <1>8 DEF Row, ColsEnd, SliceStep, WriteStep
  <2>2. SliceOK' /\ WriteOK'
    <3>1. CASE Row \/ ColsEnd
      BY <1>1, <3>1, SliceKeeps, WriteKeeps
    <3>2. CASE SliceStep
      BY <1>1, <1>2, <3>2, SliceKeeps, Elsewhere DEF SliceStep
    <3>3. CASE WriteStep
      BY <1>1, <1>2, <3>3, WriteKeeps, Elsewhere DEF WriteStep
    <3> QED
      BY <1>8, <3>1, <3>2, <3>3
  <2> QED
    BY <2>1, <2>2, Elsewhere
<1> HIDE DEF Kept1
<1> QED
  BY <1>3, <1>4, <1>5, <1>6, <1>7, <1>8, Zenon DEF Loop

\* The operand, the loops and what they leave, after every step of a loop.
LEMMA LoopContained ==
  ASSUME Typed, Bounded, Contained, Loop
  PROVE  Contained'
<1>1. op' = op /\ a' = a
  BY LoopKeeps
<1> SUFFICES ASSUME Good' PROVE OperandOK' /\ LoopsOK' /\ DoneOK'
  BY DEF Contained
<1>2. Good
  BY <1>1, GoodKept
<1>3. OperandOK /\ LoopsOK /\ RangeOK
  BY <1>2 DEF Contained, Bounded, Good
<1>4. OperandOK'
  <2>1. \A s, k : Part(s, k)' = Part(s, k)
    BY <1>1, PickedKept
  <2> QED
    BY <1>1, <1>3, <2>1 DEF OperandOK, Picks
<1> QED
  BY <1>2, <1>3, <1>4, LoopsKept, LoopDone

LEMMA InitContained ==
  ASSUME Init
  PROVE  Contained
<1>1. pc = "idle" /\ a = Contents(Scalar) /\ op.kind = "none" /\ op.e1 = Scalar
  BY OpFields DEF Init, NoOp
<1>2. OperandOK
  BY <1>1 DEF OperandOK
<1>3. FlatOK /\ VecOK /\ MatOK /\ SliceOK /\ WriteOK /\ DoneOK
  BY <1>1 DEF FlatOK, VecOK, MatOK, SliceOK, WriteOK, DoneOK
<1>4. CompareOK
  BY <1>1 DEF CompareOK
<1> QED
  BY <1>2, <1>3, <1>4 DEF Contained, LoopsOK

\* And when an operation begins.
LEMMA BeginContained ==
  ASSUME NEW o, NEW l, NEW m, Begin(o, l, m), BeginOK(o, l, m)
  PROVE  Contained'
<1>1. op' = o /\ a' = Contents(o.e1) /\ r' = m /\ pc' = l /\ i' = 0 /\ j' = 0 /\ n' = 0
  BY DEF Begin
<1>2. /\ OpShaped(o) /\ DOMAIN m = Positions(o.sym) /\ o.ix = <<>>
      /\ l \in {"flat", "comp", "done", "vec_i", "mat_i"}
      /\ l = "flat" => o.kind \in Flats
  BY DEF BeginOK, OpShaped, Compares, Picking
<1>3. OperandOK'
  BY <1>1, <1>2 DEF OperandOK, Picks
<1>4. /\ Length(o.e1) \in Nat /\ Length(o.sym) \in Nat
      /\ \A p \in Positions(o.sym) : p \in Nat
  <2>1. Length(o.e1) \in Nat /\ Length(o.sym) \in Nat
    BY <1>2, ShapedFacts DEF OpShaped
  <2> QED
    BY <2>1 DEF Positions
<1>5. FlatOK'
  <2> SUFFICES ASSUME l = "flat" PROVE FlatOK'
    BY <1>1, Elsewhere
  <2>1. o.kind = "assign" => \A p \in Positions(o.sym) : m[p] = Kept(p)
    BY DEF BeginOK, Variable
  <2>2. o.kind = "dot" => m[0] = DotSum(0)
    <3>1. DotSum(0) = <<>>
      BY Sums
    <3> QED
      BY <3>1 DEF BeginOK
  <2>3. \A p \in Positions(o.sym) : ~(p < 0)
    BY <1>4
  <2>4. 0 .. 0 - 1 = {}
    OBVIOUS
  <2> QED
    BY <1>1, <2>1, <2>2, <2>3, <2>4 DEF FlatOK
<1>6. CompareOK'
  <2>1. CASE l = "comp"
    <3>1. m[0] = TRUE
      BY <2>1, Zenon DEF BeginOK
    <3>2. \A p \in o.diff : p >= 0
      <4>1. o.kind \in Compares /\ Positions(o.e1) \subseteq Nat
        BY <1>4, <2>1 DEF BeginOK, Positions
      <4> QED
        BY <1>2, <4>1 DEF OpShaped
    <3>3. l # "end"
      BY <2>1
    <3> QED
      BY <1>1, <3>1, <3>2, <3>3, Zenon DEF CompareOK
  <2>2. CASE l # "comp"
    BY <1>1, <1>2, <2>2, Elsewhere
  <2> QED
    BY <2>1, <2>2
<1>7. VecOK' /\ MatOK'
  <2>1. 0 .. 0 - 1 = {}
    OBVIOUS
  <2>2. VecOK'
    BY <1>1, <1>2, <2>1 DEF VecOK
  <2>3. MatOK'
    BY <1>1, <1>2, <2>1 DEF MatOK
  <2> QED
    BY <2>2, <2>3
<1>8. SliceOK' /\ WriteOK'
  BY <1>1, <1>2, Elsewhere
<1>9. DoneOK'
  <2> SUFFICES ASSUME l = "done" PROVE DoneOK'
    BY <1>1 DEF DoneOK
  <2>1. o.kind \in Compares /\ o.e1 # o.e2 /\ m[0] = (o.kind = "neq")
    BY Zenon DEF BeginOK
  <2>2. \A p \in Positions(o.sym) : p = 0
    BY <1>2, <2>1, ArrayFacts DEF OpShaped, Positions, Length
  <2>3. ExpectedIs'
    BY ExpectedHere, PTL
  <2>4. CASE o.kind = "neq"
    <3>1. Expected(0)' = (o.e1 # o.e2 \/ o.diff # {})
      BY <1>1, <2>3, <2>4, Zenon DEF ExpectedIs
    <3>2. Expected(0)' = TRUE /\ m[0] = TRUE
      BY <2>1, <2>4, <3>1, Zenon
    <3> QED
      BY <1>1, <2>2, <3>2, Zenon DEF DoneOK
  <2>5. CASE o.kind = "equ"
    <3>0. o.kind # "neq"
      BY <2>5
    <3>1. Expected(0)' = (o.e1 = o.e2 /\ o.diff = {})
      BY <1>1, <2>3, <2>5, Zenon DEF ExpectedIs
    <3>2. Expected(0)' = FALSE /\ m[0] = FALSE
      BY <2>1, <3>0, <3>1, Zenon
    <3> QED
      BY <1>1, <2>2, <3>2, Zenon DEF DoneOK
  <2> QED
    BY <2>1, <2>4, <2>5 DEF Compares
<1> QED
  BY <1>3, <1>5, <1>6, <1>7, <1>8, <1>9 DEF Contained, LoopsOK

LEMMA BeginRangeContained ==
  ASSUME NEW o, NEW l, NEW m, BeginRange(o, l, m), BeginRangeOK(o, l, m)
  PROVE  Contained'
<1>1. op' = o /\ a' = Contents(o.e1) /\ r' = m /\ pc' = l /\ n' = 0
  BY DEF BeginRange
<1>2. /\ OpShaped(o) /\ o.kind \in Ranges /\ l \in {"row", "col"}
      /\ m = IF o.kind = "slice" THEN Fresh(o.sym) ELSE Variable(o.sym)
  BY DEF BeginRangeOK
<1>3. OperandOK'
  BY <1>1, <1>2 DEF OperandOK, Ranges
<1>4. FlatOK' /\ CompareOK' /\ VecOK' /\ MatOK' /\ DoneOK'
  BY <1>1, <1>2, Elsewhere DEF DoneOK
<1>5. SliceOK'
  <2> SUFFICES ASSUME o.kind = "slice" PROVE SliceOK'
    BY <1>1, Elsewhere
  <2>1. \A p \in Positions(o.sym) : m[p] = Unset /\ ~(p < 0)
    <3>1. Length(o.sym) \in Nat
      BY <1>2, ShapedFacts DEF OpShaped
    <3> QED
      BY <1>2, <3>1 DEF Fresh, Positions
  <2> QED
    BY <1>1, <2>1 DEF SliceOK
<1>6. WriteOK'
  <2> SUFFICES ASSUME o.kind # "slice" PROVE WriteOK'
    BY <1>1, Elsewhere
  <2>1. \A p \in Positions(o.sym) : m[p] = Kept(p)
    BY <1>2 DEF Variable
  <2>2. 0 .. 0 - 1 = {}
    OBVIOUS
  <2> QED
    BY <1>1, <2>1, <2>2 DEF WriteOK
<1> QED
  BY <1>3, <1>4, <1>5, <1>6 DEF Contained, LoopsOK

LEMMA ElementContained ==
  ASSUME NEW p, ElementOK(p)
  PROVE  Contained'
<1>1. /\ pc' = "done" /\ OpShaped(op)' /\ op'.kind \in {"read", "put"}
      /\ op'.ix[1] = op'.ix[2] /\ op'.ix[3] = op'.ix[4] /\ a' = Contents(op'.e1)
  BY DEF ElementOK
<1>2. OperandOK'
  BY <1>1 DEF OperandOK
<1>3. LoopsOK'
  BY <1>1, Elsewhere DEF LoopsOK
<1> SUFFICES ASSUME Regular' PROVE DoneOK'
  BY <1>2, <1>3 DEF Contained, Good
<1>4. ElementPlace' /\ ExpectedIs'
  BY ElementHere, ExpectedHere, PTL
<1>5. Picked(Indexed(op), 0)' = p /\ p \in Positions(Indexed(op'))
  <2>1. p = SafeIndex(op'.ix[1], Indexed(op').rows) * Indexed(op').cols
            + SafeIndex(op'.ix[3], Indexed(op').cols)
    BY DEF ElementOK
  <2>2. Picked(Indexed(op), 0)' = p /\ Picked(Indexed(op), 0)' \in Positions(Indexed(op'))
    BY <1>1, <1>4, <2>1 DEF ElementPlace
  <2> QED
    BY <2>2
<1>6. CASE op'.kind = "read"
  <2>1. op'.sym = Scalar /\ r' = [q \in {0} |-> Load(Contents(op'.e1), p)] /\ Indexed(op)' = op'.e1
    BY <1>6 DEF ElementOK, Indexed
  <2>2. \A q \in Positions(op'.sym) : q = 0
    BY <2>1, ArrayFacts DEF Positions, Length
  <2>3. \A q : Expected(q)' = Contents(op'.e1)[Picked(op.e1, 0)']
    BY <1>4, <1>6 DEF ExpectedIs
  <2>4. r'[0] = Contents(op'.e1)[p]
    BY <1>5, <2>1, Memory DEF Load
  <2>5. Picked(op.e1, 0)' = p
    BY <1>5, <2>1
  <2> QED
    BY <2>2, <2>3, <2>4, <2>5 DEF DoneOK
<1>7. CASE op'.kind = "put"
  <2>1. r' = Store(Variable(op'.sym), p, Elem(0)) /\ Indexed(op)' = op'.sym
    BY <1>7 DEF ElementOK, Indexed
  <2>2. \A q : Expected(q)' = IF q = Picked(op.sym, 0)' THEN Elem(0) ELSE Kept(q)
    BY <1>4, <1>7 DEF ExpectedIs
  <2>3. Picked(op.sym, 0)' = p /\ p \in Positions(op'.sym)
    BY <1>5, <2>1
  <2>4. \A q \in Positions(op'.sym) : r'[q] = IF q = p THEN Elem(0) ELSE Variable(op'.sym)[q]
    BY <2>1, <2>3, Memory, Stored
  <2>5. \A q \in Positions(op'.sym) : Variable(op'.sym)[q] = Kept(q)
    BY DEF Variable
  <2> QED
    BY <2>2, <2>3, <2>4, <2>5 DEF DoneOK
<1> QED
  BY <1>1, <1>6, <1>7

LEMMA AssignSliceContained ==
  ASSUME Typed, Contained, NEW s \in Arrays, AssignSlice(s)
  PROVE  Contained'
<1>1. /\ pc = "done" /\ op.kind = "slice"
      /\ op'.kind = "assign" /\ op'.sym = s /\ op'.e1 = op.sym /\ op'.e2 = op.e1
      /\ op'.ix = op.ix
      /\ pc' = "flat" /\ i' = 0 /\ a' = r /\ r' = Variable(s)
  BY AssignSliceFields
<1>2. op.ix # <<>>
  BY <1>1 DEF Typed, OpShaped, Picking
<1> SUFFICES ASSUME Good' PROVE OperandOK' /\ LoopsOK' /\ DoneOK'
  BY DEF Contained
<1>3. Good
  <2>1. Regular' <=> Regular
    BY <1>1, <1>2 DEF Regular, Picks, Indexed
  <2>2. Number(op.e2)' = Number(op.e1)
    BY <1>1 DEF Number, Meant
  <2>3. Room' <=> Room
    BY <1>1, <1>2, <2>2 DEF Room, Picks
  <2>4. Fits /\ Apart
    BY <1>1 DEF Fits, Apart
  <2>5. Regular' /\ Room'
    BY DEF Good
  <2>6. op.kind # "str"
    BY <1>1
  <2> QED
    BY <2>1, <2>3, <2>4, <2>5, <2>6 DEF Good
<1>4. \A p \in Positions(op.sym) : r[p] = Part(op.e1, p)
  <2>1. \A p \in Positions(op.sym) : r[p] = Expected(p)
    BY <1>1, <1>3 DEF Contained, DoneOK
  <2>2. \A p : Expected(p) = Part(op.e1, p)
    BY <1>1, ExpectedHere DEF ExpectedIs
  <2> QED
    BY <2>1, <2>2
<1>5. OperandOK'
  <2>1. \A k : Part(op.e2, k)' = Part(op.e1, k)
    <3>1. \A t, k : Part(t, k)' = Part(t, k)
      BY <1>1, PickedKept
    <3> QED
      BY <1>1, <3>1
  <2> QED
    BY <1>1, <1>2, <1>4, <2>1 DEF OperandOK, Picks
<1>6. FlatOK'
  <2>1. \A p \in Positions(s) : Variable(s)[p] = Kept(p) /\ ~(p < 0)
    <3>1. Length(s) \in Nat
      BY ArrayFacts, ShapedFacts DEF Arrays
    <3> QED
      BY <3>1 DEF Variable, Positions
  <2> QED
    BY <1>1, <2>1 DEF FlatOK
<1>7. CompareOK' /\ VecOK' /\ MatOK' /\ SliceOK' /\ WriteOK' /\ DoneOK'
  BY <1>1, Elsewhere DEF DoneOK
<1> QED
  BY <1>5, <1>6, <1>7 DEF LoopsOK

LEMMA ThrowContained ==
  ASSUME Typed, Contained, Throw
  PROVE  Contained'
<1>1. op' = op /\ a' = a /\ pc = "idle" /\ pc' = "thrown"
  BY DEF Throw
<1> SUFFICES ASSUME Good' PROVE OperandOK' /\ LoopsOK' /\ DoneOK'
  BY DEF Contained
<1>2. OperandOK
  BY <1>1, GoodKept DEF Contained
<1>3. op.kind = "none"
  BY <1>1, OpFields DEF Typed, PcShaped, NoOp
<1>4. OperandOK'
  BY <1>1, <1>2, <1>3 DEF OperandOK
<1>5. LoopsOK' /\ DoneOK'
  BY <1>1, Elsewhere DEF LoopsOK, DoneOK
<1> QED
  BY <1>4, <1>5

LEMMA StutterContained ==
  ASSUME Typed, Contained, UNCHANGED vars
  PROVE  Contained'
<1>1. op' = op /\ a' = a /\ r' = r /\ pc' = pc /\ i' = i /\ j' = j /\ n' = n
  BY DEF vars
<1> SUFFICES ASSUME Good' PROVE OperandOK' /\ LoopsOK' /\ DoneOK'
  BY DEF Contained
<1>2. OperandOK /\ LoopsOK /\ DoneOK
  BY <1>1, GoodKept DEF Contained
<1>3. /\ \A s, k : Picked(s, k)' = Picked(s, k)
      /\ \A s, k : Part(s, k)' = Part(s, k)
  BY <1>1, PickedKept
<1>4. OperandOK'
  BY <1>1, <1>2, <1>3 DEF OperandOK, Picks
<1>5. FlatOK' /\ VecOK' /\ MatOK' /\ SliceOK'
  <2>1. FlatOK'
    BY <1>1, <1>2 DEF LoopsOK, FlatOK, Separator
  <2>2. VecOK'
    BY <1>1, <1>2 DEF LoopsOK, VecOK
  <2>3. MatOK'
    BY <1>1, <1>2 DEF LoopsOK, MatOK
  <2>4. SliceOK'
    BY <1>1, <1>2, <1>3 DEF LoopsOK, SliceOK
  <2> QED
    BY <2>1, <2>2, <2>3, <2>4
<1>6. CompareOK'
  BY <1>1, <1>2, Zenon DEF LoopsOK, CompareOK
<1>7. WriteOK'
  BY <1>1, <1>2, <1>3 DEF LoopsOK, WriteOK, Given
<1>8. DoneOK'
  <2> SUFFICES ASSUME pc = "done" PROVE \A p \in Positions(op.sym) : r[p] = Expected(p)'
    BY <1>1 DEF DoneOK
  <2>1. op.kind \in Kinds
    BY DEF Typed, PcShaped, OpShaped, Kinds
  <2> QED
    BY <1>1, <1>2, <2>1, ExpectedKept DEF DoneOK
<1> QED
  BY <1>4, <1>5, <1>6, <1>7, <1>8 DEF LoopsOK

\* Every step keeps the contents.
LEMMA NextContained ==
  ASSUME Typed, Bounded, Contained, [Next]_vars
  PROVE  Contained'
<1>1. CASE Start
  BY <1>1, Started, ThrowContained, BeginContained, BeginRangeContained, ElementContained
<1>2. CASE Loop
  BY <1>2, LoopContained
<1>3. CASE \E s \in Arrays : AssignSlice(s)
  BY <1>3, AssignSliceContained
<1>4. CASE UNCHANGED vars
  BY <1>4, StutterContained
<1> QED
  BY <1>1, <1>2, <1>3, <1>4 DEF Next

LEMMA AlwaysContained == Spec => []Contained
<1>1. Init => Contained
  BY InitContained
<1>2. Typed /\ Bounded /\ Contained /\ [Next]_vars => Contained'
  BY NextContained
<1> QED
  BY <1>1, <1>2, AlwaysTyped, AlwaysBounded, PTL DEF Spec

\* The operations compute what their definitions say, for arrays of every size and for all
\* regular indices: the loops that are generated for an operation leave in every element of
\* its result what the operation means, and nothing else in the elements that it leaves
\* alone.
THEOREM ComputedCorrect == Spec => []Computed
<1>1. Contained => Computed
  BY DEF Contained, Good, DoneOK, Computed
<1> QED
  BY <1>1, AlwaysContained, PTL

================================================================================
