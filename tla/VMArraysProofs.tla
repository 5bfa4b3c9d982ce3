---------------------------- MODULE VMArraysProofs ----------------------------
(***************************************************************************)
(* Proofs about VMArrays: the data on the stack keep as many elements as   *)
(* their lengths say, no write to an array leaves its elements, a write    *)
(* has changed what it should at each moment, and the frame with its       *)
(* addresses and loops implements ArrayStore.                              *)
(***************************************************************************)
EXTENDS VMArrayStore, SequenceTheorems, TLAPS

(***************************************************************************)
(* Arithmetic of indices and loops.                                        *)
(***************************************************************************)
\* safe_array_index does what its name says.
LEMMA SafeIndexInRange ==
  ASSUME NEW size \in Nat \ {0}, NEW idx \in Int
  PROVE  SafeIndex(idx, size) \in 0 .. size - 1
<1>1. (idx % size) \in 0 .. size - 1  OBVIOUS
<1>2. ((-idx) % size) \in 0 .. size - 1  OBVIOUS
<1> QED  BY <1>1, <1>2 DEF SafeIndex

LEMMA ToAddrInt ==
  ASSUME NEW idx \in Int
  PROVE  ToAddr(idx) \in Int
<1>1. HalfRange \in Nat \ {0}  BY ValueAssumption
<1>2. ((idx + HalfRange) % (2 * HalfRange)) \in Int  BY <1>1
<1> QED  BY <1>1, <1>2 DEF ToAddr

\* A loop that begins and ends with natural numbers and has an element.
Proper(r) ==
  /\ r.by \in {1, -1}
  /\ r.from \in Nat /\ r.to \in Int /\ r.to - r.by \in Nat
  /\ Width(r) \in Nat \ {0}

\* It stays below size.
Below(r, size) == r.from < size /\ r.to - r.by < size

LEMMA RangeProper ==
  ASSUME NEW a \in Nat, NEW b \in Nat
  PROVE  /\ Proper(FromTo(a, b))
         /\ \A size \in Nat : a < size /\ b < size => Below(FromTo(a, b), size)
         /\ a = b => Width(FromTo(a, b)) = 1
<1>1. CASE b >= a
  <2>1. FromTo(a, b) = [from |-> a, to |-> b + 1, by |-> 1]  BY <1>1 DEF FromTo
  <2> QED  BY <2>1, <1>1 DEF Proper, Below, Width
<1>2. CASE ~(b >= a)
  <2>1. FromTo(a, b) = [from |-> a, to |-> b + (-1), by |-> -1]  BY <1>2 DEF FromTo
  <2> QED  BY <2>1, <1>2 DEF Proper, Below, Width
<1> QED  BY <1>1, <1>2

LEMMA WholeProper ==
  ASSUME NEW size \in Nat \ {0}
  PROVE  Proper(Whole(size)) /\ Below(Whole(size), size)
BY DEF Proper, Below, Whole, Width

\* The counter of the loop variable x of r.
Done(x, r) == (x - r.from) * r.by

\* A loop variable is at one of the elements or has reached the end.
At(x, r) == x \in Int /\ Done(x, r) \in 0 .. Width(r)

LEMMA AtElement ==
  ASSUME NEW r, Proper(r), NEW x, At(x, r), x # r.to
  PROVE  /\ x \in Nat /\ Done(x, r) < Width(r)
         /\ At(x + r.by, r) /\ Done(x + r.by, r) = Done(x, r) + 1
         /\ \A size \in Nat : Below(r, size) => x < size
<1>1. CASE r.by = 1
  BY <1>1 DEF Proper, At, Done, Width, Below
<1>2. CASE r.by = -1
  BY <1>2 DEF Proper, At, Done, Width, Below
<1> QED  BY <1>1, <1>2 DEF Proper

LEMMA AtEnds ==
  ASSUME NEW r, Proper(r)
  PROVE  /\ At(r.from, r) /\ Done(r.from, r) = 0 /\ r.from # r.to
         /\ Done(r.to, r) = Width(r)
<1>1. CASE r.by = 1
  BY <1>1 DEF Proper, At, Done, Width
<1>2. CASE r.by = -1
  BY <1>2 DEF Proper, At, Done, Width
<1> QED  BY <1>1, <1>2 DEF Proper

\* An element in a table of rows and columns.
LEMMA InTable ==
  ASSUME NEW rows \in Nat, NEW cols \in Nat, NEW r \in Nat, NEW c \in Nat,
         r < rows, c < cols
  PROVE  r * cols + c \in 0 .. rows * cols - 1
<1>1. rows = r + 1 + (rows - r - 1) /\ rows - r - 1 \in Nat  OBVIOUS
<1>2. (r + 1 + (rows - r - 1)) * cols = r * cols + cols + (rows - r - 1) * cols
  OBVIOUS
<1>3. (rows - r - 1) * cols \in Nat /\ r * cols \in Nat  BY <1>1
<1> QED  BY <1>1, <1>2, <1>3
-------------------------------------------------------------------------------
(***************************************************************************)
(* Variables and their cells.                                              *)
(***************************************************************************)
Memory == [DOMAIN InitMem -> Int]

LEMMA SlotFacts ==
  ASSUME NEW v \in Vars
  PROVE  /\ Type[v] \in {STR, VEC, MAT} /\ Addr[v] \in Nat
         /\ Rows[v] \in Nat /\ Cols[v] \in Nat /\ Rows[v] * Cols[v] \in Nat
         /\ Type[v] # MAT => Rows[v] = 1
         /\ HeaderSize(Type[v]) \in {2, 3}
         /\ Slot(v) \subseteq DOMAIN InitMem
         /\ \A w \in Vars : v # w => Slot(v) \cap Slot(w) = {}
BY FrameAssumption DEF HeaderSize

\* The cells of a type and of the lengths.
Header(v) == Addr[v] .. (Addr[v] + HeaderSize(Type[v]) - 1)

LEMMA HeaderInSlot ==
  ASSUME NEW v \in Vars
  PROVE  Header(v) \subseteq Slot(v) /\ Slot(v) \subseteq DOMAIN InitMem
BY SlotFacts DEF Header, Slot

\* What a variable's lengths say depends on its header only.
LEMMA SameHeader ==
  ASSUME NEW v \in Vars, NEW m1 \in Memory, NEW m2 \in Memory, Fits(m1, v),
         \A a \in Header(v) : m2[a] = m1[a]
  PROVE  /\ Fits(m2, v)
         /\ NumRows(m2, v) = NumRows(m1, v) /\ NumCols(m2, v) = NumCols(m1, v)
<1>1. Addr[v] \in Header(v) /\ Addr[v] + 1 \in Header(v)
  BY SlotFacts DEF Header
<1>2. Type[v] = MAT => Addr[v] + 2 \in Header(v)
  BY SlotFacts DEF Header, HeaderSize
<1>3. m1[Addr[v]] = Type[v]
  BY DEF Fits
<1>4. NumRows(m2, v) = NumRows(m1, v) /\ NumCols(m2, v) = NumCols(m1, v)
  BY <1>1, <1>2, <1>3 DEF NumRows, NumCols
<1> QED
  BY <1>1, <1>3, <1>4 DEF Fits

\* The cell of an element lies behind the header and in the variable's slot.
LEMMA ElementCell ==
  ASSUME NEW v \in Vars, NEW m \in Memory, Fits(m, v),
         NEW r \in Nat, NEW c \in Nat, r < NumRows(m, v), c < NumCols(m, v)
  PROVE  /\ Addr[v] + HeaderSize(Type[v]) + r * NumCols(m, v) + c \in Slot(v)
         /\ Addr[v] + HeaderSize(Type[v]) + r * NumCols(m, v) + c \notin Header(v)
<1> DEFINE rows == NumRows(m, v)
           cols == NumCols(m, v)
           place == r * cols + c
<1>1. rows \in Nat /\ cols \in Nat /\ rows * cols <= Rows[v] * Cols[v]
  BY DEF Fits
<1>2. place \in 0 .. rows * cols - 1
  BY <1>1, InTable
<1>3. rows * cols \in Nat /\ r * cols \in Nat
  BY <1>1
<1>4. /\ Addr[v] \in Nat /\ HeaderSize(Type[v]) \in {2, 3} /\ Rows[v] * Cols[v] \in Nat
  BY SlotFacts
<1>5. Addr[v] + HeaderSize(Type[v]) + r * cols + c = Addr[v] + HeaderSize(Type[v]) + place
  BY <1>3, <1>4
<1>6. place < Rows[v] * Cols[v] /\ place \in Nat
  BY <1>1, <1>2, <1>3, <1>4
<1> HIDE DEF place, rows, cols
<1>7. /\ Addr[v] + HeaderSize(Type[v]) + place \in Slot(v)
      /\ Addr[v] + HeaderSize(Type[v]) + place \notin Header(v)
  BY <1>4, <1>6 DEF Slot, Header
<1> QED
  BY <1>5, <1>7 DEF cols

\* The value that is read from a variable is a datum.
LEMMA ContentsTyped ==
  ASSUME NEW v \in Vars, NEW m \in Memory, Fits(m, v)
  PROVE  IsDatum(Contents(m, v))
<1> DEFINE rows == NumRows(m, v)
           cols == NumCols(m, v)
           a    == Addr[v] + HeaderSize(Type[v])
           elems == [k \in 1 .. rows * cols |-> m[a + k - 1]]
<1>1. rows \in Nat /\ cols \in Nat /\ rows * cols <= Rows[v] * Cols[v] /\ m[Addr[v]] = Type[v]
  BY DEF Fits
<1>2. rows * cols \in Nat
  BY <1>1
<1>3. /\ Addr[v] \in Nat /\ HeaderSize(Type[v]) \in {2, 3} /\ Rows[v] * Cols[v] \in Nat
      /\ Type[v] \in {STR, VEC, MAT} /\ Slot(v) \subseteq DOMAIN InitMem
  BY SlotFacts
<1>4. \A k \in 1 .. rows * cols : m[a + k - 1] \in Int
  <2> SUFFICES ASSUME NEW k \in 1 .. rows * cols
               PROVE  m[a + k - 1] \in Int
    OBVIOUS
  <2>1. k \in Nat /\ k >= 1 /\ k <= Rows[v] * Cols[v]
    BY <1>1, <1>2, <1>3
  <2>2. a + k - 1 \in Slot(v)
    BY <2>1, <1>3 DEF Slot
  <2> QED
    BY <2>2, <1>3 DEF Memory
<1>5. elems \in [1 .. rows * cols -> Int]
  BY <1>4
<1>6. elems \in Seq(Int) /\ Len(elems) = rows * cols
  <2> HIDE DEF rows, cols
  <2>1. elems \in Seq(Int)
    BY <1>2, <1>5, SeqDef
  <2> QED
    BY <1>2, <2>1, LenProperties DEF elems
<1>7. Contents(m, v) = Datum(Type[v], rows, cols, elems)
  BY <1>1 DEF Contents
<1>8. Type[v] # MAT => rows = 1
  BY <1>1, <1>3 DEF NumRows
<1> QED
  BY <1>1, <1>3, <1>6, <1>7, <1>8 DEF IsDatum, Datum, STR, VEC, MAT, REAL
-------------------------------------------------------------------------------
(***************************************************************************)
(* The inductive invariant: in a loop, the loop variables are at one of    *)
(* the elements or at the end; in one that writes, the elements are those  *)
(* of the variable; in one that reads, new has an element for each that    *)
(* has been visited.                                                       *)
(***************************************************************************)
LoopOK ==
  pc \in {"read", "write"} =>
    /\ Proper(loop.rows) /\ Proper(loop.cols)
    /\ At(i, loop.rows) /\ At(j, loop.cols)
    /\ i = loop.rows.to => j = loop.cols.from

WriteOK ==
  pc = "write" =>
    /\ ins.var \in Vars
    /\ loop.base = Addr[ins.var] + HeaderSize(Type[ins.var])
    /\ loop.width = NumCols(mem, ins.var)
    /\ Below(loop.rows, NumRows(mem, ins.var)) /\ Below(loop.cols, NumCols(mem, ins.var))

ReadOK ==
  pc = "read" =>
    /\ loop.width \in Nat
    /\ loop.ty \in {REAL, STR, VEC, MAT}
    /\ loop.ty = REAL => Width(loop.rows) = 1 /\ Width(loop.cols) = 1
    /\ Len(new) = Done(i, loop.rows) * Width(loop.cols) + Done(j, loop.cols)

IInv == TypeOK /\ SlotsKept /\ LoopOK /\ WriteOK /\ ReadOK

LEMMA NothingTyped == IsDatum(Nothing) /\ IsDatum(NoIns.data) /\ <<>> \in Seq(Int) /\ Len(<<>>) = 0
<1>1. <<>> \in Seq(Int) /\ Len(<<>>) = 0
  BY EmptySeq
<1>2. /\ Nothing.ty = 0 /\ Nothing.rows = 0 /\ Nothing.cols = 0 /\ Nothing.elems = <<>>
      /\ NoIns.data = Nothing
  BY DEF Nothing, NoIns, Datum
<1>3. IsDatum(Nothing)
  BY <1>1, <1>2 DEF IsDatum, REAL, STR, VEC
<1> QED
  BY <1>1, <1>2, <1>3

LEMMA InitIInv == Init => IInv
<1> SUFFICES ASSUME Init PROVE IInv
  OBVIOUS
<1>1. TypeOK
  BY NothingTyped, FrameAssumption, ValueAssumption DEF Init, TypeOK
<1>2. SlotsKept
  BY FrameAssumption DEF Init, SlotsKept
<1> QED
  BY <1>1, <1>2 DEF IInv, LoopOK, WriteOK, ReadOK, Init

\* Steps that compute a datum between array instructions.
LEMMA ComputeStep ==
  ASSUME IInv, pc = "ready", pc' \in {"ready", "thrown", "undefined"},
         UNCHANGED <<mem, before, ins, i, j, n, new>>, IsDatum(top)',
         count' \in 0 .. MaxCount, writes' \in 0 .. MaxWrites
  PROVE  IInv'
<1>1. TypeOK'
  BY DEF IInv, TypeOK, IsDatum
<1>2. SlotsKept'
  BY DEF IInv, SlotsKept, Fits, NumRows, NumCols
<1> QED
  BY <1>1, <1>2 DEF IInv, LoopOK, WriteOK, ReadOK

\* A list of numbers is a vector or a string.
LEMMA ListTyped ==
  ASSUME NEW xs \in Seq(Int), NEW ty \in {STR, VEC}
  PROVE  IsDatum(Datum(ty, 1, Len(xs), xs))
<1>1. Len(xs) \in Nat /\ 1 * Len(xs) = Len(xs)
  BY LenProperties
<1> QED
  BY <1>1 DEF IsDatum, Datum, REAL, STR, VEC

\* A function on 1 .. len is a sequence.
LEMMA FunctionSeq ==
  ASSUME NEW S, NEW len \in Nat, NEW f \in [1 .. len -> S]
  PROVE  f \in Seq(S) /\ Len(f) = len
<1>1. f \in Seq(S)
  BY SeqDef
<1>2. DOMAIN f = 1 .. Len(f) /\ Len(f) \in Nat
  BY <1>1, LenProperties
<1> QED
  BY <1>1, <1>2

LEMMA FromBackSame ==
  ASSUME NEW S, NEW xs \in Seq(S)
  PROVE  FromBack(xs) \in Seq(S) /\ Len(FromBack(xs)) = Len(xs) /\ FromBack(xs) = xs
<1>1. Len(xs) \in Nat /\ xs \in [1 .. Len(xs) -> S]
  BY LenProperties
<1> DEFINE len == Len(xs)
<1>2. \A k \in 1 .. len : len - k + 1 \in 1 .. len /\ len - (len - k + 1) + 1 = k
  BY <1>1
<1>3. Popped(xs) \in [1 .. len -> S]
  BY <1>1, <1>2 DEF Popped
<1>4. FromBack(xs) \in [1 .. len -> S]
  BY <1>2, <1>3 DEF FromBack
<1>6. FromBack(xs) = xs
  BY <1>1, <1>2, <1>3 DEF FromBack, Popped
<1> HIDE DEF len
<1>5. FromBack(xs) \in Seq(S) /\ Len(FromBack(xs)) = len
  BY <1>1, <1>4, FunctionSeq DEF len
<1> QED
  BY <1>5, <1>6 DEF len

LEMMA PushRealStep ==
  ASSUME IInv, NEW x \in Numbers, PushReal(x)
  PROVE  IInv'
<1>1. x \in Int
  BY ValueAssumption
<1>2. <<x>> \in Seq(Int) /\ Len(<<x>>) = 1
  BY <1>1
<1>3. IsDatum(top)'
  BY <1>2 DEF PushReal, IsDatum, Datum, REAL, STR, VEC
<1> QED
  BY <1>3, ComputeStep DEF PushReal, Ready, local, IInv, TypeOK

LEMMA ListInt ==
  ASSUME NEW xs \in Lists
  PROVE  xs \in Seq(Int)
<1>1. xs \in Seq(Vals) /\ Vals \subseteq Int
  BY ValueAssumption
<1> QED
  BY <1>1, SeqMonotonic

LEMMA PushStrStep ==
  ASSUME IInv, NEW xs \in Lists, PushStr(xs)
  PROVE  IInv'
<1>1. IsDatum(Datum(STR, 1, Len(xs), xs))
  BY ListInt, ListTyped
<1>2. IsDatum(top)'
  BY <1>1 DEF PushStr, IsDatum
<1> QED
  BY <1>2, ComputeStep DEF PushStr, Ready, local, IInv, TypeOK

LEMMA MakeVecStep ==
  ASSUME IInv, NEW xs \in Lists, MakeVec(xs)
  PROVE  IInv'
<1>1. FromBack(xs) \in Seq(Int) /\ Len(FromBack(xs)) = Len(xs)
  BY ListInt, FromBackSame
<1>2. IsDatum(Datum(VEC, 1, Len(xs), FromBack(xs)))
  BY <1>1, ListTyped
<1>3. IsDatum(top)'
  BY <1>2 DEF MakeVec, IsDatum
<1> QED
  BY <1>3, ComputeStep DEF MakeVec, Ready, local, IInv, TypeOK

LEMMA MakeMatStep ==
  ASSUME IInv, NEW v \in Vars, MakeMat(v)
  PROVE  IInv'
<1> DEFINE size  == Rows[v] * Cols[v]
           zeros == [k \in 1 .. size |-> 0]
<1>1. size \in Nat /\ Rows[v] \in Nat /\ Cols[v] \in Nat
  BY SlotFacts
<1>2. zeros \in [1 .. size -> Int]
  OBVIOUS
<1>3. zeros \in Seq(Int) /\ Len(zeros) = size
  <2> HIDE DEF size
  <2> QED  BY <1>1, <1>2, FunctionSeq
<1>4. FromBack(zeros) \in Seq(Int) /\ Len(FromBack(zeros)) = size
  BY <1>3, FromBackSame
<1>5. top' = Datum(MAT, Rows[v], Cols[v], FromBack(zeros))
  BY DEF MakeMat
<1> HIDE DEF zeros
<1>6. IsDatum(top)'
  BY <1>1, <1>4, <1>5 DEF IsDatum, Datum, REAL, STR, VEC, MAT
<1> QED
  BY <1>6, ComputeStep DEF MakeMat, Ready, local, IInv, TypeOK

LEMMA RdMemStep ==
  ASSUME IInv, NEW v \in Vars, RdMem(v)
  PROVE  IInv'
<1>1. IsDatum(Contents(mem, v))
  BY ContentsTyped DEF IInv, SlotsKept, TypeOK, Memory
<1>2. IsDatum(top)'
  BY <1>1 DEF RdMem, IsDatum
<1> QED
  BY <1>2, ComputeStep DEF RdMem, Ready, local, IInv, TypeOK

LEMMA OpArrayCastStep ==
  ASSUME IInv, NEW v \in Vars, OpArrayCast(v)
  PROVE  IInv'
<1> DEFINE s    == CastShape(v)
           size == s.rows * s.cols
<1>1. /\ s.ty \in {VEC, MAT} /\ s.rows \in Nat /\ s.cols \in Nat /\ size \in Nat
      /\ s.ty = VEC => s.rows = 1
      /\ \A e : [s EXCEPT !.elems = e] = Datum(s.ty, s.rows, s.cols, e)
  <2>1. CASE Type[v] = MAT
    <3>1. s = Datum(MAT, Cols[v], Rows[v], <<>>)
      BY <2>1 DEF CastShape
    <3>2. Cols[v] * Rows[v] \in Nat
      BY SlotFacts
    <3> QED
      BY <3>1, <3>2, SlotFacts DEF Datum, VEC, MAT
  <2>2. CASE Type[v] # MAT
    <3>1. s = Datum(VEC, 1, Cols[v], <<>>)
      BY <2>2 DEF CastShape
    <3> QED
      BY <3>1, SlotFacts DEF Datum, VEC, MAT
  <2> QED
    BY <2>1, <2>2
<1> HIDE DEF s
<1>2. ASSUME NEW e, e \in Seq(Int), Len(e) = size
      PROVE  IsDatum(Datum(s.ty, s.rows, s.cols, e))
  BY <1>1, <1>2 DEF IsDatum, Datum, REAL, STR, VEC, MAT
<1>3. IsDatum(top)
  BY DEF IInv, TypeOK
<1>4. IsDatum(top)'
  <2>1. CASE top.ty = REAL /\ top' = [s EXCEPT !.elems = [k \in 1 .. size |-> top.elems[1]]]
    <3>1. top.elems[1] \in Int
      BY <1>3, <2>1, ElementOfSeq DEF IsDatum
    <3>2. [k \in 1 .. size |-> top.elems[1]] \in [1 .. size -> Int]
      BY <3>1
    <3> DEFINE e == [k \in 1 .. size |-> top.elems[1]]
    <3>3. e \in Seq(Int) /\ Len(e) = size
      <4> HIDE DEF size
      <4> QED  BY <1>1, <3>2, FunctionSeq
    <3> HIDE DEF e
    <3>4. top' = Datum(s.ty, s.rows, s.cols, e)
      BY <1>1, <2>1 DEF e
    <3> QED
      BY <1>2, <3>3, <3>4 DEF IsDatum
  <2>2. CASE size <= Len(top.elems) /\ top' = [s EXCEPT !.elems = SubSeq(top.elems, 1, size)]
    <3> DEFINE e == SubSeq(top.elems, 1, size)
    <3>1. \A k \in 1 .. size : top.elems[k] \in Int
      BY <1>1, <1>3, <2>2, ElementOfSeq, LenProperties DEF IsDatum
    <3>2. e \in Seq(Int) /\ Len(e) = size
      <4> HIDE DEF size
      <4> QED  BY <1>1, <3>1, SubSeqProperties
    <3> HIDE DEF e
    <3>3. top' = Datum(s.ty, s.rows, s.cols, e)
      BY <1>1, <2>2 DEF e
    <3> QED
      BY <1>2, <3>2, <3>3 DEF IsDatum
  <2>3. CASE UNCHANGED top
    BY <1>3, <2>3 DEF IsDatum
  <2> QED
    BY <2>1, <2>2, <2>3 DEF OpArrayCast, s
<1>5. pc' \in {"ready", "undefined"}
  BY DEF OpArrayCast
<1> QED
  BY <1>4, <1>5, ComputeStep DEF OpArrayCast, local, IInv, TypeOK
LEMMA ConcatFront ==
  ASSUME NEW S, NEW h \in Seq(S), NEW e \in Seq(S)
  PROVE  /\ h \o e \in Seq(S) /\ Len(h \o e) = Len(h) + Len(e)
         /\ \A k \in 1 .. Len(h) : (h \o e)[k] = h[k]
         /\ \A k \in 1 .. Len(e) : (h \o e)[Len(h) + k] = e[k]
<1>1. Len(h) \in Nat /\ Len(e) \in Nat
  BY LenProperties
<1>2. /\ h \o e \in Seq(S) /\ Len(h \o e) = Len(h) + Len(e)
      /\ \A k \in 1 .. Len(h) + Len(e) :
           (h \o e)[k] = IF k <= Len(h) THEN h[k] ELSE e[k - Len(h)]
  BY ConcatProperties
<1> QED
  BY <1>1, <1>2

\* The header and the elements of a datum, as they are written.
LEMMA ImageIs ==
  ASSUME NEW d, IsDatum(d), d.ty \in {STR, VEC, MAT}
  PROVE  /\ Image(d) \in Seq(Int) /\ Len(Image(d)) = HeaderSize(d.ty) + Len(d.elems)
         /\ Image(d)[1] = d.ty
         /\ d.ty = MAT => Image(d)[2] = d.rows /\ Image(d)[3] = d.cols
         /\ d.ty # MAT => Image(d)[2] = d.cols
         /\ \A k \in 1 .. Len(d.elems) : Image(d)[HeaderSize(d.ty) + k] = d.elems[k]
<1> DEFINE elems == d.elems
<1>1. /\ elems \in Seq(Int) /\ d.rows \in Int /\ d.cols \in Int /\ d.ty \in Int
  BY DEF IsDatum, STR, VEC, MAT
<1>2. CASE d.ty = MAT
  <2> DEFINE h == <<d.ty, d.rows, d.cols>>
  <2>1. h \in Seq(Int) /\ Len(h) = 3 /\ h[1] = d.ty /\ h[2] = d.rows /\ h[3] = d.cols
    BY <1>1
  <2>2. Image(d) = h \o elems /\ HeaderSize(d.ty) = 3
    BY <1>2 DEF Image, HeaderSize
  <2> HIDE DEF h, elems
  <2>3. /\ h \o elems \in Seq(Int) /\ Len(h \o elems) = Len(h) + Len(elems)
        /\ \A k \in 1 .. Len(h) : (h \o elems)[k] = h[k]
        /\ \A k \in 1 .. Len(elems) : (h \o elems)[Len(h) + k] = elems[k]
    <3>1. h \in Seq(Int) /\ elems \in Seq(Int)
      BY <1>1, <2>1 DEF elems
    <3> QED
      BY <3>1, ConcatFront
  <2> QED
    BY <2>1, <2>2, <2>3, <1>2, SMTT(30) DEF elems
<1>3. CASE d.ty # MAT
  <2> DEFINE h == <<d.ty, d.cols>>
  <2>1. h \in Seq(Int) /\ Len(h) = 2 /\ h[1] = d.ty /\ h[2] = d.cols
    BY <1>1
  <2>2. Image(d) = h \o elems /\ HeaderSize(d.ty) = 2
    BY <1>3 DEF Image, HeaderSize
  <2> HIDE DEF h, elems
  <2>3. /\ h \o elems \in Seq(Int) /\ Len(h \o elems) = Len(h) + Len(elems)
        /\ \A k \in 1 .. Len(h) : (h \o elems)[k] = h[k]
        /\ \A k \in 1 .. Len(elems) : (h \o elems)[Len(h) + k] = elems[k]
    <3>1. h \in Seq(Int) /\ elems \in Seq(Int)
      BY <1>1, <2>1 DEF elems
    <3> QED
      BY <3>1, ConcatFront
  <2> QED
    BY <2>1, <2>2, <2>3, <1>3 DEF elems
<1> QED
  BY <1>2, <1>3

\* An assignment writes them from the variable's address on, and nothing outside of its
\* slot.
LEMMA ImageWritten ==
  ASSUME IInv, NEW v \in Vars, WrMem(v)
  PROVE  /\ IsDatum(top) /\ top.ty = Type[v] /\ Len(top.elems) <= Rows[v] * Cols[v]
         /\ mem \in Memory /\ mem' \in Memory
         /\ \A k \in 1 .. Len(Image(top)) : mem'[Addr[v] + k - 1] = Image(top)[k]
         /\ \A a \in DOMAIN mem : a \notin Slot(v) => mem'[a] = mem[a]
<1> DEFINE image == Image(top)
           size  == Rows[v] * Cols[v]
           cells == Addr[v] .. (Addr[v] + Len(image) - 1)
<1>1. IsDatum(top) /\ top.ty = Type[v] /\ Len(top.elems) <= size /\ Len(top.elems) \in Nat
  BY LenProperties DEF IInv, TypeOK, WrMem, IsDatum
<1>2. /\ Addr[v] \in Nat /\ size \in Nat /\ Type[v] \in {STR, VEC, MAT}
      /\ HeaderSize(Type[v]) \in {2, 3} /\ Slot(v) \subseteq DOMAIN InitMem
      /\ Slot(v) = Addr[v] .. (Addr[v] + HeaderSize(Type[v]) + size - 1)
  BY SlotFacts DEF Slot
<1>3. image \in Seq(Int) /\ Len(image) = HeaderSize(Type[v]) + Len(top.elems)
  BY <1>1, <1>2, ImageIs
<1>4. mem' = [a \in DOMAIN mem |-> IF a \in cells THEN image[a - Addr[v] + 1] ELSE mem[a]]
  BY DEF WrMem
<1>5. mem \in Memory /\ DOMAIN mem = DOMAIN InitMem
  BY DEF IInv, TypeOK, Memory
<1> HIDE DEF image, size
<1>6. Len(image) \in Nat /\ cells \subseteq Slot(v) /\ cells \subseteq DOMAIN mem
  <2> DEFINE first == Addr[v]
             len   == Len(image)
             last  == HeaderSize(Type[v]) + size
  <2>1. first \in Nat /\ len \in Nat /\ last \in Nat /\ len <= last
    BY <1>1, <1>2, <1>3
  <2>2. Slot(v) = first .. (first + last - 1)
    BY <1>2
  <2> HIDE DEF first, len, last
  <2>3. first .. (first + len - 1) \subseteq Slot(v)
    BY <2>1, <2>2
  <2> QED
    BY <1>2, <1>5, <2>1, <2>3 DEF first, len
<1>7. \A a \in cells : a - Addr[v] + 1 \in 1 .. Len(image)
  BY <1>2, <1>6
<1>8. \A k \in 1 .. Len(image) : Addr[v] + k - 1 \in cells /\ (Addr[v] + k - 1) - Addr[v] + 1 = k
  BY <1>2, <1>6
<1> HIDE DEF cells
<1>9. mem' \in Memory
  <2> SUFFICES ASSUME NEW a \in DOMAIN InitMem
               PROVE  mem'[a] \in Int
    BY <1>4, <1>5 DEF Memory
  <2>1. CASE a \in cells
    <3>1. image[a - Addr[v] + 1] \in Int
      BY <2>1, <1>3, <1>7, ElementOfSeq
    <3> QED
      BY <3>1, <2>1, <1>4, <1>5
  <2>2. CASE a \notin cells
    BY <2>2, <1>4, <1>5 DEF Memory
  <2> QED
    BY <2>1, <2>2
<1>10. \A k \in 1 .. Len(image) : mem'[Addr[v] + k - 1] = image[k]
  <2> SUFFICES ASSUME NEW k \in 1 .. Len(image) PROVE mem'[Addr[v] + k - 1] = image[k]
    OBVIOUS
  <2> DEFINE a == Addr[v] + k - 1
  <2>1. a \in cells /\ a - Addr[v] + 1 = k /\ a \in DOMAIN mem
    BY <1>6, <1>8
  <2> HIDE DEF a
  <2>2. mem'[a] = image[k]
    BY <1>4, <2>1
  <2> QED
    BY <2>2 DEF a
<1>11. \A a \in DOMAIN mem : a \notin Slot(v) => mem'[a] = mem[a]
  BY <1>4, <1>6
<1> QED
  BY <1>1, <1>5, <1>9, <1>10, <1>11 DEF image, size

LEMMA WrMemStep ==
  ASSUME IInv, NEW v \in Vars, WrMem(v)
  PROVE  IInv'
<1> DEFINE image == Image(top)
           elems == top.elems
           ty    == Type[v]
<1>1. IsDatum(top) /\ top.ty = ty /\ Len(elems) <= Rows[v] * Cols[v]
  BY ImageWritten
<1>2. /\ elems \in Seq(Int) /\ Len(elems) \in Nat
      /\ top.rows \in Nat /\ top.cols \in Nat /\ Len(elems) = top.rows * top.cols
      /\ top.ty \in Int /\ Addr[v] \in Nat /\ HeaderSize(ty) \in {2, 3}
      /\ ty = MAT => HeaderSize(ty) = 3
      /\ ty \in {STR, VEC} => top.rows = 1
  BY <1>1, LenProperties, SlotFacts DEF IsDatum, STR, VEC, MAT, HeaderSize
<1>3. /\ image \in Seq(Int) /\ Len(image) = HeaderSize(ty) + Len(elems)
      /\ image[1] = ty
      /\ ty = MAT => image[2] = top.rows /\ image[3] = top.cols
      /\ ty # MAT => image[2] = top.cols
  BY <1>1, ImageIs, SlotFacts
<1>5. mem \in Memory /\ DOMAIN mem = DOMAIN InitMem
  BY DEF IInv, TypeOK, Memory
<1> HIDE DEF image, elems
<1>6. /\ \A k \in 1 .. Len(image) : mem'[Addr[v] + k - 1] = image[k]
      /\ \A a \in DOMAIN mem : a \notin Slot(v) => mem'[a] = mem[a]
  BY ImageWritten DEF image
<1>7. mem' \in Memory
  BY ImageWritten
<1>8. /\ mem'[Addr[v]] = ty
      /\ mem'[Addr[v] + 1] = image[2]
      /\ ty = MAT => mem'[Addr[v] + 2] = image[3]
  <2>1. /\ 1 \in 1 .. Len(image) /\ 2 \in 1 .. Len(image)
        /\ ty = MAT => 3 \in 1 .. Len(image)
    BY <1>2, <1>3
  <2>2. Addr[v] + 1 - 1 = Addr[v] /\ Addr[v] + 2 - 1 = Addr[v] + 1 /\ Addr[v] + 3 - 1 = Addr[v] + 2
    BY <1>2
  <2> QED
    BY <1>3, <1>6, <2>1, <2>2
<1>9. Fits(mem, v)'
  <2>1. CASE ty = MAT
    <3>1. /\ NumRows(mem', v) = top.rows /\ NumCols(mem', v) = top.cols
      BY <2>1, <1>3, <1>8 DEF NumRows, NumCols
    <3> QED
      BY <3>1, <1>1, <1>2, <1>8 DEF Fits, elems
  <2>2. CASE ty # MAT
    <3>1. /\ NumRows(mem', v) = 1 /\ NumCols(mem', v) = top.cols
      BY <2>2, <1>3, <1>8 DEF NumRows, NumCols
    <3>2. top.rows = 1
      BY <2>2, <1>2, SlotFacts
    <3>3. 1 * top.cols = top.rows * top.cols
      BY <3>2
    <3> QED
      BY <3>1, <3>3, <1>1, <1>2, <1>8 DEF Fits, elems
  <2> QED
    BY <2>1, <2>2
<1>10. ASSUME NEW w \in Vars, w # v
       PROVE  Fits(mem, w)'
  <2>1. \A a \in Header(w) : a \in DOMAIN mem /\ a \notin Slot(v)
    BY <1>5, <1>10, HeaderInSlot, SlotFacts
  <2>2. \A a \in Header(w) : mem'[a] = mem[a]
    BY <2>1, <1>6
  <2>3. Fits(mem, w)
    BY DEF IInv, SlotsKept
  <2>4. Fits(mem', w)
    BY <2>2, <2>3, <1>5, <1>7, SameHeader
  <2> QED
    BY <2>4 DEF Fits, NumRows, NumCols
<1>11. SlotsKept'
  BY <1>9, <1>10 DEF SlotsKept
<1>12. TypeOK'
  <2>1. count' \in 0 .. MaxCount /\ writes' \in 0 .. MaxWrites
    BY ValueAssumption DEF WrMem, IInv, TypeOK
  <2>2. IsDatum(top)' /\ before' \in [DOMAIN InitMem -> Int]
    BY <1>7, NothingTyped DEF WrMem, IsDatum, Memory
  <2> QED
    BY <2>1, <2>2, <1>7 DEF WrMem, Ready, local, IInv, TypeOK, IsDatum, Memory
<1> QED
  BY <1>11, <1>12 DEF IInv, LoopOK, WriteOK, ReadOK, WrMem, Ready, local

\* A program that has ended.
LEMMA StopStep ==
  ASSUME IInv, NEW how \in {"thrown", "undefined"}, Stop(how),
         count' \in 0 .. MaxCount, writes' \in 0 .. MaxWrites
  PROVE  IInv'
<1>1. TypeOK'
  BY DEF IInv, TypeOK, IsDatum, Stop, local
<1>2. SlotsKept'
  BY DEF IInv, SlotsKept, Fits, NumRows, NumCols, Stop
<1> QED
  BY <1>1, <1>2 DEF IInv, LoopOK, WriteOK, ReadOK, Stop

\* The types in the state in which a loop begins.
LEMMA EnterTyped ==
  ASSUME IInv, NEW where \in {"read", "write"}, NEW op, NEW v, NEW rs, NEW cs, NEW l,
         Enter(where, Call(op, v, rs, cs), l), Proper(l.rows), Proper(l.cols),
         count' \in 0 .. MaxCount, writes' \in 0 .. MaxWrites
  PROVE  /\ TypeOK' /\ SlotsKept' /\ LoopOK' /\ ins'.data = top /\ ins'.var = v
         /\ new' = <<>> /\ Len(new') = 0
         /\ Done(i', l.rows) = 0 /\ Done(j', l.cols) = 0
<1>1. ins'.data = top /\ ins'.var = v
  BY DEF Enter, Call
<1>2. TypeOK'
  <2>1. IsDatum(top)' /\ IsDatum(ins'.data)
    BY <1>1, NothingTyped DEF Enter, IsDatum, IInv, TypeOK
  <2>2. i' \in Int /\ j' \in Int /\ n' \in Nat /\ new' \in Seq(Int)
    BY NothingTyped DEF Enter, Proper
  <2> QED
    BY <2>1, <2>2 DEF Enter, IInv, TypeOK, IsDatum
<1>3. SlotsKept'
  BY DEF IInv, SlotsKept, Fits, NumRows, NumCols, Enter
<1>4. /\ At(i', l.rows) /\ Done(i', l.rows) = 0 /\ i' # l.rows.to
      /\ At(j', l.cols) /\ Done(j', l.cols) = 0
  BY AtEnds DEF Enter
<1>5. LoopOK'
  BY <1>4 DEF LoopOK, Enter, Proper, At, Done, Width
<1> QED
  BY <1>1, <1>2, <1>3, <1>4, <1>5, NothingTyped DEF Enter
\* An instruction that writes: its loops stay inside the variable.
LEMMA WriteToStep ==
  ASSUME IInv, NEW v \in Vars, NEW op, NEW rs, NEW cs, NEW accepted, NEW rows, NEW cols,
         WriteTo(v, Call(op, v, rs, cs), accepted, rows, cols),
         NumRows(mem, v) # 0 /\ NumCols(mem, v) # 0 =>
           /\ Proper(rows) /\ Below(rows, NumRows(mem, v))
           /\ Proper(cols) /\ Below(cols, NumCols(mem, v))
  PROVE  IInv'
<1>1. count' \in 0 .. MaxCount /\ writes' \in 0 .. MaxWrites
  BY ValueAssumption DEF WriteTo, Instruction, IInv, TypeOK
<1>2. CASE Stop("thrown") \/ Stop("undefined")
  BY <1>1, <1>2, StopStep
<1> DEFINE l == [rows |-> rows, cols |-> cols, base |-> Addr[v] + HeaderSize(mem[Addr[v]]),
                 width |-> NumCols(mem, v), ty |-> mem[Addr[v]]]
<1>3. CASE /\ NumRows(mem, v) # 0 /\ NumCols(mem, v) # 0
           /\ Enter("write", Call(op, v, rs, cs), l)
  <2>1. /\ l.rows = rows /\ l.cols = cols /\ l.width = NumCols(mem, v)
        /\ l.base = Addr[v] + HeaderSize(Type[v])
    BY DEF IInv, SlotsKept, Fits
  <2> HIDE DEF l
  <2>2. TypeOK' /\ SlotsKept' /\ LoopOK' /\ ins'.var = v
    BY <1>1, <1>3, <2>1, EnterTyped
  <2>3. loop' = l /\ mem' = mem /\ pc' = "write"
    BY <1>3 DEF Enter
  <2>4. WriteOK' /\ ReadOK'
    BY <1>3, <2>1, <2>2, <2>3 DEF WriteOK, ReadOK, Below, NumRows, NumCols
  <2> QED
    BY <2>2, <2>4 DEF IInv
<1> QED
  BY <1>2, <1>3 DEF WriteTo

LEMMA OnlyProper ==
  Proper(Only) /\ Width(Only) = 1 /\ \A size \in Nat : 0 < size => Below(Only, size)
BY RangeProper DEF Only

LEMMA WriteRange ==
  ASSUME NEW a \in Indices, NEW b \in Indices, NEW size \in Nat \ {0}
  PROVE  Proper(Write(a, b, size)) /\ Below(Write(a, b, size), size)
<1>1. a \in Int /\ b \in Int
  BY ValueAssumption
<1>2. ToAddr(a) \in Int /\ ToAddr(b) \in Int
  BY <1>1, ToAddrInt
<1>3. /\ SafeIndex(ToAddr(a), size) \in 0 .. size - 1
      /\ SafeIndex(ToAddr(b), size) \in 0 .. size - 1
  BY <1>2, SafeIndexInRange
<1> QED
  BY <1>3, RangeProper DEF Write

LEMMA ReadRange ==
  ASSUME NEW a \in Indices, NEW b \in Indices, NEW size \in Nat \ {0}
  PROVE  /\ Proper(Read(a, b, size))
         /\ a = b => Width(Read(a, b, size)) = 1
<1>1. a \in Int /\ b \in Int
  BY ValueAssumption
<1>2. SafeIndex(a, size) \in 0 .. size - 1 /\ SafeIndex(b, size) \in 0 .. size - 1
  BY <1>1, SafeIndexInRange
<1> QED
  BY <1>2, RangeProper DEF Read

LEMMA LengthsTyped ==
  ASSUME IInv, NEW v \in Vars
  PROVE  /\ NumRows(mem, v) \in Nat /\ NumCols(mem, v) \in Nat
         /\ mem[Addr[v]] # MAT => NumRows(mem, v) = 1
BY DEF IInv, SlotsKept, Fits, NumRows

LEMMA WriteStep ==
  ASSUME IInv, NEW v \in Vars, NEW a \in Indices, NEW b \in Indices,
         NEW c \in Indices, NEW d \in Indices,
         WrArr1D(v, a) \/ WrArr1DR(v, a, b) \/ WrArr2D(v, a, b) \/ WrArr2DR(v, a, b, c, d)
  PROVE  IInv'
<1> DEFINE rows == NumRows(mem, v)
           cols == NumCols(mem, v)
<1>1. rows \in Nat /\ cols \in Nat
  BY LengthsTyped
<1>2. /\ rows # 0 => Proper(Only) /\ Below(Only, rows)
      /\ \A x, y \in Indices : /\ rows # 0 => Proper(Write(x, y, rows)) /\ Below(Write(x, y, rows), rows)
                               /\ cols # 0 => Proper(Write(x, y, cols)) /\ Below(Write(x, y, cols), cols)
  <2> HIDE DEF rows, cols
  <2> QED
    BY <1>1, OnlyProper, WriteRange
<1>3. CASE WrArr1D(v, a)
  BY <1>2, <1>3, WriteToStep DEF WrArr1D
<1>4. CASE WrArr1DR(v, a, b)
  BY <1>2, <1>4, WriteToStep DEF WrArr1DR
<1>5. CASE WrArr2D(v, a, b)
  BY <1>2, <1>5, WriteToStep DEF WrArr2D
<1>6. CASE WrArr2DR(v, a, b, c, d)
  BY <1>2, <1>6, WriteToStep DEF WrArr2DR
<1> QED
  BY <1>3, <1>4, <1>5, <1>6

\* An instruction that reads.
LEMMA ReadFromStep ==
  ASSUME IInv, NEW op, NEW v, NEW rs, NEW cs, NEW accepted, NEW ty, NEW rows, NEW cols,
         ReadFrom(Call(op, v, rs, cs), accepted, Loop(ty, rows, cols)),
         accepted /\ top.rows # 0 /\ top.cols # 0 =>
           /\ Proper(rows) /\ Proper(cols) /\ ty \in {REAL, STR, VEC, MAT}
           /\ ty = REAL => Width(rows) = 1 /\ Width(cols) = 1
  PROVE  IInv'
<1>1. count' \in 0 .. MaxCount /\ writes' \in 0 .. MaxWrites
  BY ValueAssumption DEF ReadFrom, Instruction, IInv, TypeOK
<1>2. CASE Stop("thrown") \/ Stop("undefined")
  BY <1>1, <1>2, StopStep
<1> DEFINE l == Loop(ty, rows, cols)
<1>3. CASE /\ accepted /\ top.rows # 0 /\ top.cols # 0
           /\ Enter("read", Call(op, v, rs, cs), l)
  <2>1. l.rows = rows /\ l.cols = cols /\ l.width = top.cols /\ l.ty = ty
    BY DEF Loop
  <2> HIDE DEF l
  <2>2. /\ TypeOK' /\ SlotsKept' /\ LoopOK' /\ Len(new') = 0
        /\ Done(i', rows) = 0 /\ Done(j', cols) = 0
    BY <1>1, <1>3, <2>1, EnterTyped
  <2>3. loop' = l /\ pc' = "read"
    BY <1>3 DEF Enter
  <2>4. top.cols \in Nat /\ Width(cols) \in Nat
    BY <1>3 DEF IInv, TypeOK, IsDatum, Proper
  <2>5. ReadOK'
    BY <1>3, <2>1, <2>2, <2>3, <2>4 DEF ReadOK
  <2> QED
    BY <2>2, <2>3, <2>5 DEF IInv, WriteOK
<1> QED
  BY <1>2, <1>3 DEF ReadFrom

LEMMA ReadStep ==
  ASSUME IInv, NEW a \in Indices, NEW b \in Indices, NEW c \in Indices, NEW d \in Indices,
         \/ RdArr1D(a) \/ RdArr1DR(a, b) \/ RdArr1DRMat(a, b)
         \/ RdArr2D(a, b) \/ RdArr2DR(a, b, c, d)
  PROVE  IInv'
<1> DEFINE rows == top.rows
           cols == top.cols
<1>1. rows \in Nat /\ cols \in Nat /\ (top.ty \in {STR, VEC} => rows = 1)
  BY DEF IInv, TypeOK, IsDatum
<1>2. /\ Proper(Only) /\ Width(Only) = 1
      /\ rows # 0 => Proper(Whole(rows)) /\ (rows = 1 => Width(Whole(rows)) = 1)
      /\ \A x, y \in Indices : /\ rows # 0 => Proper(Read(x, y, rows))
                               /\ cols # 0 => Proper(Read(x, y, cols))
      /\ \A x \in Indices : cols # 0 => Width(Read(x, x, cols)) = 1
  <2> HIDE DEF rows, cols
  <2>1. rows = 1 => Width(Whole(rows)) = 1
    BY DEF Whole, Width
  <2> QED
    BY <1>1, <2>1, OnlyProper, WholeProper, ReadRange
<1>3. CASE RdArr1D(a)
  <2> DEFINE ty == CASE top.ty = VEC -> REAL [] top.ty = MAT -> VEC [] OTHER -> top.ty
  <2>1. top.ty \in Arrays => ty \in {REAL, STR, VEC} /\ (ty = REAL => rows = 1)
    BY <1>1 DEF Arrays, REAL, STR, VEC, MAT
  <2> QED
    BY <1>2, <1>3, <2>1, ReadFromStep DEF RdArr1D
<1>4. CASE RdArr1DR(a, b)
  <2>1. top.ty \in Arrays => top.ty \in {REAL, STR, VEC, MAT} /\ top.ty # REAL
    BY DEF Arrays, REAL, STR, VEC, MAT
  <2> QED
    BY <1>2, <1>4, <2>1, ReadFromStep DEF RdArr1DR
<1>5. CASE RdArr1DRMat(a, b)
  <2>1. CASE Instruction /\ UNCHANGED writes /\ (Stop("thrown") \/ Stop("undefined"))
    <3>1. count' \in 0 .. MaxCount /\ writes' \in 0 .. MaxWrites
      BY <2>1, ValueAssumption DEF Instruction, IInv, TypeOK
    <3> QED
      BY <2>1, <3>1, StopStep
  <2>2. CASE ReadFrom(Call("RDARR1DR", "", <<>>, <<a, b>>), TRUE,
                      Loop(MAT, Whole(rows), Read(a, b, cols)))
    <3>1. MAT # REAL
      BY DEF MAT, REAL
    <3> QED
      BY <1>2, <2>2, <3>1, ReadFromStep
  <2> QED
    BY <1>5, <2>1, <2>2 DEF RdArr1DRMat
<1>6. CASE RdArr2D(a, b)
  <2> DEFINE row == SafeIndex(a, cols)
             col == SafeIndex(b, cols) + 1
  <2>1. cols # 0 => row \in Nat /\ col \in Nat
    <3>1. a \in Int /\ b \in Int
      BY ValueAssumption
    <3> HIDE DEF cols
    <3>2. cols # 0 => SafeIndex(a, cols) \in Nat /\ SafeIndex(b, cols) \in Nat
      BY <1>1, <3>1, SafeIndexInRange
    <3> QED
      BY <3>2
  <2>2. cols # 0 => /\ Proper(FromTo(row, row)) /\ Width(FromTo(row, row)) = 1
                    /\ Proper(FromTo(col, col)) /\ Width(FromTo(col, col)) = 1
    <3> HIDE DEF row, col
    <3> QED  BY <2>1, RangeProper
  <2>3. ReadFrom(Call("RDARR2D", "", <<a, a>>, <<b, b>>), top.ty = MAT,
                 Loop(REAL, FromTo(row, row), FromTo(col, col)))
    BY <1>6 DEF RdArr2D
  <2> HIDE DEF row, col
  <2> QED
    BY <2>2, <2>3, ReadFromStep
<1>7. CASE RdArr2DR(a, b, c, d)
  <2>1. MAT # REAL
    BY DEF MAT, REAL
  <2> QED
    BY <1>2, <1>7, <2>1, ReadFromStep DEF RdArr2DR
<1> QED
  BY <1>3, <1>4, <1>5, <1>6, <1>7
-------------------------------------------------------------------------------
(***************************************************************************)
(* The steps of a loop.                                                    *)
(***************************************************************************)
LEMMA RhsTyped ==
  ASSUME IInv, InLoop("write"), HasRhs
  PROVE  Rhs \in Int
<1> DEFINE d == ins.data
<1>1. /\ IsDatum(d) /\ d.elems \in Seq(Int) /\ d.rows \in Nat /\ d.cols \in Nat
      /\ Len(d.elems) = d.rows * d.cols /\ Len(d.elems) \in Nat
  BY LenProperties DEF IInv, TypeOK, IsDatum
<1>2. \A k \in 1 .. Len(d.elems) : d.elems[k] \in Int
  BY <1>1, ElementOfSeq
<1>3. CASE d.ty = REAL
  <2>1. Len(d.elems) = 1
    BY <1>1, <1>3 DEF IsDatum
  <2>2. Rhs = d.elems[1]
    BY <1>3 DEF Rhs, REAL, MAT
  <2> QED
    BY <1>2, <2>1, <2>2
<1>4. CASE d.ty = MAT
  <2>1. Row < d.rows /\ Col < d.cols /\ Rhs = d.elems[Row * d.cols + Col + 1]
    BY <1>4 DEF HasRhs, Rhs, REAL, MAT
  <2>2. Row \in Nat /\ Col \in Nat
    BY DEF IInv, LoopOK, InLoop, At, Done, Proper, Row, Col
  <2> HIDE DEF d
  <2>3. Row * d.cols + Col \in 0 .. d.rows * d.cols - 1
    BY <1>1, <2>1, <2>2, InTable
  <2>4. Row * d.cols + Col + 1 \in 1 .. Len(d.elems)
    BY <1>1, <2>3
  <2> QED
    BY <1>2, <2>1, <2>4
<1>5. CASE d.ty \notin {REAL, MAT}
  <2>1. n < Len(d.elems) /\ Rhs = d.elems[n + 1]
    BY <1>5 DEF HasRhs, Rhs
  <2>2. n \in Nat
    BY DEF IInv, TypeOK
  <2>3. n + 1 \in 1 .. Len(d.elems)
    BY <1>1, <2>1, <2>2
  <2> QED
    BY <1>2, <2>1, <2>3
<1> QED
  BY <1>3, <1>4, <1>5

LEMMA WriteElementStep ==
  ASSUME IInv, WriteElement
  PROVE  IInv'
<1> DEFINE v == ins.var
<1>1. /\ v \in Vars /\ loop.base = Addr[v] + HeaderSize(Type[v])
      /\ loop.width = NumCols(mem, v)
      /\ Below(loop.rows, NumRows(mem, v)) /\ Below(loop.cols, NumCols(mem, v))
      /\ Fits(mem, v)
  BY DEF IInv, WriteOK, SlotsKept, WriteElement, InLoop
<1>2. /\ Proper(loop.rows) /\ Proper(loop.cols) /\ At(i, loop.rows) /\ At(j, loop.cols)
      /\ i # loop.rows.to /\ j # loop.cols.to
  BY DEF IInv, LoopOK, WriteElement, InLoop
<1>3. mem \in Memory /\ DOMAIN mem = DOMAIN InitMem
  BY DEF IInv, TypeOK, Memory
<1> HIDE DEF v
<1>4. i \in Nat /\ j \in Nat /\ i < NumRows(mem, v) /\ j < NumCols(mem, v)
  <2>1. NumRows(mem, v) \in Nat /\ NumCols(mem, v) \in Nat
    BY <1>1 DEF Fits
  <2> QED
    BY <1>1, <1>2, <2>1, AtElement
<1>5. Cell \in Slot(v) /\ Cell \notin Header(v)
  BY <1>1, <1>3, <1>4, ElementCell DEF Cell
<1>6. mem' = [mem EXCEPT ![Cell] = Rhs] /\ Rhs \in Int
  BY RhsTyped DEF WriteElement
<1>7. mem' \in Memory
  BY <1>3, <1>6 DEF Memory
<1>8. \A w \in Vars : \A a \in Header(w) : mem'[a] = mem[a]
  <2> SUFFICES ASSUME NEW w \in Vars, NEW a \in Header(w)
               PROVE  mem'[a] = mem[a]
    OBVIOUS
  <2>1. a \in Slot(w) /\ a \in DOMAIN mem
    BY <1>3, HeaderInSlot
  <2>2. a # Cell
    BY <1>1, <1>5, <2>1, SlotFacts
  <2> QED
    BY <1>6, <2>1, <2>2
<1>9. \A w \in Vars : /\ Fits(mem', w)
                      /\ NumRows(mem', w) = NumRows(mem, w) /\ NumCols(mem', w) = NumCols(mem, w)
  BY <1>3, <1>7, <1>8, SameHeader DEF IInv, SlotsKept
<1>10. SlotsKept'
  BY <1>9 DEF SlotsKept, Fits, NumRows, NumCols
<1>11. At(j + loop.cols.by, loop.cols) /\ j + loop.cols.by \in Int
  BY <1>2, AtElement DEF At
<1>12. TypeOK'
  <2>1. IsDatum(top)' /\ IsDatum(ins.data)'
    BY DEF WriteElement, IInv, TypeOK, IsDatum
  <2>2. n' \in Nat /\ j' \in Int
    BY <1>11 DEF WriteElement, IInv, TypeOK
  <2> QED
    BY <1>7, <2>1, <2>2 DEF WriteElement, IInv, TypeOK, Memory
<1>13. LoopOK'
  BY <1>2, <1>11 DEF WriteElement, LoopOK
<1>14. WriteOK' /\ ReadOK'
  <2>1. ins' = ins /\ loop' = loop /\ pc' = "write"
    BY DEF WriteElement, InLoop
  <2>2. NumRows(mem, v)' = NumRows(mem, v) /\ NumCols(mem, v)' = NumCols(mem, v)
    BY <1>1, <1>9, <2>1 DEF v, NumRows, NumCols
  <2> QED
    BY <1>1, <2>1, <2>2 DEF WriteOK, ReadOK, v
<1> QED
  BY <1>10, <1>12, <1>13, <1>14 DEF IInv

LEMMA OutOfBoundsStep ==
  ASSUME IInv, OutOfBounds
  PROVE  IInv'
BY StopStep DEF OutOfBounds, IInv, TypeOK

LEMMA NextRowStep ==
  ASSUME IInv, NextRow
  PROVE  IInv'
<1>1. /\ Proper(loop.rows) /\ Proper(loop.cols) /\ At(i, loop.rows) /\ At(j, loop.cols)
      /\ i # loop.rows.to /\ j = loop.cols.to
  BY DEF IInv, LoopOK, NextRow
<1>2. /\ At(i + loop.rows.by, loop.rows) /\ i + loop.rows.by \in Int
      /\ Done(i + loop.rows.by, loop.rows) = Done(i, loop.rows) + 1
  BY <1>1, AtElement DEF At
<1>3. /\ At(loop.cols.from, loop.cols) /\ loop.cols.from \in Int
      /\ Done(loop.cols.from, loop.cols) = 0
      /\ Done(j, loop.cols) = Width(loop.cols)
  BY <1>1, AtEnds DEF At
<1>4. TypeOK'
  BY <1>2, <1>3 DEF NextRow, IInv, TypeOK, IsDatum
<1>5. SlotsKept' /\ WriteOK'
  BY DEF IInv, SlotsKept, WriteOK, NextRow, Fits, NumRows, NumCols
<1>6. LoopOK'
  BY <1>1, <1>2, <1>3 DEF LoopOK, NextRow
<1>7. ReadOK'
  <2> DEFINE width == Width(loop.cols)
             row   == Done(i, loop.rows)
  <2>1. width \in Nat /\ row \in Nat
    BY <1>1 DEF Proper, At
  <2>2. pc = "read" => Len(new) = row * width + width
    BY <1>3 DEF IInv, ReadOK
  <2>3. (row + 1) * width + 0 = row * width + width
    BY <2>1
  <2>4. /\ loop' = loop /\ new' = new /\ pc' = pc
        /\ i' = i + loop.rows.by /\ j' = loop.cols.from
    BY DEF NextRow
  <2> HIDE DEF width, row
  <2>5. pc = "read" => Len(new') = Done(i', loop.rows) * Width(loop.cols) + Done(j', loop.cols)
    BY <1>2, <1>3, <2>2, <2>3, <2>4 DEF width, row
  <2> QED
    BY <2>4, <2>5 DEF IInv, ReadOK
<1> QED
  BY <1>4, <1>5, <1>6, <1>7 DEF IInv

LEMMA EndWriteStep ==
  ASSUME IInv, EndWrite
  PROVE  IInv'
<1>1. TypeOK'
  <2>1. IsDatum(top)'
    BY DEF EndWrite, IInv, TypeOK, IsDatum
  <2>2. ins' = NoIns /\ IsDatum(NoIns.data)
    BY NothingTyped DEF EndWrite, NoIns
  <2>3. IsDatum(ins.data)'
    BY <2>2 DEF IsDatum
  <2> QED
    BY <2>1, <2>3 DEF EndWrite, IInv, TypeOK
<1>2. SlotsKept'
  BY DEF IInv, SlotsKept, Fits, NumRows, NumCols, EndWrite
<1> QED
  BY <1>1, <1>2 DEF IInv, LoopOK, WriteOK, ReadOK, EndWrite

LEMMA ElementInt ==
  ASSUME IInv, ReadElement, NEW x \in ElementAt(i * loop.width + j)
  PROVE  x \in Int
<1> DEFINE place == i * loop.width + j
<1>1. /\ Proper(loop.rows) /\ Proper(loop.cols) /\ At(i, loop.rows) /\ At(j, loop.cols)
      /\ i # loop.rows.to /\ j # loop.cols.to /\ pc = "read"
  BY DEF IInv, LoopOK, ReadElement, InLoop
<1>2. place \in Nat
  <2>1. i \in Nat /\ j \in Nat /\ loop.width \in Nat
    BY <1>1, AtElement DEF IInv, ReadOK
  <2> QED
    BY <2>1
<1> HIDE DEF place
<1>3. ins.data.elems \in Seq(Int) /\ Len(ins.data.elems) \in Nat
  BY LenProperties DEF IInv, TypeOK, IsDatum
<1>4. CASE place < Len(ins.data.elems)
  <2>1. place + 1 \in 1 .. Len(ins.data.elems)
    BY <1>2, <1>3, <1>4
  <2>2. x = ins.data.elems[place + 1]
    BY <1>4 DEF ElementAt, place
  <2> QED
    BY <1>3, <2>1, <2>2, ElementOfSeq
<1>5. CASE ~(place < Len(ins.data.elems))
  BY <1>5, ValueAssumption DEF ElementAt, place
<1> QED
  BY <1>4, <1>5

LEMMA ReadElementStep ==
  ASSUME IInv, ReadElement
  PROVE  IInv'
<1>1. /\ Proper(loop.rows) /\ Proper(loop.cols) /\ At(i, loop.rows) /\ At(j, loop.cols)
      /\ i # loop.rows.to /\ j # loop.cols.to /\ pc = "read"
  BY DEF IInv, LoopOK, ReadElement, InLoop
<1>3. PICK x \in ElementAt(i * loop.width + j) : new' = Append(new, x)
  BY DEF ReadElement
<1>4. x \in Int
  BY ElementInt
<1>5. new' \in Seq(Int) /\ Len(new') = Len(new) + 1
  BY <1>3, <1>4, AppendProperties DEF IInv, TypeOK
<1>6. /\ At(j + loop.cols.by, loop.cols) /\ j + loop.cols.by \in Int
      /\ Done(j + loop.cols.by, loop.cols) = Done(j, loop.cols) + 1
  BY <1>1, AtElement DEF At
<1>7. TypeOK'
  <2>1. IsDatum(top)' /\ IsDatum(ins.data)'
    BY DEF ReadElement, IInv, TypeOK, IsDatum
  <2> QED
    BY <1>5, <1>6, <2>1 DEF ReadElement, IInv, TypeOK
<1>8. SlotsKept'
  BY DEF IInv, SlotsKept, Fits, NumRows, NumCols, ReadElement
<1>9. LoopOK' /\ WriteOK'
  BY <1>1, <1>6 DEF ReadElement, LoopOK, WriteOK
<1>10. ReadOK'
  <2> DEFINE before_ == Done(i, loop.rows) * Width(loop.cols)
  <2>1. before_ \in Int /\ Done(j, loop.cols) \in Int
    BY <1>1 DEF Proper, At
  <2>2. Len(new) = before_ + Done(j, loop.cols)
    BY <1>1 DEF IInv, ReadOK
  <2> HIDE DEF before_
  <2>3. Len(new') = before_ + Done(j + loop.cols.by, loop.cols)
    BY <1>5, <1>6, <2>1, <2>2
  <2>4. loop' = loop /\ i' = i /\ j' = j + loop.cols.by
    BY DEF ReadElement
  <2> QED
    BY <2>3, <2>4 DEF IInv, ReadOK, before_, ReadElement
<1> QED
  BY <1>7, <1>8, <1>9, <1>10 DEF IInv

LEMMA EndReadStep ==
  ASSUME IInv, EndRead
  PROVE  IInv'
<1> DEFINE height == Width(loop.rows)
           width  == Width(loop.cols)
<1>1. /\ Proper(loop.rows) /\ Proper(loop.cols) /\ i = loop.rows.to /\ j = loop.cols.from
  BY DEF IInv, LoopOK, EndRead
<1>2. Done(i, loop.rows) = height /\ Done(j, loop.cols) = 0 /\ height \in Nat /\ width \in Nat
  BY <1>1, AtEnds DEF Proper
<1>3. Len(new) = height * width /\ new \in Seq(Int) /\ Len(new) \in Nat
  <2>1. Len(new) = height * width + 0 /\ new \in Seq(Int)
    BY <1>2 DEF IInv, ReadOK, TypeOK, EndRead
  <2>2. height * width \in Nat
    BY <1>2
  <2> QED
    BY <2>1, <2>2
<1>4. loop.ty \in {REAL, STR, VEC, MAT} /\ (loop.ty = REAL => height = 1 /\ width = 1)
  BY DEF IInv, ReadOK, EndRead
<1>5. top' = IF loop.ty = MAT THEN Datum(MAT, height, width, new)
                              ELSE Datum(loop.ty, 1, Len(new), new)
  BY DEF EndRead
<1> HIDE DEF height, width
<1>6. IsDatum(top)'
  <2>1. CASE loop.ty = MAT
    BY <1>2, <1>3, <1>5, <2>1 DEF IsDatum, Datum, REAL, STR, VEC, MAT
  <2>2. CASE loop.ty # MAT
    <3>1. top' = Datum(loop.ty, 1, Len(new), new) /\ 1 * Len(new) = Len(new)
      BY <1>3, <1>5, <2>2
    <3>2. loop.ty = REAL => Len(new) = 1
      BY <1>3, <1>4
    <3> QED
      BY <1>3, <1>4, <3>1, <3>2, <2>2 DEF IsDatum, Datum
  <2> QED
    BY <2>1, <2>2
<1>7. TypeOK'
  BY <1>6, NothingTyped, SMTT(30) DEF EndRead, IInv, TypeOK, IsDatum
<1>8. SlotsKept'
  BY DEF IInv, SlotsKept, Fits, NumRows, NumCols, EndRead
<1> QED
  BY <1>7, <1>8 DEF IInv, LoopOK, WriteOK, ReadOK, EndRead

LEMMA NextIInv == IInv /\ [Next]_vars => IInv'
<1> SUFFICES ASSUME IInv, [Next]_vars PROVE IInv'
  OBVIOUS
<1>1. CASE Compute
  BY <1>1, PushRealStep, PushStrStep, MakeVecStep, MakeMatStep, RdMemStep, OpArrayCastStep,
     WrMemStep DEF Compute
<1>2. CASE Array
  BY <1>2, WriteStep, ReadStep DEF Array
<1>3. CASE Iterate
  BY <1>3, WriteElementStep, OutOfBoundsStep, NextRowStep, EndWriteStep, ReadElementStep,
     EndReadStep DEF Iterate
<1>4. CASE UNCHANGED vars
  <2>1. IsDatum(top)' /\ IsDatum(ins.data)'
    BY <1>4 DEF vars, IInv, TypeOK, IsDatum
  <2>2. TypeOK'
    BY <1>4, <2>1 DEF vars, IInv, TypeOK
  <2>3. SlotsKept'
    BY <1>4 DEF vars, IInv, SlotsKept, Fits, NumRows, NumCols
  <2>4. LoopOK' /\ ReadOK'
    BY <1>4 DEF vars, local, IInv, LoopOK, ReadOK
  <2>5. WriteOK'
    BY <1>4 DEF vars, local, IInv, WriteOK, NumRows, NumCols
  <2> QED
    BY <2>2, <2>3, <2>4, <2>5 DEF IInv
<1> QED
  BY <1>1, <1>2, <1>3, <1>4 DEF Next

-------------------------------------------------------------------------------
\* Memory holds numbers, and a datum has as many elements as its lengths say, for every
\* frame, every index and every order of the instructions.
THEOREM TypeCorrect == Spec => []TypeOK
<1>1. IInv => TypeOK
  BY DEF IInv
<1> QED
  BY InitIInv, NextIInv, <1>1, PTL DEF Spec

\* No write to an array reaches a header: the loops stay in the elements of the variable,
\* upwards and downwards, and the variables do not overlap.
THEOREM HeadersKept == Spec => []SlotsKept
<1>1. IInv => SlotsKept
  BY DEF IInv
<1> QED
  BY InitIInv, NextIInv, <1>1, PTL DEF Spec

-------------------------------------------------------------------------------
(***************************************************************************)
(* The positions that an instruction names.                                *)
(***************************************************************************)
LEMMA Division ==
  ASSUME NEW x \in Int, NEW c \in Nat, c > 0
  PROVE  /\ x \div c \in Int /\ x % c \in 0 .. c - 1
         /\ x % c = x - c * (x \div c)
OBVIOUS

\* Quotient and remainder are unique.
LEMMA Quotient ==
  ASSUME NEW c \in Nat, c > 0, NEW q \in Int, NEW t \in 0 .. c - 1,
         NEW p \in Int, NEW s \in 0 .. c - 1, q * c + t = p * c + s
  PROVE  q = p /\ t = s
<1>1. \A d \in Nat \ {0} : d * c >= c
  <2> SUFFICES ASSUME NEW d \in Nat \ {0} PROVE d * c >= c
    OBVIOUS
  <2>1. d - 1 \in Nat /\ (d - 1) * c \in Nat /\ d * c = (d - 1) * c + c
    OBVIOUS
  <2> QED
    BY <2>1
<1>2. ~(q > p)
  <2> SUFFICES ASSUME q > p PROVE FALSE
    OBVIOUS
  <2>1. (q - p) * c >= c
    BY <1>1
  <2>2. (q - p) * c = s - t
    OBVIOUS
  <2> QED
    BY <2>1, <2>2
<1>3. ~(p > q)
  <2> SUFFICES ASSUME p > q PROVE FALSE
    OBVIOUS
  <2>1. (p - q) * c >= c
    BY <1>1
  <2>2. (p - q) * c = t - s
    OBVIOUS
  <2> QED
    BY <2>1, <2>2
<1>4. q = p
  BY <1>2, <1>3
<1> QED
  BY <1>4

LEMMA Remainder ==
  ASSUME NEW c \in Nat, c > 0, NEW q \in Int, NEW t \in 0 .. c - 1
  PROVE  (q * c + t) % c = t /\ (q * c + t) \div c = q
<1> DEFINE x == q * c + t
<1>1. x \in Int
  OBVIOUS
<1> DEFINE d == x \div c
           m == x % c
<1>2. x \in Int /\ d \in Int /\ m \in 0 .. c - 1 /\ m = x - c * d /\ x = q * c + t
  BY <1>1, Division
<1> HIDE DEF x, d, m
<1>3. q * c + t = d * c + m /\ d \in Int /\ m \in 0 .. c - 1
  BY <1>2
<1>4. q = d /\ t = m
  BY <1>3, Quotient
<1> QED
  BY <1>4 DEF x, d, m

\* safe_array_index is the remainder that is not negative.
LEMMA SafeIndexMod ==
  ASSUME NEW size \in Nat \ {0}, NEW idx \in Int
  PROVE  SafeIndex(idx, size) = idx % size
<1>1. CASE idx >= 0
  <2>1. idx % size \in 0 .. size - 1
    BY Division
  <2> QED
    BY <1>1, <2>1 DEF SafeIndex
<1>2. CASE idx < 0
  <2> DEFINE q == (-idx) \div size
             m == (-idx) % size
  <2>1. q \in Int /\ m \in 0 .. size - 1 /\ m = -idx - size * q
    BY Division
  <2>2. SafeIndex(idx, size) = IF -m < 0 THEN -m + size ELSE -m
    BY <1>2 DEF SafeIndex
  <2> HIDE DEF q, m
  <2>3. CASE m = 0
    <3>1. idx = (-q) * size + 0 /\ -q \in Int /\ 0 \in 0 .. size - 1
      BY <2>1, <2>3
    <3>2. idx % size = 0
      BY <3>1, Remainder
    <3> QED
      BY <2>2, <2>3, <3>2
  <2>4. CASE m # 0
    <3> DEFINE z == -q - 1
               t == size - m
    <3>1. z \in Int /\ z * size = (-q) * size - size /\ (-q) * size \in Int
      BY <2>1
    <3>2. idx = (-q) * size - m
      BY <2>1
    <3>3. t \in 0 .. size - 1 /\ t = size - m /\ m \in Int /\ size \in Nat /\ size > 0
      BY <2>1, <2>4
    <3> HIDE DEF z, t
    <3>4. idx = z * size + t
      BY <3>1, <3>2, <3>3
    <3>5. (z * size + t) % size = t
      BY <3>1, <3>3, Remainder
    <3>6. idx % size = size - m
      BY <3>3, <3>4, <3>5
    <3> QED
      BY <2>1, <2>2, <2>4, <3>6
  <2> QED
    BY <2>3, <2>4
<1> QED
  BY <1>1, <1>2

\* An index is an address.
LEMMA ToAddrSame ==
  ASSUME NEW idx \in Indices
  PROVE  ToAddr(idx) = idx /\ idx \in Int
<1>1. HalfRange \in Nat \ {0} /\ idx \in -HalfRange .. HalfRange - 1
  BY ValueAssumption
<1> DEFINE x == idx + HalfRange
           c == 2 * HalfRange
<1>2. c \in Nat \ {0} /\ x \in 0 .. c - 1
  BY <1>1
<1>3. x = 0 * c + x
  BY <1>2
<1>4. x % c = x
  <2> HIDE DEF x, c
  <2> QED
    BY <1>2, <1>3, Remainder
<1> QED
  BY <1>1, <1>4 DEF ToAddr

\* The loop r runs over the positions that an instruction names with pair among size
\* ones: all of them, or those from one index to another.
Meant(r, pair, size) ==
  \/ pair = <<>> /\ r = Whole(size)
  \/ pair \in Int \X Int /\ r = FromTo(pair[1] % size, pair[2] % size)

LEMMA RangesMeant ==
  ASSUME NEW a \in Indices, NEW b \in Indices, NEW size \in Nat \ {0}
  PROVE  Meant(Write(a, b, size), <<a, b>>, size) /\ Meant(Read(a, b, size), <<a, b>>, size)
<1>1. a \in Int /\ b \in Int /\ ToAddr(a) = a /\ ToAddr(b) = b
  BY ToAddrSame
<1>2. SafeIndex(a, size) = a % size /\ SafeIndex(b, size) = b % size
  BY <1>1, SafeIndexMod
<1> QED
  BY <1>1, <1>2 DEF Meant, Write, Read

LEMMA WholeMeant ==
  Meant(Only, <<>>, 1) /\ \A size : Meant(Whole(size), <<>>, size)
BY DEF Meant, Only, FromTo, Whole

\* The loop visits the positions in their order, each of them once.
LEMMA MeantNth ==
  ASSUME NEW size \in Nat \ {0}, NEW r, NEW pair, Meant(r, pair, size)
  PROVE  /\ Proper(r) /\ Below(r, size)
         /\ \A k \in 0 .. Width(r) - 1 : Nth(pair, size, k) \in 0 .. size - 1
         /\ \A k, l \in 0 .. Width(r) - 1 : Nth(pair, size, k) = Nth(pair, size, l) => k = l
         /\ \A x : At(x, r) /\ x # r.to => Nth(pair, size, Done(x, r)) = x
<1>1. CASE pair = <<>>
  <2>1. /\ r.from = 0 /\ r.to = size /\ r.by = 1 /\ Width(r) = size
        /\ \A k : Nth(pair, size, k) = k
    BY <1>1 DEF Meant, Whole, Width, Nth
  <2> QED
    BY <2>1 DEF Proper, Below, At, Done, Width
<1>2. CASE pair # <<>>
  <2> DEFINE x == pair[1] % size
             y == pair[2] % size
  <2>1. x \in 0 .. size - 1 /\ y \in 0 .. size - 1 /\ r = FromTo(x, y)
    BY <1>2, Division DEF Meant
  <2>2. \A k : Nth(pair, size, k) = IF x <= y THEN x + k ELSE x - k
    BY <1>2 DEF Nth
  <2> HIDE DEF x, y
  <2>3. CASE x <= y
    <3>1. r.from = x /\ r.to = y + 1 /\ r.by = 1 /\ Width(r) = y + 1 - x
      BY <2>1, <2>3 DEF FromTo, Width
    <3> QED
      BY <2>1, <2>2, <2>3, <3>1 DEF Proper, Below, At, Done, Width
  <2>4. CASE x > y
    <3>1. r.from = x /\ r.to = y + -1 /\ r.by = -1 /\ Width(r) = x - y + 1
      BY <2>1, <2>4 DEF FromTo, Width
    <3> QED
      BY <2>1, <2>2, <2>4, <3>1 DEF Proper, Below, At, Done, Width
  <2> QED
    BY <2>1, <2>3, <2>4
<1> QED
  BY <1>1, <1>2

LEMMA PairTyped == \A a, b \in Indices : <<a, b>> \in Int \X Int
BY ToAddrSame

LEMMA PairNotEmpty == \A pair \in Int \X Int : pair # <<>>
<1> SUFFICES ASSUME NEW pair \in Int \X Int, pair = <<>> PROVE FALSE
  OBVIOUS
<1>1. DOMAIN pair = {1, 2}
  OBVIOUS
<1>2. DOMAIN <<>> = {}
  BY EmptySeq
<1> QED
  BY <1>1, <1>2

-------------------------------------------------------------------------------
(***************************************************************************)
(* What an instruction has done so far.                                    *)
(***************************************************************************)
WriteOps == {"WRARR1D", "WRARR1DR", "WRARR2D", "WRARR2DR"}
ReadOps  == {"RDARR1D", "RDARR1DR", "RDARR2D", "RDARR2DR"}

\* between the instructions the memory is the one noted before, and so it is while an
\* instruction only reads
KeptOK ==
  /\ \A v \in Vars : Fits(before, v)
  /\ pc \in {"ready", "read"} => mem = before
  /\ pc = "ready" => ins = NoIns
  /\ pc \in {"read", "write"} => top = Nothing /\ ins.data # Nothing

\* an instruction that writes goes through what it was told to, and the datum had an
\* element for each that it has been through
WritesOK ==
  pc = "write" =>
    /\ ins.op \in WriteOps /\ ins.data.ty \in {REAL, STR, VEC, MAT} /\ ins.cols \in Int \X Int
    /\ NumRows(mem, ins.var) = NumRows(before, ins.var)
    /\ NumCols(mem, ins.var) = NumCols(before, ins.var)
    /\ Meant(loop.rows, ins.rows, NumRows(before, ins.var))
    /\ Meant(loop.cols, ins.cols, NumCols(before, ins.var))
    /\ ins.data.ty \in {STR, VEC} => n = Row * Width(loop.cols) + Col /\ n <= Len(ins.data.elems)
    /\ ins.data.ty = MAT => \A pq \in Visited : pq[1] < ins.data.rows /\ pq[2] < ins.data.cols

\* one that reads has the elements that it was told to read, but for RDARR2D
ReadsOK ==
  pc = "read" =>
    /\ ins.op \in ReadOps /\ loop.width = ins.data.cols /\ ins.cols \in Int \X Int
    /\ ins.op = "RDARR2D" => loop.ty = REAL
    /\ ins.op # "RDARR2D" =>
         /\ loop.ty = Abstract!SelectedType(ins.op, ins.data.ty)
         /\ Below(loop.rows, ins.data.rows) /\ Below(loop.cols, ins.data.cols)
         /\ Meant(loop.rows, ins.rows, ins.data.rows)
         /\ Meant(loop.cols, ins.cols, ins.data.cols)
         /\ \A pq \in Visited :
              new[pq[1] * Width(loop.cols) + pq[2] + 1] =
                ins.data.elems[Nth(ins.rows, ins.data.rows, pq[1]) * ins.data.cols
                                 + Nth(ins.cols, ins.data.cols, pq[2]) + 1]

StoreInv == IInv /\ KeptOK /\ WritesOK /\ ReadsOK /\ PrefixWritten

LEMMA Loops ==
  ASSUME LoopOK, pc \in {"read", "write"}
  PROVE  /\ Proper(loop.rows) /\ Proper(loop.cols) /\ At(i, loop.rows) /\ At(j, loop.cols)
         /\ Row = Done(i, loop.rows) /\ Col = Done(j, loop.cols)
         /\ Row \in 0 .. Width(loop.rows) /\ Col \in 0 .. Width(loop.cols)
         /\ Width(loop.rows) \in Nat \ {0} /\ Width(loop.cols) \in Nat \ {0}
BY DEF LoopOK, Row, Col, Done, At, Proper

LEMMA VisitedElement ==
  ASSUME LoopOK, pc \in {"read", "write"}, i # loop.rows.to, j # loop.cols.to,
         i' = i, j' = j + loop.cols.by, loop' = loop
  PROVE  /\ Row \in 0 .. Width(loop.rows) - 1 /\ Col \in 0 .. Width(loop.cols) - 1
         /\ Row' = Row /\ Col' = Col + 1
         /\ Visited' = Visited \union {<<Row, Col>>} /\ <<Row, Col>> \notin Visited
<1>1. /\ Proper(loop.rows) /\ Proper(loop.cols) /\ At(i, loop.rows) /\ At(j, loop.cols)
      /\ Row = Done(i, loop.rows) /\ Col = Done(j, loop.cols)
      /\ Row \in 0 .. Width(loop.rows) /\ Col \in 0 .. Width(loop.cols)
      /\ Width(loop.rows) \in Nat \ {0} /\ Width(loop.cols) \in Nat \ {0}
  BY Loops
<1>2. Row < Width(loop.rows) /\ Col < Width(loop.cols) /\ Done(j + loop.cols.by, loop.cols) = Col + 1
  BY <1>1, AtElement
<1>3. Row' = Row /\ Col' = Col + 1
  BY <1>2 DEF Row, Col, Done
<1> DEFINE r == Row
           c == Col
           H == Width(loop.rows)
           W == Width(loop.cols)
<1>4. r \in 0 .. H - 1 /\ c \in 0 .. W - 1
  BY <1>1, <1>2
<1>5. Visited = {pq \in (0 .. H - 1) \X (0 .. W - 1) : pq[1] < r \/ (pq[1] = r /\ pq[2] < c)}
  BY DEF Visited
<1>6. Visited' = {pq \in (0 .. H - 1) \X (0 .. W - 1) :
                    pq[1] < r \/ (pq[1] = r /\ pq[2] < c + 1)}
  BY <1>3 DEF Visited
<1> HIDE DEF r, c, H, W
<1>7. \A pq \in (0 .. H - 1) \X (0 .. W - 1) :
        pq[1] < r \/ (pq[1] = r /\ pq[2] < c + 1)
          <=> (pq[1] < r \/ (pq[1] = r /\ pq[2] < c)) \/ pq = <<r, c>>
  BY <1>4
<1>8. <<r, c>> \in (0 .. H - 1) \X (0 .. W - 1)
  BY <1>4
<1>9. Visited' = Visited \union {<<r, c>>}
  BY <1>5, <1>6, <1>7, <1>8
<1>10. <<r, c>> \notin Visited
  BY <1>4, <1>5
<1> QED
  BY <1>3, <1>4, <1>9, <1>10 DEF r, c, H, W

LEMMA VisitedRow ==
  ASSUME LoopOK, pc \in {"read", "write"}, i # loop.rows.to, j = loop.cols.to,
         i' = i + loop.rows.by, j' = loop.cols.from, loop' = loop
  PROVE  /\ Row \in Nat /\ Row' = Row + 1 /\ Col' = 0 /\ Col = Width(loop.cols)
         /\ Visited' = Visited
<1>1. /\ Proper(loop.rows) /\ Proper(loop.cols) /\ At(i, loop.rows) /\ At(j, loop.cols)
      /\ Row = Done(i, loop.rows) /\ Col = Done(j, loop.cols)
      /\ Row \in 0 .. Width(loop.rows) /\ Col \in 0 .. Width(loop.cols)
      /\ Width(loop.rows) \in Nat \ {0} /\ Width(loop.cols) \in Nat \ {0}
  BY Loops
<1>2. /\ Done(i + loop.rows.by, loop.rows) = Row + 1
      /\ Done(loop.cols.from, loop.cols) = 0 /\ Col = Width(loop.cols)
  BY <1>1, AtElement, AtEnds
<1>3. Row' = Row + 1 /\ Col' = 0
  BY <1>2 DEF Row, Col, Done
<1> DEFINE r == Row
           H == Width(loop.rows)
           W == Width(loop.cols)
<1>4. r \in Nat /\ H \in Nat /\ W \in Nat
  BY <1>1
<1>5. Visited = {pq \in (0 .. H - 1) \X (0 .. W - 1) : pq[1] < r \/ (pq[1] = r /\ pq[2] < W)}
  BY <1>2 DEF Visited
<1>6. Visited' = {pq \in (0 .. H - 1) \X (0 .. W - 1) :
                    pq[1] < r + 1 \/ (pq[1] = r + 1 /\ pq[2] < 0)}
  BY <1>3 DEF Visited
<1> HIDE DEF r, H, W
<1>7. \A pq \in (0 .. H - 1) \X (0 .. W - 1) :
        pq[1] < r + 1 \/ (pq[1] = r + 1 /\ pq[2] < 0)
          <=> pq[1] < r \/ (pq[1] = r /\ pq[2] < W)
  BY <1>4
<1>8. Visited' = Visited
  BY <1>5, <1>6, <1>7
<1> QED
  BY <1>1, <1>2, <1>3, <1>8

LEMMA VisitedNone ==
  ASSUME Row = 0, Col = 0
  PROVE  Visited = {}
BY DEF Visited

LEMMA VisitedAll ==
  ASSUME LoopOK, pc \in {"read", "write"}, i = loop.rows.to
  PROVE  Visited = (0 .. Width(loop.rows) - 1) \X (0 .. Width(loop.cols) - 1)
<1>1. Row = Width(loop.rows) /\ Width(loop.rows) \in Nat
  BY Loops, AtEnds
<1> QED
  BY <1>1 DEF Visited

LEMMA PlacesSame ==
  ASSUME UNCHANGED <<before, ins, loop>>
  PROVE  \A pq : Place(pq)' = Place(pq) /\ Assigned(pq)' = Assigned(pq)
BY DEF Place, Assigned, NumRows, NumCols, Nth, Width

LEMMA PrefixSame ==
  ASSUME PrefixWritten, UNCHANGED <<mem, before, ins, loop>>, Visited' = Visited
  PROVE  PrefixWritten'
BY PlacesSame DEF PrefixWritten

\* Before the first element.
LEMMA PrefixNone ==
  ASSUME mem = before, Visited = {}
  PROVE  PrefixWritten
BY DEF PrefixWritten

\* Steps between the instructions and those that end one.
LEMMA QuietStep ==
  ASSUME IInv', pc' \notin {"read", "write"}, ins' = NoIns, mem' = before'
  PROVE  StoreInv'
<1>1. ins'.op = ""
  BY DEF NoIns
<1>2. \A v \in Vars : Fits(before', v)
  BY DEF IInv, SlotsKept
<1>3. KeptOK'
  BY <1>2 DEF KeptOK, Fits, NumRows, NumCols
<1>4. PrefixWritten'
  BY <1>1 DEF PrefixWritten
<1> QED
  BY <1>3, <1>4 DEF StoreInv, WritesOK, ReadsOK

\* While an instruction writes: what it names, in the variable as it was before.
LEMMA Writing ==
  ASSUME StoreInv, pc = "write"
  PROVE  LET v == ins.var
             rows == NumRows(before, v)
             cols == NumCols(before, v)
         IN  /\ v \in Vars /\ Fits(before, v) /\ before \in Memory /\ mem \in Memory
             /\ rows \in Nat \ {0} /\ cols \in Nat \ {0}
             /\ Meant(loop.rows, ins.rows, rows) /\ Meant(loop.cols, ins.cols, cols)
             /\ loop.base = Addr[v] + HeaderSize(Type[v]) /\ loop.width = cols
<1> DEFINE v == ins.var
           rows == NumRows(before, v)
           cols == NumCols(before, v)
<1>1. /\ v \in Vars /\ loop.base = Addr[v] + HeaderSize(Type[v]) /\ loop.width = NumCols(mem, v)
      /\ Below(loop.rows, NumRows(mem, v)) /\ Below(loop.cols, NumCols(mem, v))
      /\ Proper(loop.rows) /\ Proper(loop.cols)
  BY DEF StoreInv, IInv, WriteOK, LoopOK
<1>2. /\ NumRows(mem, v) = rows /\ NumCols(mem, v) = cols /\ Fits(before, v)
      /\ Meant(loop.rows, ins.rows, rows) /\ Meant(loop.cols, ins.cols, cols)
  BY <1>1 DEF StoreInv, WritesOK, KeptOK
<1>3. rows \in Nat /\ cols \in Nat
  BY <1>2 DEF Fits
<1>4. before \in Memory /\ mem \in Memory
  BY DEF StoreInv, IInv, TypeOK, Memory
<1> HIDE DEF rows, cols, v
<1>5. rows > 0 /\ cols > 0
  BY <1>1, <1>2, <1>3 DEF Below, Proper
<1> QED
  BY <1>1, <1>2, <1>3, <1>4, <1>5 DEF rows, cols, v

\* The elements that an instruction names have cells of their own, none of them in the header.
LEMMA Places ==
  ASSUME StoreInv, pc = "write"
  PROVE  LET All == (0 .. Width(loop.rows) - 1) \X (0 .. Width(loop.cols) - 1)
         IN  /\ \A pq \in All : Place(pq) \in Slot(ins.var) /\ Place(pq) \notin Header(ins.var)
             /\ \A pq, st \in All : Place(pq) = Place(st) => pq = st
<1> DEFINE v == ins.var
           rows == NumRows(before, v)
           cols == NumCols(before, v)
           P == 0 .. Width(loop.rows) - 1
           Q == 0 .. Width(loop.cols) - 1
           R(p) == Nth(ins.rows, rows, p)
           C(q) == Nth(ins.cols, cols, q)
           a == Addr[v] + HeaderSize(Type[v])
<1>1. /\ v \in Vars /\ Fits(before, v) /\ before \in Memory
      /\ rows \in Nat \ {0} /\ cols \in Nat \ {0}
      /\ Meant(loop.rows, ins.rows, rows) /\ Meant(loop.cols, ins.cols, cols)
  BY Writing
<1>2. /\ \A p \in P : R(p) \in 0 .. rows - 1
      /\ \A p, s \in P : R(p) = R(s) => p = s
      /\ \A q \in Q : C(q) \in 0 .. cols - 1
      /\ \A q, t \in Q : C(q) = C(t) => q = t
  <2> HIDE DEF rows, cols
  <2> QED
    BY <1>1, MeantNth
<1>3. \A pq : Place(pq) = a + R(pq[1]) * cols + C(pq[2])
  BY DEF Place
<1>4. a \in Nat
  BY <1>1, SlotFacts
<1> HIDE DEF R, C
<1>5. ASSUME NEW pq \in P \X Q
      PROVE  Place(pq) \in Slot(v) /\ Place(pq) \notin Header(v)
  <2>1. pq[1] \in P /\ pq[2] \in Q
    OBVIOUS
  <2>2. /\ R(pq[1]) \in Nat /\ R(pq[1]) < rows /\ C(pq[2]) \in Nat /\ C(pq[2]) < cols
    <3> HIDE DEF rows, cols, P, Q
    <3>1. R(pq[1]) \in 0 .. rows - 1 /\ C(pq[2]) \in 0 .. cols - 1
      BY <1>2, <2>1
    <3> QED
      BY <1>1, <3>1
  <2> QED
    BY <1>1, <1>3, <2>2, ElementCell
<1>6. ASSUME NEW pq \in P \X Q, NEW st \in P \X Q, Place(pq) = Place(st)
      PROVE  pq = st
  <2>1. pq = <<pq[1], pq[2]>> /\ st = <<st[1], st[2]>>
        /\ pq[1] \in P /\ pq[2] \in Q /\ st[1] \in P /\ st[2] \in Q
    OBVIOUS
  <2> DEFINE r1 == R(pq[1])
             c1 == C(pq[2])
             r2 == R(st[1])
             c2 == C(st[2])
  <2> HIDE DEF P, Q, rows, cols, a
  <2>2. r1 \in 0 .. rows - 1 /\ c1 \in 0 .. cols - 1 /\ r2 \in 0 .. rows - 1 /\ c2 \in 0 .. cols - 1
    BY <1>2, <2>1
  <2>3. a + r1 * cols + c1 = a + r2 * cols + c2
    BY <1>3, <1>6
  <2> HIDE DEF r1, c1, r2, c2
  <2>4. cols \in Nat /\ cols > 0 /\ r1 \in Int /\ r2 \in Int
    BY <1>1, <2>2
  <2>5. r1 * cols + c1 = r2 * cols + c2
    <3>1. r1 * cols \in Int /\ r2 * cols \in Int /\ c1 \in Int /\ c2 \in Int
      BY <2>2, <2>4
    <3> QED
      BY <1>4, <2>3, <3>1
  <2>6. r1 = r2 /\ c1 = c2
    BY <2>2, <2>4, <2>5, Quotient
  <2>7. pq[1] = st[1] /\ pq[2] = st[2]
    BY <1>2, <2>1, <2>6 DEF r1, r2, c1, c2
  <2> QED
    BY <2>1, <2>7
<1> QED
  BY <1>5, <1>6

\* The element that is written next, and what.
LEMMA WrittenNext ==
  ASSUME StoreInv, InLoop("write"), HasRhs
  PROVE  /\ Place(<<Row, Col>>) = Cell /\ Assigned(<<Row, Col>>) = Rhs
         /\ Row \in 0 .. Width(loop.rows) - 1 /\ Col \in 0 .. Width(loop.cols) - 1
<1> DEFINE v == ins.var
           rows == NumRows(before, v)
           cols == NumCols(before, v)
<1>1. /\ rows \in Nat \ {0} /\ cols \in Nat \ {0}
      /\ Meant(loop.rows, ins.rows, rows) /\ Meant(loop.cols, ins.cols, cols)
      /\ loop.base = Addr[v] + HeaderSize(Type[v]) /\ loop.width = cols
  BY Writing DEF InLoop
<1>2. LoopOK /\ pc = "write" /\ i # loop.rows.to /\ j # loop.cols.to
  BY DEF InLoop, StoreInv, IInv
<1>3. /\ At(i, loop.rows) /\ At(j, loop.cols) /\ Row = Done(i, loop.rows) /\ Col = Done(j, loop.cols)
      /\ Row \in Nat /\ Col \in Nat /\ Proper(loop.rows) /\ Proper(loop.cols)
  BY <1>2, Loops
<1>4. Nth(ins.rows, rows, Row) = i /\ Nth(ins.cols, cols, Col) = j
  <2> HIDE DEF rows, cols
  <2> QED
    BY <1>1, <1>2, <1>3, MeantNth
<1>5. Place(<<Row, Col>>) = Cell
  BY <1>1, <1>4 DEF Place, Cell
<1>6. Assigned(<<Row, Col>>) = Rhs
  <2>1. /\ ins.data.ty \in {REAL, STR, VEC, MAT}
        /\ ins.data.ty \in {STR, VEC} => n = Row * Width(loop.cols) + Col
    BY <1>2 DEF StoreInv, WritesOK
  <2> QED
    BY <2>1 DEF Assigned, Rhs, REAL, STR, VEC, MAT
<1>7. Row < Width(loop.rows) /\ Col < Width(loop.cols)
  BY <1>2, <1>3, AtElement
<1> QED
  BY <1>3, <1>5, <1>6, <1>7 DEF Proper

LEMMA ElementWritten ==
  ASSUME StoreInv, WriteElement, IInv'
  PROVE  StoreInv'
<1> DEFINE All == (0 .. Width(loop.rows) - 1) \X (0 .. Width(loop.cols) - 1)
           v == ins.var
<1>1. /\ InLoop("write") /\ HasRhs /\ pc = "write" /\ pc' = "write"
      /\ i # loop.rows.to /\ j # loop.cols.to /\ LoopOK
      /\ mem' = [mem EXCEPT ![Cell] = Rhs] /\ i' = i /\ j' = j + loop.cols.by
      /\ UNCHANGED <<ins, loop, before, top>>
      /\ n' = IF ins.data.ty \in {VEC, STR} THEN n + 1 ELSE n
  BY DEF WriteElement, InLoop, StoreInv, IInv
<1>2. /\ Row \in 0 .. Width(loop.rows) - 1 /\ Col \in 0 .. Width(loop.cols) - 1
      /\ Row' = Row /\ Col' = Col + 1
      /\ Visited' = Visited \union {<<Row, Col>>} /\ <<Row, Col>> \notin Visited
  BY <1>1, VisitedElement
<1>3. Place(<<Row, Col>>) = Cell /\ Assigned(<<Row, Col>>) = Rhs
  BY <1>1, WrittenNext
<1>4. Visited \subseteq All /\ <<Row, Col>> \in All
  BY <1>2 DEF Visited
<1>5. /\ v \in Vars /\ Fits(before, v) /\ before \in Memory /\ mem \in Memory
  BY <1>1, Writing
<1>6. mem' \in Memory
  BY DEF IInv, TypeOK, Memory
<1>7. /\ \A pq \in All : Place(pq) \in DOMAIN mem /\ Place(pq) \notin Header(v)
      /\ \A pq, st \in All : Place(pq) = Place(st) => pq = st
  <2>1. Slot(v) \subseteq DOMAIN InitMem /\ DOMAIN mem = DOMAIN InitMem
    BY <1>5, SlotFacts DEF Memory
  <2> QED
    BY <1>1, <2>1, Places
<1>8. /\ \A pq \in Visited : mem[Place(pq)] = Assigned(pq)
      /\ \A a \in DOMAIN mem : mem[a] # before[a] => \E pq \in Visited : a = Place(pq)
  BY <1>1 DEF StoreInv, PrefixWritten, WritesOK, WriteOps
<1> HIDE DEF All, v
<1>9. /\ \A pq \in Visited' : mem'[Place(pq)] = Assigned(pq)
      /\ \A a \in DOMAIN mem' : mem'[a] # before[a] => \E pq \in Visited' : a = Place(pq)
  <2>1. ASSUME NEW pq \in Visited' PROVE mem'[Place(pq)] = Assigned(pq)
    <3>1. CASE pq = <<Row, Col>>
      BY <1>1, <1>3, <1>4, <1>7, <3>1
    <3>2. CASE pq # <<Row, Col>>
      <4>1. pq \in Visited /\ Place(pq) # Cell /\ Place(pq) \in DOMAIN mem
        BY <1>2, <1>3, <1>4, <1>7, <3>2
      <4> QED
        BY <1>1, <1>8, <4>1
    <3> QED
      BY <3>1, <3>2
  <2>2. ASSUME NEW a \in DOMAIN mem', mem'[a] # before[a]
        PROVE  \E pq \in Visited' : a = Place(pq)
    <3>1. CASE a = Cell
      BY <1>2, <1>3, <3>1
    <3>2. CASE a # Cell
      BY <1>1, <1>2, <1>8, <2>2, <3>2
    <3> QED
      BY <3>1, <3>2
  <2> QED
    BY <2>1, <2>2
<1>10. PrefixWritten'
  BY <1>1, <1>9, PlacesSame DEF PrefixWritten
<1>11. NumRows(mem', v) = NumRows(before, v) /\ NumCols(mem', v) = NumCols(before, v)
  <2>1. \A a \in Header(v) : mem'[a] = before[a]
    <3> SUFFICES ASSUME NEW a \in Header(v), mem'[a] # before[a] PROVE FALSE
      OBVIOUS
    <3>1. a \in DOMAIN mem'
      BY <1>5, <1>6, HeaderInSlot DEF Memory
    <3>2. PICK pq \in Visited' : a = Place(pq)
      BY <1>9, <3>1
    <3> QED
      BY <1>2, <1>4, <1>7, <3>2
  <2> QED
    BY <1>5, <1>6, <2>1, SameHeader
<1>12. KeptOK'
  BY <1>1 DEF StoreInv, KeptOK, Fits, NumRows, NumCols
<1>13. WritesOK'
  <2>1. WritesOK /\ ins' = ins /\ loop' = loop /\ before' = before
    BY <1>1 DEF StoreInv
  <2>2. NumRows(mem, ins.var)' = NumRows(before, ins.var) /\ NumCols(mem, ins.var)' = NumCols(before, ins.var)
    BY <1>1, <1>11 DEF v, NumRows, NumCols
  <2>3. NumRows(before, ins.var)' = NumRows(before, ins.var) /\ NumCols(before, ins.var)' = NumCols(before, ins.var)
    BY <1>1 DEF NumRows, NumCols
  <2>4. ins.data.ty \in {STR, VEC} =>
          n' = Row' * Width(loop.cols) + Col' /\ n' <= Len(ins.data.elems)
    <3> SUFFICES ASSUME ins.data.ty \in {STR, VEC}
                 PROVE  n' = Row' * Width(loop.cols) + Col' /\ n' <= Len(ins.data.elems)
      OBVIOUS
    <3>1. n = Row * Width(loop.cols) + Col /\ n' = n + 1 /\ n < Len(ins.data.elems)
      BY <1>1, <2>1 DEF WritesOK, HasRhs, REAL, STR, VEC, MAT
    <3>2. Width(loop.cols) \in Nat /\ Row \in Nat /\ Col \in Nat /\ n \in Nat
      BY <1>1, <1>2, Loops DEF StoreInv, IInv, TypeOK
    <3>3. Len(ins.data.elems) \in Nat
      BY LenProperties DEF StoreInv, IInv, TypeOK, IsDatum
    <3> DEFINE w == Row * Width(loop.cols)
    <3>4. w \in Nat
      BY <3>2
    <3> HIDE DEF w
    <3>5. n' = w + (Col + 1) /\ n' <= Len(ins.data.elems)
      BY <3>1, <3>2, <3>3, <3>4 DEF w
    <3> QED
      BY <1>2, <3>5 DEF w
  <2>5. ins.data.ty = MAT => \A pq \in Visited' : pq[1] < ins.data.rows /\ pq[2] < ins.data.cols
    <3> SUFFICES ASSUME ins.data.ty = MAT, NEW pq \in Visited'
                 PROVE  pq[1] < ins.data.rows /\ pq[2] < ins.data.cols
      OBVIOUS
    <3>1. Row < ins.data.rows /\ Col < ins.data.cols
      BY <1>1 DEF HasRhs, MAT, REAL
    <3> QED
      BY <1>1, <1>2, <2>1, <3>1 DEF WritesOK
  <2> QED
    BY <1>1, <2>1, <2>2, <2>3, <2>4, <2>5 DEF WritesOK
<1> QED
  BY <1>1, <1>10, <1>12, <1>13 DEF StoreInv, ReadsOK

LEMMA WriteStopped ==
  ASSUME StoreInv, OutOfBounds, IInv'
  PROVE  StoreInv'
<1>1. pc = "write" /\ pc' = "thrown" /\ UNCHANGED <<mem, before, top, ins, loop, i, j, n>>
  BY DEF OutOfBounds, InLoop, Stop, local
<1>2. Visited' = Visited
  BY <1>1 DEF Visited, Row, Col, Width
<1>3. PrefixWritten'
  BY <1>1, <1>2, PrefixSame DEF StoreInv
<1>4. KeptOK'
  BY <1>1 DEF StoreInv, KeptOK, Fits, NumRows, NumCols
<1> QED
  BY <1>1, <1>3, <1>4 DEF StoreInv, WritesOK, ReadsOK

LEMMA RowEnded ==
  ASSUME StoreInv, NextRow, IInv'
  PROVE  StoreInv'
<1>1. /\ pc \in {"read", "write"} /\ pc' = pc /\ i # loop.rows.to /\ j = loop.cols.to /\ LoopOK
      /\ i' = i + loop.rows.by /\ j' = loop.cols.from
      /\ UNCHANGED <<mem, before, top, ins, loop, n, new>>
  BY DEF NextRow, StoreInv, IInv
<1>2. /\ Row \in Nat /\ Row' = Row + 1 /\ Col' = 0 /\ Col = Width(loop.cols)
      /\ Visited' = Visited
  BY <1>1, VisitedRow
<1>3. PrefixWritten'
  BY <1>1, <1>2, PrefixSame DEF StoreInv
<1>4. KeptOK'
  BY <1>1 DEF StoreInv, KeptOK, Fits, NumRows, NumCols
<1>5. WritesOK'
  <2>1. SUFFICES ASSUME pc = "write" PROVE WritesOK'
    BY <1>1 DEF WritesOK
  <2>2. Row * Width(loop.cols) + Col = Row' * Width(loop.cols) + Col'
    <3> DEFINE W == Width(loop.cols)
    <3>1. W \in Nat
      BY <1>1, Loops
    <3> HIDE DEF W
    <3>2. Row * W + W = (Row + 1) * W + 0
      BY <1>2, <3>1
    <3> QED
      BY <1>2, <3>2 DEF W
  <2>3. WritesOK
    BY DEF StoreInv
  <2>4. /\ NumRows(mem, ins.var)' = NumRows(mem, ins.var) /\ NumCols(mem, ins.var)' = NumCols(mem, ins.var)
        /\ NumRows(before, ins.var)' = NumRows(before, ins.var)
        /\ NumCols(before, ins.var)' = NumCols(before, ins.var)
    BY <1>1 DEF NumRows, NumCols
  <2> QED
    BY <1>1, <1>2, <2>1, <2>2, <2>3, <2>4 DEF WritesOK
<1>6. ReadsOK'
  BY <1>1, <1>2 DEF StoreInv, ReadsOK
<1> QED
  BY <1>3, <1>4, <1>5, <1>6 DEF StoreInv

\* An instruction begins.
LEMMA Entered ==
  ASSUME StoreInv, pc = "ready", top # Nothing, NEW where \in {"read", "write"},
         NEW op, NEW v, NEW rs, NEW cs, NEW l, Proper(l.rows), Proper(l.cols),
         Enter(where, Call(op, v, rs, cs), l)
  PROVE  /\ KeptOK' /\ PrefixWritten' /\ Visited' = {} /\ mem' = mem /\ before' = mem
         /\ ins' = [op |-> op, var |-> v, rows |-> rs, cols |-> cs, data |-> top]
         /\ loop' = l /\ n' = 0 /\ Row' = 0 /\ Col' = 0 /\ pc' = where /\ top' = Nothing
<1>1. /\ ins' = [op |-> op, var |-> v, rows |-> rs, cols |-> cs, data |-> top]
      /\ loop' = l /\ n' = 0 /\ i' = l.rows.from /\ j' = l.cols.from /\ pc' = where
      /\ UNCHANGED <<mem, before>> /\ top' = Nothing
  BY DEF Enter, Call
<1>2. Row' = 0 /\ Col' = 0
  BY <1>1 DEF Row, Col, Proper
<1>3. Visited' = {}
  BY <1>2 DEF Visited
<1>4. mem = before
  BY DEF StoreInv, KeptOK
<1>5. PrefixWritten'
  BY <1>1, <1>3, <1>4, PrefixNone DEF PrefixWritten
<1>6. KeptOK'
  BY <1>1, <1>4 DEF StoreInv, KeptOK, Fits, NumRows, NumCols
<1> QED
  BY <1>1, <1>2, <1>3, <1>4, <1>5, <1>6

LEMMA Stopped ==
  ASSUME StoreInv, pc = "ready", IInv', NEW how \in {"thrown", "undefined"}, Stop(how)
  PROVE  StoreInv'
BY QuietStep DEF Stop, local, StoreInv, KeptOK

LEMMA WriteBegins ==
  ASSUME StoreInv, IInv', NEW v \in Vars, NEW op \in WriteOps, NEW rs, NEW cs \in Int \X Int, NEW accepted,
         NEW rows, NEW cols, WriteTo(v, Call(op, v, rs, cs), accepted, rows, cols),
         accepted => top.ty \in {REAL, STR, VEC, MAT},
         accepted /\ NumRows(mem, v) # 0 /\ NumCols(mem, v) # 0 =>
           Meant(rows, rs, NumRows(mem, v)) /\ Meant(cols, cs, NumCols(mem, v))
  PROVE  StoreInv'
<1>1. pc = "ready" /\ top # Nothing
  BY DEF WriteTo, Instruction
<1>2. CASE Stop("thrown") \/ Stop("undefined")
  BY <1>1, <1>2, Stopped
<1> DEFINE l == [rows |-> rows, cols |-> cols, base |-> Addr[v] + HeaderSize(mem[Addr[v]]),
                 width |-> NumCols(mem, v), ty |-> mem[Addr[v]]]
<1>3. CASE /\ accepted /\ NumRows(mem, v) # 0 /\ NumCols(mem, v) # 0
           /\ Enter("write", Call(op, v, rs, cs), l)
  <2>1. l.rows = rows /\ l.cols = cols
    OBVIOUS
  <2> HIDE DEF l
  <2>2. NumRows(mem, v) \in Nat \ {0} /\ NumCols(mem, v) \in Nat \ {0}
    BY <1>3, LengthsTyped DEF StoreInv
  <2>3. Meant(rows, rs, NumRows(mem, v)) /\ Meant(cols, cs, NumCols(mem, v))
    BY <1>3
  <2>4. Proper(rows) /\ Proper(cols)
    BY <2>2, <2>3, MeantNth
  <2>5. /\ KeptOK' /\ PrefixWritten' /\ Visited' = {} /\ mem' = mem /\ before' = mem
        /\ ins' = [op |-> op, var |-> v, rows |-> rs, cols |-> cs, data |-> top]
        /\ loop' = l /\ n' = 0 /\ Row' = 0 /\ Col' = 0 /\ pc' = "write"
    BY <1>1, <1>3, <2>1, <2>4, Entered
  <2>6. /\ NumRows(mem', v) = NumRows(mem, v) /\ NumCols(mem', v) = NumCols(mem, v)
        /\ NumRows(before', v) = NumRows(mem, v) /\ NumCols(before', v) = NumCols(mem, v)
    BY <2>5
  <2>7. Width(cols) \in Nat /\ Len(top.elems) \in Nat
    BY <2>4, LenProperties DEF Proper, StoreInv, IInv, TypeOK, IsDatum
  <2>8. WritesOK'
    <3>1. ins'.op = op /\ ins'.var = v /\ ins'.rows = rs /\ ins'.cols = cs /\ ins'.data = top
      BY <2>5
    <3>2. Row' * Width(loop'.cols) + Col' = 0 /\ n' <= Len(top.elems)
      BY <2>1, <2>5, <2>7
    <3>3. top.ty \in {REAL, STR, VEC, MAT}
      BY <1>3
    <3>4. /\ NumRows(mem, ins.var)' = NumRows(mem, v) /\ NumCols(mem, ins.var)' = NumCols(mem, v)
          /\ NumRows(before, ins.var)' = NumRows(mem, v)
          /\ NumCols(before, ins.var)' = NumCols(mem, v)
      BY <2>6, <3>1 DEF NumRows, NumCols
    <3> QED
      BY <2>1, <2>3, <2>5, <3>1, <3>2, <3>3, <3>4 DEF WritesOK, Width
  <2> QED
    BY <2>5, <2>8 DEF StoreInv, ReadsOK
<1> QED
  BY <1>2, <1>3 DEF WriteTo

LEMMA WriteBegun ==
  ASSUME StoreInv, IInv', NEW v \in Vars, NEW a \in Indices, NEW b \in Indices,
         NEW c \in Indices, NEW d \in Indices,
         WrArr1D(v, a) \/ WrArr1DR(v, a, b) \/ WrArr2D(v, a, b) \/ WrArr2DR(v, a, b, c, d)
  PROVE  StoreInv'
<1> DEFINE rows == NumRows(mem, v)
           cols == NumCols(mem, v)
<1>1. rows \in Nat /\ cols \in Nat /\ (mem[Addr[v]] # MAT => rows = 1)
  BY LengthsTyped DEF StoreInv
<1>2. /\ rows # 0 => rows \in Nat \ {0}
      /\ cols # 0 => cols \in Nat \ {0}
  BY <1>1
<1>3. CASE WrArr1D(v, a)
  <2> DEFINE all  == <<>>
             pair == <<a, a>>
  <2>1. WriteTo(v, Call("WRARR1D", v, all, pair), mem[Addr[v]] = VEC /\ top.ty = REAL,
                Only, Write(a, a, cols))
    BY <1>3 DEF WrArr1D
  <2>2. mem[Addr[v]] = VEC => Meant(Only, all, rows)
    BY <1>1, WholeMeant DEF VEC, MAT
  <2>8. pair \in Int \X Int
    BY PairTyped
  <2> HIDE DEF all
  <2>3. cols # 0 => Meant(Write(a, a, cols), pair, cols)
    <3> HIDE DEF cols
    <3> QED
      BY <1>2, RangesMeant
  <2> HIDE DEF pair
  <2> QED
    BY <2>1, <2>2, <2>3, <2>8, WriteBegins DEF WriteOps
<1>4. CASE WrArr1DR(v, a, b)
  <2> DEFINE all  == <<>>
             pair == <<a, b>>
             ok   == \/ mem[Addr[v]] = VEC /\ top.ty \in {VEC, REAL}
                     \/ mem[Addr[v]] = STR /\ top.ty = STR
  <2>1. WriteTo(v, Call("WRARR1DR", v, all, pair), ok, Only, Write(a, b, cols))
    BY <1>4 DEF WrArr1DR
  <2>2. ok => Meant(Only, all, rows) /\ top.ty \in {REAL, STR, VEC, MAT}
    BY <1>1, WholeMeant DEF VEC, MAT, STR
  <2>8. pair \in Int \X Int
    BY PairTyped
  <2> HIDE DEF all
  <2>3. cols # 0 => Meant(Write(a, b, cols), pair, cols)
    <3> HIDE DEF cols
    <3> QED
      BY <1>2, RangesMeant
  <2> HIDE DEF pair, ok
  <2> QED
    BY <2>1, <2>2, <2>3, <2>8, WriteBegins DEF WriteOps
<1>5. CASE WrArr2D(v, a, b)
  <2> DEFINE pair1 == <<a, a>>
             pair2 == <<b, b>>
  <2>1. WriteTo(v, Call("WRARR2D", v, pair1, pair2), mem[Addr[v]] = MAT /\ top.ty = REAL,
                Write(a, a, rows), Write(b, b, cols))
    BY <1>5 DEF WrArr2D
  <2>2. /\ rows # 0 => Meant(Write(a, a, rows), pair1, rows)
        /\ cols # 0 => Meant(Write(b, b, cols), pair2, cols)
    <3> HIDE DEF rows, cols
    <3> QED
      BY <1>2, RangesMeant
  <2>8. pair1 \in Int \X Int /\ pair2 \in Int \X Int
    BY PairTyped
  <2> HIDE DEF pair1, pair2
  <2> QED
    BY <2>1, <2>2, <2>8, WriteBegins DEF WriteOps
<1>6. CASE WrArr2DR(v, a, b, c, d)
  <2> DEFINE pair1 == <<a, b>>
             pair2 == <<c, d>>
  <2>1. WriteTo(v, Call("WRARR2DR", v, pair1, pair2), mem[Addr[v]] = MAT /\ top.ty \in {REAL, VEC, MAT},
                Write(a, b, rows), Write(c, d, cols))
    BY <1>6 DEF WrArr2DR
  <2>2. /\ rows # 0 => Meant(Write(a, b, rows), pair1, rows)
        /\ cols # 0 => Meant(Write(c, d, cols), pair2, cols)
    <3> HIDE DEF rows, cols
    <3> QED
      BY <1>2, RangesMeant
  <2>8. pair1 \in Int \X Int /\ pair2 \in Int \X Int
    BY PairTyped
  <2> HIDE DEF pair1, pair2
  <2> QED
    BY <2>1, <2>2, <2>8, WriteBegins DEF WriteOps
<1> QED
  BY <1>3, <1>4, <1>5, <1>6

LEMMA ReadBegins ==
  ASSUME StoreInv, IInv', NEW op \in ReadOps, NEW v, NEW rs, NEW cs \in Int \X Int, NEW accepted, NEW ty, NEW rows, NEW cols,
         ReadFrom(Call(op, v, rs, cs), accepted, Loop(ty, rows, cols)),
         accepted /\ top.rows # 0 /\ top.cols # 0 =>
           /\ Proper(rows) /\ Proper(cols)
           /\ op = "RDARR2D" => ty = REAL
           /\ op # "RDARR2D" => /\ ty = Abstract!SelectedType(op, top.ty)
                                /\ Meant(rows, rs, top.rows) /\ Meant(cols, cs, top.cols)
  PROVE  StoreInv'
<1>1. pc = "ready" /\ top # Nothing
  BY DEF ReadFrom, Instruction
<1>2. CASE Stop("thrown") \/ Stop("undefined")
  BY <1>1, <1>2, Stopped
<1> DEFINE l == Loop(ty, rows, cols)
<1>3. CASE /\ accepted /\ top.rows # 0 /\ top.cols # 0
           /\ Enter("read", Call(op, v, rs, cs), l)
  <2>1. l.rows = rows /\ l.cols = cols /\ l.width = top.cols /\ l.ty = ty
    BY DEF Loop
  <2> HIDE DEF l
  <2>2. top.rows \in Nat \ {0} /\ top.cols \in Nat \ {0}
    BY <1>3 DEF StoreInv, IInv, TypeOK, IsDatum
  <2>3. /\ KeptOK' /\ PrefixWritten' /\ Visited' = {}
        /\ ins' = [op |-> op, var |-> v, rows |-> rs, cols |-> cs, data |-> top]
        /\ loop' = l /\ pc' = "read"
    BY <1>1, <1>3, <2>1, Entered
  <2>4. op # "RDARR2D" => Below(rows, top.rows) /\ Below(cols, top.cols)
    BY <1>3, <2>2, MeantNth
  <2>5. ins'.op = op /\ ins'.rows = rs /\ ins'.cols = cs /\ ins'.data = top
    BY <2>3
  <2>6. ReadsOK'
    BY <1>3, <2>1, <2>3, <2>4, <2>5 DEF ReadsOK
  <2> QED
    BY <2>3, <2>6 DEF StoreInv, WritesOK
<1> QED
  BY <1>2, <1>3 DEF ReadFrom

LEMMA ReadBegun ==
  ASSUME StoreInv, IInv', NEW a \in Indices, NEW b \in Indices, NEW c \in Indices, NEW d \in Indices,
         \/ RdArr1D(a) \/ RdArr1DR(a, b) \/ RdArr1DRMat(a, b)
         \/ RdArr2D(a, b) \/ RdArr2DR(a, b, c, d)
  PROVE  StoreInv'
<1> DEFINE rows == top.rows
           cols == top.cols
<1>1. rows \in Nat /\ cols \in Nat /\ (top.ty \in {STR, VEC} => rows = 1)
  BY DEF StoreInv, IInv, TypeOK, IsDatum
<1>2. /\ rows # 0 => rows \in Nat \ {0}
      /\ cols # 0 => cols \in Nat \ {0}
  BY <1>1
<1>3. \A r, pair : /\ rows # 0 /\ Meant(r, pair, rows) => Proper(r)
                   /\ cols # 0 /\ Meant(r, pair, cols) => Proper(r)
  <2> HIDE DEF rows, cols
  <2> QED
    BY <1>2, MeantNth
<1>4. CASE RdArr1D(a)
  <2> DEFINE all  == <<>>
             pair == <<a, a>>
             ty   == CASE top.ty = VEC -> REAL [] top.ty = MAT -> VEC [] OTHER -> top.ty
  <2>1. ReadFrom(Call("RDARR1D", "", all, pair), top.ty \in Arrays, Loop(ty, Whole(rows), Read(a, a, cols)))
    BY <1>4 DEF RdArr1D
  <2>2. ty = Abstract!SelectedType("RDARR1D", top.ty)
    BY DEF Abstract!SelectedType
  <2>3. Meant(Whole(rows), all, rows)
    BY WholeMeant
  <2>4. cols # 0 => Meant(Read(a, a, cols), pair, cols)
    <3> HIDE DEF cols
    <3> QED
      BY <1>2, RangesMeant
  <2>8. pair \in Int \X Int
    BY PairTyped
  <2> HIDE DEF all, pair, ty
  <2> QED
    BY <1>3, <2>1, <2>2, <2>3, <2>4, <2>8, ReadBegins DEF ReadOps
<1>5. CASE RdArr1DR(a, b)
  <2> DEFINE all  == <<>>
             pair == <<a, b>>
  <2>1. ReadFrom(Call("RDARR1DR", "", all, pair), top.ty \in Arrays, Loop(top.ty, Only, Read(a, b, cols)))
    BY <1>5 DEF RdArr1DR
  <2>2. top.ty = Abstract!SelectedType("RDARR1DR", top.ty)
    BY DEF Abstract!SelectedType
  <2>3. top.ty \in Arrays => Meant(Only, all, rows)
    BY <1>1, <1>5, WholeMeant DEF RdArr1DR, Arrays, STR, VEC, MAT
  <2>4. cols # 0 => Meant(Read(a, b, cols), pair, cols)
    <3> HIDE DEF cols
    <3> QED
      BY <1>2, RangesMeant
  <2>8. pair \in Int \X Int
    BY PairTyped
  <2> HIDE DEF all, pair
  <2> QED
    BY <1>3, <2>1, <2>2, <2>3, <2>4, <2>8, ReadBegins DEF ReadOps
<1>6. CASE RdArr1DRMat(a, b)
  <2>1. CASE Instruction /\ (Stop("thrown") \/ Stop("undefined"))
    BY <2>1, Stopped DEF Instruction
  <2> DEFINE all  == <<>>
             pair == <<a, b>>
  <2>2. CASE top.ty = MAT /\ ReadFrom(Call("RDARR1DR", "", all, pair), TRUE, Loop(MAT, Whole(rows), Read(a, b, cols)))
    <3>1. MAT = Abstract!SelectedType("RDARR1DR", top.ty)
      BY <2>2 DEF Abstract!SelectedType
    <3>2. Meant(Whole(rows), all, rows)
      BY WholeMeant
    <3>3. cols # 0 => Meant(Read(a, b, cols), pair, cols)
      <4> HIDE DEF cols
      <4> QED
        BY <1>2, RangesMeant
    <3>8. pair \in Int \X Int
      BY PairTyped
    <3> HIDE DEF all, pair
    <3> QED
      BY <1>3, <2>2, <3>1, <3>2, <3>3, <3>8, ReadBegins DEF ReadOps
  <2> QED
    BY <1>6, <2>1, <2>2 DEF RdArr1DRMat
<1>7. CASE RdArr2D(a, b)
  <2> DEFINE row == SafeIndex(a, cols)
             col == SafeIndex(b, cols) + 1
             pair1 == <<a, a>>
             pair2 == <<b, b>>
  <2>1. cols # 0 => row \in Nat /\ col \in Nat
    <3>1. a \in Int /\ b \in Int
      BY ValueAssumption
    <3> HIDE DEF cols
    <3>2. cols # 0 => SafeIndex(a, cols) \in Nat /\ SafeIndex(b, cols) \in Nat
      BY <1>1, <3>1, SafeIndexInRange
    <3> QED
      BY <3>2
  <2>2. cols # 0 => Proper(FromTo(row, row)) /\ Proper(FromTo(col, col))
    <3> HIDE DEF row, col
    <3> QED  BY <2>1, RangeProper
  <2>3. ReadFrom(Call("RDARR2D", "", pair1, pair2), top.ty = MAT,
                 Loop(REAL, FromTo(row, row), FromTo(col, col)))
    BY <1>7 DEF RdArr2D
  <2>8. pair1 \in Int \X Int /\ pair2 \in Int \X Int
    BY PairTyped
  <2> HIDE DEF row, col, pair1, pair2
  <2> QED
    BY <2>2, <2>3, <2>8, ReadBegins DEF ReadOps
<1>8. CASE RdArr2DR(a, b, c, d)
  <2> DEFINE pair1 == <<a, b>>
             pair2 == <<c, d>>
  <2>1. ReadFrom(Call("RDARR2DR", "", pair1, pair2), top.ty = MAT, Loop(MAT, Read(a, b, rows), Read(c, d, cols)))
    BY <1>8 DEF RdArr2DR
  <2>2. top.ty = MAT => MAT = Abstract!SelectedType("RDARR2DR", top.ty)
    BY DEF Abstract!SelectedType
  <2>3. /\ rows # 0 => Meant(Read(a, b, rows), pair1, rows)
        /\ cols # 0 => Meant(Read(c, d, cols), pair2, cols)
    <3> HIDE DEF rows, cols
    <3> QED
      BY <1>2, RangesMeant
  <2>8. pair1 \in Int \X Int /\ pair2 \in Int \X Int
    BY PairTyped
  <2> HIDE DEF pair1, pair2
  <2> QED
    BY <1>3, <2>1, <2>2, <2>3, <2>8, ReadBegins DEF ReadOps
<1> QED
  BY <1>4, <1>5, <1>6, <1>7, <1>8

\* Elements before others are stored before them.
LEMMA Order ==
  ASSUME NEW W \in Nat, NEW p \in Nat, NEW q \in 0 .. W - 1, NEW r \in Nat, NEW c \in Nat,
         p < r \/ (p = r /\ q < c)
  PROVE  p * W + q < r * W + c /\ p * W + q \in Nat
<1>1. p * W \in Nat /\ r * W \in Nat
  OBVIOUS
<1>2. CASE p < r
  <2>1. r - p - 1 \in Nat /\ (r - p - 1) * W \in Nat
    BY <1>2
  <2>2. r * W = p * W + W + (r - p - 1) * W
    BY <1>2
  <2> QED
    BY <1>1, <2>1, <2>2
<1>3. CASE p = r /\ q < c
  BY <1>1, <1>3
<1> QED
  BY <1>2, <1>3

LEMMA ElementCopied ==
  ASSUME StoreInv, ReadElement, IInv'
  PROVE  StoreInv'
<1> DEFINE W == Width(loop.cols)
<1>1. /\ pc = "read" /\ pc' = "read" /\ i # loop.rows.to /\ j # loop.cols.to /\ LoopOK
      /\ i' = i /\ j' = j + loop.cols.by
      /\ UNCHANGED <<mem, before, top, ins, loop>>
  BY DEF ReadElement, InLoop, StoreInv, IInv
<1>2. /\ Row \in 0 .. Width(loop.rows) - 1 /\ Col \in 0 .. W - 1
      /\ Visited' = Visited \union {<<Row, Col>>} /\ <<Row, Col>> \notin Visited
  BY <1>1, VisitedElement
<1>3. KeptOK'
  BY <1>1 DEF StoreInv, KeptOK, Fits, NumRows, NumCols
<1>4. ins.op \in ReadOps
  BY <1>1 DEF StoreInv, ReadsOK
<1>5. PrefixWritten'
  BY <1>1, <1>4 DEF PrefixWritten, ReadOps
<1>6. PICK x \in ElementAt(i * loop.width + j) : new' = Append(new, x)
  BY DEF ReadElement
<1>7. x \in Int
  BY <1>6, ElementInt DEF StoreInv
<1>8. new \in Seq(Int) /\ Len(new) = Row * W + Col
  <2>1. Row = Done(i, loop.rows) /\ Col = Done(j, loop.cols)
    BY <1>1, Loops
  <2> QED
    BY <1>1, <2>1 DEF StoreInv, IInv, ReadOK, TypeOK
<1>9. /\ \A k \in 1 .. Len(new) : new'[k] = new[k]
      /\ new'[Len(new) + 1] = x /\ Len(new) \in Nat
  BY <1>6, <1>7, <1>8, AppendProperties
<1>10. ReadsOK'
  <2>1. SUFFICES ASSUME ins.op # "RDARR2D", NEW pq \in Visited'
                 PROVE  new'[pq[1] * W + pq[2] + 1] =
                          ins.data.elems[Nth(ins.rows, ins.data.rows, pq[1]) * ins.data.cols
                                           + Nth(ins.cols, ins.data.cols, pq[2]) + 1]
    BY <1>1 DEF StoreInv, ReadsOK
  <2> DEFINE rows == ins.data.rows
             cols == ins.data.cols
  <2>2. /\ Below(loop.rows, rows) /\ Below(loop.cols, cols) /\ loop.width = cols
        /\ Meant(loop.rows, ins.rows, rows) /\ Meant(loop.cols, ins.cols, cols)
    BY <1>1, <2>1 DEF StoreInv, ReadsOK
  <2>3. /\ rows \in Nat /\ cols \in Nat /\ Len(ins.data.elems) = rows * cols
        /\ Proper(loop.rows) /\ Proper(loop.cols) /\ At(i, loop.rows) /\ At(j, loop.cols)
        /\ Row = Done(i, loop.rows) /\ Col = Done(j, loop.cols)
    BY <1>1, Loops DEF StoreInv, IInv, TypeOK, IsDatum
  <2>4. CASE pq = <<Row, Col>>
    <3> HIDE DEF rows, cols
    <3>1. i \in Nat /\ j \in Nat /\ i < rows /\ j < cols
      BY <1>1, <2>2, <2>3, AtElement
    <3>2. rows \in Nat \ {0} /\ cols \in Nat \ {0}
      BY <2>3, <3>1
    <3>3. Nth(ins.rows, rows, Row) = i /\ Nth(ins.cols, cols, Col) = j
      BY <1>1, <2>2, <2>3, <3>2, MeantNth
    <3>4. i * cols + j \in 0 .. rows * cols - 1
      BY <2>3, <3>1, InTable
    <3>5. rows * cols \in Nat
      BY <2>3
    <3>6. i * cols + j < Len(ins.data.elems)
      BY <2>3, <3>4, <3>5
    <3>7. x = ins.data.elems[i * cols + j + 1]
      BY <1>6, <2>2, <3>6 DEF ElementAt
    <3>8. pq[1] = Row /\ pq[2] = Col
      BY <2>4
    <3>9. new'[Row * W + Col + 1] = x
      BY <1>8, <1>9
    <3> QED
      BY <3>3, <3>7, <3>8, <3>9 DEF rows, cols
  <2>5. CASE pq # <<Row, Col>>
    <3>1. pq \in Visited
      BY <1>2, <2>5
    <3>2. /\ pq[1] \in Nat /\ pq[2] \in 0 .. W - 1 /\ W \in Nat /\ Row \in Nat /\ Col \in Nat
          /\ pq[1] < Row \/ (pq[1] = Row /\ pq[2] < Col)
      <4>1. Width(loop.rows) \in Nat /\ W \in Nat
        BY <1>1, Loops
      <4> QED
        BY <1>2, <3>1, <4>1 DEF Visited
    <3>3. pq[1] * W + pq[2] < Row * W + Col /\ pq[1] * W + pq[2] \in Nat
      <4> HIDE DEF W
      <4> QED
        BY <3>2, Order
    <3>4. new'[pq[1] * W + pq[2] + 1] = new[pq[1] * W + pq[2] + 1]
      <4> DEFINE k == pq[1] * W + pq[2]
      <4>1. k \in Nat /\ k < Len(new)
        BY <1>8, <3>3
      <4> HIDE DEF k
      <4>2. new'[k + 1] = new[k + 1]
        BY <1>9, <4>1
      <4> QED
        BY <4>2 DEF k
    <3> QED
      BY <1>1, <2>1, <3>1, <3>4 DEF StoreInv, ReadsOK
  <2> QED
    BY <2>4, <2>5
<1> QED
  BY <1>1, <1>3, <1>5, <1>10 DEF StoreInv, WritesOK

LEMMA StoreInvStep ==
  ASSUME StoreInv, [Next]_vars
  PROVE  StoreInv'
<1>0. IInv'
  BY NextIInv DEF StoreInv
<1>1. CASE Compute
  <2>1. /\ pc = "ready" /\ pc' \in {"ready", "undefined"} /\ ins' = ins
        /\ mem' = before' \/ UNCHANGED <<mem, before>>
    BY <1>1 DEF Compute, PushReal, PushStr, MakeVec, MakeMat, RdMem, OpArrayCast, WrMem, Ready, local
  <2> QED
    BY <1>0, <2>1, QuietStep DEF StoreInv, KeptOK
<1>2. CASE Array
  BY <1>0, <1>2, WriteBegun, ReadBegun DEF Array
<1>3. CASE Iterate
  <2>1. CASE EndWrite
    BY <1>0, <2>1, QuietStep DEF EndWrite
  <2>2. CASE EndRead
    BY <1>0, <2>2, QuietStep DEF EndRead, StoreInv, KeptOK
  <2> QED
    BY <1>0, <1>3, <2>1, <2>2, ElementWritten, WriteStopped, RowEnded, ElementCopied DEF Iterate
<1>4. CASE UNCHANGED vars
  <2>1. /\ UNCHANGED <<mem, top, pc, ins, loop, i, j, n, new, before>>
    BY <1>4 DEF vars
  <2>2. Visited' = Visited /\ Row' = Row /\ Col' = Col
    BY <2>1 DEF Visited, Row, Col, Width
  <2>3. PrefixWritten'
    BY <2>1, <2>2, PrefixSame DEF StoreInv
  <2>4. KeptOK'
    BY <2>1 DEF StoreInv, KeptOK, Fits, NumRows, NumCols
  <2>5. WritesOK'
    <3>1. /\ NumRows(mem, ins.var)' = NumRows(mem, ins.var) /\ NumCols(mem, ins.var)' = NumCols(mem, ins.var)
          /\ NumRows(before, ins.var)' = NumRows(before, ins.var)
          /\ NumCols(before, ins.var)' = NumCols(before, ins.var)
      BY <2>1 DEF NumRows, NumCols
    <3>2. WritesOK
      BY DEF StoreInv
    <3> QED
      BY <2>1, <2>2, <3>1, <3>2 DEF WritesOK
  <2>6. ReadsOK'
    BY <2>1, <2>2 DEF StoreInv, ReadsOK
  <2> QED
    BY <1>0, <2>3, <2>4, <2>5, <2>6 DEF StoreInv
<1> QED
  BY <1>1, <1>2, <1>3, <1>4 DEF Next

LEMMA InitStore == Init => StoreInv
<1> SUFFICES ASSUME Init PROVE StoreInv
  OBVIOUS
<1>1. IInv
  BY InitIInv
<1>2. /\ pc = "ready" /\ ins = NoIns /\ mem = before /\ before = InitMem
  BY DEF Init
<1>3. KeptOK
  BY <1>2, FrameAssumption DEF KeptOK
<1>4. PrefixWritten
  <2>1. ins.op = ""
    BY <1>2 DEF NoIns
  <2> QED
    BY <2>1 DEF PrefixWritten
<1> QED
  BY <1>1, <1>2, <1>3, <1>4 DEF StoreInv, WritesOK, ReadsOK

-------------------------------------------------------------------------------
(***************************************************************************)
(* The refinement of ArrayStore: between its steps an instruction is under *)
(* way, its datum taken and the store as it was before.                    *)
(***************************************************************************)
Stops == {"thrown", "undefined"}

LEMMA InitAbstract == Init => Abstract!Init
<1> SUFFICES ASSUME Init PROVE Abstract!Init
  OBVIOUS
<1>1. top = Nothing /\ ins = NoIns /\ pc = "ready"
  BY DEF Init
<1> QED
  BY <1>1 DEF Abstract!Init

LEMMA Stutters ==
  ASSUME UNCHANGED <<before, top, ins>>, pc \in Stops <=> pc' \in Stops
  PROVE  UNCHANGED Abstract!vars
BY DEF Abstract!vars, Contents, NumRows, NumCols, Stops

LEMMA Fails ==
  ASSUME UNCHANGED <<before, top, ins>>, pc \notin Stops, pc' \in Stops
  PROVE  Abstract!Next
BY DEF Abstract!Next, Abstract!Fail, Contents, NumRows, NumCols, Stops

LEMMA Begins ==
  ASSUME StoreInv, pc = "ready", top # Nothing, NEW where \in {"read", "write"}, NEW call, NEW l,
         Enter(where, call, l), ins'.data = top
  PROVE  Abstract!Next
<1>1. /\ ins = NoIns /\ ins' # NoIns /\ top' = Nothing /\ pc' = where /\ before' = before
  BY DEF StoreInv, KeptOK, Enter, NoIns
<1>2. Abstract!Running
  BY <1>1 DEF Abstract!Running
<1>3. Abstract!Begin
  BY <1>1, <1>2 DEF Abstract!Begin, Contents, NumRows, NumCols
<1> QED
  BY <1>3 DEF Abstract!Next

\* A datum has nothing but its type, its lengths and its elements.
TableOK == top = Datum(top.ty, top.rows, top.cols, top.elems)

LEMMA TableStep == TableOK /\ [Next]_vars => TableOK'
<1> SUFFICES ASSUME TableOK, [Next]_vars PROVE TableOK'
  OBVIOUS
<1>1. ASSUME NEW ty, NEW rows, NEW cols, NEW elems, top' = Datum(ty, rows, cols, elems)
      PROVE  TableOK'
  BY <1>1 DEF TableOK, Datum
<1>2. ASSUME top' = Nothing PROVE TableOK'
  BY <1>1, <1>2 DEF Nothing
<1>3. ASSUME top' = top PROVE TableOK'
  BY <1>3 DEF TableOK
<1>4. CASE Compute
  <2>1. CASE \E x \in Numbers : PushReal(x)
    BY <1>1, <2>1 DEF PushReal
  <2>2. CASE \E xs \in Lists : PushStr(xs) \/ MakeVec(xs)
    BY <1>1, <2>2 DEF PushStr, MakeVec
  <2>3. ASSUME NEW v \in Vars, MakeMat(v) \/ RdMem(v) PROVE TableOK'
    BY <1>1, <2>3 DEF MakeMat, RdMem, Contents
  <2>4. ASSUME NEW v \in Vars, OpArrayCast(v) PROVE TableOK'
    <3>1. CASE UNCHANGED top
      BY <1>3, <3>1
    <3> DEFINE s == CastShape(v)
    <3>2. CASE \E e : top' = [s EXCEPT !.elems = e]
      <4>1. PICK e : top' = [s EXCEPT !.elems = e]
        BY <3>2
      <4>2. top' = Datum(s.ty, s.rows, s.cols, e)
        BY <4>1 DEF CastShape, Datum
      <4> HIDE DEF s
      <4> QED
        BY <1>1, <4>2
    <3> QED
      BY <2>4, <3>1, <3>2 DEF OpArrayCast
  <2>5. ASSUME NEW v \in Vars, WrMem(v) PROVE TableOK'
    BY <1>2, <2>5 DEF WrMem
  <2> QED
    BY <1>4, <2>1, <2>2, <2>3, <2>4, <2>5 DEF Compute
<1>5. CASE Array
  <2>1. ASSUME NEW how, Stop(how) PROVE TableOK'
    BY <1>3, <2>1 DEF Stop
  <2>2. ASSUME NEW where, NEW call, NEW l, Enter(where, call, l) PROVE TableOK'
    BY <1>2, <2>2 DEF Enter
  <2>3. ASSUME NEW v, NEW call, NEW accepted, NEW rows, NEW cols, WriteTo(v, call, accepted, rows, cols)
        PROVE  TableOK'
    BY <2>1, <2>2, <2>3 DEF WriteTo
  <2>4. ASSUME NEW call, NEW accepted, NEW l, ReadFrom(call, accepted, l) PROVE TableOK'
    BY <2>1, <2>2, <2>4 DEF ReadFrom
  <2>5. ASSUME NEW v \in Vars, NEW a \in Indices, NEW b \in Indices, NEW c \in Indices, NEW d \in Indices,
               WrArr1D(v, a) \/ WrArr1DR(v, a, b) \/ WrArr2D(v, a, b) \/ WrArr2DR(v, a, b, c, d)
        PROVE  TableOK'
    BY <2>3, <2>5 DEF WrArr1D, WrArr1DR, WrArr2D, WrArr2DR
  <2>6. ASSUME NEW a \in Indices, NEW b \in Indices, NEW c \in Indices, NEW d \in Indices,
               \/ RdArr1D(a) \/ RdArr1DR(a, b) \/ RdArr1DRMat(a, b)
               \/ RdArr2D(a, b) \/ RdArr2DR(a, b, c, d)
        PROVE  TableOK'
    BY <2>1, <2>4, <2>6 DEF RdArr1D, RdArr1DR, RdArr1DRMat, RdArr2D, RdArr2DR
  <2> QED
    BY <1>5, <2>5, <2>6 DEF Array
<1>6. CASE Iterate
  <2>1. CASE EndRead
    BY <1>1, <2>1 DEF EndRead
  <2>2. CASE WriteElement \/ OutOfBounds \/ ReadElement \/ NextRow \/ EndWrite
    BY <1>3, <2>2 DEF WriteElement, OutOfBounds, Stop, ReadElement, NextRow, EndWrite
  <2> QED
    BY <1>6, <2>1, <2>2 DEF Iterate
<1>7. CASE UNCHANGED vars
  BY <1>3, <1>7 DEF vars
<1> QED
  BY <1>4, <1>5, <1>6, <1>7 DEF Next

\* An operand is pushed.
LEMMA Pushes ==
  ASSUME StoreInv, Ready, top = Nothing, before' = before,
         \/ \E x \in Numbers : top' = Datum(REAL, 1, 1, <<x>>)
         \/ \E xs \in Lists, ty \in {STR, VEC} : top' = Datum(ty, 1, Len(xs), xs)
         \/ \E v \in Vars : Type[v] = MAT /\ top' = Datum(MAT, Rows[v], Cols[v], [k \in 1 .. Rows[v] * Cols[v] |-> 0])
  PROVE  Abstract!Next
<1>1. pc = "ready" /\ pc' = "ready" /\ ins' = ins /\ ins = NoIns
  BY DEF Ready, StoreInv, KeptOK
<1> DEFINE Reals == {Datum(REAL, 1, 1, <<x>>) : x \in Numbers}
           Texts == {Datum(ty, 1, Len(xs), xs) : ty \in {STR, VEC}, xs \in Lists}
           Zeros == {Datum(MAT, Rows[v], Cols[v], [k \in 1 .. Rows[v] * Cols[v] |-> 0]) :
                       v \in {w \in Vars : Type[w] = MAT}}
<1>2. top' \in Reals \/ top' \in Texts \/ top' \in Zeros
  <2>1. ASSUME NEW x \in Numbers, top' = Datum(REAL, 1, 1, <<x>>) PROVE top' \in Reals
    BY <2>1
  <2>2. ASSUME NEW xs \in Lists, NEW ty \in {STR, VEC}, top' = Datum(ty, 1, Len(xs), xs) PROVE top' \in Texts
    BY <2>2
  <2>3. ASSUME NEW v \in Vars, Type[v] = MAT,
               top' = Datum(MAT, Rows[v], Cols[v], [k \in 1 .. Rows[v] * Cols[v] |-> 0])
        PROVE  top' \in Zeros
    BY <2>3
  <2> HIDE DEF Reals, Texts, Zeros
  <2> QED
    BY <2>1, <2>2, <2>3
<1>3. top' \in UNION {Reals, Texts, Zeros}
  <2> HIDE DEF Reals, Texts, Zeros
  <2> QED
    BY <1>2
<1>4. Abstract!Free
  BY <1>1 DEF Abstract!Free, Abstract!Running
<1>5. Abstract!Push
  BY <1>1, <1>3, <1>4 DEF Abstract!Push, Contents, NumRows, NumCols
<1> QED
  BY <1>5 DEF Abstract!Next

LEMMA ContentsSame ==
  ASSUME NEW v \in Vars, NEW m1 \in Memory, NEW m2 \in Memory, Fits(m1, v),
         \A a \in Slot(v) : m2[a] = m1[a]
  PROVE  Contents(m2, v) = Contents(m1, v)
<1> DEFINE rows == NumRows(m1, v)
           cols == NumCols(m1, v)
           a    == Addr[v] + HeaderSize(Type[v])
<1>1. /\ NumRows(m2, v) = rows /\ NumCols(m2, v) = cols
      /\ m1[Addr[v]] = Type[v] /\ m2[Addr[v]] = Type[v]
  <2>1. \A x \in Header(v) : m2[x] = m1[x]
    BY HeaderInSlot
  <2>2. Fits(m2, v) /\ NumRows(m2, v) = rows /\ NumCols(m2, v) = cols
    BY <2>1, SameHeader
  <2> QED
    BY <2>2 DEF Fits
<1>2. /\ rows * cols \in Nat /\ rows * cols <= Rows[v] * Cols[v]
  <2>1. rows \in Nat /\ cols \in Nat
    BY DEF Fits
  <2> QED
    BY <2>1 DEF Fits
<1>3. \A k \in 1 .. rows * cols : m2[a + k - 1] = m1[a + k - 1]
  <2> SUFFICES ASSUME NEW k \in 1 .. rows * cols
               PROVE  m2[a + k - 1] = m1[a + k - 1]
    OBVIOUS
  <2>1. k \in Nat /\ k >= 1 /\ k <= Rows[v] * Cols[v] /\ Rows[v] * Cols[v] \in Nat
    BY <1>2, SlotFacts
  <2>2. a + k - 1 \in Slot(v)
    BY <2>1, SlotFacts DEF Slot
  <2> QED
    BY <2>2
<1>4. [k \in 1 .. rows * cols |-> m2[a + k - 1]] = [k \in 1 .. rows * cols |-> m1[a + k - 1]]
  BY <1>3
<1> QED
  BY <1>1, <1>4 DEF Contents

\* What is assigned to a variable is read from it again.
LEMMA ContentsAssigned ==
  ASSUME IInv, TableOK, NEW v \in Vars, WrMem(v), Fits(mem', v)
  PROVE  Contents(mem', v) = top
<1> DEFINE image == Image(top)
           elems == top.elems
           ty    == Type[v]
           a     == Addr[v] + HeaderSize(ty)
<1>1. IsDatum(top) /\ top.ty = ty /\ ty \in {STR, VEC, MAT}
  BY ImageWritten, SlotFacts
<1>2. /\ elems \in Seq(Int) /\ Len(elems) \in Nat /\ Len(elems) = top.rows * top.cols
      /\ top.rows \in Nat /\ top.cols \in Nat /\ Addr[v] \in Nat /\ HeaderSize(ty) \in {2, 3}
      /\ ty = MAT => HeaderSize(ty) = 3
      /\ ty # MAT => top.rows = 1
  BY <1>1, LenProperties, SlotFacts DEF IsDatum, STR, VEC, MAT, HeaderSize
<1>3. /\ Len(image) = HeaderSize(ty) + Len(elems)
      /\ image[1] = ty
      /\ ty = MAT => image[2] = top.rows /\ image[3] = top.cols
      /\ ty # MAT => image[2] = top.cols
      /\ \A k \in 1 .. Len(elems) : image[HeaderSize(ty) + k] = elems[k]
  BY <1>1, ImageIs
<1> HIDE DEF image, elems
<1>4. \A k \in 1 .. Len(image) : mem'[Addr[v] + k - 1] = image[k]
  BY ImageWritten DEF image
<1>5. /\ mem'[Addr[v]] = ty
      /\ mem'[Addr[v] + 1] = image[2]
      /\ ty = MAT => mem'[Addr[v] + 2] = image[3]
  <2>1. /\ 1 \in 1 .. Len(image) /\ 2 \in 1 .. Len(image)
        /\ ty = MAT => 3 \in 1 .. Len(image)
    BY <1>2, <1>3
  <2>2. Addr[v] + 1 - 1 = Addr[v] /\ Addr[v] + 2 - 1 = Addr[v] + 1 /\ Addr[v] + 3 - 1 = Addr[v] + 2
    BY <1>2
  <2> QED
    BY <1>3, <1>4, <2>1, <2>2
<1>6. NumRows(mem', v) = top.rows /\ NumCols(mem', v) = top.cols
  BY <1>2, <1>3, <1>5 DEF NumRows, NumCols
<1>7. \A k \in 1 .. Len(elems) : mem'[a + k - 1] = elems[k]
  <2> SUFFICES ASSUME NEW k \in 1 .. Len(elems) PROVE mem'[a + k - 1] = elems[k]
    OBVIOUS
  <2> DEFINE h == HeaderSize(ty) + k
  <2> HIDE DEF a
  <2>0. k \in Nat /\ k >= 1 /\ k <= Len(elems)
    BY <1>2
  <2>1. h \in 1 .. Len(image) /\ Addr[v] + h - 1 = a + k - 1
    <3>1. h \in 1 .. Len(image)
      BY <1>2, <1>3, <2>0
    <3>2. /\ Addr[v] \in Int /\ HeaderSize(ty) \in Int /\ k \in Int
          /\ a = Addr[v] + HeaderSize(ty) /\ h = HeaderSize(ty) + k
      BY <1>2, <2>0 DEF a
    <3> HIDE DEF h, ty
    <3> QED
      BY <3>1, <3>2
  <2>2. image[h] = elems[k]
    BY <1>3
  <2> HIDE DEF h
  <2> QED
    BY <1>4, <2>1, <2>2
<1>8. [k \in 1 .. top.rows * top.cols |-> mem'[a + k - 1]] = elems
  <2>1. elems = [k \in 1 .. Len(elems) |-> elems[k]]
    BY <1>2
  <2> QED
    BY <1>2, <1>7, <2>1
<1>9. Contents(mem', v) = Datum(ty, top.rows, top.cols, elems)
  BY <1>5, <1>6, <1>8 DEF Contents
<1> QED
  BY <1>1, <1>9 DEF TableOK, elems

LEMMA Assigns ==
  ASSUME StoreInv, StoreInv', TableOK, NEW v \in Vars, WrMem(v)
  PROVE  Abstract!Next
<1>1. /\ pc = "ready" /\ pc' = "ready" /\ ins' = ins /\ ins = NoIns /\ mem = before /\ before' = mem'
      /\ top' = Nothing /\ top # Nothing
  <2>1. top.ty # 0
    BY SlotFacts DEF WrMem, STR, VEC, MAT
  <2> QED
    BY <2>1 DEF WrMem, Ready, StoreInv, KeptOK, Nothing, Datum
<1>2. \A w \in Vars : Fits(mem', w)
  BY DEF StoreInv, IInv, SlotsKept, Fits, NumRows, NumCols
<1>3. Contents(mem', v) = top
  BY <1>2, ContentsAssigned DEF StoreInv
<1>4. ASSUME NEW w \in Vars, w # v PROVE Contents(mem', w) = Contents(mem, w)
  <2>1. mem \in Memory /\ mem' \in Memory /\ \A a \in DOMAIN mem : a \notin Slot(v) => mem'[a] = mem[a]
    BY ImageWritten DEF StoreInv
  <2>2. \A a \in Slot(w) : a \in DOMAIN mem /\ a \notin Slot(v)
    BY <1>4, <2>1, SlotFacts DEF Memory
  <2>3. Fits(mem, w)
    BY DEF StoreInv, IInv, SlotsKept
  <2> QED
    BY <2>1, <2>2, <2>3, ContentsSame
<1> DEFINE old == [w \in Vars |-> Contents(before, w)]
           then == [w \in Vars |-> Contents(before', w)]
<1>5. then = [old EXCEPT ![v] = top]
  <2>1. \A w \in Vars : then[w] = IF w = v THEN top ELSE old[w]
    BY <1>1, <1>3, <1>4
  <2> QED
    BY <2>1
<1>6. Abstract!Free
  BY <1>1 DEF Abstract!Free, Abstract!Running
<1>7. Abstract!Assign(v)
  BY <1>1, <1>5, <1>6 DEF Abstract!Assign, Contents, NumRows, NumCols
<1> QED
  BY <1>7 DEF Abstract!Next

LEMMA SubSeqIs ==
  ASSUME NEW xs \in Seq(Int), NEW size \in Nat, size <= Len(xs)
  PROVE  SubSeq(xs, 1, size) = [k \in 1 .. size |-> xs[k]]
<1> DEFINE e == SubSeq(xs, 1, size)
<1>1. Len(xs) \in Nat
  BY LenProperties
<1>2. \A k \in 1 .. size : xs[k] \in Int
  BY <1>1, ElementOfSeq
<1>3. e \in Seq(Int) /\ Len(e) = size /\ \A k \in 1 .. size : e[k] = xs[k]
  BY <1>2, SubSeqProperties
<1> HIDE DEF e
<1>4. e = [k \in 1 .. Len(e) |-> e[k]]
  BY <1>3
<1>5. e = [k \in 1 .. size |-> xs[k]]
  BY <1>3, <1>4
<1> QED
  BY <1>5 DEF e

LEMMA Casts ==
  ASSUME StoreInv, NEW v \in Vars, OpArrayCast(v)
  PROVE  Abstract!Next
<1> DEFINE s    == CastShape(v)
           size == s.rows * s.cols
<1>1. /\ pc = "ready" /\ UNCHANGED <<before, ins>> /\ ins = NoIns /\ top # Nothing
      /\ Type[v] \in {VEC, MAT} /\ top.ty # Type[v]
  BY DEF OpArrayCast, StoreInv, KeptOK
<1>2. s.ty = Type[v] /\ size \in Nat
  <2>1. CASE Type[v] = MAT
    <3>1. Cols[v] * Rows[v] \in Nat
      BY SlotFacts
    <3> QED
      BY <2>1, <3>1 DEF CastShape, Datum
  <2>2. CASE Type[v] = VEC
    <3>1. 1 * Cols[v] \in Nat
      BY SlotFacts
    <3> QED
      BY <2>2, <3>1 DEF CastShape, Datum, VEC, MAT
  <2> QED
    BY <1>1, <2>1, <2>2
<1>3. CASE UNCHANGED top /\ pc' = "undefined"
  BY <1>1, <1>3, Fails DEF Stops
<1>4. s \in {CastShape(w) : w \in {w \in Vars : Type[w] # STR}}
  BY <1>1 DEF STR, VEC, MAT
<1> HIDE DEF s
<1>5. CASE /\ pc' = pc
           /\ top' = IF top.ty = REAL THEN [s EXCEPT !.elems = [k \in 1 .. size |-> top.elems[1]]]
                     ELSE [s EXCEPT !.elems = [k \in 1 .. size |-> top.elems[k]]]
  <2>1. Abstract!Free
    BY <1>1, <1>5 DEF Abstract!Free, Abstract!Running
  <2>2. Abstract!Cast(s)
    BY <1>1, <1>2, <1>5, <2>1 DEF Abstract!Cast, Abstract!Fill, Contents, NumRows, NumCols
  <2> QED
    BY <1>4, <2>2 DEF Abstract!Next
<1>6. CASE top.ty = REAL /\ top' = [s EXCEPT !.elems = [k \in 1 .. size |-> top.elems[1]]] /\ UNCHANGED pc
  BY <1>5, <1>6
<1>7. CASE /\ top.ty # REAL /\ size <= Len(top.elems)
           /\ top' = [s EXCEPT !.elems = SubSeq(top.elems, 1, size)] /\ UNCHANGED pc
  <2>1. top.elems \in Seq(Int)
    BY DEF StoreInv, IInv, TypeOK, IsDatum
  <2> HIDE DEF size
  <2>2. SubSeq(top.elems, 1, size) = [k \in 1 .. size |-> top.elems[k]]
    BY <1>2, <1>7, <2>1, SubSeqIs
  <2> QED
    BY <1>5, <1>7, <2>2 DEF size
<1> QED
  BY <1>3, <1>6, <1>7 DEF OpArrayCast, s

LEMMA Reads ==
  ASSUME StoreInv, NEW v \in Vars, RdMem(v)
  PROVE  Abstract!Next
<1>1. /\ pc = "ready" /\ pc' = pc /\ UNCHANGED <<before, ins>> /\ ins = NoIns
      /\ top = Nothing /\ top' = Contents(before, v)
  BY DEF RdMem, Ready, StoreInv, KeptOK
<1>2. Abstract!Free
  BY <1>1 DEF Abstract!Free, Abstract!Running
<1>3. Abstract!Read(v)
  BY <1>1, <1>2 DEF Abstract!Read, Contents, NumRows, NumCols
<1> QED
  BY <1>3 DEF Abstract!Next

LEMMA Computes ==
  ASSUME StoreInv, StoreInv', TableOK, Compute
  PROVE  Abstract!Next
<1>1. ASSUME NEW x \in Numbers, PushReal(x) PROVE Abstract!Next
  BY <1>1, Pushes DEF PushReal
<1>2. ASSUME NEW xs \in Lists, PushStr(xs) PROVE Abstract!Next
  BY <1>2, Pushes DEF PushStr
<1>3. ASSUME NEW xs \in Lists, MakeVec(xs) PROVE Abstract!Next
  <2>1. FromBack(xs) = xs
    BY ListInt, FromBackSame
  <2> QED
    BY <1>3, <2>1, Pushes DEF MakeVec
<1>4. ASSUME NEW v \in Vars, MakeMat(v) PROVE Abstract!Next
  <2> DEFINE zeros == [k \in 1 .. Rows[v] * Cols[v] |-> 0]
  <2>1. FromBack(zeros) = zeros
    <3> DEFINE size == Rows[v] * Cols[v]
    <3>1. size \in Nat
      BY SlotFacts
    <3>2. zeros \in [1 .. size -> Int]
      OBVIOUS
    <3> HIDE DEF size
    <3>3. zeros \in Seq(Int)
      BY <3>1, <3>2, FunctionSeq
    <3> HIDE DEF zeros
    <3> QED
      BY <3>3, FromBackSame
  <2> QED
    BY <1>4, <2>1, Pushes DEF MakeMat
<1> QED
  BY <1>1, <1>2, <1>3, <1>4, Reads, Casts, Assigns DEF Compute

LEMMA WriteBegunAbstract ==
  ASSUME StoreInv, NEW v, NEW op, NEW w, NEW rs, NEW cs, NEW accepted, NEW rows, NEW cols,
         WriteTo(v, Call(op, w, rs, cs), accepted, rows, cols)
  PROVE  Abstract!Next
<1>1. pc = "ready" /\ top # Nothing
  BY DEF WriteTo, Instruction
<1>2. CASE Stop("thrown") \/ Stop("undefined")
  BY <1>1, <1>2, Fails DEF Stop, Stops
<1>3. ASSUME NEW l, Enter("write", Call(op, w, rs, cs), l) PROVE Abstract!Next
  <2>1. ins'.data = top
    BY <1>3 DEF Enter, Call
  <2> QED
    BY <1>1, <1>3, <2>1, Begins
<1> QED
  BY <1>2, <1>3 DEF WriteTo

LEMMA ReadBegunAbstract ==
  ASSUME StoreInv, NEW op, NEW w, NEW rs, NEW cs, NEW accepted, NEW l,
         ReadFrom(Call(op, w, rs, cs), accepted, l)
  PROVE  Abstract!Next
<1>1. pc = "ready" /\ top # Nothing
  BY DEF ReadFrom, Instruction
<1>2. CASE Stop("thrown") \/ Stop("undefined")
  BY <1>1, <1>2, Fails DEF Stop, Stops
<1>3. CASE Enter("read", Call(op, w, rs, cs), l)
  <2>1. ins'.data = top
    BY <1>3 DEF Enter, Call
  <2> QED
    BY <1>1, <1>3, <2>1, Begins
<1> QED
  BY <1>2, <1>3 DEF ReadFrom

LEMMA ArrayBegins ==
  ASSUME StoreInv, Array
  PROVE  Abstract!Next
<1>1. ASSUME NEW how \in Stops, Instruction, Stop(how) PROVE Abstract!Next
  BY <1>1, Fails DEF Stop, Stops, Instruction
<1>2. ASSUME NEW v \in Vars, NEW a \in Indices, WrArr1D(v, a) PROVE Abstract!Next
  BY <1>2, WriteBegunAbstract DEF WrArr1D
<1>3. ASSUME NEW v \in Vars, NEW a \in Indices, NEW b \in Indices, WrArr1DR(v, a, b) PROVE Abstract!Next
  BY <1>3, WriteBegunAbstract DEF WrArr1DR
<1>4. ASSUME NEW v \in Vars, NEW a \in Indices, NEW b \in Indices, WrArr2D(v, a, b) PROVE Abstract!Next
  BY <1>4, WriteBegunAbstract DEF WrArr2D
<1>5. ASSUME NEW v \in Vars, NEW a \in Indices, NEW b \in Indices, NEW c \in Indices, NEW d \in Indices,
             WrArr2DR(v, a, b, c, d)
      PROVE  Abstract!Next
  BY <1>5, WriteBegunAbstract DEF WrArr2DR
<1>6. ASSUME NEW a \in Indices, RdArr1D(a) PROVE Abstract!Next
  BY <1>6, ReadBegunAbstract DEF RdArr1D
<1>7. ASSUME NEW a \in Indices, NEW b \in Indices, RdArr1DR(a, b) PROVE Abstract!Next
  BY <1>7, ReadBegunAbstract DEF RdArr1DR
<1>8. ASSUME NEW a \in Indices, NEW b \in Indices, RdArr1DRMat(a, b) PROVE Abstract!Next
  BY <1>1, <1>8, ReadBegunAbstract DEF RdArr1DRMat, Stops
<1>9. ASSUME NEW a \in Indices, NEW b \in Indices, RdArr2D(a, b) PROVE Abstract!Next
  BY <1>9, ReadBegunAbstract DEF RdArr2D
<1>10. ASSUME NEW a \in Indices, NEW b \in Indices, NEW c \in Indices, NEW d \in Indices, RdArr2DR(a, b, c, d)
       PROVE  Abstract!Next
  BY <1>10, ReadBegunAbstract DEF RdArr2DR
<1> QED
  BY <1>2, <1>3, <1>4, <1>5, <1>6, <1>7, <1>8, <1>9, <1>10 DEF Array

-------------------------------------------------------------------------------
(***************************************************************************)
(* An instruction that has ended has selected or replaced the elements in  *)
(* the rows and the columns that it names.                                 *)
(***************************************************************************)
LEMMA SpanIs ==
  ASSUME NEW size \in Nat \ {0}, NEW r, NEW pair \in Int \X Int, Meant(r, pair, size)
  PROVE  Abstract!Span(pair[1], pair[2], size) = [k \in 1 .. Width(r) |-> Nth(pair, size, k - 1)]
<1> DEFINE x == pair[1] % size
           y == pair[2] % size
<1>1. pair # <<>>
  BY PairNotEmpty
<1>2. x \in 0 .. size - 1 /\ y \in 0 .. size - 1 /\ r = FromTo(x, y)
  BY <1>1, Division DEF Meant
<1>3. \A k : Nth(pair, size, k) = IF x <= y THEN x + k ELSE x - k
  BY <1>1 DEF Nth
<1>4. Abstract!Span(pair[1], pair[2], size) =
        IF x <= y THEN [k \in 1 .. y - x + 1 |-> x + k - 1]
                  ELSE [k \in 1 .. x - y + 1 |-> x - k + 1]
  BY DEF Abstract!Span
<1> HIDE DEF x, y
<1>5. CASE x <= y
  <2>1. Width(r) = y - x + 1
    BY <1>2, <1>5 DEF FromTo, Width
  <2>2. \A k \in 1 .. y - x + 1 : x + k - 1 = Nth(pair, size, k - 1)
    BY <1>2, <1>3, <1>5
  <2> QED
    BY <1>4, <1>5, <2>1, <2>2
<1>6. CASE ~(x <= y)
  <2>1. Width(r) = x - y + 1
    BY <1>2, <1>6 DEF FromTo, Width
  <2>2. \A k \in 1 .. x - y + 1 : x - k + 1 = Nth(pair, size, k - 1)
    BY <1>2, <1>3, <1>6
  <2> QED
    BY <1>4, <1>6, <2>1, <2>2
<1> QED
  BY <1>5, <1>6

LEMMA SpanWhole ==
  ASSUME NEW size \in Nat \ {0}, NEW r, NEW pair, pair = <<>>, Meant(r, pair, size)
  PROVE  Abstract!Span(0, size - 1, size) = [k \in 1 .. Width(r) |-> Nth(pair, size, k - 1)]
<1>1. pair \notin Int \X Int
  BY PairNotEmpty
<1>2. Width(r) = size /\ \A k : Nth(pair, size, k) = k
  BY <1>1 DEF Meant, Whole, Width, Nth
<1>3. 0 % size = 0 /\ (size - 1) % size = size - 1
  <2>1. 0 = 0 * size + 0 /\ size - 1 = 0 * size + (size - 1)
    OBVIOUS
  <2>2. (0 * size + 0) % size = 0 /\ (0 * size + (size - 1)) % size = size - 1
    BY Remainder
  <2> QED
    BY <2>1, <2>2
<1>4. Abstract!Span(0, size - 1, size) = [k \in 1 .. size - 1 - 0 + 1 |-> 0 + k - 1]
  BY <1>3 DEF Abstract!Span
<1>5. size - 1 - 0 + 1 = size /\ \A k \in 1 .. size : 0 + k - 1 = Nth(pair, size, k - 1)
  BY <1>2
<1> QED
  BY <1>2, <1>4, <1>5

\* The positions in s are those that the loop r goes through for pair.
Spans(s, r, pair, size) ==
  /\ Len(s) = Width(r) /\ Width(r) \in Nat \ {0} /\ DOMAIN s = 1 .. Width(r)
  /\ \A k \in 1 .. Width(r) : s[k] = Nth(pair, size, k - 1) /\ s[k] \in Nat

\* The rows and the columns that c names in d are the positions of the loop.
LEMMA SpansMeant ==
  ASSUME NEW c, NEW d, NEW rows, NEW cols, c.cols \in Int \X Int,
         d.rows \in Nat \ {0}, d.cols \in Nat \ {0},
         Meant(rows, c.rows, d.rows), Meant(cols, c.cols, d.cols)
  PROVE  /\ Spans(Abstract!RowsOf(c, d), rows, c.rows, d.rows)
         /\ Spans(Abstract!ColsOf(c, d), cols, c.cols, d.cols)
<1> DEFINE rs == Abstract!RowsOf(c, d)
           cs == Abstract!ColsOf(c, d)
           H  == Width(rows)
           W  == Width(cols)
<1>1. rs = [k \in 1 .. H |-> Nth(c.rows, d.rows, k - 1)]
  <2>1. CASE c.rows = <<>>
    <3>1. rs = Abstract!Span(0, d.rows - 1, d.rows)
      BY <2>1 DEF Abstract!RowsOf
    <3> DEFINE pair == c.rows
               size == d.rows
    <3>2. pair = <<>> /\ size \in Nat \ {0} /\ Meant(rows, pair, size)
      BY <2>1
    <3> HIDE DEF pair, size, rs
    <3>3. Abstract!Span(0, size - 1, size) = [k \in 1 .. H |-> Nth(pair, size, k - 1)]
      BY <3>2, SpanWhole
    <3> QED
      BY <3>1, <3>3 DEF pair, size
  <2>2. CASE c.rows # <<>>
    <3>1. rs = Abstract!Span(c.rows[1], c.rows[2], d.rows)
      BY <2>2 DEF Abstract!RowsOf
    <3>2. c.rows \in Int \X Int
      BY <2>2 DEF Meant
    <3> QED
      BY <3>1, <3>2, SpanIs
  <2> QED
    BY <2>1, <2>2
<1>2. cs = [k \in 1 .. W |-> Nth(c.cols, d.cols, k - 1)]
  BY SpanIs DEF Abstract!ColsOf
<1>3. /\ H \in Nat \ {0} /\ \A k \in 0 .. H - 1 : Nth(c.rows, d.rows, k) \in Nat
      /\ W \in Nat \ {0} /\ \A k \in 0 .. W - 1 : Nth(c.cols, d.cols, k) \in Nat
  BY MeantNth DEF Proper
<1> HIDE DEF rs, cs, H, W
<1>4. /\ \A k \in 1 .. H : Nth(c.rows, d.rows, k - 1) \in Nat
      /\ \A k \in 1 .. W : Nth(c.cols, d.cols, k - 1) \in Nat
  <2>1. /\ \A k \in 1 .. H : k - 1 \in 0 .. H - 1
        /\ \A k \in 1 .. W : k - 1 \in 0 .. W - 1
    BY <1>3
  <2> QED
    BY <1>3, <2>1
<1>5. rs \in [1 .. H -> Nat] /\ cs \in [1 .. W -> Nat]
  BY <1>1, <1>2, <1>4
<1>6. Len(rs) = H /\ Len(cs) = W
  BY <1>3, <1>5, FunctionSeq
<1> QED
  BY <1>1, <1>2, <1>3, <1>4, <1>6 DEF rs, cs, H, W, Spans

\* What is in the row p and the column q of a table.
LEMMA TablePlace ==
  ASSUME NEW H \in Nat, NEW W \in Nat, W > 0, NEW k \in 1 .. H * W
  PROVE  LET p == (k - 1) \div W
             q == (k - 1) % W
         IN  p \in 0 .. H - 1 /\ q \in 0 .. W - 1 /\ p * W + q + 1 = k
<1> DEFINE x == k - 1
           p == x \div W
           q == x % W
<1>1. H * W \in Nat
  OBVIOUS
<1>2. x \in Nat /\ x < H * W
  BY <1>1
<1>3. p \in Int /\ q \in 0 .. W - 1 /\ q = x - W * p
  BY <1>2, Division
<1> HIDE DEF x, p, q
<1>4. p * W + q = x
  BY <1>2, <1>3
<1>5. ~(p < 0)
  <2> SUFFICES ASSUME p < 0 PROVE FALSE
    OBVIOUS
  <2>1. -p - 1 \in Nat /\ (-p - 1) * W \in Nat
    BY <1>3
  <2>2. p * W = -W - (-p - 1) * W
    BY <1>3
  <2> QED
    BY <1>2, <1>3, <1>4, <2>1, <2>2
<1>6. ~(p >= H)
  <2> SUFFICES ASSUME p >= H PROVE FALSE
    OBVIOUS
  <2>1. p - H \in Nat /\ (p - H) * W \in Nat
    BY <1>3
  <2>2. p * W = H * W + (p - H) * W
    BY <1>3
  <2> QED
    BY <1>1, <1>2, <1>3, <1>4, <2>1, <2>2
<1>7. p \in 0 .. H - 1 /\ p * W + q + 1 = k
  BY <1>2, <1>3, <1>4, <1>5, <1>6 DEF x
<1> QED
  BY <1>3, <1>7 DEF x, p, q

LEMMA Selects ==
  ASSUME StoreInv, EndRead, ins.op # "RDARR2D"
  PROVE  new = Abstract!Selected(ins.data, Abstract!RowsOf(ins, ins.data), Abstract!ColsOf(ins, ins.data))
<1> DEFINE d  == ins.data
           rs == Abstract!RowsOf(ins, d)
           cs == Abstract!ColsOf(ins, d)
           H  == Width(loop.rows)
           W  == Width(loop.cols)
<1>1. /\ pc = "read" /\ i = loop.rows.to /\ j = loop.cols.from /\ LoopOK
      /\ Proper(loop.rows) /\ Proper(loop.cols) /\ H \in Nat \ {0} /\ W \in Nat \ {0}
  BY DEF EndRead, StoreInv, IInv, LoopOK, Proper
<1>2. /\ ins.cols \in Int \X Int
      /\ Below(loop.rows, d.rows) /\ Below(loop.cols, d.cols)
      /\ Meant(loop.rows, ins.rows, d.rows) /\ Meant(loop.cols, ins.cols, d.cols)
      /\ \A pq \in Visited :
           new[pq[1] * W + pq[2] + 1] =
             d.elems[Nth(ins.rows, d.rows, pq[1]) * d.cols + Nth(ins.cols, d.cols, pq[2]) + 1]
  BY <1>1 DEF StoreInv, ReadsOK
<1>3. d.rows \in Nat \ {0} /\ d.cols \in Nat \ {0}
  <2>1. d.rows \in Nat /\ d.cols \in Nat
    BY DEF StoreInv, IInv, TypeOK, IsDatum
  <2> QED
    BY <1>1, <1>2, <2>1 DEF Below, Proper
<1>4. /\ Len(rs) = H /\ Len(cs) = W
      /\ \A k \in 1 .. H : rs[k] = Nth(ins.rows, d.rows, k - 1)
      /\ \A k \in 1 .. W : cs[k] = Nth(ins.cols, d.cols, k - 1)
  <2>1. /\ ins.cols \in Int \X Int /\ d.rows \in Nat \ {0} /\ d.cols \in Nat \ {0}
        /\ Meant(loop.rows, ins.rows, d.rows) /\ Meant(loop.cols, ins.cols, d.cols)
    BY <1>2, <1>3
  <2>2. Spans(rs, loop.rows, ins.rows, d.rows) /\ Spans(cs, loop.cols, ins.cols, d.cols)
    BY <2>1, SpansMeant
  <2> QED
    BY <2>2 DEF Spans
<1>5. Visited = (0 .. H - 1) \X (0 .. W - 1)
  BY <1>1, VisitedAll
<1>6. new \in Seq(Int) /\ Len(new) = H * W
  <2>1. Done(i, loop.rows) = H /\ Done(j, loop.cols) = 0
    BY <1>1, AtEnds
  <2>2. H * W + 0 = H * W
    BY <1>1
  <2> QED
    BY <1>1, <2>1, <2>2 DEF StoreInv, IInv, TypeOK, ReadOK
<1> HIDE DEF rs, cs, H, W, d
<1>7. ASSUME NEW k \in 1 .. H * W
      PROVE  new[k] = Abstract!Element(d, rs[(k - 1) \div W + 1], cs[((k - 1) % W) + 1])
  <2> DEFINE p == (k - 1) \div W
             q == (k - 1) % W
  <2>1. p \in 0 .. H - 1 /\ q \in 0 .. W - 1 /\ p * W + q + 1 = k
    BY <1>1, TablePlace
  <2> HIDE DEF p, q
  <2>2. <<p, q>> \in Visited
    BY <1>5, <2>1
  <2>3. new[k] = d.elems[Nth(ins.rows, d.rows, p) * d.cols + Nth(ins.cols, d.cols, q) + 1]
    BY <1>2, <2>1, <2>2
  <2>4. p + 1 \in 1 .. H /\ q + 1 \in 1 .. W /\ (p + 1) - 1 = p /\ (q + 1) - 1 = q
    BY <1>1, <2>1
  <2>5. rs[p + 1] = Nth(ins.rows, d.rows, p) /\ cs[q + 1] = Nth(ins.cols, d.cols, q)
    BY <1>4, <2>4
  <2>6. new[k] = Abstract!Element(d, rs[p + 1], cs[q + 1])
    BY <2>3, <2>5 DEF Abstract!Element
  <2> QED
    BY <2>6 DEF p, q
<1>8. new = [k \in 1 .. H * W |-> new[k]]
  BY <1>6
<1>9. new = [k \in 1 .. H * W |-> Abstract!Element(d, rs[(k - 1) \div W + 1], cs[((k - 1) % W) + 1])]
  BY <1>7, <1>8
<1>10. new = Abstract!Selected(d, rs, cs)
  BY <1>4, <1>9 DEF Abstract!Selected
<1> QED
  BY <1>10 DEF d, rs, cs

LEMMA ReadEnds ==
  ASSUME StoreInv, EndRead
  PROVE  Abstract!Next
<1>1. /\ pc = "read" /\ pc' = "ready" /\ ins' = NoIns /\ before' = before
      /\ top'.elems = new /\ top'.ty = loop.ty
  BY DEF EndRead, Datum
<1>2. ins # NoIns /\ ins.op \in ReadOps
  <2>1. ins.data # Nothing /\ ins.op \in ReadOps
    BY <1>1 DEF StoreInv, KeptOK, ReadsOK
  <2>2. NoIns.data = Nothing
    BY DEF NoIns
  <2> QED
    BY <2>1, <2>2
<1>3. ins.op = "RDARR2D" => top'.ty = REAL
  BY <1>1 DEF StoreInv, ReadsOK
<1>4. ins.op # "RDARR2D" => top'.ty = Abstract!SelectedType(ins.op, ins.data.ty)
  BY <1>1 DEF StoreInv, ReadsOK
<1>5. ins.op # "RDARR2D" =>
        top'.elems = Abstract!Selected(ins.data, Abstract!RowsOf(ins, ins.data), Abstract!ColsOf(ins, ins.data))
  BY <1>1, Selects
<1>6. Abstract!Running
  BY <1>1 DEF Abstract!Running
<1>7. [v \in Vars |-> Contents(before, v)]' = [v \in Vars |-> Contents(before, v)]
  BY <1>1 DEF Contents, NumRows, NumCols
<1>8. Abstract!Index
  BY <1>1, <1>2, <1>3, <1>4, <1>5, <1>6, <1>7 DEF Abstract!Index, ReadOps
<1> QED
  BY <1>8 DEF Abstract!Next

LEMMA ReplacedIs ==
  ASSUME NEW ty, NEW rows, NEW cols, NEW old, NEW f, NEW rs, NEW cs, NEW e, NEW len \in Nat,
         DOMAIN old = 1 .. len, f = [k \in 1 .. len |-> f[k]],
         \A k \in 1 .. len :
           (\A pq \in (DOMAIN rs) \X (DOMAIN cs) : k # rs[pq[1]] * cols + cs[pq[2]] + 1) => f[k] = old[k],
         \A k \in 1 .. len : \A pq \in (DOMAIN rs) \X (DOMAIN cs) :
           k = rs[pq[1]] * cols + cs[pq[2]] + 1 => f[k] = Abstract!Supplied(e, pq[1], pq[2], Len(cs))
  PROVE  Abstract!Replaced(Datum(ty, rows, cols, old), rs, cs, e) = Datum(ty, rows, cols, f)
<1> DEFINE P(k) == {pq \in (DOMAIN rs) \X (DOMAIN cs) : k = rs[pq[1]] * cols + cs[pq[2]] + 1}
           g(k) == IF P(k) = {} THEN old[k]
                   ELSE LET pq == CHOOSE pq \in P(k) : TRUE
                        IN  Abstract!Supplied(e, pq[1], pq[2], Len(cs))
           d    == Datum(ty, rows, cols, old)
<1>1. ASSUME NEW k \in 1 .. len PROVE g(k) = f[k]
  <2>1. CASE P(k) = {}
    <3>1. \A pq \in (DOMAIN rs) \X (DOMAIN cs) : k # rs[pq[1]] * cols + cs[pq[2]] + 1
      BY <2>1
    <3>2. g(k) = old[k]
      BY <2>1
    <3> QED
      BY <3>1, <3>2
  <2>2. CASE P(k) # {}
    <3> DEFINE st == CHOOSE pq \in P(k) : TRUE
    <3>1. st \in P(k)
      BY <2>2
    <3>2. g(k) = Abstract!Supplied(e, st[1], st[2], Len(cs))
      BY <2>2
    <3>3. st \in (DOMAIN rs) \X (DOMAIN cs) /\ k = rs[st[1]] * cols + cs[st[2]] + 1
      BY <3>1
    <3> HIDE DEF st, g, P
    <3> QED
      BY <3>2, <3>3
  <2> QED
    BY <2>1, <2>2
<1>2. d.elems = old /\ d.cols = cols
  BY DEF Datum
<1>3. Abstract!Replaced(d, rs, cs, e) = [d EXCEPT !.elems = [k \in 1 .. len |-> g(k)]]
  BY <1>2 DEF Abstract!Replaced
<1> HIDE DEF g
<1>4. [k \in 1 .. len |-> g(k)] = f
  BY <1>1
<1>5. [d EXCEPT !.elems = f] = Datum(ty, rows, cols, f)
  BY DEF Datum
<1> QED
  BY <1>3, <1>4, <1>5

\* What a write that has ended has done to its variable.
LEMMA Replaces ==
  ASSUME StoreInv, StoreInv', EndWrite
  PROVE  LET v  == ins.var
             d  == Contents(before, v)
             rs == Abstract!RowsOf(ins, d)
             cs == Abstract!ColsOf(ins, d)
         IN  /\ Abstract!Supplies(ins.data, Len(rs), Len(cs))
             /\ Contents(mem, v) = Abstract!Replaced(d, rs, cs, ins.data)
<1> DEFINE v    == ins.var
           rows == NumRows(before, v)
           cols == NumCols(before, v)
           a    == Addr[v] + HeaderSize(Type[v])
           old  == [k \in 1 .. rows * cols |-> before[a + k - 1]]
           f    == [k \in 1 .. rows * cols |-> mem[a + k - 1]]
           d    == Contents(before, v)
           rs   == Abstract!RowsOf(ins, d)
           cs   == Abstract!ColsOf(ins, d)
           H    == Width(loop.rows)
           W    == Width(loop.cols)
           e    == ins.data
<1>1. /\ pc = "write" /\ i = loop.rows.to /\ j = loop.cols.from /\ LoopOK
      /\ Proper(loop.rows) /\ Proper(loop.cols) /\ H \in Nat \ {0} /\ W \in Nat \ {0}
  BY DEF EndWrite, StoreInv, IInv, LoopOK, Proper
<1>2. /\ v \in Vars /\ Fits(before, v) /\ before \in Memory /\ mem \in Memory
      /\ rows \in Nat \ {0} /\ cols \in Nat \ {0}
      /\ Meant(loop.rows, ins.rows, rows) /\ Meant(loop.cols, ins.cols, cols)
  BY <1>1, Writing
<1>3. /\ ins.cols \in Int \X Int /\ ins.op \in WriteOps
      /\ NumRows(mem, v) = rows /\ NumCols(mem, v) = cols
      /\ e.ty \in {REAL, STR, VEC, MAT}
  BY <1>1 DEF StoreInv, WritesOK
<1>4. mem[Addr[v]] = Type[v] /\ before[Addr[v]] = Type[v]
  BY <1>2 DEF Fits, StoreInv, IInv, SlotsKept
<1>5. d = Datum(Type[v], rows, cols, old) /\ Contents(mem, v) = Datum(Type[v], rows, cols, f)
  BY <1>3, <1>4 DEF Contents
<1>6. d.rows = rows /\ d.cols = cols
  BY <1>5 DEF Datum
<1>7. Visited = (0 .. H - 1) \X (0 .. W - 1)
  BY <1>1, VisitedAll
<1>8. Row = H /\ Col = 0
  BY <1>1, Loops, AtEnds
<1>9. /\ \A pq \in Visited : mem[Place(pq)] = Assigned(pq)
      /\ \A x \in DOMAIN mem : mem[x] # before[x] => \E pq \in Visited : x = Place(pq)
  BY <1>3 DEF StoreInv, PrefixWritten, WriteOps
<1>10. /\ e.ty \in {STR, VEC} => H * W <= Len(e.elems)
       /\ e.ty = MAT => H <= e.rows /\ W <= e.cols
  <2>1. e.ty \in {STR, VEC} => H * W <= Len(e.elems)
    <3>1. e.ty \in {STR, VEC} => n = H * W + 0 /\ n <= Len(e.elems)
      BY <1>1, <1>8 DEF StoreInv, WritesOK
    <3>2. H * W + 0 = H * W
      BY <1>1
    <3> QED
      BY <3>1, <3>2
  <2>2. e.ty = MAT => H <= e.rows /\ W <= e.cols
    <3> SUFFICES ASSUME e.ty = MAT PROVE H <= e.rows /\ W <= e.cols
      OBVIOUS
    <3> HIDE DEF e
    <3>1. \A pq \in Visited : pq[1] < e.rows /\ pq[2] < e.cols
      BY <1>1 DEF StoreInv, WritesOK, e
    <3>2. e.rows \in Nat /\ e.cols \in Nat
      BY DEF StoreInv, IInv, TypeOK, IsDatum, e
    <3> DEFINE last == <<H - 1, W - 1>>
    <3> HIDE DEF H, W
    <3>3. last \in Visited /\ last[1] = H - 1 /\ last[2] = W - 1
      BY <1>1, <1>7
    <3> HIDE DEF last
    <3>4. H - 1 < e.rows /\ W - 1 < e.cols
      BY <3>1, <3>3
    <3> QED
      BY <1>1, <3>2, <3>4
  <2> QED
    BY <2>1, <2>2
<1>11. Spans(rs, loop.rows, ins.rows, rows) /\ Spans(cs, loop.cols, ins.cols, cols)
  <2>1. /\ ins.cols \in Int \X Int /\ d.rows \in Nat \ {0} /\ d.cols \in Nat \ {0}
        /\ Meant(loop.rows, ins.rows, d.rows) /\ Meant(loop.cols, ins.cols, d.cols)
    BY <1>2, <1>3, <1>6
  <2> HIDE DEF d
  <2>2. Spans(rs, loop.rows, ins.rows, d.rows) /\ Spans(cs, loop.cols, ins.cols, d.cols)
    BY <2>1, SpansMeant
  <2> QED
    BY <1>6, <2>2
<1>12. /\ Len(rs) = H /\ Len(cs) = W /\ DOMAIN rs = 1 .. H /\ DOMAIN cs = 1 .. W
       /\ \A k \in 1 .. H : rs[k] = Nth(ins.rows, rows, k - 1) /\ rs[k] \in Nat
       /\ \A k \in 1 .. W : cs[k] = Nth(ins.cols, cols, k - 1) /\ cs[k] \in Nat
  BY <1>11 DEF Spans
<1>13. Abstract!Supplies(e, Len(rs), Len(cs))
  <2> HIDE DEF rs, cs, H, W, e
  <2> QED
    BY <1>3, <1>10, <1>12 DEF Abstract!Supplies, REAL, STR, VEC, MAT
<1>14. a \in Nat /\ rows * cols \in Nat
  <2>1. rows * cols \in Nat
    <3> HIDE DEF rows, cols
    <3> QED
      BY <1>2
  <2> QED
    BY <1>2, <2>1, SlotFacts
\* a place in the variable and the loop variables at it
<1>15. ASSUME NEW k \in Int, NEW pq \in (1 .. H) \X (1 .. W),
              k = rs[pq[1]] * cols + cs[pq[2]] + 1
       PROVE  /\ <<pq[1] - 1, pq[2] - 1>> \in Visited
              /\ Place(<<pq[1] - 1, pq[2] - 1>>) = a + k - 1
              /\ Assigned(<<pq[1] - 1, pq[2] - 1>>) = Abstract!Supplied(e, pq[1], pq[2], Len(cs))
  <2> DEFINE p  == pq[1]
             q  == pq[2]
             st == <<p - 1, q - 1>>
  <2>1. p \in 1 .. H /\ q \in 1 .. W /\ st[1] = p - 1 /\ st[2] = q - 1
    OBVIOUS
  <2>2. Place(st) = a + Nth(ins.rows, rows, st[1]) * cols + Nth(ins.cols, cols, st[2])
    BY DEF Place
  <2>3. Assigned(st) = CASE e.ty = REAL -> e.elems[1]
                         [] e.ty = MAT  -> e.elems[st[1] * e.cols + st[2] + 1]
                         [] OTHER       -> e.elems[st[1] * W + st[2] + 1]
    BY DEF Assigned
  <2> HIDE DEF rows, cols, a, d, rs, cs, H, W, e, p, q
  <2>4. st \in Visited
    BY <1>1, <1>7, <2>1
  <2>5. k = rs[p] * cols + cs[q] + 1
    BY <1>15 DEF p, q
  <2> HIDE DEF st
  <2>6. Place(st) = a + k - 1
    <3>1. rs[p] = Nth(ins.rows, rows, p - 1) /\ rs[p] \in Nat /\ cs[q] = Nth(ins.cols, cols, q - 1) /\ cs[q] \in Nat
      BY <1>12, <2>1
    <3> DEFINE x == rs[p] * cols
    <3>2. x \in Int
      BY <1>2, <3>1
    <3>3. Place(st) = a + x + cs[q] /\ k = x + cs[q] + 1
      BY <2>1, <2>2, <2>5, <3>1
    <3> HIDE DEF x
    <3> QED
      BY <1>14, <3>1, <3>2, <3>3
  <2>7. Assigned(st) = Abstract!Supplied(e, p, q, W)
    <3>1. (p - 1) * W + (q - 1) + 1 = (p - 1) * W + q
      BY <1>1, <2>1
    <3>2. Abstract!Supplied(e, p, q, W) =
            CASE e.ty = REAL -> e.elems[1]
              [] e.ty = MAT  -> e.elems[(p - 1) * e.cols + (q - 1) + 1]
              [] OTHER       -> e.elems[(p - 1) * W + q]
      BY DEF Abstract!Supplied, Abstract!Element
    <3> QED
      BY <2>1, <2>3, <3>1, <3>2
  <2> QED
    BY <1>12, <2>4, <2>6, <2>7 DEF st, p, q
<1>16. ASSUME NEW k \in 1 .. rows * cols,
              \A pq \in (1 .. H) \X (1 .. W) : k # rs[pq[1]] * cols + cs[pq[2]] + 1
       PROVE  f[k] = old[k]
  <2> SUFFICES ASSUME mem[a + k - 1] # before[a + k - 1] PROVE FALSE
    OBVIOUS
  <2>1. a + k - 1 \in DOMAIN mem
    <3>1. rows * cols <= Rows[v] * Cols[v] /\ Rows[v] * Cols[v] \in Nat
      BY <1>2, SlotFacts DEF Fits
    <3> DEFINE z == rows * cols
               y == Rows[v] * Cols[v]
    <3>2. a = Addr[v] + HeaderSize(Type[v]) /\ Addr[v] \in Nat /\ HeaderSize(Type[v]) \in {2, 3}
      BY <1>2, SlotFacts
    <3>3. z <= y /\ z \in Nat /\ y \in Nat /\ k \in 1 .. z
      BY <1>14, <3>1
    <3>4. Slot(v) = Addr[v] .. (Addr[v] + HeaderSize(Type[v]) + y - 1)
      BY DEF Slot
    <3> HIDE DEF z, y, a
    <3>5. a + k - 1 \in Slot(v)
      BY <3>2, <3>3, <3>4
    <3> QED
      BY <1>2, <3>5, SlotFacts DEF Memory
  <2>2. PICK st \in Visited : a + k - 1 = Place(st)
    BY <1>9, <2>1
  <2> DEFINE p  == st[1] + 1
             q  == st[2] + 1
             pq == <<p, q>>
  <2>3. Place(st) = a + Nth(ins.rows, rows, st[1]) * cols + Nth(ins.cols, cols, st[2])
    BY DEF Place
  <2> HIDE DEF rows, cols, a, d, rs, cs, H, W, e
  <2>4. p \in 1 .. H /\ q \in 1 .. W /\ st[1] = p - 1 /\ st[2] = q - 1
    BY <1>1, <1>7
  <2> HIDE DEF p, q
  <2>5. pq \in (1 .. H) \X (1 .. W) /\ pq[1] = p /\ pq[2] = q
    BY <2>4
  <2> HIDE DEF pq
  <2>6. k # rs[p] * cols + cs[q] + 1
    BY <1>16, <2>5
  <2>7. rs[p] = Nth(ins.rows, rows, p - 1) /\ rs[p] \in Nat /\ cs[q] = Nth(ins.cols, cols, q - 1) /\ cs[q] \in Nat
    BY <1>12, <2>4
  <2> DEFINE x == rs[p] * cols
  <2>8. x \in Int
    BY <1>2, <2>7
  <2>9. a + k - 1 = a + x + cs[q] /\ k # x + cs[q] + 1
    BY <2>2, <2>3, <2>4, <2>6, <2>7
  <2> HIDE DEF x
  <2>10. k \in Int
    BY <1>14
  <2> QED
    BY <1>14, <2>7, <2>8, <2>9, <2>10
<1>17. ASSUME NEW k \in 1 .. rows * cols, NEW pq \in (1 .. H) \X (1 .. W),
              k = rs[pq[1]] * cols + cs[pq[2]] + 1
       PROVE  f[k] = Abstract!Supplied(e, pq[1], pq[2], Len(cs))
  <2>1. f[k] = mem[a + k - 1] /\ k \in Int
    BY <1>14
  <2> DEFINE st == <<pq[1] - 1, pq[2] - 1>>
  <2> HIDE DEF rows, cols, a, d, rs, cs, H, W, e, f
  <2>2. st \in Visited /\ Place(st) = a + k - 1
        /\ Assigned(st) = Abstract!Supplied(e, pq[1], pq[2], Len(cs))
    BY <1>15, <1>17, <2>1
  <2> HIDE DEF st
  <2> QED
    BY <1>9, <2>1, <2>2
<1>18. Contents(mem, v) = Abstract!Replaced(d, rs, cs, e)
  <2> DEFINE len == rows * cols
  <2>1. DOMAIN old = 1 .. len /\ f = [k \in 1 .. len |-> f[k]] /\ len \in Nat
    BY <1>14
  <2> HIDE DEF rows, a, old, f, d, rs, cs, H, W, e
  <2>2. \A k \in 1 .. len :
          (\A pq \in (DOMAIN rs) \X (DOMAIN cs) : k # rs[pq[1]] * cols + cs[pq[2]] + 1) => f[k] = old[k]
    BY <1>12, <1>16
  <2>3. \A k \in 1 .. len : \A pq \in (DOMAIN rs) \X (DOMAIN cs) :
          k = rs[pq[1]] * cols + cs[pq[2]] + 1 => f[k] = Abstract!Supplied(e, pq[1], pq[2], Len(cs))
    BY <1>12, <1>17
  <2> HIDE DEF len, cols
  <2>4. Abstract!Replaced(Datum(Type[v], rows, cols, old), rs, cs, e) = Datum(Type[v], rows, cols, f)
    BY <2>1, <2>2, <2>3, ReplacedIs
  <2> QED
    BY <1>5, <2>4
<1> QED
  BY <1>13, <1>18

LEMMA WriteEnds ==
  ASSUME StoreInv, StoreInv', EndWrite
  PROVE  Abstract!Next
<1> DEFINE v    == ins.var
           old  == [w \in Vars |-> Contents(before, w)]
           then == [w \in Vars |-> Contents(before', w)]
           d    == Contents(before, v)
           made == Abstract!Replaced(d, Abstract!RowsOf(ins, d), Abstract!ColsOf(ins, d), ins.data)
<1>1. /\ pc = "write" /\ pc' = "ready" /\ ins' = NoIns /\ before' = mem /\ top' = top
  BY DEF EndWrite
<1>2. ins # NoIns
  <2>1. ins.data # Nothing
    BY <1>1 DEF StoreInv, KeptOK
  <2>2. NoIns.data = Nothing
    BY DEF NoIns
  <2> QED
    BY <2>1, <2>2
<1>3. /\ Abstract!Supplies(ins.data, Len(Abstract!RowsOf(ins, d)), Len(Abstract!ColsOf(ins, d)))
      /\ Contents(mem, v) = made
  BY Replaces
<1>4. v \in Vars /\ before \in Memory /\ mem \in Memory /\ \A w \in Vars : Fits(before, w)
  BY <1>1, Writing DEF StoreInv, KeptOK
<1>5. ASSUME NEW w \in Vars, w # v PROVE Contents(mem, w) = Contents(before, w)
  <2>1. ASSUME NEW x \in Slot(w), mem[x] # before[x] PROVE FALSE
    <3>1. x \in DOMAIN mem /\ x \notin Slot(v)
      BY <1>4, <1>5, SlotFacts DEF Memory
    <3>2. /\ ins.op \in WriteOps /\ LoopOK
      BY <1>1 DEF StoreInv, WritesOK, IInv
    <3>3. \E pq \in Visited : x = Place(pq)
      BY <2>1, <3>1, <3>2 DEF StoreInv, PrefixWritten, WriteOps
    <3>4. Visited \subseteq (0 .. Width(loop.rows) - 1) \X (0 .. Width(loop.cols) - 1)
      BY DEF Visited
    <3>5. \A pq \in (0 .. Width(loop.rows) - 1) \X (0 .. Width(loop.cols) - 1) : Place(pq) \in Slot(v)
      BY <1>1, Places
    <3> QED
      BY <3>1, <3>3, <3>4, <3>5
  <2> QED
    BY <1>4, <2>1, ContentsSame
<1>6. then = [old EXCEPT ![v] = made]
  <2>1. \A w \in Vars : then[w] = IF w = v THEN made ELSE old[w]
    BY <1>1, <1>3, <1>5
  <2> HIDE DEF made
  <2> QED
    BY <1>4, <2>1
<1>7. old[v] = d
  BY <1>4
<1>8. Abstract!Running
  BY <1>1 DEF Abstract!Running
<1>9. Abstract!Update
  <2>1. [w \in Vars |-> Contents(before, w)]' = then
    BY DEF Contents, NumRows, NumCols
  <2> HIDE DEF d, then
  <2> QED
    BY <1>1, <1>2, <1>3, <1>6, <1>7, <1>8, <2>1 DEF Abstract!Update
<1> QED
  BY <1>9 DEF Abstract!Next

LEMMA Simulates ==
  ASSUME StoreInv, StoreInv', TableOK, [Next]_vars
  PROVE  [Abstract!Next]_Abstract!vars
<1>1. CASE Compute
  BY <1>1, Computes
<1>2. CASE Array
  BY <1>2, ArrayBegins
<1>3. CASE Iterate
  <2>1. CASE WriteElement \/ ReadElement \/ NextRow
    BY <2>1, Stutters DEF WriteElement, ReadElement, NextRow
  <2>2. CASE OutOfBounds
    BY <2>2, Fails DEF OutOfBounds, InLoop, Stop, Stops
  <2> QED
    BY <1>3, <2>1, <2>2, WriteEnds, ReadEnds DEF Iterate
<1>4. CASE UNCHANGED vars
  BY <1>4, Stutters DEF vars
<1> QED
  BY <1>1, <1>2, <1>3, <1>4 DEF Next

-------------------------------------------------------------------------------
\* At each moment of a write to a range of an array, also when too few elements end it,
\* the elements visited so far have what is assigned to them, and no other cell of the
\* frame has changed.
THEOREM PrefixCorrect == Spec => []PrefixWritten
<1>1. StoreInv => PrefixWritten
  BY DEF StoreInv
<1> QED
  BY <1>1, InitStore, StoreInvStep, PTL DEF Spec

\* The frame, its addresses and the loops over ranges behave like separate variables
\* whose elements are selected and replaced at once: VMArrays implements ArrayStore.
THEOREM StoreRefined == Spec => StoreAbstracted
<1>1. Init => TableOK
  BY DEF Init, TableOK, Nothing, Datum
<1>2. StoreInv /\ [Next]_vars => StoreInv'
  BY StoreInvStep
<1>3. TableOK /\ [Next]_vars => TableOK'
  BY TableStep
<1>4. StoreInv /\ StoreInv' /\ TableOK /\ [Next]_vars => [Abstract!Next]_Abstract!vars
  BY Simulates
<1> QED
  BY <1>1, <1>2, <1>3, <1>4, InitStore, InitAbstract, PTL DEF Spec, StoreAbstracted, Abstract!Spec
===============================================================================
