------------------------------- MODULE VMArrays -------------------------------
(***************************************************************************)
(* The array instructions of the zero-address-code virtual machine and the *)
(* memory of the variables they work on.  A variable is a type, one or two *)
(* lengths and elements in adjacent cells of its function's frame; an      *)
(* instruction that writes a range computes addresses from the lengths it  *)
(* finds there and writes one element after the other.                     *)
(*                                                                         *)
(* One cell is a type, a length, a real number or a character.  A datum on *)
(* the stack is a table of elements, row after row; vectors and strings    *)
(* have one row, real numbers one element.  Below the datum on top the     *)
(* stack is VMFrames' business.                                            *)
(***************************************************************************)
EXTENDS Integers, Sequences

REAL == 1
STR  == 16
VEC  == 17
MAT  == 18

CONSTANTS
  Vars, Addr,         \* the variables and the addresses of their cells
  Type, Rows, Cols,   \* their declared types and dimensions
  InitMem,            \* the frame after the declarations
  Vals,               \* numbers and characters in use
  Numbers,            \* those that are literals
  Lists,              \* the elements of the literals [x, y, ...]
  Indices,            \* the values of index expressions
  HalfRange,          \* addresses are -HalfRange .. HalfRange - 1
  MaxCount,           \* bound: array instructions and assignments
  MaxWrites           \* bound: those among them that write elements

VARIABLES
  mem,      \* m_mem, the frame
  top,      \* the datum on top of the stack, or Nothing
  pc,       \* "ready", in the loop of an instruction, or how the program has ended
  ins,      \* the instruction in its loop and the datum it has popped, or NoIns
  loop,     \* the local variables of the handler that the loop does not change
  i, j, n,  \* i, j; cur_idx, vecidx and new_idx
  new,      \* newvec, newstr, newmat, col
  count, writes,
  before    \* history: the memory before the instruction

vars == <<mem, top, pc, ins, loop, i, j, n, new, count, writes, before>>
local == <<loop, i, j, n, new>>

Datum(ty, rows, cols, elems) == [ty |-> ty, rows |-> rows, cols |-> cols, elems |-> elems]
Nothing == Datum(0, 0, 0, <<>>)
NoIns   == [op |-> "", var |-> "", rows |-> <<>>, cols |-> <<>>, data |-> Nothing]
NoLoop  == [rows |-> <<>>, cols |-> <<>>, base |-> 0, width |-> 0, ty |-> 0]

\* a type and one or two lengths
HeaderSize(ty) == IF ty = MAT THEN 3 ELSE 2
Slot(v)        == Addr[v] .. (Addr[v] + HeaderSize(Type[v]) + Rows[v] * Cols[v] - 1)

NumRows(m, v) == IF m[Addr[v]] = MAT THEN m[Addr[v] + 1] ELSE 1
NumCols(m, v) == IF m[Addr[v]] = MAT THEN m[Addr[v] + 2] ELSE m[Addr[v] + 1]

\* Do the cells of v hold a value of its type that leaves the other variables alone?
Fits(m, v) ==
  /\ m[Addr[v]] = Type[v]
  /\ NumRows(m, v) \in Nat /\ NumCols(m, v) \in Nat
  /\ NumRows(m, v) * NumCols(m, v) <= Rows[v] * Cols[v]

ASSUME FrameAssumption ==
  /\ Type \in [Vars -> {STR, VEC, MAT}]
  /\ Addr \in [Vars -> Nat] /\ Rows \in [Vars -> Nat] /\ Cols \in [Vars -> Nat]
  /\ \A v \in Vars : Type[v] # MAT => Rows[v] = 1
  /\ \A v, w \in Vars : v # w => Slot(v) \cap Slot(w) = {}
  /\ \A v \in Vars : Slot(v) \subseteq DOMAIN InitMem
  /\ InitMem \in [DOMAIN InitMem -> Int]
  /\ \A v \in Vars : Fits(InitMem, v)

ASSUME ValueAssumption ==
  /\ Vals \subseteq Int /\ Numbers \subseteq Vals /\ Lists \subseteq Seq(Vals) /\ MaxCount \in Nat /\ MaxWrites \in Nat
  /\ HalfRange \in Nat \ {0} /\ Indices \subseteq -HalfRange .. (HalfRange - 1)

\* ReadMemData
Contents(m, v) ==
  LET a    == Addr[v] + HeaderSize(m[Addr[v]])
      rows == NumRows(m, v)
      cols == NumCols(m, v)
  IN  Datum(m[Addr[v]], rows, cols, [k \in 1 .. rows * cols |-> m[a + k - 1]])

\* what WriteMemData writes for d
Image(d) ==
  (IF d.ty = MAT THEN <<d.ty, d.rows, d.cols>> ELSE <<d.ty, d.cols>>) \o d.elems

Init ==
  /\ mem = InitMem /\ before = InitMem
  /\ top = Nothing /\ pc = "ready" /\ ins = NoIns
  /\ loop = NoLoop /\ i = 0 /\ j = 0 /\ n = 0 /\ new = <<>>
  /\ count = 0 /\ writes = 0

Ready == pc = "ready" /\ UNCHANGED <<pc, ins, local>>

-------------------------------------------------------------------------------
(***************************************************************************)
(* Literals, variables, assignments and casts.                             *)
(***************************************************************************)
PushReal(x) ==
  /\ Ready /\ top = Nothing
  /\ top' = Datum(REAL, 1, 1, <<x>>)
  /\ UNCHANGED <<mem, before, count, writes>>

PushStr(s) ==
  /\ Ready /\ top = Nothing
  /\ top' = Datum(STR, 1, Len(s), s)
  /\ UNCHANGED <<mem, before, count, writes>>

\* the elements of a list as they are popped, the last one first
Popped(xs) == [k \in 1 .. Len(xs) |-> xs[Len(xs) - k + 1]]

\* PopVector and PopMatrix put what is popped k-th at the k-th place from the end
FromBack(xs) == [k \in 1 .. Len(xs) |-> Popped(xs)[Len(xs) - k + 1]]

MakeVec(xs) ==
  /\ Ready /\ top = Nothing /\ xs # <<>>
  /\ top' = Datum(VEC, 1, Len(xs), FromBack(xs))
  /\ UNCHANGED <<mem, before, count, writes>>

\* a declaration without a value
MakeMat(v) ==
  /\ Ready /\ top = Nothing /\ Type[v] = MAT
  /\ top' = Datum(MAT, Rows[v], Cols[v], FromBack([k \in 1 .. Rows[v] * Cols[v] |-> 0]))
  /\ UNCHANGED <<mem, before, count, writes>>

RdMem(v) ==
  /\ Ready /\ top = Nothing
  /\ top' = Contents(mem, v)
  /\ UNCHANGED <<mem, before, count, writes>>

\* The sizes that CastTo pushes for v: it pushes the first dimension as the number of
\* columns and the second one as the number of rows.
CastShape(v) ==
  IF Type[v] = MAT THEN Datum(MAT, Cols[v], Rows[v], <<>>)
                   ELSE Datum(VEC, 1, Cols[v], <<>>)

\* TOV or TOM; elements that the datum does not have are not defined.  A vector is left
\* as it is by TOV and a matrix by TOM.
OpArrayCast(v) ==
  LET s    == CastShape(v)
      size == s.rows * s.cols
  IN  /\ pc = "ready" /\ top # Nothing
      /\ Type[v] \in {VEC, MAT} /\ top.ty \in {REAL, VEC, MAT} \ {Type[v]}
      /\ \/ /\ top.ty = REAL
            /\ top' = [s EXCEPT !.elems = [k \in 1 .. size |-> top.elems[1]]]
            /\ UNCHANGED pc
         \/ /\ top.ty # REAL /\ size <= Len(top.elems)
            /\ top' = [s EXCEPT !.elems = SubSeq(top.elems, 1, size)]
            /\ UNCHANGED pc
         \/ /\ top.ty # REAL /\ size > Len(top.elems)
            /\ pc' = "undefined" /\ UNCHANGED top
      /\ UNCHANGED <<mem, before, count, writes, ins, local>>

\* The compiler emits it after a cast to the type of v.  The lengths are not compared and
\* the cast of a string to an array does nothing: that a program assigns nothing longer
\* than what is declared, and no string to an array, is assumed.
WrMem(v) ==
  LET image == Image(top)
      cells == Addr[v] .. (Addr[v] + Len(image) - 1)
  IN  /\ Ready /\ count < MaxCount
      /\ top.ty = Type[v] /\ Len(top.elems) <= Rows[v] * Cols[v]
      /\ mem' = [a \in DOMAIN mem |-> IF a \in cells THEN image[a - Addr[v] + 1] ELSE mem[a]]
      /\ before' = mem'
      /\ top' = Nothing /\ count' = count + 1 /\ UNCHANGED writes

-------------------------------------------------------------------------------
(***************************************************************************)
(* Indices.                                                                *)
(***************************************************************************)
\* mutant: negative remainders are not corrected
SafeIndexSigned(idx, size) == IF idx < 0 THEN -((-idx) % size) ELSE idx % size

\* safe_array_index; the remainder of C++ has the sign of idx
SafeIndex(idx, size) ==
  LET rem == IF idx < 0 THEN -((-idx) % size) ELSE idx % size
  IN  IF rem < 0 THEN rem + size ELSE rem

\* safe_array_index<t_addr> gets its index as an address
ToAddr(idx) == ((idx + HalfRange) % (2 * HalfRange)) - HalfRange

\* mutant: the last index is left out
FromToExclusive(a, b) ==
  LET delta == IF b >= a THEN 1 ELSE -1
  IN  [from |-> a, to |-> b, by |-> delta]

\* the loop from a to b: the first index, the one after the last and delta
FromTo(a, b) ==
  LET delta == IF b >= a THEN 1 ELSE -1
  IN  [from |-> a, to |-> b + delta, by |-> delta]

Whole(size) == [from |-> 0, to |-> size, by |-> 1]
Only        == FromTo(0, 0)

\* mutant: the absolute value is left out
WidthSigned(r) == r.to - r.from

Width(r) == (r.to - r.from) * r.by

Read(a, b, size)  == FromTo(SafeIndex(a, size), SafeIndex(b, size))
Write(a, b, size) == FromTo(SafeIndex(ToAddr(a), size), SafeIndex(ToAddr(b), size))

Stop(how) ==
  /\ pc' = how
  /\ UNCHANGED <<mem, top, ins, local, before>>

Enter(where, call, l) ==
  /\ pc' = where
  /\ ins' = [call EXCEPT !.data = top]
  /\ loop' = l /\ i' = l.rows.from /\ j' = l.cols.from /\ n' = 0 /\ new' = <<>>
  /\ top' = Nothing
  /\ UNCHANGED <<mem, before>>

Instruction ==
  /\ pc = "ready" /\ top # Nothing
  /\ count < MaxCount /\ count' = count + 1

-------------------------------------------------------------------------------
(***************************************************************************)
(* Instructions that write: v is the variable whose address lies below the *)
(* datum.  A single element is the range of this element.  The remainder   *)
(* by a length of zero is not defined; a matrix that lacks only rows or    *)
(* only columns is treated alike.  WRARR2DR computes it before it looks at *)
(* the type of the datum, the others after.                                *)
(***************************************************************************)
Call(op, v, rows, cols) == [op |-> op, var |-> v, rows |-> rows, cols |-> cols, data |-> Nothing]

WriteTo(v, call, accepted, rows, cols) ==
  LET ty      == mem[Addr[v]]
      empty   == NumRows(mem, v) = 0 \/ NumCols(mem, v) = 0
      divides == accepted \/ (call.op = "WRARR2DR" /\ ty = MAT)
  IN  /\ Instruction /\ writes < MaxWrites /\ writes' = writes + 1
      /\ \/ ~accepted /\ ~(divides /\ empty) /\ Stop("thrown")
         \/ divides /\ empty /\ Stop("undefined")
         \/ /\ accepted /\ ~empty
            /\ Enter("write", call,
                     [rows |-> rows, cols |-> cols, base |-> Addr[v] + HeaderSize(ty),
                      width |-> NumCols(mem, v), ty |-> ty])

WrArr1D(v, a) ==
  WriteTo(v, Call("WRARR1D", v, <<>>, <<a, a>>),
          mem[Addr[v]] = VEC /\ top.ty = REAL,
          Only, Write(a, a, NumCols(mem, v)))

WrArr1DR(v, a, b) ==
  WriteTo(v, Call("WRARR1DR", v, <<>>, <<a, b>>),
          \/ mem[Addr[v]] = VEC /\ top.ty \in {VEC, REAL}
          \/ mem[Addr[v]] = STR /\ top.ty = STR,
          Only, Write(a, b, NumCols(mem, v)))

WrArr2D(v, a, b) ==
  WriteTo(v, Call("WRARR2D", v, <<a, a>>, <<b, b>>),
          mem[Addr[v]] = MAT /\ top.ty = REAL,
          Write(a, a, NumRows(mem, v)), Write(b, b, NumCols(mem, v)))

WrArr2DR(v, a, b, c, d) ==
  WriteTo(v, Call("WRARR2DR", v, <<a, b>>, <<c, d>>),
          mem[Addr[v]] = MAT /\ top.ty \in {REAL, VEC, MAT},
          Write(a, b, NumRows(mem, v)), Write(c, d, NumCols(mem, v)))

Row == (i - loop.rows.from) * loop.rows.by   \* i_rhs
Col == (j - loop.cols.from) * loop.cols.by   \* j_rhs

\* is there a datum for this element, and which?
HasRhs ==
  CASE ins.data.ty = REAL -> TRUE
    [] ins.data.ty = MAT  -> Row < ins.data.rows /\ Col < ins.data.cols
    [] OTHER              -> n < Len(ins.data.elems)

Rhs ==
  CASE ins.data.ty = REAL -> ins.data.elems[1]
    [] ins.data.ty = MAT  -> ins.data.elems[Row * ins.data.cols + Col + 1]
    [] OTHER              -> ins.data.elems[n + 1]

\* mutant: column after column
CellTransposed == loop.base + j * loop.width + i

Cell == loop.base + i * loop.width + j

InLoop(where) == pc = where /\ i # loop.rows.to /\ j # loop.cols.to

WriteElement ==
  /\ InLoop("write") /\ HasRhs
  /\ mem' = [mem EXCEPT ![Cell] = Rhs]
  /\ j' = j + loop.cols.by
  /\ n' = IF ins.data.ty \in {VEC, STR} THEN n + 1 ELSE n
  /\ UNCHANGED <<top, pc, ins, loop, i, new, count, writes, before>>

\* "Vector index out of bounds." and the like
OutOfBounds ==
  /\ InLoop("write") /\ ~HasRhs
  /\ Stop("thrown") /\ UNCHANGED <<count, writes>>

\* mutant: the row does not change
NextRowStays ==
  /\ pc \in {"read", "write"} /\ i # loop.rows.to /\ j = loop.cols.to
  /\ j' = loop.cols.from
  /\ UNCHANGED <<mem, top, pc, ins, loop, i, n, new, count, writes, before>>

NextRow ==
  /\ pc \in {"read", "write"} /\ i # loop.rows.to /\ j = loop.cols.to
  /\ i' = i + loop.rows.by /\ j' = loop.cols.from
  /\ UNCHANGED <<mem, top, pc, ins, loop, n, new, count, writes, before>>

EndWrite ==
  /\ pc = "write" /\ i = loop.rows.to
  /\ pc' = "ready" /\ ins' = NoIns
  /\ loop' = NoLoop /\ i' = 0 /\ j' = 0 /\ n' = 0 /\ new' = <<>>
  /\ before' = mem
  /\ UNCHANGED <<mem, top, count, writes>>

-------------------------------------------------------------------------------
(***************************************************************************)
(* Instructions that read from the datum on top of the stack.              *)
(***************************************************************************)
Loop(ty, rows, cols) == [rows |-> rows, cols |-> cols, base |-> 0, width |-> top.cols, ty |-> ty]

ReadFrom(call, accepted, l) ==
  LET empty == top.rows = 0 \/ top.cols = 0
  IN  /\ Instruction /\ UNCHANGED writes
      /\ \/ ~accepted /\ Stop("thrown")
         \/ accepted /\ empty /\ Stop("undefined")
         \/ accepted /\ ~empty /\ Enter("read", call, l)

Arrays == {VEC, STR, MAT}

RdArr1D(a) ==
  ReadFrom(Call("RDARR1D", "", <<>>, <<a, a>>), top.ty \in Arrays,
           Loop(CASE top.ty = VEC -> REAL [] top.ty = MAT -> VEC [] OTHER -> top.ty,
                Whole(top.rows), Read(a, a, top.cols)))

RdArr1DR(a, b) ==
  /\ top.ty # MAT
  /\ ReadFrom(Call("RDARR1DR", "", <<>>, <<a, b>>), top.ty \in Arrays,
              Loop(top.ty, Only, Read(a, b, top.cols)))

\* The columns of a matrix are copied to the places they have in the matrix, which
\* the new one has only if the first column is copied first.  From a higher index to a
\* lower one the new matrix has a negative number of columns and cannot be created.
RdArr1DRMat(a, b) ==
  LET cols == Read(a, b, top.cols)
  IN  /\ top.ty = MAT
      /\ \/ /\ top.rows = 0 \/ top.cols = 0 \/ (cols.by = 1 /\ cols.from = 0)
            /\ ReadFrom(Call("RDARR1DR", "", <<>>, <<a, b>>), TRUE, Loop(MAT, Whole(top.rows), cols))
         \/ /\ top.rows # 0 /\ top.cols # 0 /\ cols.by = -1
            /\ Instruction /\ UNCHANGED writes /\ Stop("thrown")
         \/ /\ top.rows # 0 /\ top.cols # 0 /\ cols.by = 1 /\ cols.from # 0
            /\ Instruction /\ UNCHANGED writes /\ Stop("undefined")

\* the row is reduced by the number of columns, and the column is one too high
RdArr2D(a, b) ==
  LET row == SafeIndex(a, top.cols)
      col == SafeIndex(b, top.cols) + 1
  IN  ReadFrom(Call("RDARR2D", "", <<a, a>>, <<b, b>>), top.ty = MAT,
               Loop(REAL, FromTo(row, row), FromTo(col, col)))

RdArr2DR(a, b, c, d) ==
  ReadFrom(Call("RDARR2DR", "", <<a, b>>, <<c, d>>), top.ty = MAT,
           Loop(MAT, Read(a, b, top.rows), Read(c, d, top.cols)))

\* an element behind the last one can have any value
ElementAt(place) ==
  IF place < Len(ins.data.elems) THEN {ins.data.elems[place + 1]} ELSE Vals

ReadElement ==
  /\ InLoop("read")
  /\ \E x \in ElementAt(i * loop.width + j) : new' = Append(new, x)
  /\ j' = j + loop.cols.by /\ n' = n + 1
  /\ UNCHANGED <<mem, top, pc, ins, loop, i, count, writes, before>>

EndRead ==
  /\ pc = "read" /\ i = loop.rows.to
  /\ pc' = "ready" /\ ins' = NoIns
  /\ top' = IF loop.ty = MAT THEN Datum(MAT, Width(loop.rows), Width(loop.cols), new)
                             ELSE Datum(loop.ty, 1, Len(new), new)
  /\ loop' = NoLoop /\ i' = 0 /\ j' = 0 /\ n' = 0 /\ new' = <<>>
  /\ UNCHANGED <<mem, count, writes, before>>

-------------------------------------------------------------------------------
Compute ==
  \/ \E x \in Numbers : PushReal(x)
  \/ \E xs \in Lists : PushStr(xs) \/ MakeVec(xs)
  \/ \E v \in Vars : MakeMat(v) \/ RdMem(v) \/ OpArrayCast(v) \/ WrMem(v)

Array ==
  \/ \E v \in Vars : \/ \E a \in Indices : WrArr1D(v, a)
                     \/ \E a, b \in Indices : WrArr1DR(v, a, b) \/ WrArr2D(v, a, b)
                     \/ \E a, b, c, d \in Indices : WrArr2DR(v, a, b, c, d)
  \/ \E a \in Indices : RdArr1D(a)
  \/ \E a, b \in Indices : RdArr1DR(a, b) \/ RdArr1DRMat(a, b) \/ RdArr2D(a, b)
  \/ \E a, b, c, d \in Indices : RdArr2DR(a, b, c, d)

Iterate == WriteElement \/ OutOfBounds \/ ReadElement \/ NextRow \/ EndWrite \/ EndRead

Next == Compute \/ Array \/ Iterate

Spec == Init /\ [][Next]_vars

\* the thread goes on with an instruction that it has begun
FairSpec == Spec /\ WF_vars(Iterate)

-------------------------------------------------------------------------------
(***************************************************************************)
(* Properties.                                                             *)
(***************************************************************************)
IsDatum(d) ==
  /\ d.ty \in {0, REAL, STR, VEC, MAT} /\ d.rows \in Nat /\ d.cols \in Nat
  /\ d.elems \in Seq(Int) /\ Len(d.elems) = d.rows * d.cols
  /\ d.ty = REAL => Len(d.elems) = 1
  /\ d.ty \in {STR, VEC} => d.rows = 1

\* Memory holds numbers, and the datum on top has as many elements as its lengths say
\* (PushData, PopData: nothing else says where the next datum is).
TypeOK ==
  /\ mem \in [DOMAIN InitMem -> Int] /\ before \in [DOMAIN InitMem -> Int]
  /\ IsDatum(top) /\ IsDatum(ins.data)
  /\ pc \in {"ready", "read", "write", "thrown", "undefined"}
  /\ i \in Int /\ j \in Int /\ n \in Nat /\ new \in Seq(Int) /\ count \in 0 .. MaxCount /\ writes \in 0 .. MaxWrites

\* In every state, in a loop and after an exception, each variable has its declared type
\* and lengths that fit what was declared: no write to an array reaches the header of this
\* or of another variable, whatever the indices and their order.
SlotsKept == \A v \in Vars : Fits(mem, v)

\* the k-th position, from 0, that an instruction names in size positions
Nth(pair, size, k) ==
  IF pair = <<>> THEN k
  ELSE LET x == pair[1] % size
           y == pair[2] % size
       IN  IF x <= y THEN x + k ELSE x - k

\* the elements that the loop has been through: <<i_rhs, j_rhs>>
Visited ==
  {pq \in (0 .. Width(loop.rows) - 1) \X (0 .. Width(loop.cols) - 1) :
     pq[1] < Row \/ (pq[1] = Row /\ pq[2] < Col)}

\* The place of one of them in the variable as it was before.
Place(pq) ==
  LET v == ins.var
      r == Nth(ins.rows, NumRows(before, v), pq[1])
      c == Nth(ins.cols, NumCols(before, v), pq[2])
  IN  Addr[v] + HeaderSize(Type[v]) + r * NumCols(before, v) + c

\* What is assigned to it: a vector's elements are taken row after row.
Assigned(pq) ==
  CASE ins.data.ty = REAL -> ins.data.elems[1]
    [] ins.data.ty = MAT  -> ins.data.elems[pq[1] * ins.data.cols + pq[2] + 1]
    [] OTHER              -> ins.data.elems[pq[1] * Width(loop.cols) + pq[2] + 1]

\* At each moment of a write, also when too few elements end it with an exception, the
\* elements visited so far have what is assigned to them, and no other cell of the frame
\* has changed: WRARR1D, WRARR1DR, WRARR2D, WRARR2DR.
PrefixWritten ==
  ins.op \in {"WRARR1D", "WRARR1DR", "WRARR2D", "WRARR2DR"} =>
    /\ \A pq \in Visited : mem[Place(pq)] = Assigned(pq)
    /\ \A a \in DOMAIN mem : mem[a] # before[a] => \E pq \in Visited : a = Place(pq)

\* RDARR2D "gets matrix element": the one in the row and the column that the program
\* names (run.cpp:218).
ElementRead ==
  (ins.op = "RDARR2D" /\ new # <<>>) =>
    new[1] = ins.data.elems[Nth(ins.rows, ins.data.rows, 0) * ins.data.cols
                              + Nth(ins.cols, ins.data.cols, 0) + 1]

\* Every loop over a range ends, in either direction: its condition is idx != idx2.
Finishes == pc \in {"read", "write"} ~> pc \notin {"read", "write"}
===============================================================================
