---------------------------- MODULE VMFramesProofs ----------------------------
(***************************************************************************)
(* Proofs about VMFrames, for every memory size, every size of the data    *)
(* types and every program that keeps the calling convention: first the    *)
(* invariant and the properties that follow from it, then that the machine *)
(* implements CallStack.                                                   *)
(***************************************************************************)
EXTENDS VMCallStack, TLAPS, WellFoundedInduction

-------------------------------------------------------------------------------
(***************************************************************************)
(* The memory operators.                                                   *)
(***************************************************************************)
Memory == [Mem -> Cell]

LEMMA SizeFacts ==
  /\ MemSize \in Nat /\ CodeEnd \in Nat /\ CodeEnd <= MemSize
  /\ \A t \in Types : Size[t] \in Nat /\ Size[t] > 0
  /\ "INT" \in Types /\ "STR" \in Types /\ "BOOL" \in Types /\ "ADDR_MEM" \in Types
  /\ "ADDR_IP" \in Types /\ "ADDR_BP" \in Types
  /\ DataTypes \subseteq Types
  /\ AddrSize \in Nat /\ AddrSize > 0 /\ IntSize \in Nat /\ IntSize > 0
  /\ \A t \in AddrTypes : Size[t] = AddrSize
<1>1. MemSize \in Nat /\ CodeEnd \in Nat /\ CodeEnd <= MemSize
  BY SizeAssumption
<1>2. DataTypes \subseteq Types /\ AddrTypes \subseteq Types /\ {"INT", "STR"} \subseteq DataTypes
  BY SizeAssumption DEF Types
<1>3. /\ "INT" \in Types /\ "STR" \in Types /\ "BOOL" \in Types
      /\ {"ADDR_MEM", "ADDR_IP", "ADDR_BP"} \subseteq Types
  BY <1>2 DEF Types, AddrTypes
<1>5. \A t \in Types : Size[t] \in Nat /\ Size[t] > 0
  BY SizeAssumption
<1>6. \A t \in AddrTypes : Size[t] = Size["ADDR_MEM"]
  BY SizeAssumption DEF AddrTypes
<1> QED
  BY <1>1, <1>2, <1>3, <1>5, <1>6 DEF AddrSize, IntSize

LEMMA PutTyped ==
  ASSUME NEW m \in Memory, NEW a \in Int, NEW t \in Types, NEW v \in Int
  PROVE  Put(m, a, t, v) \in Memory
  BY SizeFacts DEF Put, Memory, Cell, Byte, Mem

LEMMA EraseTyped ==
  ASSUME NEW m \in Memory, NEW a \in Int, NEW b \in Int
  PROVE  Erase(m, a, b) \in Memory
  BY SizeFacts DEF Erase, Memory, Cell, ZeroByte, Byte, Mem

LEMMA PutAt ==
  ASSUME NEW m \in Memory, NEW a \in Int, NEW t \in Types, NEW v \in Int,
         0 <= a, a + Size[t] <= MemSize
  PROVE  At(Put(m, a, t, v), a, t, v)
<1>1. Size[t] \in Nat /\ MemSize \in Nat
  BY SizeFacts
<1>2. ASSUME NEW x \in a .. (a + Size[t] - 1)
      PROVE  Put(m, a, t, v)[x] = Byte(t, v, x - a)
  <2>1. x \in Mem /\ a <= x /\ x < a + Size[t]
    BY <1>1 DEF Mem
  <2> QED
    BY <2>1 DEF Put
<1> QED
  BY <1>2 DEF At

LEMMA PutElsewhere ==
  ASSUME NEW m \in Memory, NEW a \in Int, NEW t \in Types, NEW v \in Int,
         NEW x \in Mem, x < a \/ x >= a + Size[t]
  PROVE  Put(m, a, t, v)[x] = m[x]
  BY SizeFacts DEF Put, Mem

LEMMA EraseElsewhere ==
  ASSUME NEW m \in Memory, NEW a \in Int, NEW b \in Int,
         NEW x \in Mem, x < a \/ x >= b
  PROVE  Erase(m, a, b)[x] = m[x]
  BY DEF Erase, Mem

\* Two memories hold the same at all addresses from n upwards.
Agree(m1, m2, n) == \A x \in Mem : x >= n => m1[x] = m2[x]

LEMMA AtAgree ==
  ASSUME NEW m1 \in Memory, NEW m2 \in Memory, NEW n \in Int, Agree(m1, m2, n),
         NEW a \in Int, NEW t \in Types, NEW v, a >= n, At(m1, a, t, v)
  PROVE  At(m2, a, t, v)
  BY SizeFacts DEF Agree, At, Mem

LEMMA TiledAgree ==
  ASSUME NEW m1 \in Memory, NEW m2 \in Memory, NEW n \in Int, Agree(m1, m2, n),
         NEW a \in Int, NEW b \in Int, 0 <= a, a >= n, b <= MemSize, Tiled(m1, a, b)
  PROVE  Tiled(m2, a, b)
<1> SUFFICES ASSUME NEW x \in a .. (b - 1)
             PROVE  /\ m2[x].ty \in Types /\ 0 <= m2[x].k /\ m2[x].k < Size[m2[x].ty]
                    /\ a <= x - m2[x].k /\ x - m2[x].k + Size[m2[x].ty] <= b
                    /\ At(m2, x - m2[x].k, m2[x].ty, m2[x].val)
  BY DEF Tiled
<1>1. x \in Mem /\ x >= n
  BY SizeFacts DEF Mem
<1>2. m1[x] = m2[x]
  BY <1>1 DEF Agree
<1>3. m1[x].k \in Int
  BY <1>1 DEF Memory, Cell
<1>4. /\ m1[x].ty \in Types /\ 0 <= m1[x].k /\ m1[x].k < Size[m1[x].ty]
      /\ a <= x - m1[x].k /\ x - m1[x].k + Size[m1[x].ty] <= b
      /\ At(m1, x - m1[x].k, m1[x].ty, m1[x].val)
  BY DEF Tiled
<1>5. At(m2, x - m1[x].k, m1[x].ty, m1[x].val)
  BY <1>3, <1>4, AtAgree
<1> QED
  BY <1>2, <1>4, <1>5

\* Only the bytes of a sequence of data matter to it.
LEMMA TiledSame ==
  ASSUME NEW m1 \in Memory, NEW m2 \in Memory, NEW a \in Int, NEW b \in Int,
         0 <= a, b <= MemSize, \A x \in a .. (b - 1) : m2[x] = m1[x], Tiled(m1, a, b)
  PROVE  Tiled(m2, a, b)
<1> SUFFICES ASSUME NEW x \in a .. (b - 1)
             PROVE  /\ m2[x].ty \in Types /\ 0 <= m2[x].k /\ m2[x].k < Size[m2[x].ty]
                    /\ a <= x - m2[x].k /\ x - m2[x].k + Size[m2[x].ty] <= b
                    /\ At(m2, x - m2[x].k, m2[x].ty, m2[x].val)
  BY DEF Tiled
<1>1. x \in Mem /\ m2[x] = m1[x]
  BY SizeFacts DEF Mem
<1> DEFINE u == m1[x].ty
           s == x - m1[x].k
<1>2. m1[x].k \in Int
  BY <1>1 DEF Memory, Cell
<1>3. /\ u \in Types /\ 0 <= m1[x].k /\ m1[x].k < Size[u]
      /\ a <= s /\ s + Size[u] <= b /\ At(m1, s, u, m1[x].val)
  BY DEF Tiled
<1>4. Size[u] \in Nat /\ s \in Int
  BY <1>2, <1>3, SizeFacts
<1>5. ASSUME NEW y \in s .. (s + Size[u] - 1)
      PROVE  m2[y] = Byte(u, m1[x].val, y - s)
  <2>1. y \in a .. (b - 1)
    BY <1>3, <1>4
  <2> QED
    BY <1>3, <2>1 DEF At
<1>6. At(m2, s, u, m1[x].val)
  BY <1>3, <1>5 DEF At
<1> QED
  BY <1>1, <1>3, <1>6

\* Pushing a datum onto a sequence of whole data gives one.
LEMMA TiledPush ==
  ASSUME NEW m \in Memory, NEW a \in Int, NEW b \in Int, NEW t \in Types, NEW v \in Int,
         0 <= a - Size[t], a <= b, b <= MemSize, Tiled(m, a, b)
  PROVE  Tiled(Put(m, a - Size[t], t, v), a - Size[t], b)
<1> DEFINE n == a - Size[t]
           p == Put(m, n, t, v)
<1>a. Size[t] \in Nat /\ Size[t] > 0
  BY SizeFacts
<1>b. n \in Int /\ n + Size[t] = a /\ 0 <= n
  BY <1>a
<1>c. p \in Memory
  BY <1>b, PutTyped
<1>0. Size[t] \in Nat /\ Size[t] > 0 /\ n \in Int /\ n + Size[t] = a /\ p \in Memory
  BY <1>a, <1>b, <1>c
<1>1. At(p, n, t, v)
  <2>1. n + Size[t] <= MemSize
    BY <1>b, SizeFacts
  <2> QED
    BY <1>b, <2>1, PutAt
<1>2. Agree(m, p, a)
  BY <1>0, PutElsewhere DEF Agree, Mem
<1>3. Tiled(p, a, b)
  BY <1>0, <1>2, TiledAgree
<1> SUFFICES ASSUME NEW x \in n .. (b - 1)
             PROVE  /\ p[x].ty \in Types /\ 0 <= p[x].k /\ p[x].k < Size[p[x].ty]
                    /\ n <= x - p[x].k /\ x - p[x].k + Size[p[x].ty] <= b
                    /\ At(p, x - p[x].k, p[x].ty, p[x].val)
  BY DEF Tiled
<1>4. CASE x < a
  <2>1. p[x] = Byte(t, v, x - n)
    BY <1>0, <1>1, <1>4 DEF At
  <2>2. p[x].ty = t /\ p[x].val = v /\ p[x].k = x - n
    BY <2>1 DEF Byte
  <2>3. x - p[x].k = n
    BY <1>0, <2>2
  <2> QED
    BY <1>0, <1>1, <1>4, <2>2, <2>3
<1>5. CASE x >= a
  <2>1. /\ p[x].ty \in Types /\ 0 <= p[x].k /\ p[x].k < Size[p[x].ty]
        /\ a <= x - p[x].k /\ x - p[x].k + Size[p[x].ty] <= b
        /\ At(p, x - p[x].k, p[x].ty, p[x].val)
    BY <1>3, <1>5 DEF Tiled
  <2>2. p[x].k \in Int
    <3>1. x \in Mem
      BY <1>b, SizeFacts DEF Mem
    <3> QED
      BY <1>c, <3>1 DEF Memory, Cell
  <2> QED
    BY <1>0, <2>1, <2>2
<1> QED
  BY <1>0, <1>4, <1>5

\* The first byte of a sequence of whole data begins a datum, and what follows
\* this datum is a sequence of whole data again.
LEMMA TiledPop ==
  ASSUME NEW m \in Memory, NEW a \in Int, NEW b \in Int,
         0 <= a, a < b, b <= MemSize, Tiled(m, a, b)
  PROVE  /\ m[a].ty \in Types /\ m[a].k = 0
         /\ At(m, a, m[a].ty, m[a].val)
         /\ a + Size[m[a].ty] <= b
         /\ Tiled(m, a + Size[m[a].ty], b)
<1>0. a \in Mem /\ m[a] \in Cell
  BY SizeFacts DEF Mem, Memory
<1>1. m[a].k \in Int
  BY <1>0 DEF Cell
<1>2. /\ m[a].ty \in Types /\ 0 <= m[a].k /\ m[a].k < Size[m[a].ty]
      /\ a <= a - m[a].k /\ a - m[a].k + Size[m[a].ty] <= b
      /\ At(m, a - m[a].k, m[a].ty, m[a].val)
  BY DEF Tiled
<1>3. m[a].k = 0
  BY <1>1, <1>2
<1> DEFINE e == a + Size[m[a].ty]
<1>4. e \in Int /\ a < e /\ e <= b /\ At(m, a, m[a].ty, m[a].val)
  BY <1>2, <1>3, SizeFacts
<1>s. Size[m[a].ty] \in Nat
  BY <1>2, SizeFacts
<1>5. ASSUME NEW x \in e .. (b - 1)
      PROVE  /\ m[x].ty \in Types /\ 0 <= m[x].k /\ m[x].k < Size[m[x].ty]
             /\ e <= x - m[x].k /\ x - m[x].k + Size[m[x].ty] <= b
             /\ At(m, x - m[x].k, m[x].ty, m[x].val)
  <2>0. x \in Mem /\ m[x].k \in Int
    BY <1>4, SizeFacts DEF Mem, Memory, Cell
  <2>1. /\ m[x].ty \in Types /\ 0 <= m[x].k /\ m[x].k < Size[m[x].ty]
        /\ a <= x - m[x].k /\ x - m[x].k + Size[m[x].ty] <= b
        /\ At(m, x - m[x].k, m[x].ty, m[x].val)
    BY <1>4 DEF Tiled
  <2>2. ASSUME x - m[x].k < e PROVE FALSE
    <3> DEFINE s == x - m[x].k
    <3>0. s \in Int /\ a <= s /\ s < e /\ e \in Int
      BY <1>4, <2>0, <2>1, <2>2
    <3>1. s \in a .. (a + Size[m[a].ty] - 1)
      BY <3>0, <1>s
    <3>2. m[s] = Byte(m[a].ty, m[a].val, s - a)
      BY <1>4, <3>1 DEF At
    <3>3. m[s] = Byte(m[x].ty, m[x].val, s - s)
      BY <2>0, <2>1, SizeFacts DEF At
    <3>4. s - a = s - s /\ m[x].ty = m[a].ty
      BY <3>2, <3>3 DEF Byte
    <3>5. s = a
      BY <3>0, <3>4
    <3>6. x - a < Size[m[a].ty] /\ x >= e
      BY <1>4, <2>0, <2>1, <3>4, <3>5
    <3> QED
      BY <1>s, <2>0, <3>6 DEF Mem
  <2> QED
    BY <1>4, <2>0, <2>1, <2>2
<1>6. Tiled(m, e, b)
  BY <1>5 DEF Tiled
<1> QED
  BY <1>2, <1>3, <1>4, <1>6

\* Writing a new value of the same type over a datum keeps the sequence whole.
LEMMA TiledReplace ==
  ASSUME NEW m \in Memory, NEW a \in Int, NEW b \in Int, NEW q \in Int,
         NEW t \in Types, NEW v \in Int, NEW w,
         0 <= a, a <= q, q + Size[t] <= b, b <= MemSize, Tiled(m, a, b), At(m, q, t, w)
  PROVE  Tiled(Put(m, q, t, v), a, b)
<1> DEFINE p == Put(m, q, t, v)
<1>a. p \in Memory
  BY PutTyped
<1>0. /\ Size[t] \in Nat /\ Size[t] > 0 /\ q + Size[t] <= MemSize /\ 0 <= q
      /\ MemSize \in Nat /\ p \in Memory
  BY <1>a, SizeFacts
<1>1. At(p, q, t, v)
  BY <1>0, PutAt
<1> SUFFICES ASSUME NEW x \in a .. (b - 1)
             PROVE  /\ p[x].ty \in Types /\ 0 <= p[x].k /\ p[x].k < Size[p[x].ty]
                    /\ a <= x - p[x].k /\ x - p[x].k + Size[p[x].ty] <= b
                    /\ At(p, x - p[x].k, p[x].ty, p[x].val)
  BY DEF Tiled
<1>2. CASE q <= x /\ x < q + Size[t]
  <2>1. p[x] = Byte(t, v, x - q)
    BY <1>0, <1>1, <1>2 DEF At
  <2>2. p[x].ty = t /\ p[x].val = v /\ p[x].k = x - q
    BY <2>1 DEF Byte
  <2>3. x - p[x].k = q
    BY <1>0, <2>2
  <2> QED
    BY <1>0, <1>1, <1>2, <2>2, <2>3
<1>3. CASE x < q \/ x >= q + Size[t]
  <2>0. x \in Mem /\ m[x] \in Cell /\ m[x].k \in Int
    BY <1>0 DEF Mem, Memory, Cell
  <2>1. p[x] = m[x]
    BY <1>0, <1>3, <2>0, PutElsewhere
  <2> DEFINE s == x - m[x].k
             u == m[x].ty
  <2>2. /\ u \in Types /\ 0 <= m[x].k /\ m[x].k < Size[u]
        /\ a <= s /\ s + Size[u] <= b /\ At(m, s, u, m[x].val)
    BY DEF Tiled
  <2>3. Size[u] \in Nat /\ s \in Int
    BY <2>0, <2>2, SizeFacts
  <2>4. ASSUME NEW y \in s .. (s + Size[u] - 1), q <= y, y < q + Size[t]
        PROVE  FALSE
    <3>1. m[y] = Byte(u, m[x].val, y - s)
      BY <2>2 DEF At
    <3>2. m[y] = Byte(t, w, y - q)
      BY <1>0, <2>3, <2>4 DEF At
    <3>3. u = t /\ y - s = y - q
      BY <3>1, <3>2 DEF Byte
    <3>4. s = q
      BY <2>3, <3>3
    <3>5. x >= q /\ x < q + Size[t]
      BY <2>0, <2>2, <2>3, <3>3, <3>4
    <3> QED
      BY <1>0, <1>3, <3>5
  <2>5. At(p, s, u, m[x].val)
    <3>1. ASSUME NEW y \in s .. (s + Size[u] - 1)
          PROVE  p[y] = Byte(u, m[x].val, y - s)
      <4>1. y \in Mem
        BY <1>0, <2>2, <2>3 DEF Mem
      <4>2. y < q \/ y >= q + Size[t]
        BY <1>0, <2>3, <2>4
      <4>3. p[y] = m[y]
        BY <4>1, <4>2, PutElsewhere
      <4> QED
        BY <2>2, <4>3 DEF At
    <3> QED
      BY <1>0, <2>2, <2>3, <3>1 DEF At
  <2> QED
    BY <2>1, <2>2, <2>5
<1> QED
  BY <1>0, <1>2, <1>3

-------------------------------------------------------------------------------
(***************************************************************************)
(* The frames of the calls that have not returned.                         *)
(***************************************************************************)
ArgTotal(f) == ArgOff[f][NumArgs[f] + 1]

\* the arguments of f lie at address a and above
ArgsAt(m, a, f) ==
  \A j \in 1 .. NumArgs[f] :
    At(m, a + ArgOff[f][j], ArgType[f][j], m[a + ArgOff[f][j]].val)

ShapeOK(c) ==
  /\ c.fn \in Funcs /\ c.fs = FrameSize[c.fn] /\ 0 <= c.bp
  /\ c.top = c.bp + 2 * AddrSize + ArgTotal(c.fn)

LinkOK(m, c, d) ==          \* d is the caller's frame
  /\ At(m, c.bp, "ADDR_MEM", c.link) /\ At(m, c.bp + AddrSize, "ADDR_MEM", c.ret)
  /\ c.link = d.bp /\ c.ret \in Code[d.fn]

CallOK(m, c, d) ==
  /\ ShapeOK(c) /\ LinkOK(m, c, d)
  /\ ArgsAt(m, c.bp + 2 * AddrSize, c.fn)
  /\ Tiled(m, c.bp + 2 * AddrSize, d.bp - d.fs)

BootOK(c) == c.fn = Boot /\ c.bp = MemSize /\ c.fs = FrameSize[Boot]

FramesOK(m, cs) ==
  /\ cs \in Seq(Frame) /\ Len(cs) >= 1 /\ BootOK(cs[1])
  /\ \A i \in 2 .. Len(cs) : CallOK(m, cs[i], cs[i - 1])
  /\ \A i, j \in 1 .. Len(cs) : i < j => cs[j].top <= cs[i].bp - cs[i].fs

LEMMA ProgramFacts ==
  ASSUME NEW f \in Program
  PROVE  /\ FrameSize[f] \in Nat /\ NumArgs[f] \in Nat
         /\ FrameSize[Boot] = Padding /\ Padding \in Nat /\ Boot \notin Funcs
         /\ NumArgs[Boot] = 0
         /\ \A j \in 1 .. NumArgs[f] : ArgType[f][j] \in DataTypes
         /\ \A j \in 1 .. (NumArgs[f] + 1) : ArgOff[f][j] \in Nat
         /\ ArgTotal(f) \in Nat /\ ArgOff[f][1] = 0
         /\ \A j \in 1 .. NumArgs[f] :
              /\ ArgOff[f][j + 1] = ArgOff[f][j] + Size[ArgType[f][j]]
              /\ ArgOff[f][j] + Size[ArgType[f][j]] <= ArgTotal(f)
              /\ \A i \in 1 .. NumArgs[f] :
                   j < i => ArgOff[f][j] + Size[ArgType[f][j]] <= ArgOff[f][i]
<1>1. FrameSize[f] \in Nat /\ NumArgs[f] \in Nat /\ FrameSize[Boot] = Padding /\ Boot \notin Funcs
      /\ NumArgs[Boot] = 0
  BY ProgramAssumption
<1>2. Padding \in Nat
  BY SizeAssumption
<1>3. /\ ArgType[f] \in [1 .. NumArgs[f] -> DataTypes]
      /\ ArgOff[f] \in [1 .. (NumArgs[f] + 1) -> Nat]
      /\ ArgOff[f][1] = 0
      /\ \A i \in 1 .. NumArgs[f] :
           /\ ArgOff[f][i + 1] = ArgOff[f][i] + Size[ArgType[f][i]]
           /\ \A j \in (i + 1) .. (NumArgs[f] + 1) : ArgOff[f][i + 1] <= ArgOff[f][j]
  BY ProgramAssumption
<1>4. \A j \in 1 .. (NumArgs[f] + 1) : ArgOff[f][j] \in Nat
  BY <1>3
<1>5. \A j \in 1 .. NumArgs[f] : ArgType[f][j] \in DataTypes
  BY <1>3
<1>6. NumArgs[f] + 1 \in 1 .. (NumArgs[f] + 1)
  BY <1>1
<1>7. ArgTotal(f) \in Nat
  BY <1>4, <1>6 DEF ArgTotal
<1>8. \A j \in 1 .. NumArgs[f] : ArgOff[f][j] + Size[ArgType[f][j]] <= ArgTotal(f)
  <2> SUFFICES ASSUME NEW j \in 1 .. NumArgs[f]
               PROVE  ArgOff[f][j + 1] <= ArgOff[f][NumArgs[f] + 1]
    BY <1>3 DEF ArgTotal
  <2>1. NumArgs[f] + 1 \in (j + 1) .. (NumArgs[f] + 1)
    BY <1>1
  <2> QED
    BY <1>3, <2>1
<1>9. \A j, i \in 1 .. NumArgs[f] :
        j < i => ArgOff[f][j] + Size[ArgType[f][j]] <= ArgOff[f][i]
  <2> SUFFICES ASSUME NEW j \in 1 .. NumArgs[f], NEW i \in 1 .. NumArgs[f], j < i
               PROVE  ArgOff[f][j + 1] <= ArgOff[f][i]
    BY <1>3
  <2>1. i \in (j + 1) .. (NumArgs[f] + 1)
    BY <1>1
  <2> QED
    BY <1>3, <2>1
<1> QED
  BY <1>1, <1>2, <1>3, <1>4, <1>5, <1>7, <1>8, <1>9

LEMMA FrameFacts ==
  ASSUME NEW m, NEW cs, FramesOK(m, cs), NEW i \in 1 .. Len(cs)
  PROVE  /\ cs[i] \in Frame /\ cs[i].fn \in Program /\ cs[i].bp \in Int
         /\ cs[i].fs = FrameSize[cs[i].fn] /\ cs[i].fs \in Nat /\ cs[i].top \in Int
         /\ 0 <= cs[i].bp /\ cs[i].bp <= MemSize
         /\ i > 1 => cs[i].bp + 2 * AddrSize <= cs[i].top /\ cs[i].top <= MemSize
         /\ cs[Len(cs)].bp <= cs[i].bp
         /\ i < Len(cs) => cs[Len(cs)].top <= cs[i].bp - cs[i].fs
<1> DEFINE n == Len(cs)
<1>a. cs \in Seq(Frame) /\ n >= 1
  BY DEF FramesOK
<1>0. cs \in Seq(Frame) /\ n \in Nat /\ n >= 1
  BY <1>a
<1>b. \A k \in 1 .. n : cs[k] \in Frame
  BY <1>0
<1>1. \A k \in 1 .. n : /\ cs[k] \in Frame /\ cs[k].fn \in Program /\ cs[k].bp \in Int
                        /\ cs[k].top \in Int
  BY <1>b DEF Frame
<1>2. \A k \in 1 .. n : /\ cs[k].fs = FrameSize[cs[k].fn] /\ cs[k].fs \in Nat
                        /\ k > 1 => /\ 0 <= cs[k].bp
                                    /\ cs[k].bp + 2 * AddrSize <= cs[k].top
  <2> SUFFICES ASSUME NEW k \in 1 .. n
               PROVE  /\ cs[k].fs = FrameSize[cs[k].fn] /\ cs[k].fs \in Nat
                      /\ k > 1 => /\ 0 <= cs[k].bp
                                  /\ cs[k].bp + 2 * AddrSize <= cs[k].top
    OBVIOUS
  <2>0. FrameSize[cs[k].fn] \in Nat /\ ArgTotal(cs[k].fn) \in Nat
    BY <1>1, ProgramFacts
  <2>1. CASE k = 1
    BY <2>0, <2>1 DEF FramesOK, BootOK
  <2>2. CASE k > 1
    <3>1. ShapeOK(cs[k])
      BY <1>0, <2>2 DEF FramesOK, CallOK
    <3> QED
      BY <1>1, <2>0, <2>2, <3>1, SizeFacts DEF ShapeOK
  <2> QED
    BY <2>1, <2>2
<1>3. cs[1].bp = MemSize
  BY DEF FramesOK, BootOK
<1>4. \A k, l \in 1 .. n : k < l => cs[l].top <= cs[k].bp - cs[k].fs
  BY DEF FramesOK
<1>5. \A l \in 2 .. n : cs[l].top <= MemSize /\ cs[l].bp <= MemSize
  <2> SUFFICES ASSUME NEW l \in 2 .. n
               PROVE  cs[l].top <= MemSize /\ cs[l].bp <= MemSize
    OBVIOUS
  <2>0. l \in 1 .. n /\ 1 \in 1 .. n /\ 1 < l
    BY <1>0
  <2>1. cs[l].top <= cs[1].bp - cs[1].fs /\ cs[1].fs \in Nat
    BY <1>2, <1>4, <2>0
  <2>2. cs[l].top \in Int /\ cs[l].bp \in Int /\ cs[l].bp + 2 * AddrSize <= cs[l].top
    BY <1>1, <1>2, <2>0
  <2>3. MemSize \in Nat /\ AddrSize \in Nat
    BY SizeFacts
  <2>4. cs[l].top <= MemSize
    BY <1>3, <2>1, <2>2, <2>3
  <2> QED
    BY <2>2, <2>3, <2>4
<1>6. cs[n].bp <= cs[i].bp /\ (i < n => cs[n].top <= cs[i].bp - cs[i].fs)
  BY <1>0, <1>1, <1>2, <1>4, SizeFacts
<1> QED
  BY <1>0, <1>1, <1>2, <1>3, <1>5, <1>6, SizeFacts

LEMMA ArgsAgree ==
  ASSUME NEW m1 \in Memory, NEW m2 \in Memory, NEW n \in Int, Agree(m1, m2, n),
         NEW a \in Int, NEW f \in Program, 0 <= a, a >= n, ArgsAt(m1, a, f)
  PROVE  ArgsAt(m2, a, f)
<1> SUFFICES ASSUME NEW j \in 1 .. NumArgs[f]
             PROVE  At(m2, a + ArgOff[f][j], ArgType[f][j], m2[a + ArgOff[f][j]].val)
  BY DEF ArgsAt
<1> DEFINE q == a + ArgOff[f][j]
           t == ArgType[f][j]
<1>1. t \in Types /\ ArgOff[f][j] \in Nat
  BY ProgramFacts, SizeFacts
<1>2. q \in Int /\ q >= n /\ q >= 0 /\ Size[t] \in Nat /\ Size[t] > 0
  BY <1>1, SizeFacts
<1>3. At(m1, q, t, m1[q].val)
  BY DEF ArgsAt
<1>4. q \in Mem
  BY <1>2, <1>3, SizeFacts DEF At, Mem
<1>5. m2[q] = m1[q]
  BY <1>2, <1>4 DEF Agree
<1>6. At(m2, q, t, m1[q].val)
  BY <1>1, <1>2, <1>3, AtAgree
<1> QED
  BY <1>5, <1>6

LEMMA CallAgree ==
  ASSUME NEW m1 \in Memory, NEW m2 \in Memory, NEW n \in Int, Agree(m1, m2, n),
         NEW c \in Frame, NEW d \in Frame, c.fn \in Program,
         d.bp - d.fs <= MemSize, n <= c.bp, CallOK(m1, c, d)
  PROVE  CallOK(m2, c, d)
<1>1. /\ ShapeOK(c) /\ LinkOK(m1, c, d)
      /\ ArgsAt(m1, c.bp + 2 * AddrSize, c.fn)
      /\ Tiled(m1, c.bp + 2 * AddrSize, d.bp - d.fs)
  BY DEF CallOK
<1>2. /\ c.bp \in Int /\ c.bp + AddrSize \in Int /\ c.bp + 2 * AddrSize \in Int
      /\ c.bp + AddrSize >= n /\ c.bp + 2 * AddrSize >= n /\ 0 <= c.bp + 2 * AddrSize
      /\ d.bp - d.fs \in Int
  BY <1>1, SizeFacts DEF Frame, ShapeOK
<1>3. ArgsAt(m2, c.bp + 2 * AddrSize, c.fn)
  BY <1>1, <1>2, ArgsAgree
<1>4. Tiled(m2, c.bp + 2 * AddrSize, d.bp - d.fs)
  BY <1>1, <1>2, TiledAgree
<1>5. LinkOK(m2, c, d)
  <2>1. At(m2, c.bp, "ADDR_MEM", c.link)
    BY <1>1, <1>2, AtAgree, SizeFacts DEF LinkOK
  <2>2. At(m2, c.bp + AddrSize, "ADDR_MEM", c.ret)
    BY <1>1, <1>2, AtAgree, SizeFacts DEF LinkOK
  <2> QED
    BY <1>1, <2>1, <2>2 DEF LinkOK
<1> QED
  BY <1>1, <1>3, <1>4, <1>5 DEF CallOK

\* What happens below the last frame does not concern any frame.
LEMMA FramesAgree ==
  ASSUME NEW m1 \in Memory, NEW m2 \in Memory, NEW cs, FramesOK(m1, cs),
         NEW n \in Int, Agree(m1, m2, n), n <= cs[Len(cs)].bp
  PROVE  FramesOK(m2, cs)
<1>1. cs \in Seq(Frame) /\ Len(cs) >= 1 /\ Len(cs) \in Nat
  <2>1. cs \in Seq(Frame) /\ Len(cs) >= 1
    BY DEF FramesOK
  <2> QED
    BY <2>1
<1>2. ASSUME NEW i \in 2 .. Len(cs)
      PROVE  CallOK(m2, cs[i], cs[i - 1])
  <2>1. i \in 1 .. Len(cs) /\ i - 1 \in 1 .. Len(cs)
    BY <1>1
  <2>2. /\ cs[i] \in Frame /\ cs[i].fn \in Program /\ cs[i].bp \in Int
        /\ cs[Len(cs)].bp <= cs[i].bp
    BY <2>1, FrameFacts
  <2>3. /\ cs[i - 1] \in Frame /\ cs[i - 1].bp \in Int /\ cs[i - 1].bp <= MemSize
        /\ cs[i - 1].fs \in Nat
    BY <2>1, FrameFacts
  <2>4. Len(cs) \in 1 .. Len(cs)
    BY <1>1
  <2>5. cs[Len(cs)].bp \in Int
    BY <2>4, FrameFacts
  <2>6. n <= cs[i].bp /\ cs[i - 1].bp - cs[i - 1].fs <= MemSize
    BY <2>2, <2>3, <2>5, SizeFacts
  <2>7. CallOK(m1, cs[i], cs[i - 1])
    BY DEF FramesOK
  <2> QED
    BY <2>2, <2>3, <2>6, <2>7, CallAgree
<1> QED
  BY <1>1, <1>2 DEF FramesOK

LEMMA FramesPop ==
  ASSUME NEW m, NEW cs, FramesOK(m, cs), Len(cs) >= 2
  PROVE  LET n  == Len(cs) - 1
             ds == SubSeq(cs, 1, n)
         IN  FramesOK(m, ds) /\ Len(ds) = n /\ ds[n] = cs[n]
<1> DEFINE n  == Len(cs) - 1
           ds == SubSeq(cs, 1, n)
<1>0. cs \in Seq(Frame) /\ BootOK(cs[1])
  BY DEF FramesOK
<1>1. Len(cs) \in Nat /\ n \in Nat /\ n >= 1 /\ n <= Len(cs)
  BY <1>0
<1>2. ds \in Seq(Frame) /\ Len(ds) = n /\ \A i \in 1 .. n : ds[i] = cs[i]
  BY <1>0, <1>1
<1>3. \A i \in 2 .. n : CallOK(m, cs[i], cs[i - 1])
  BY <1>1 DEF FramesOK
<1>4. \A i, j \in 1 .. n : i < j => cs[j].top <= cs[i].bp - cs[i].fs
  BY <1>1 DEF FramesOK
<1>5. \A i \in 2 .. n : i \in 1 .. n /\ i - 1 \in 1 .. n
  BY <1>1
<1>6. \A i \in 2 .. Len(ds) : CallOK(m, ds[i], ds[i - 1])
  BY <1>2, <1>3, <1>5
<1>7. \A i, j \in 1 .. Len(ds) : i < j => ds[j].top <= ds[i].bp - ds[i].fs
  BY <1>2, <1>4
<1>8. BootOK(ds[1]) /\ Len(ds) >= 1 /\ ds[n] = cs[n]
  BY <1>0, <1>1, <1>2
<1> QED
  BY <1>2, <1>6, <1>7, <1>8 DEF FramesOK

\* A call adds a frame below the operands of the running function.
LEMMA FramesPush ==
  ASSUME NEW m \in Memory, NEW cs, FramesOK(m, cs), NEW c \in Frame,
         CallOK(m, c, cs[Len(cs)]), c.top <= cs[Len(cs)].bp - cs[Len(cs)].fs
  PROVE  FramesOK(m, Append(cs, c))
<1> DEFINE n  == Len(cs)
           ds == Append(cs, c)
<1>0. cs \in Seq(Frame) /\ BootOK(cs[1]) /\ n >= 1
  BY DEF FramesOK
<1>1. n \in Nat /\ n \in 1 .. n
  BY <1>0
<1>2. ds \in Seq(Frame) /\ Len(ds) = n + 1 /\ ds[n + 1] = c /\ \A i \in 1 .. n : ds[i] = cs[i]
  BY <1>0
<1>3. ASSUME NEW i \in 2 .. Len(ds) PROVE CallOK(m, ds[i], ds[i - 1])
  <2>1. CASE i = n + 1
    <3>1. ds[i] = c /\ ds[i - 1] = cs[n]
      BY <1>1, <1>2, <2>1
    <3> QED
      BY <3>1
  <2>2. CASE i # n + 1
    <3>1. i \in 2 .. n /\ i \in 1 .. n /\ i - 1 \in 1 .. n
      BY <1>1, <1>2, <2>2
    <3>2. CallOK(m, cs[i], cs[i - 1])
      BY <3>1 DEF FramesOK
    <3> QED
      BY <1>2, <3>1, <3>2
  <2> QED
    BY <2>1, <2>2
<1>4. ASSUME NEW i \in 1 .. Len(ds), NEW j \in 1 .. Len(ds), i < j
      PROVE  ds[j].top <= ds[i].bp - ds[i].fs
  <2>1. CASE j = n + 1
    <3>1. i \in 1 .. n /\ ds[j] = c /\ ds[i] = cs[i]
      BY <1>1, <1>2, <1>4, <2>1
    <3>2. CASE i = n
      BY <3>1, <3>2
    <3>3. CASE i < n
      <4>1. cs[n].top <= cs[i].bp - cs[i].fs
        BY <3>1, <3>3, FrameFacts
      <4>2. cs[n].bp + 2 * AddrSize <= cs[n].top /\ cs[n].fs \in Nat /\ cs[n].bp \in Int /\ cs[n].top \in Int
        BY <1>1, <3>1, <3>3, FrameFacts
      <4>3. cs[i].bp \in Int /\ cs[i].fs \in Nat /\ c.top \in Int
        BY <3>1, FrameFacts DEF Frame
      <4>4. AddrSize \in Nat
        BY SizeFacts
      <4>5. cs[n].bp <= cs[n].top
        BY <4>2, <4>4
      <4>6. cs[n].bp - cs[n].fs <= cs[i].bp - cs[i].fs
        BY <4>1, <4>2, <4>3, <4>5, SMTT(30)
      <4>7. c.top <= cs[i].bp - cs[i].fs
        BY <4>2, <4>3, <4>6
      <4> QED
        BY <3>1, <4>7
    <3> QED
      BY <1>1, <3>1, <3>2, <3>3
  <2>2. CASE j # n + 1
    <3>1. i \in 1 .. n /\ j \in 1 .. n
      BY <1>1, <1>2, <1>4, <2>2
    <3> QED
      BY <1>2, <1>4, <3>1 DEF FramesOK
  <2> QED
    BY <2>1, <2>2
<1>5. Len(ds) >= 1 /\ ds[1] = cs[1]
  BY <1>0, <1>1, <1>2
<1> QED
  BY <1>0, <1>2, <1>3, <1>4, <1>5 DEF FramesOK

LEMMA AtElsewhere ==
  ASSUME NEW m \in Memory, NEW a \in Int, NEW t \in Types, NEW v,
         NEW q \in Int, NEW u \in Types, NEW w \in Int,
         At(m, a, t, v), a + Size[t] <= q \/ q + Size[u] <= a
  PROVE  At(Put(m, q, u, w), a, t, v)
<1>1. Size[t] \in Nat /\ Size[u] \in Nat /\ MemSize \in Nat
  BY SizeFacts
<1>2. ASSUME NEW x \in a .. (a + Size[t] - 1)
      PROVE  Put(m, q, u, w)[x] = Byte(t, v, x - a)
  <2>1. x \in Mem
    BY <1>1 DEF At, Mem
  <2>2. x < q \/ x >= q + Size[u]
    BY <1>1
  <2>3. Put(m, q, u, w)[x] = m[x]
    BY <2>1, <2>2, PutElsewhere
  <2> QED
    BY <2>3 DEF At
<1> QED
  BY <1>2 DEF At

\* Assigning to an argument of the running function keeps all frames.
LEMMA FramesArg ==
  ASSUME NEW m \in Memory, NEW cs, FramesOK(m, cs), Len(cs) >= 2,
         NEW j \in 1 .. NumArgs[cs[Len(cs)].fn], NEW v \in Int
  PROVE  LET c == cs[Len(cs)] IN
         FramesOK(Put(m, c.bp + 2 * AddrSize + ArgOff[c.fn][j], ArgType[c.fn][j], v), cs)
<1> DEFINE n == Len(cs)
           c == cs[n]
           d == cs[n - 1]
           f == c.fn
           base == c.bp + 2 * AddrSize
           q == base + ArgOff[f][j]
           t == ArgType[f][j]
           p == Put(m, q, t, v)
<1>0. cs \in Seq(Frame)
  BY DEF FramesOK
<1>1. n \in Nat /\ n \in 1 .. n /\ n - 1 \in 1 .. n /\ n - 1 < n
  BY <1>0
<1>2. /\ c \in Frame /\ f \in Program /\ c.bp \in Int /\ c.top \in Int /\ c.top <= MemSize
      /\ 0 <= c.bp /\ c.bp + 2 * AddrSize <= c.top
  BY <1>1, FrameFacts
<1>3. d \in Frame /\ d.bp \in Int /\ d.bp <= MemSize /\ d.fs \in Nat /\ c.top <= d.bp - d.fs
  BY <1>1, FrameFacts
<1>4. CallOK(m, c, d)
  BY <1>1 DEF FramesOK
<1>5. c.top = base + ArgTotal(f)
  BY <1>4 DEF CallOK, ShapeOK
<1>6. /\ ArgOff[f][j] \in Nat /\ ArgOff[f][j] + Size[t] <= ArgTotal(f) /\ ArgTotal(f) \in Nat
      /\ t \in DataTypes
  BY <1>2, ProgramFacts
<1>7. t \in Types /\ Size[t] \in Nat /\ Size[t] > 0 /\ AddrSize \in Nat /\ AddrSize > 0 /\ MemSize \in Nat
  BY <1>6, SizeFacts
<1>b. base = c.bp + 2 * AddrSize /\ q = base + ArgOff[f][j]
  OBVIOUS
<1>8. base \in Int /\ q \in Int /\ 0 <= base /\ 0 <= q /\ base <= q /\ q + Size[t] <= c.top
  <2> HIDE DEF c, d, f, base, q, t, p
  <2>1. base \in Int /\ 0 <= base
    BY <1>2, <1>7, <1>b
  <2>2. q \in Int /\ base <= q /\ 0 <= q
    BY <1>6, <1>b, <2>1
  <2>3. q + Size[t] = base + (ArgOff[f][j] + Size[t])
    BY <1>6, <1>7, <1>b, <2>1
  <2>4. base + (ArgOff[f][j] + Size[t]) <= base + ArgTotal(f)
    BY <1>6, <1>7, <2>1
  <2> QED
    BY <1>5, <2>1, <2>2, <2>3, <2>4
<1>9. p \in Memory
  BY <1>7, <1>8, PutTyped
<1>10. Agree(m, p, c.top)
  <2> SUFFICES ASSUME NEW x \in Mem, x >= c.top
               PROVE  m[x] = p[x]
    BY DEF Agree
  <2>1. x >= q + Size[t]
    BY <1>2, <1>7, <1>8 DEF Mem
  <2> QED
    BY <1>7, <1>8, <2>1, PutElsewhere
<1>11. ASSUME NEW i \in 2 .. n, i < n
       PROVE  CallOK(p, cs[i], cs[i - 1])
  <2>1. i \in 1 .. n /\ i - 1 \in 1 .. n
    BY <1>1
  <2>2. /\ cs[i] \in Frame /\ cs[i].fn \in Program /\ cs[i].bp \in Int /\ cs[i].fs \in Nat
        /\ c.top <= cs[i].bp - cs[i].fs
    BY <1>11, <2>1, FrameFacts
  <2>3. /\ cs[i - 1] \in Frame /\ cs[i - 1].bp \in Int /\ cs[i - 1].bp <= MemSize
        /\ cs[i - 1].fs \in Nat
    BY <2>1, FrameFacts
  <2>4. c.bp <= cs[i].bp /\ c.top <= cs[i].bp /\ cs[i - 1].bp - cs[i - 1].fs <= MemSize
    <3> HIDE DEF c, d, f, base, q, t, p
    <3>1. c.bp <= c.top
      BY <1>2, <1>7
    <3>3. c.top <= cs[i].bp
      BY <1>2, <2>2
    <3>2. cs[i - 1].bp - cs[i - 1].fs <= MemSize
      BY <1>7, <2>3
    <3> QED
      BY <1>2, <2>2, <3>1, <3>2, <3>3
  <2>5. CallOK(m, cs[i], cs[i - 1])
    BY DEF FramesOK
  <2> QED
    BY <1>2, <1>9, <1>10, <2>2, <2>3, <2>4, <2>5, CallAgree
<1>12. CallOK(p, c, d)
  <2>1. LinkOK(p, c, d)
    <3>1. At(m, c.bp, "ADDR_MEM", c.link) /\ At(m, c.bp + AddrSize, "ADDR_MEM", c.ret)
      BY <1>4 DEF CallOK, LinkOK
    <3>2. "ADDR_MEM" \in Types /\ Size["ADDR_MEM"] = AddrSize
      BY SizeFacts DEF AddrSize
    <3>3. c.bp + AddrSize \in Int /\ c.bp + AddrSize <= q /\ c.bp + AddrSize + AddrSize <= q
      BY <1>2, <1>7, <1>8
    <3>4. At(p, c.bp, "ADDR_MEM", c.link)
      BY <1>2, <1>7, <1>8, <3>1, <3>2, <3>3, AtElsewhere
    <3>5. At(p, c.bp + AddrSize, "ADDR_MEM", c.ret)
      BY <1>7, <1>8, <3>1, <3>2, <3>3, AtElsewhere
    <3> QED
      BY <1>4, <3>4, <3>5 DEF CallOK, LinkOK
  <2>2. ArgsAt(p, base, f)
    <3> SUFFICES ASSUME NEW k \in 1 .. NumArgs[f]
                 PROVE  At(p, base + ArgOff[f][k], ArgType[f][k], p[base + ArgOff[f][k]].val)
      BY DEF ArgsAt
    <3> DEFINE r == base + ArgOff[f][k]
               u == ArgType[f][k]
    <3>0. u \in DataTypes /\ ArgOff[f][k] \in Nat /\ NumArgs[f] \in Nat
      BY <1>2, ProgramFacts
    <3>1. u \in Types /\ ArgOff[f][k] \in Nat
      BY <3>0, SizeFacts
    <3>2. r \in Int /\ r >= 0 /\ Size[u] \in Nat /\ Size[u] > 0
      <4>1. Size[u] \in Nat /\ Size[u] > 0
        BY <3>1, SizeFacts
      <4>2. r \in Int /\ r >= 0
        <5> HIDE DEF base, f
        <5> QED
          BY <1>8, <3>1
      <4> QED
        BY <4>1, <4>2
    <3>3. At(m, r, u, m[r].val)
      BY <1>4 DEF CallOK, ArgsAt
    <3>4. CASE k = j
      <4>0. r = q /\ u = t /\ q + Size[t] <= MemSize
        <5> HIDE DEF c, q, t, base
        <5>1. q + Size[t] <= MemSize
          BY <1>2, <1>7, <1>8
        <5> QED
          BY <1>b, <3>4, <5>1 DEF q, t
      <4>1. At(p, r, u, v)
        BY <1>7, <1>8, <4>0, PutAt
      <4>2. r \in r .. (r + Size[u] - 1)
        BY <3>2
      <4>3. p[r] = Byte(u, v, r - r)
        BY <4>1, <4>2 DEF At
      <4> QED
        BY <4>1, <4>3 DEF Byte
    <3>5. CASE k # j
      <4>1. NumArgs[f] \in Nat
        BY <1>2, ProgramFacts
      <4>2. k < j \/ j < k
        BY <3>5, <4>1
      <4>3. r + Size[u] <= q \/ q + Size[t] <= r
        <5>1. CASE k < j
          <6>1. ArgOff[f][k] + Size[u] <= ArgOff[f][j]
            BY <1>2, <5>1, ProgramFacts
          <6>2. ArgOff[f][j] \in Nat /\ ArgOff[f][k] \in Nat /\ base \in Int
            BY <1>6, <1>8, <3>1
          <6>3. base + (ArgOff[f][k] + Size[u]) <= base + ArgOff[f][j]
            BY <3>2, <6>1, <6>2
          <6> QED
            BY <3>2, <6>2, <6>3
        <5>2. CASE j < k
          <6>1. ArgOff[f][j] + Size[t] <= ArgOff[f][k]
            BY <1>2, <5>2, ProgramFacts
          <6>2. ArgOff[f][j] \in Nat /\ ArgOff[f][k] \in Nat /\ base \in Int
            BY <1>6, <1>8, <3>1
          <6>3. base + (ArgOff[f][j] + Size[t]) <= base + ArgOff[f][k]
            BY <1>7, <6>1, <6>2
          <6> QED
            BY <1>7, <6>2, <6>3
        <5> QED
          BY <4>2, <5>1, <5>2
      <4>4. At(p, r, u, m[r].val)
        BY <1>7, <1>8, <3>1, <3>2, <3>3, <4>3, AtElsewhere
      <4>5. r \in r .. (r + Size[u] - 1)
        BY <3>2
      <4>6. p[r] = Byte(u, m[r].val, r - r)
        BY <4>4, <4>5 DEF At
      <4> DEFINE w == p[r]
                 z == m[r].val
      <4>7. w.val = z
        <5> HIDE DEF p, r, u
        <5> QED
          BY <4>6 DEF Byte
      <4>8. At(p, r, u, w.val)
        <5> HIDE DEF p, r, u
        <5> QED
          BY <4>4, <4>7
      <4> QED
        BY <4>8
    <3> QED
      BY <3>4, <3>5
  <2>3. Tiled(p, base, d.bp - d.fs)
    <3>1. Tiled(m, base, d.bp - d.fs) /\ At(m, q, t, m[q].val)
      BY <1>4 DEF CallOK, ArgsAt
    <3>2. d.bp - d.fs \in Int /\ d.bp - d.fs <= MemSize /\ q + Size[t] <= d.bp - d.fs /\ 0 <= base
      <4> HIDE DEF c, d, f, base, q, t, p
      <4> QED
        BY <1>2, <1>3, <1>7, <1>8
    <3> QED
      BY <1>7, <1>8, <3>1, <3>2, TiledReplace
  <2> QED
    BY <1>4, <2>1, <2>2, <2>3 DEF CallOK
<1>13. ASSUME NEW i \in 2 .. n PROVE CallOK(p, cs[i], cs[i - 1])
  <2>1. i = n \/ i < n
    BY <1>1
  <2> QED
    BY <1>11, <1>12, <2>1
<1> QED
  BY <1>13 DEF FramesOK

-------------------------------------------------------------------------------
(***************************************************************************)
(* The inductive invariant.  FrameChain, OperandsTiled and CodeIntact      *)
(* follow from StackOK, which holds for every stage of an instruction;     *)
(* the other parts say how far a RET under way has got.                    *)
(***************************************************************************)
CodeOK(m) == \A x \in 0 .. (CodeEnd - 1) : m[x] = CodeByte

StackOK(m, s, b, cs) ==
  LET c == cs[Len(cs)] IN
  /\ FramesOK(m, cs)
  /\ b = c.bp /\ s <= c.bp - c.fs /\ Tiled(m, s, c.bp - c.fs)
  /\ s >= CodeEnd => CodeOK(m)

\* the collected values cover the first n bytes of ret.img, without gaps
ValsOK(r, n) ==
  /\ r.vals = <<>> => n = 0
  /\ r.vals # <<>> => r.vals[1].at = 0

\* each collected value ends where the next one begins, the last one at n, and
\* its bytes are those of ret.img
ChainOK(r, n) ==
  \A j \in 1 .. Len(r.vals) :
    LET w == r.vals[j] IN
    /\ 0 <= w.at
    /\ w.at + Size[w.ty] = IF j < Len(r.vals) THEN r.vals[j + 1].at ELSE n
    /\ w.at + Size[w.ty] <= n
    /\ \A k \in 0 .. (Size[w.ty] - 1) : r.img[w.at + k + 1] = Byte(w.ty, w.val, k)

CollectOK ==
  LET c == calls[Len(calls)]
      n == sp - (OperandEnd - Len(ret.img))
  IN  /\ Len(calls) >= 2 /\ CodeEnd <= sp
      /\ ret.fn = c.fn /\ ret.top = c.top
      /\ ret.na = NumArgs[c.fn] /\ ret.fs = FrameSize[c.fn]
      /\ 0 <= n /\ CodeEnd <= OperandEnd - Len(ret.img)
      /\ ValsOK(ret, n) /\ ChainOK(ret, n)
      /\ \A i \in (n + 1) .. Len(ret.img) :
           ret.img[i] = mem[OperandEnd - Len(ret.img) + i - 1]

ArgsOK ==
  LET f    == ret.fn
      base == ret.top - ArgTotal(f)
  IN  /\ CodeEnd <= sp /\ ret.top <= OperandEnd
      /\ ret.na \in 0 .. NumArgs[f]
      /\ sp = base + ArgOff[f][NumArgs[f] - ret.na + 1]
      /\ \A j \in (NumArgs[f] - ret.na + 1) .. NumArgs[f] :
           At(mem, base + ArgOff[f][j], ArgType[f][j], mem[base + ArgOff[f][j]].val)
      /\ CodeEnd <= ret.top - Len(ret.img)
      /\ ValsOK(ret, Len(ret.img)) /\ ChainOK(ret, Len(ret.img))

\* the first n bytes of ret.img have been pushed
MovedOK(m, r, n) ==
  \A i \in 1 .. n :
    LET c == r.img[i]
        s == i - 1 - c.k
    IN  /\ c.ty \in DataTypes /\ 0 <= c.k /\ c.k < Size[c.ty]
        /\ 0 <= s /\ s + Size[c.ty] <= n
        /\ m[r.top - s - Size[c.ty] + c.k] = c

PushOK ==
  LET n == IF ret.vals = <<>> THEN Len(ret.img) ELSE ret.vals[1].at IN
  /\ ret.na = 0 /\ ret.top <= OperandEnd
  /\ 0 <= n /\ n <= Len(ret.img) /\ sp = ret.top - n
  /\ CodeEnd <= ret.top - Len(ret.img)
  /\ ChainOK(ret, Len(ret.img))
  /\ MovedOK(mem, ret, n)

\* the types that the step from one state to the next needs
Typed ==
  /\ mem \in [Mem -> Cell]
  /\ ip \in Int /\ sp \in Int /\ bp \in Int
  /\ pc \in {"exec", "collect", "args", "push", "halted", "error", "lost"}
  /\ ret \in [na : Int, fs : Int, vals : Seq([ty : DataTypes, val : Int, at : Int]),
              img : Seq(Cell), fn : Program, top : Int]
  /\ calls \in Seq(Frame) /\ calls # <<>>

IInv ==
  /\ Typed
  /\ Running => StackOK(mem, sp, bp, calls)
  /\ pc = "collect" => CollectOK
  /\ pc = "args" => ArgsOK
  /\ pc = "push" => PushOK

-------------------------------------------------------------------------------
(***************************************************************************)
(* Instructions that pop operands and push at most one value.              *)
(***************************************************************************)
Limit(cs) == cs[Len(cs)].bp - cs[Len(cs)].fs

LEMMA LimitFacts ==
  ASSUME NEW m, NEW cs, FramesOK(m, cs)
  PROVE  /\ Len(cs) \in Nat /\ Len(cs) \in 1 .. Len(cs)
         /\ cs[Len(cs)] \in Frame /\ cs[Len(cs)].bp \in Int /\ cs[Len(cs)].fs \in Nat
         /\ cs[Len(cs)].fn \in Program /\ cs[Len(cs)].fs = FrameSize[cs[Len(cs)].fn]
         /\ Limit(cs) \in Int /\ Limit(cs) <= cs[Len(cs)].bp
         /\ Limit(cs) <= MemSize /\ cs[Len(cs)].bp <= MemSize
         /\ Len(cs) > 1 => /\ cs[Len(cs)].top \in Int
                           /\ cs[Len(cs)].bp <= cs[Len(cs)].top
<1>0. cs \in Seq(Frame) /\ Len(cs) >= 1
  BY DEF FramesOK
<1>1. Len(cs) \in Nat /\ Len(cs) \in 1 .. Len(cs)
  BY <1>0
<1> DEFINE c == cs[Len(cs)]
<1>2. /\ c \in Frame /\ c.bp \in Int /\ c.fs \in Nat /\ c.fn \in Program
      /\ c.fs = FrameSize[c.fn] /\ c.bp <= MemSize /\ c.top \in Int
      /\ Len(cs) > 1 => c.bp + 2 * AddrSize <= c.top
  BY <1>1, FrameFacts
<1> HIDE DEF c
<1>3. c.bp - c.fs \in Int /\ c.bp - c.fs <= c.bp /\ c.bp - c.fs <= MemSize
  BY <1>2, SizeFacts
<1>4. Len(cs) > 1 => c.bp <= c.top
  BY <1>2, SizeFacts
<1> QED
  BY <1>1, <1>2, <1>3, <1>4 DEF Limit, c

LEMMA StackErase ==
  ASSUME NEW m \in Memory, NEW s \in Int, NEW b, NEW cs,
         FramesOK(m, cs), b = cs[Len(cs)].bp, CodeOK(m),
         NEW a \in Int, CodeEnd <= s, s <= a, a <= Limit(cs), Tiled(m, a, Limit(cs))
  PROVE  LET m2 == Erase(m, s, a) IN
         m2 \in Memory /\ StackOK(m2, a, b, cs) /\ Agree(m, m2, a)
<1> DEFINE m2 == Erase(m, s, a)
<1>0. FramesOK(m, cs) /\ b = cs[Len(cs)].bp /\ CodeOK(m)
  OBVIOUS
<1>1. m2 \in Memory
  BY EraseTyped
<1>2. Agree(m, m2, a)
  BY EraseElsewhere DEF Agree
<1>3. /\ Limit(cs) \in Int /\ Limit(cs) <= MemSize /\ Limit(cs) <= cs[Len(cs)].bp
      /\ cs[Len(cs)].bp \in Int
  BY <1>0, LimitFacts
<1>4. 0 <= a /\ a <= cs[Len(cs)].bp
  BY <1>3, SizeFacts
<1>5. FramesOK(m2, cs)
  BY <1>0, <1>1, <1>2, <1>4, FramesAgree
<1>6. Tiled(m2, a, Limit(cs))
  BY <1>1, <1>2, <1>3, <1>4, TiledAgree
<1>7. CodeOK(m2)
  <2> SUFFICES ASSUME NEW x \in 0 .. (CodeEnd - 1)
               PROVE  m2[x] = CodeByte
    BY DEF CodeOK
  <2>1. x \in Mem /\ x < s
    BY SizeFacts DEF Mem
  <2>2. m2[x] = m[x]
    BY <2>1, EraseElsewhere
  <2> QED
    BY <1>0, <2>2 DEF CodeOK
<1> QED
  BY <1>0, <1>1, <1>2, <1>5, <1>6, <1>7 DEF StackOK, Limit

LEMMA StackPop ==
  ASSUME NEW m \in Memory, NEW s \in Int, NEW b, NEW cs, StackOK(m, s, b, cs),
         NEW a \in Int, CodeEnd <= s, s <= a, a <= Limit(cs), Tiled(m, a, Limit(cs))
  PROVE  LET m2 == Erase(m, s, a) IN
         m2 \in Memory /\ StackOK(m2, a, b, cs) /\ Agree(m, m2, a)
<1>1. FramesOK(m, cs) /\ b = cs[Len(cs)].bp /\ CodeOK(m)
  BY DEF StackOK
<1> QED
  BY <1>1, StackErase

LEMMA StackPush ==
  ASSUME NEW m \in Memory, NEW s \in Int, NEW b, NEW cs, StackOK(m, s, b, cs),
         NEW t \in Types, NEW v \in Int, CodeEnd <= s, Size[t] <= s
  PROVE  LET m2 == Put(m, s - Size[t], t, v) IN
         m2 \in Memory /\ StackOK(m2, s - Size[t], b, cs) /\ Agree(m, m2, s)
<1> DEFINE n  == s - Size[t]
           m2 == Put(m, n, t, v)
<1>0. /\ FramesOK(m, cs) /\ b = cs[Len(cs)].bp /\ CodeOK(m)
      /\ s <= Limit(cs) /\ Tiled(m, s, Limit(cs))
  BY DEF StackOK, Limit
<1>s. Size[t] \in Nat /\ Size[t] > 0 /\ CodeEnd \in Nat /\ MemSize \in Nat
      /\ CodeEnd <= MemSize
  BY SizeFacts
<1>n. n \in Int /\ 0 <= n /\ n < s /\ n + Size[t] = s
  BY <1>s
<1>1. m2 \in Memory
  BY <1>n, PutTyped
<1>2. Agree(m, m2, s)
  <2> SUFFICES ASSUME NEW x \in Mem, x >= s PROVE m[x] = m2[x]
    BY DEF Agree
  <2>1. x >= n + Size[t]
    BY <1>n
  <2> QED
    BY <1>n, <2>1, PutElsewhere
<1>3. /\ Limit(cs) \in Int /\ Limit(cs) <= MemSize /\ Limit(cs) <= cs[Len(cs)].bp
      /\ cs[Len(cs)].bp \in Int
  BY <1>0, LimitFacts
<1>4. s <= cs[Len(cs)].bp /\ n <= Limit(cs)
  BY <1>0, <1>n, <1>3
<1>5. FramesOK(m2, cs)
  BY <1>0, <1>1, <1>2, <1>4, FramesAgree
<1>6. Tiled(m2, n, Limit(cs))
  BY <1>0, <1>n, <1>3, TiledPush
<1>7. ASSUME n >= CodeEnd PROVE CodeOK(m2)
  <2> SUFFICES ASSUME NEW x \in 0 .. (CodeEnd - 1)
               PROVE  m2[x] = CodeByte
    BY DEF CodeOK
  <2>1. x \in Mem /\ x < n
    BY <1>s, <1>n, <1>7 DEF Mem
  <2>2. m2[x] = m[x]
    BY <1>n, <2>1, PutElsewhere
  <2> QED
    BY <1>0, <2>2 DEF CodeOK
<1> QED
  BY <1>0, <1>1, <1>2, <1>4, <1>5, <1>6, <1>7 DEF StackOK, Limit

\* Popping what lies below a and pushing one value keeps the stack in order.
LEMMA StackReplace ==
  ASSUME NEW m \in Memory, NEW s \in Int, NEW b, NEW cs, StackOK(m, s, b, cs),
         NEW a \in Int, CodeEnd <= s, s <= a, a <= Limit(cs), Tiled(m, a, Limit(cs)),
         NEW t \in Types, NEW v \in Int, Size[t] <= a
  PROVE  LET m2 == Put(Erase(m, s, a), a - Size[t], t, v) IN
         m2 \in Memory /\ StackOK(m2, a - Size[t], b, cs) /\ Agree(m, m2, a)
<1> DEFINE m1 == Erase(m, s, a)
           m2 == Put(m1, a - Size[t], t, v)
<1>1. m1 \in Memory /\ StackOK(m1, a, b, cs) /\ Agree(m, m1, a)
  BY StackPop
<1>2. CodeEnd <= a
  BY SizeFacts
<1> HIDE DEF m1
<1>3. m2 \in Memory /\ StackOK(m2, a - Size[t], b, cs) /\ Agree(m1, m2, a)
  BY <1>1, <1>2, StackPush
<1>4. Agree(m, m2, a)
  BY <1>1, <1>3 DEF Agree
<1> QED
  BY <1>3, <1>4 DEF m1

\* The data of the operand area can be popped one after the other.
LEMMA OperandPop ==
  ASSUME Typed, StackOK(mem, sp, bp, calls), NEW a \in Int, CodeEnd <= sp, sp <= a,
         Tiled(mem, a, OperandEnd), NEW ts \in SUBSET Types, Operand(a, ts)
  PROVE  /\ a \in Mem /\ mem[a].ty \in ts /\ mem[a].ty \in Types /\ mem[a].val \in Int
         /\ Next1(a) \in Int /\ a < Next1(a) /\ Next1(a) <= OperandEnd
         /\ OperandEnd \in Int /\ OperandEnd = Limit(calls)
         /\ Tiled(mem, Next1(a), OperandEnd)
<1>0. mem \in Memory /\ FramesOK(mem, calls) /\ OperandEnd = Limit(calls)
  BY DEF Typed, Memory, StackOK, OperandEnd, Limit
<1>1. Limit(calls) \in Int /\ Limit(calls) <= MemSize
  BY <1>0, LimitFacts
<1>2. a \in Mem /\ mem[a].ty \in ts /\ Next1(a) <= OperandEnd
  BY DEF Operand, Datum, Next1
<1>3. mem[a].ty \in Types /\ Size[mem[a].ty] \in Nat /\ Size[mem[a].ty] > 0
  BY <1>2, SizeFacts
<1>4. mem[a].val \in Int
  BY <1>0, <1>2 DEF Memory, Cell
<1>5. Next1(a) \in Int /\ a < Next1(a)
  BY <1>3 DEF Next1
<1>6. a < OperandEnd /\ 0 <= a
  <2>1. 0 <= a
    BY <1>2, SizeFacts DEF Mem
  <2> QED
    BY <1>0, <1>1, <1>2, <1>5, <2>1
<1>7. Tiled(mem, Next1(a), OperandEnd)
  BY <1>0, <1>1, <1>6, TiledPop DEF Next1
<1> QED
  BY <1>0, <1>1, <1>2, <1>3, <1>4, <1>5, <1>7

LEMMA ExecInv ==
  ASSUME IInv, mem' \in Memory, ip' \in Int, sp' \in Int,
         pc' \in {"exec", "halted", "error", "lost"}, bp' = bp, ret' = ret, calls' = calls,
         StackOK(mem', sp', bp', calls')
  PROVE  IInv'
<1>1. Typed'
  BY DEF IInv, Typed, Memory
<1>2. pc' # "collect" /\ pc' # "args" /\ pc' # "push"
  OBVIOUS
<1>3. (Running => StackOK(mem, sp, bp, calls))'
  OBVIOUS
<1> QED
  BY <1>1, <1>2, <1>3 DEF IInv

LEMMA ExecStep ==
  ASSUME IInv, Fetch, mem' \in Memory, ip' \in Int, sp' \in Int,
         pc' \in {"exec", "halted", "error", "lost"}, bp' = bp, ret' = ret, calls' = calls,
         StackOK(mem', sp', bp', calls'), Agree(mem, mem', OperandEnd)
  PROVE  IInv' /\ KeepsCaller
<1>0. /\ StackOK(mem, sp, bp, calls)
      /\ FramesOK(mem, calls) /\ bp = calls[Len(calls)].bp
  BY DEF IInv, Fetch, Running, StackOK
<1>2. IInv'
  BY ExecInv
<1>3. KeepsCaller
  <2> SUFFICES ASSUME Len(calls) > 1, NEW x \in Mem, x >= calls[Len(calls)].top
               PROVE  mem'[x] = mem[x]
    BY DEF KeepsCaller
  <2>1. OperandEnd = Limit(calls)
    BY <1>0 DEF OperandEnd, Limit
  <2>2. OperandEnd <= x
    BY <1>0, <2>1, LimitFacts DEF Mem
  <2> QED
    BY <2>2 DEF Agree
<1> QED
  BY <1>2, <1>3

LEMMA PopStep ==
  ASSUME IInv, Fetch, NEW a \in Int, sp <= a, a <= OperandEnd, Tiled(mem, a, OperandEnd),
         sp' = a, mem' = Erase(mem, sp, a), ip' \in Int,
         pc' \in {"exec", "halted", "error", "lost"}, bp' = bp, ret' = ret, calls' = calls
  PROVE  IInv' /\ KeepsCaller
<1>0. /\ mem \in Memory /\ sp \in Int /\ CodeEnd <= sp
      /\ StackOK(mem, sp, bp, calls) /\ OperandEnd = Limit(calls)
  BY DEF IInv, Typed, Fetch, PointersOK, Running, StackOK, Memory, OperandEnd, Limit
<1>1. mem' \in Memory /\ StackOK(mem', sp', bp', calls') /\ Agree(mem, mem', a)
  BY <1>0, StackPop
<1>2. Agree(mem, mem', OperandEnd)
  <2>1. OperandEnd \in Int
    BY <1>0, LimitFacts DEF StackOK
  <2> QED
    BY <1>1, <2>1 DEF Agree, Mem
<1> QED
  BY <1>1, <1>2, ExecStep

LEMMA ReplaceStep ==
  ASSUME IInv, Fetch, NEW a \in Int, sp <= a, a <= OperandEnd, Tiled(mem, a, OperandEnd),
         NEW t \in Types, NEW v \in Int, Result(a, t, v), ip' \in Int,
         UNCHANGED <<bp, pc, ret, calls>>
  PROVE  IInv' /\ KeepsCaller
<1>0. /\ mem \in Memory /\ sp \in Int /\ CodeEnd <= sp /\ pc = "exec"
      /\ StackOK(mem, sp, bp, calls) /\ OperandEnd = Limit(calls)
  BY DEF IInv, Typed, Fetch, PointersOK, Running, StackOK, Memory, OperandEnd, Limit
<1>1. mem' \in Memory /\ StackOK(mem', sp', bp', calls') /\ Agree(mem, mem', a)
  BY <1>0, StackReplace DEF Result, Replace
<1>2. Agree(mem, mem', OperandEnd)
  <2>1. OperandEnd \in Int
    BY <1>0, LimitFacts DEF StackOK
  <2> QED
    BY <1>1, <2>1 DEF Agree, Mem
<1>3. sp' \in Int
  BY SizeFacts DEF Result, Replace
<1> QED
  BY <1>0, <1>1, <1>2, <1>3, ExecStep

LEMMA FetchFacts ==
  ASSUME IInv, Fetch
  PROVE  /\ Typed /\ mem \in Memory /\ sp \in Int /\ ip \in Int /\ bp \in Int
         /\ StackOK(mem, sp, bp, calls) /\ FramesOK(mem, calls)
         /\ bp = calls[Len(calls)].bp /\ Fn \in Program
         /\ CodeEnd <= sp /\ sp <= OperandEnd /\ Tiled(mem, sp, OperandEnd)
         /\ OperandEnd = Limit(calls) /\ OperandEnd \in Int
<1>1. /\ Typed /\ mem \in Memory /\ sp \in Int /\ ip \in Int /\ bp \in Int
      /\ CodeEnd <= sp /\ StackOK(mem, sp, bp, calls)
  BY DEF IInv, Typed, Memory, Fetch, PointersOK, Running
<1>2. FramesOK(mem, calls) /\ bp = calls[Len(calls)].bp /\ OperandEnd = Limit(calls)
  BY <1>1 DEF StackOK, OperandEnd, Limit
<1>3. sp <= OperandEnd /\ Tiled(mem, sp, OperandEnd)
  BY <1>1, <1>2 DEF StackOK, Limit
<1>4. OperandEnd \in Int /\ Fn \in Program
  BY <1>2, LimitFacts DEF Fn
<1> QED
  BY <1>1, <1>2, <1>3, <1>4

\* Types that operands are asked for.
LEMMA OperandTypes ==
  /\ DataTypes \in SUBSET Types /\ {"ADDR_IP"} \in SUBSET Types
  /\ {"ADDR_BP"} \in SUBSET Types /\ {"BOOL"} \in SUBSET Types
  /\ {"STR"} \in SUBSET Types /\ {"INT"} \in SUBSET Types
  BY SizeFacts

LEMMA ValFacts ==
  ASSUME NEW t \in DataTypes, NEW v \in Vals[t]
  PROVE  t \in Types /\ v \in Int
  BY SizeAssumption, SizeFacts

LEMMA SlotFacts ==
  ASSUME NEW f \in Program, NEW s \in Slots(f)
  PROVE  /\ s.off \in Int /\ s.ty \in DataTypes
         /\ \/ s.off + Size[s.ty] <= 0 /\ 0 <= s.off + FrameSize[f]
            \/ \E j \in 1 .. NumArgs[f] :
                 s.off = 2 * AddrSize + ArgOff[f][j] /\ s.ty = ArgType[f][j]
<1>1. CASE s \in {[off |-> -l.off, ty |-> l.ty] : l \in Locals[f]}
  <2>1. PICK l \in Locals[f] : s = [off |-> -l.off, ty |-> l.ty]
    BY <1>1
  <2>2. /\ l.off \in Nat /\ l.ty \in DataTypes
        /\ Size[l.ty] <= l.off /\ l.off <= FrameSize[f]
    BY ProgramAssumption
  <2>3. s.off = -l.off /\ s.ty = l.ty
    BY <2>1
  <2>4. FrameSize[f] \in Nat /\ Size[l.ty] \in Nat
    BY <2>2, ProgramFacts, SizeFacts
  <2> QED
    BY <2>2, <2>3, <2>4
<1>2. CASE s \in {[off |-> 2 * AddrSize + ArgOff[f][i], ty |-> ArgType[f][i]] :
                    i \in 1 .. NumArgs[f]}
  <2>1. PICK i \in 1 .. NumArgs[f] :
               s = [off |-> 2 * AddrSize + ArgOff[f][i], ty |-> ArgType[f][i]]
    BY <1>2
  <2>2. s.off = 2 * AddrSize + ArgOff[f][i] /\ s.ty = ArgType[f][i]
    BY <2>1
  <2>3. ArgType[f][i] \in DataTypes /\ ArgOff[f][i] \in Nat
    BY ProgramFacts
  <2>4. s.off \in Int
    BY <2>2, <2>3, SizeFacts
  <2> QED
    BY <2>2, <2>3, <2>4
<1> QED
  BY <1>1, <1>2 DEF Slots

LEMMA PushSafe ==
  ASSUME IInv, NEW t \in DataTypes, NEW v \in Vals[t], Push(t, v)
  PROVE  IInv' /\ KeepsCaller
<1>1. Fetch /\ ip' = ip + (1 + Size[t]) /\ Result(sp, t, v) /\ UNCHANGED <<bp, pc, ret, calls>>
  BY DEF Push, Step
<1>2. t \in Types /\ v \in Int /\ Size[t] \in Nat
  BY ValFacts, SizeFacts
<1> QED
  BY <1>1, <1>2, FetchFacts, ReplaceStep

LEMMA PushAddressSafe ==
  ASSUME IInv, PushAddress
  PROVE  IInv' /\ KeepsCaller
<1>1. /\ Fetch /\ ip' = ip + (1 + AddrSize) /\ UNCHANGED <<bp, pc, ret, calls>>
  BY DEF PushAddress, Step
<1>2. /\ sp \in Int /\ ip \in Int /\ sp <= OperandEnd /\ Tiled(mem, sp, OperandEnd)
      /\ Fn \in Program
  BY <1>1, FetchFacts
<1>3. ASSUME NEW a \in Targets[Fn] \union {Entry[f] : f \in Funcs} \union {c.addr : c \in Consts},
             Result(sp, "ADDR_IP", a - (ip + AddrSize + 2))
      PROVE  IInv' /\ KeepsCaller
  <2>1. a \in Int
    <3>1. CASE a \in Targets[Fn]
      BY <1>2, <3>1, ProgramAssumption
    <3>2. CASE a \in {Entry[f] : f \in Funcs}
      BY <3>2, ProgramAssumption DEF Program
    <3>3. CASE a \in {c.addr : c \in Consts}
      BY <3>3, SizeAssumption
    <3> QED
      BY <3>1, <3>2, <3>3
  <2>2. a - (ip + AddrSize + 2) \in Int /\ ip' \in Int
    BY <1>1, <1>2, <2>1, SizeFacts
  <2> QED
    BY <1>1, <1>2, <1>3, <2>2, SizeFacts, ReplaceStep
<1>4. ASSUME NEW s \in Slots(Fn), Result(sp, "ADDR_BP", s.off)
      PROVE  IInv' /\ KeepsCaller
  <2>1. s.off \in Int /\ ip' \in Int
    BY <1>1, <1>2, SlotFacts, SizeFacts
  <2> QED
    BY <1>1, <1>2, <1>4, <2>1, SizeFacts, ReplaceStep
<1> QED
  BY <1>3, <1>4 DEF PushAddress

\* One operand is replaced by a value.
LEMMA UnarySafe ==
  ASSUME IInv, Fetch, NEW ts \in SUBSET Types, Operand(sp, ts), NEW t \in Types, NEW v \in Int,
         Result(Next1(sp), t, v), ip' \in Int, UNCHANGED <<bp, pc, ret, calls>>
  PROVE  IInv' /\ KeepsCaller
<1>1. /\ Typed /\ StackOK(mem, sp, bp, calls) /\ sp \in Int /\ CodeEnd <= sp
      /\ Tiled(mem, sp, OperandEnd)
  BY FetchFacts
<1>2. /\ Next1(sp) \in Int /\ sp < Next1(sp) /\ Next1(sp) <= OperandEnd
      /\ Tiled(mem, Next1(sp), OperandEnd)
  BY <1>1, OperandPop
<1>3. sp <= Next1(sp)
  BY <1>1, <1>2
<1> QED
  BY <1>2, <1>3, ReplaceStep

\* Where the stack pointer is after two operands have been popped.
LEMMA TwoOperands ==
  ASSUME IInv, Fetch, NEW ts \in SUBSET Types, Operand(sp, ts),
         NEW us \in SUBSET Types, Operand(Next1(sp), us)
  PROVE  /\ Next1(Next1(sp)) \in Int /\ sp <= Next1(Next1(sp))
         /\ Next1(Next1(sp)) <= OperandEnd /\ Tiled(mem, Next1(Next1(sp)), OperandEnd)
<1>1. /\ Typed /\ StackOK(mem, sp, bp, calls) /\ sp \in Int /\ CodeEnd <= sp
      /\ Tiled(mem, sp, OperandEnd)
  BY FetchFacts
<1>2. /\ Next1(sp) \in Int /\ sp < Next1(sp) /\ Tiled(mem, Next1(sp), OperandEnd)
  BY <1>1, OperandPop
<1> DEFINE a == Next1(sp)
<1>3. /\ a \in Int /\ sp < a /\ Tiled(mem, a, OperandEnd) /\ Operand(a, us)
  BY <1>2
<1> HIDE DEF a
<1>4. /\ Next1(a) \in Int /\ a < Next1(a) /\ Next1(a) <= OperandEnd
      /\ Tiled(mem, Next1(a), OperandEnd)
  <2>1. sp <= a
    BY <1>1, <1>3
  <2> QED
    BY <1>1, <1>3, <2>1, OperandPop
<1>5. sp <= Next1(a)
  BY <1>1, <1>3, <1>4
<1> QED
  BY <1>4, <1>5 DEF a

\* Two operands are replaced by a value.
LEMMA BinarySafe ==
  ASSUME IInv, Fetch, NEW ts \in SUBSET Types, Operand(sp, ts),
         NEW us \in SUBSET Types, Operand(Next1(sp), us),
         NEW t \in Types, NEW v \in Int,
         Result(Next1(Next1(sp)), t, v), ip' \in Int, UNCHANGED <<bp, pc, ret, calls>>
  PROVE  IInv' /\ KeepsCaller
  BY TwoOperands, ReplaceStep

LEMMA ArithmeticSafe ==
  ASSUME IInv, NEW t \in DataTypes, NEW v \in Vals[t],
         OpArithmetic(t, v) \/ OpCast(t, v)
  PROVE  IInv' /\ KeepsCaller
<1>1. t \in Types /\ v \in Int /\ DataTypes \in SUBSET Types
  BY ValFacts, OperandTypes
<1>2. CASE OpArithmetic(t, v)
  <2>1. /\ Fetch /\ ip' = ip + 1 /\ UNCHANGED <<bp, pc, ret, calls>>
        /\ Operand(sp, DataTypes) /\ Operand(Next1(sp), DataTypes)
        /\ Result(Next1(Next1(sp)), t, v)
    BY <1>2 DEF OpArithmetic, Step
  <2>2. ip' \in Int
    BY <2>1, FetchFacts
  <2> QED
    BY <1>1, <2>1, <2>2, BinarySafe
<1>3. CASE OpCast(t, v)
  <2>1. /\ Fetch /\ ip' = ip + 1 /\ UNCHANGED <<bp, pc, ret, calls>>
        /\ Operand(sp, DataTypes) /\ Result(Next1(sp), t, v)
    BY <1>3 DEF OpCast, Step
  <2>2. ip' \in Int
    BY <2>1, FetchFacts
  <2> QED
    BY <1>1, <2>1, <2>2, UnarySafe
<1> QED
  BY <1>2, <1>3

LEMMA LogicSafe ==
  ASSUME IInv, NEW v \in {0, 1}, OpComparison(v) \/ OpLogical(v) \/ OpNot
  PROVE  IInv' /\ KeepsCaller
<1>0. Fetch /\ ip' = ip + 1 /\ UNCHANGED <<bp, pc, ret, calls>>
  BY DEF OpComparison, OpLogical, OpNot, Step
<1>1. /\ v \in Int /\ "BOOL" \in Types /\ ip' \in Int
      /\ DataTypes \in SUBSET Types /\ {"BOOL"} \in SUBSET Types
  BY <1>0, FetchFacts, OperandTypes, SizeFacts
<1>a. Typed /\ sp \in Int /\ StackOK(mem, sp, bp, calls) /\ CodeEnd <= sp /\ Tiled(mem, sp, OperandEnd)
  BY <1>0, FetchFacts
<1>2. CASE OpComparison(v)
  <2>1. /\ Operand(sp, DataTypes) /\ Operand(Next1(sp), {mem[sp].ty})
        /\ Result(Next1(Next1(sp)), "BOOL", v)
    BY <1>2 DEF OpComparison
  <2>2. mem[sp].ty \in Types
    <3>1. sp <= sp
      BY <1>a
    <3> QED
      BY <1>1, <1>a, <2>1, <3>1, OperandPop
  <2>3. {mem[sp].ty} \in SUBSET Types
    BY <2>2
  <2> QED
    BY <1>0, <1>1, <2>1, <2>3, BinarySafe
<1>3. CASE OpLogical(v)
  <2>1. /\ Operand(sp, {"BOOL"}) /\ Operand(Next1(sp), {"BOOL"})
        /\ Result(Next1(Next1(sp)), "BOOL", v)
    BY <1>3 DEF OpLogical
  <2> QED
    BY <1>0, <1>1, <2>1, BinarySafe
<1>4. CASE OpNot
  <2>1. Operand(sp, {"BOOL"}) /\ Result(Next1(sp), "BOOL", 1 - mem[sp].val)
    BY <1>4 DEF OpNot
  <2>2. 1 - mem[sp].val \in Int
    <3>1. sp <= sp
      BY <1>a
    <3>2. mem[sp].val \in Int
      BY <1>1, <1>a, <2>1, <3>1, OperandPop
    <3> QED
      BY <3>2
  <2> QED
    BY <1>0, <1>1, <2>1, <2>2, UnarySafe
<1> QED
  BY <1>2, <1>3, <1>4

LEMMA ReadSafe ==
  ASSUME IInv, ReadMem \/ ReadConst
  PROVE  IInv' /\ KeepsCaller
<1>0. Fetch /\ ip' = ip + 1 /\ UNCHANGED <<bp, pc, ret, calls>>
  BY DEF ReadMem, ReadConst, Step
<1>1. ip' \in Int /\ Fn \in Program /\ mem \in Memory
  BY <1>0, FetchFacts
<1>2. CASE ReadMem
  <2>1. /\ Operand(sp, {"ADDR_BP"})
        /\ Result(Next1(sp), mem[Resolved].ty, mem[Resolved].val)
    BY <1>2 DEF ReadMem
  <2>2. PICK s \in Slots(Fn) : Datum(Resolved, {s.ty})
    BY <1>2 DEF ReadMem
  <2>3. s.ty \in Types
    BY <1>1, SlotFacts, SizeFacts
  <2>4. mem[Resolved].ty \in Types /\ mem[Resolved].val \in Int
    BY <1>1, <2>2, <2>3 DEF Datum, Memory, Cell
  <2> QED
    BY <1>0, <1>1, <2>1, <2>4, OperandTypes, UnarySafe
<1>3. CASE ReadConst
  <2>1. PICK c \in Consts : Result(Next1(sp), c.ty, c.val)
    BY <1>3 DEF ReadConst
  <2>2. Operand(sp, {"ADDR_IP"})
    BY <1>3 DEF ReadConst
  <2>3. c.ty \in Types /\ c.val \in Int
    BY SizeAssumption, SizeFacts
  <2> QED
    BY <1>0, <1>1, <2>1, <2>2, <2>3, OperandTypes, UnarySafe
<1> QED
  BY <1>2, <1>3

\* Where the stack pointer is after one more operand has been popped.
LEMMA OperandBelow ==
  ASSUME IInv, Fetch, NEW a \in Int, sp <= a, Tiled(mem, a, OperandEnd), NEW b \in Below(a)
  PROVE  /\ Operand(a, DataTypes) /\ b = Next1(a)
         /\ b \in Int /\ sp <= b /\ b <= OperandEnd /\ Tiled(mem, b, OperandEnd)
<1>1. Operand(a, DataTypes) /\ b = Next1(a)
  BY DEF Below
<1>2. Typed /\ StackOK(mem, sp, bp, calls) /\ sp \in Int /\ CodeEnd <= sp
  BY FetchFacts
<1>3. b \in Int /\ a < b /\ b <= OperandEnd /\ Tiled(mem, b, OperandEnd)
  BY <1>1, <1>2, OperandTypes, OperandPop
<1>4. sp <= b
  BY <1>2, <1>3
<1> QED
  BY <1>1, <1>3, <1>4

LEMMA CallExternalSafe ==
  ASSUME IInv, CallExternal
  PROVE  IInv' /\ KeepsCaller
<1>0. Fetch /\ ip' = ip + 1 /\ UNCHANGED <<bp, pc, ret, calls>> /\ Operand(sp, {"STR"})
  BY DEF CallExternal, Step
<1>1. /\ ip' \in Int /\ pc = "exec" /\ Typed /\ StackOK(mem, sp, bp, calls) /\ sp \in Int
      /\ CodeEnd <= sp /\ Tiled(mem, sp, OperandEnd) /\ sp <= sp
  BY <1>0, FetchFacts DEF Fetch
<1> DEFINE a == Next1(sp)
<1>2. a \in Int /\ sp < a /\ a <= OperandEnd /\ Tiled(mem, a, OperandEnd)
  BY <1>0, <1>1, OperandTypes, OperandPop
<1>3. sp <= a
  BY <1>1, <1>2
<1>4. PICK b \in {a} \union Below(a) \union UNION {Below(c) : c \in Below(a)} :
             \/ sp' = b /\ mem' = Erase(mem, sp, b)
             \/ \E t \in DataTypes : \E v \in Vals[t] : Result(b, t, v)
  BY DEF CallExternal
<1> HIDE DEF a
<1>5. b \in Int /\ sp <= b /\ b <= OperandEnd /\ Tiled(mem, b, OperandEnd)
  <2>1. CASE b = a
    BY <1>2, <1>3, <2>1
  <2>2. CASE b \in Below(a)
    BY <1>0, <1>2, <1>3, <2>2, OperandBelow
  <2>3. ASSUME NEW c \in Below(a), b \in Below(c)
        PROVE  b \in Int /\ sp <= b /\ b <= OperandEnd /\ Tiled(mem, b, OperandEnd)
    <3>1. c \in Int /\ sp <= c /\ Tiled(mem, c, OperandEnd)
      BY <1>0, <1>2, <1>3, OperandBelow
    <3> QED
      BY <1>0, <2>3, <3>1, OperandBelow
  <2> QED
    BY <2>1, <2>2, <2>3
<1>6. CASE sp' = b /\ mem' = Erase(mem, sp, b)
  BY <1>0, <1>1, <1>5, <1>6, PopStep
<1>7. ASSUME NEW t \in DataTypes, NEW v \in Vals[t], Result(b, t, v)
      PROVE  IInv' /\ KeepsCaller
  <2>1. t \in Types /\ v \in Int
    BY ValFacts
  <2> QED
    BY <1>0, <1>1, <1>5, <1>7, <2>1, ReplaceStep
<1> QED
  BY <1>4, <1>6, <1>7

LEMMA ExternalErrorSafe ==
  ASSUME IInv, ExternalError
  PROVE  IInv' /\ KeepsCaller
<1>0. /\ Fetch /\ ip' = ip + 1 /\ pc' = "error" /\ UNCHANGED <<bp, ret, calls>>
      /\ Operand(sp, {"STR"}) /\ Operand(Next1(sp), DataTypes)
      /\ sp' \in {Next1(sp), Next1(Next1(sp))} /\ mem' = Erase(mem, sp, sp')
  BY DEF ExternalError
<1>1. /\ ip' \in Int /\ Typed /\ StackOK(mem, sp, bp, calls) /\ sp \in Int
      /\ CodeEnd <= sp /\ Tiled(mem, sp, OperandEnd) /\ sp <= sp
  BY <1>0, FetchFacts
<1> DEFINE a == sp'
<1>2. a \in Int /\ sp <= a /\ a <= OperandEnd /\ Tiled(mem, a, OperandEnd)
  <2>1. CASE sp' = Next1(sp)
    <3>1. /\ Next1(sp) \in Int /\ sp < Next1(sp) /\ Next1(sp) <= OperandEnd
          /\ Tiled(mem, Next1(sp), OperandEnd)
      BY <1>0, <1>1, OperandTypes, OperandPop
    <3>2. sp <= Next1(sp)
      BY <1>1, <3>1
    <3> QED
      BY <2>1, <3>1, <3>2
  <2>2. CASE sp' = Next1(Next1(sp))
    BY <1>0, <2>2, OperandTypes, TwoOperands
  <2> QED
    BY <1>0, <2>1, <2>2
<1>3. sp' = a /\ mem' = Erase(mem, sp, a)
  BY <1>0
<1> HIDE DEF a
<1> QED
  BY <1>0, <1>1, <1>2, <1>3, PopStep

LEMMA ComparisonErrorSafe ==
  ASSUME IInv, ComparisonError
  PROVE  IInv' /\ KeepsCaller
<1>0. /\ Fetch /\ ip' = ip + 1 /\ pc' = "error" /\ UNCHANGED <<bp, ret, calls>>
      /\ Operand(sp, DataTypes) /\ Operand(Next1(sp), DataTypes \ {mem[sp].ty})
      /\ sp' = Next1(Next1(sp)) /\ mem' = Erase(mem, sp, Next1(Next1(sp)))
  BY DEF ComparisonError
<1>1. ip' \in Int /\ DataTypes \ {mem[sp].ty} \in SUBSET Types /\ DataTypes \in SUBSET Types
  BY <1>0, FetchFacts, OperandTypes
<1> DEFINE a == Next1(Next1(sp))
<1>2. a \in Int /\ sp <= a /\ a <= OperandEnd /\ Tiled(mem, a, OperandEnd)
  BY <1>0, <1>1, TwoOperands
<1>3. sp' = a /\ mem' = Erase(mem, sp, a)
  BY <1>0
<1> HIDE DEF a
<1> QED
  BY <1>0, <1>1, <1>2, <1>3, PopStep

LEMMA JumpSafe ==
  ASSUME IInv, Jump \/ JumpCond
  PROVE  IInv' /\ KeepsCaller
<1>0. /\ Fetch /\ UNCHANGED <<bp, pc, ret, calls>> /\ Operand(sp, {"ADDR_IP"})
  BY DEF Jump, JumpCond
<1>1. /\ pc = "exec" /\ ip \in Int /\ sp \in Int /\ Typed /\ StackOK(mem, sp, bp, calls)
      /\ CodeEnd <= sp /\ Tiled(mem, sp, OperandEnd) /\ Fn \in Program
  BY <1>0, FetchFacts DEF Fetch
<1>2. \A x \in Targets[Fn] : x \in Int
  BY <1>1, ProgramAssumption
<1>3. CASE Jump
  <2>1. /\ ip' \in Int /\ sp' = Next1(sp) /\ mem' = Erase(mem, sp, Next1(sp))
    BY <1>2, <1>3 DEF Jump
  <2>2. sp <= sp
    BY <1>1
  <2>3. /\ Next1(sp) \in Int /\ sp < Next1(sp) /\ Next1(sp) <= OperandEnd
        /\ Tiled(mem, Next1(sp), OperandEnd)
    BY <1>0, <1>1, <2>2, OperandTypes, OperandPop
  <2>4. sp <= Next1(sp)
    BY <1>1, <2>3
  <2> QED
    BY <1>0, <1>1, <2>1, <2>3, <2>4, PopStep
<1>4. CASE JumpCond
  <2>1. /\ Operand(Next1(sp), {"BOOL"}) /\ Resolved \in Targets[Fn]
        /\ sp' = Next1(Next1(sp)) /\ mem' = Erase(mem, sp, Next1(Next1(sp)))
        /\ ip' = IF mem[Next1(sp)].val # 0 THEN Resolved ELSE ip + 1
    BY <1>4 DEF JumpCond
  <2>2. ip' \in Int
    BY <1>1, <1>2, <2>1
  <2> DEFINE a == Next1(Next1(sp))
  <2>3. a \in Int /\ sp <= a /\ a <= OperandEnd /\ Tiled(mem, a, OperandEnd)
    BY <1>0, <2>1, OperandTypes, TwoOperands
  <2>4. sp' = a /\ mem' = Erase(mem, sp, a)
    BY <2>1
  <2> HIDE DEF a
  <2> QED
    BY <1>0, <1>1, <2>2, <2>3, <2>4, PopStep
<1> QED
  BY <1>3, <1>4

\* The machine stops, or is not followed any further.
LEMMA StopSafe ==
  ASSUME IInv, Halt \/ BoundsError \/ PushBelow \/ CastOverCode \/ MisreadBool
  PROVE  IInv' /\ KeepsCaller
<1>1. /\ UNCHANGED <<mem, sp, bp, ret, calls>> /\ ip' \in Int
      /\ pc' \in {"halted", "error", "lost"} /\ Typed
  <2>1. Typed /\ ip \in Int /\ ip + 1 \in Int
    BY DEF IInv, Typed
  <2> QED
    BY <2>1 DEF Halt, BoundsError, PushBelow, CastOverCode, MisreadBool, Lost
<1>2. Typed'
  BY <1>1 DEF Typed
<1>3. IInv'
  BY <1>1, <1>2 DEF IInv, Running
<1> QED
  BY <1>1, <1>3 DEF KeepsCaller

-------------------------------------------------------------------------------
(***************************************************************************)
(* Assignment to a variable of the running function.                       *)
(***************************************************************************)

\* A variable lies between the operands and the frame of the caller, and
\* assigning to it leaves the stack in order.
LEMMA StackAssign ==
  ASSUME NEW m \in Memory, NEW e \in Int, NEW b \in Int, NEW cs, StackOK(m, e, b, cs), CodeEnd <= e,
         NEW s \in Slots(cs[Len(cs)].fn), NEW v \in Int
  PROVE  LET m2 == Put(m, b + s.off, s.ty, v) IN
         /\ m2 \in Memory /\ StackOK(m2, e, b, cs)
         /\ Len(cs) > 1 => Agree(m, m2, cs[Len(cs)].top)
<1> DEFINE c  == cs[Len(cs)]
           f  == c.fn
           q  == b + s.off
           t  == s.ty
           m2 == Put(m, q, t, v)
<1>0. FramesOK(m, cs) /\ b = c.bp /\ e <= Limit(cs) /\ Tiled(m, e, Limit(cs)) /\ CodeOK(m)
  BY DEF StackOK, Limit
<1>1. /\ c.bp \in Int /\ c.fs \in Nat /\ f \in Program /\ c.fs = FrameSize[f]
      /\ Limit(cs) \in Int /\ Limit(cs) <= c.bp /\ Limit(cs) <= MemSize /\ c.bp <= MemSize
      /\ Limit(cs) = c.bp - c.fs
      /\ Len(cs) > 1 => c.top \in Int /\ c.bp <= c.top
  BY <1>0, LimitFacts DEF Limit
<1>2. s.off \in Int /\ t \in Types /\ Size[t] \in Nat /\ Size[t] > 0
  BY <1>1, SlotFacts, SizeFacts
<1>3. q \in Int /\ q = c.bp + s.off
  BY <1>0, <1>2
<1>4. m2 \in Memory
  BY <1>2, <1>3, PutTyped
\* a local variable or an argument
<1>5. /\ FramesOK(m2, cs) /\ Limit(cs) <= q
      /\ Len(cs) > 1 => q + Size[t] <= c.top
  <2>1. CASE s.off + Size[t] <= 0 /\ 0 <= s.off + FrameSize[f]
    <3> HIDE DEF c, f, q, t
    <3>1. q + Size[t] <= c.bp /\ Limit(cs) <= q
      BY <1>1, <1>2, <1>3, <2>1
    <3>2. Agree(m, m2, c.bp)
      <4> SUFFICES ASSUME NEW x \in Mem, x >= c.bp PROVE m[x] = m2[x]
        BY DEF Agree
      <4>1. x >= q + Size[t]
        BY <1>1, <1>2, <1>3, <3>1 DEF Mem
      <4> QED
        BY <1>2, <1>3, <4>1, PutElsewhere, SMTT(30)
    <3>3. FramesOK(m2, cs)
      <4>1. c.bp <= c.bp
        BY <1>1
      <4> QED
        BY <1>0, <1>1, <1>4, <3>2, <4>1, FramesAgree DEF c
    <3>4. Len(cs) > 1 => q + Size[t] <= c.top
      BY <1>1, <1>2, <1>3, <3>1
    <3> QED
      BY <3>1, <3>3, <3>4
  <2>2. CASE \E j \in 1 .. NumArgs[f] : s.off = 2 * AddrSize + ArgOff[f][j] /\ t = ArgType[f][j]
    <3>1. PICK j \in 1 .. NumArgs[f] : s.off = 2 * AddrSize + ArgOff[f][j] /\ t = ArgType[f][j]
      BY <2>2
    <3>2. Len(cs) \in Nat /\ Len(cs) >= 1
      BY <1>0, LimitFacts
    <3>3. Len(cs) >= 2
      <4>1. CASE Len(cs) = 1
        <5>1. f = Boot
          BY <1>0, <4>1 DEF FramesOK, BootOK
        <5>2. NumArgs[f] = 0
          BY <1>1, <5>1, ProgramFacts
        <5> QED
          BY <3>1, <5>2
      <4> QED
        BY <3>2, <4>1
    <3>4. ArgOff[f][j] \in Nat /\ ArgOff[f][j] + Size[t] <= ArgTotal(f) /\ ArgTotal(f) \in Nat
      BY <1>1, <3>1, ProgramFacts, SMTT(30)
    <3>5. c.top = c.bp + 2 * AddrSize + ArgTotal(f)
      <4>1. CallOK(m, c, cs[Len(cs) - 1])
        BY <1>0, <3>2, <3>3 DEF FramesOK
      <4> QED
        BY <4>1 DEF CallOK, ShapeOK
    <3>6. AddrSize \in Nat
      BY SizeFacts
    <3>7. q = c.bp + 2 * AddrSize + ArgOff[f][j]
      BY <1>1, <1>3, <3>1, <3>4, <3>6
    <3>8. FramesOK(m2, cs)
      BY <1>0, <3>1, <3>3, <3>7, FramesArg
    <3>9. c.bp <= q /\ q + Size[t] <= c.top
      <4> HIDE DEF c, f, q, t
      <4>1. c.bp + 2 * AddrSize + (ArgOff[f][j] + Size[t]) <= c.top
        BY <1>1, <1>2, <3>4, <3>5, <3>6
      <4>2. c.bp <= q
        BY <1>1, <3>4, <3>6, <3>7
      <4>3. q + Size[t] = c.bp + 2 * AddrSize + (ArgOff[f][j] + Size[t])
        BY <1>1, <1>2, <3>4, <3>6, <3>7
      <4> QED
        BY <4>1, <4>2, <4>3
    <3>10. Limit(cs) <= q
      BY <1>1, <1>3, <3>9
    <3> QED
      BY <3>8, <3>9, <3>10
  <2>3. \/ s.off + Size[t] <= 0 /\ 0 <= s.off + FrameSize[f]
        \/ \E j \in 1 .. NumArgs[f] : s.off = 2 * AddrSize + ArgOff[f][j] /\ t = ArgType[f][j]
    BY <1>1, SlotFacts
  <2> QED
    BY <2>1, <2>2, <2>3
<1>6. ASSUME NEW x \in Mem, x < Limit(cs) PROVE m2[x] = m[x]
  <2>1. x < q
    BY <1>1, <1>3, <1>5, <1>6 DEF Mem
  <2> QED
    BY <1>2, <1>3, <2>1, PutElsewhere
<1>7. Tiled(m2, e, Limit(cs))
  <2>1. \A x \in e .. (Limit(cs) - 1) : m2[x] = m[x]
    <3> SUFFICES ASSUME NEW x \in e .. (Limit(cs) - 1) PROVE m2[x] = m[x]
      OBVIOUS
    <3>1. x \in Mem /\ x < Limit(cs)
      BY <1>1, SizeFacts DEF Mem
    <3> QED
      BY <1>6, <3>1
  <2>2. 0 <= e
    BY SizeFacts
  <2> QED
    BY <1>0, <1>1, <1>4, <2>1, <2>2, TiledSame
<1>8. CodeOK(m2)
  <2> SUFFICES ASSUME NEW x \in 0 .. (CodeEnd - 1) PROVE m2[x] = CodeByte
    BY DEF CodeOK
  <2>1. x \in Mem /\ x < Limit(cs)
    BY <1>0, <1>1, SizeFacts DEF Mem
  <2> QED
    BY <1>0, <1>6, <2>1 DEF CodeOK
<1>9. Len(cs) > 1 => Agree(m, m2, c.top)
  <2> SUFFICES ASSUME Len(cs) > 1, NEW x \in Mem, x >= c.top PROVE m[x] = m2[x]
    BY DEF Agree
  <2>1. x >= q + Size[t]
    BY <1>1, <1>2, <1>3, <1>5 DEF Mem
  <2> QED
    BY <1>2, <1>3, <2>1, PutElsewhere
<1> QED
  BY <1>0, <1>4, <1>5, <1>7, <1>8, <1>9 DEF StackOK, Limit

LEMMA WriteMemSafe ==
  ASSUME IInv, WriteMem
  PROVE  IInv' /\ KeepsCaller
<1> DEFINE a == Next1(sp)
           e == Next1(a)
           t == mem[a].ty
           v == mem[a].val
<1>0. /\ Fetch /\ ip' = ip + 1 /\ UNCHANGED <<bp, pc, ret, calls>>
      /\ Operand(sp, {"ADDR_BP"}) /\ Operand(a, DataTypes)
      /\ [off |-> mem[sp].val, ty |-> t] \in Slots(Fn)
      /\ mem' = Put(Erase(mem, sp, e), Resolved, t, v) /\ sp' = e
  BY DEF WriteMem, Step
<1>1. /\ Typed /\ mem \in Memory /\ sp \in Int /\ ip \in Int /\ bp \in Int /\ pc = "exec"
      /\ StackOK(mem, sp, bp, calls) /\ CodeEnd <= sp /\ Tiled(mem, sp, OperandEnd)
      /\ OperandEnd = Limit(calls) /\ Limit(calls) \in Int /\ FramesOK(mem, calls)
  BY <1>0, FetchFacts DEF Fetch
<1>2. e \in Int /\ sp <= e /\ e <= OperandEnd /\ Tiled(mem, e, OperandEnd)
  BY <1>0, OperandTypes, TwoOperands
<1>3. a \in Int /\ sp < a /\ Tiled(mem, a, OperandEnd) /\ mem[sp].ty = "ADDR_BP"
  <2>1. sp <= sp
    BY <1>1
  <2> QED
    BY <1>0, <1>1, <2>1, OperandTypes, OperandPop
<1>4. t \in Types /\ v \in Int
  <2>1. sp <= a
    BY <1>1, <1>3
  <2> HIDE DEF a
  <2> QED
    BY <1>0, <1>1, <1>3, <2>1, OperandTypes, OperandPop
<1> DEFINE s == [off |-> mem[sp].val, ty |-> t]
           m1 == Erase(mem, sp, e)
<1>5. Resolved = bp + s.off /\ t = s.ty /\ s \in Slots(calls[Len(calls)].fn)
  <2>1. Resolved = mem[sp].val + bp
    BY <1>3 DEF Resolved
  <2>2. mem[sp].val \in Int
    <3>1. sp \in Mem
      BY <1>0 DEF Operand, Datum
    <3> QED
      BY <1>1, <3>1 DEF Memory, Cell
  <2> QED
    BY <1>0, <1>1, <2>1, <2>2 DEF Fn
<1>6. CodeEnd <= e
  BY <1>1, <1>2, SizeFacts
<1>7. m1 \in Memory /\ StackOK(m1, e, bp, calls) /\ Agree(mem, m1, e)
  BY <1>1, <1>2, StackPop
<1> HIDE DEF m1, s, e
<1>8. /\ mem' \in Memory /\ StackOK(mem', e, bp, calls)
      /\ Len(calls) > 1 => Agree(m1, mem', calls[Len(calls)].top)
  <2>1. mem' = Put(m1, bp + s.off, s.ty, v)
    BY <1>0, <1>5 DEF m1
  <2> QED
    BY <1>1, <1>2, <1>4, <1>5, <1>6, <1>7, <2>1, StackAssign
<1>9. IInv'
  BY <1>0, <1>1, <1>2, <1>8, ExecInv
<1>10. KeepsCaller
  <2> SUFFICES ASSUME Len(calls) > 1, NEW x \in Mem, x >= calls[Len(calls)].top
               PROVE  mem'[x] = mem[x]
    BY DEF KeepsCaller
  <2>1. mem'[x] = m1[x]
    BY <1>8 DEF Agree
  <2>2. Limit(calls) <= calls[Len(calls)].top /\ calls[Len(calls)].top \in Int
    BY <1>1, LimitFacts
  <2>3. x >= e
    BY <1>1, <1>2, <2>2 DEF Mem
  <2> QED
    BY <1>7, <2>1, <2>3 DEF Agree
<1> QED
  BY <1>9, <1>10

-------------------------------------------------------------------------------
(***************************************************************************)
(* CALL and RET.                                                           *)
(***************************************************************************)
LEMMA CallSafe ==
  ASSUME IInv, NEW f \in Funcs, Call(f)
  PROVE  /\ IInv' /\ KeepsCaller
         \* b is the address of the arguments
         /\ LET b == Next1(sp) + IntSize IN
            /\ b \in Int /\ 0 <= b /\ sp <= b /\ b <= OperandEnd
            /\ b + ArgTotal(f) \in Int /\ b <= b + ArgTotal(f) /\ b + ArgTotal(f) <= OperandEnd
            /\ ArgsAt(mem, b, f) /\ Agree(mem, mem', b)
            /\ bp' = b - 2 * AddrSize /\ sp' = b - 2 * AddrSize - FrameSize[f]
            /\ calls' = Append(calls, [fn |-> f, bp |-> b - 2 * AddrSize, fs |-> FrameSize[f],
                                      ret |-> ip + 1, link |-> bp, top |-> b + ArgTotal(f)])
<1> DEFINE a   == Next1(sp)
           b   == a + IntSize
           fs  == FrameSize[f]
           m0  == Erase(mem, sp, a)
           m1  == Erase(m0, a, b)
           m2  == Put(m1, b - AddrSize, "ADDR_MEM", ip + 1)
           m3  == Put(m2, b - 2 * AddrSize, "ADDR_MEM", bp)
           top == b + ArgTotal(f)
           c   == [fn |-> f, bp |-> b - 2 * AddrSize, fs |-> fs,
                   ret |-> ip + 1, link |-> bp, top |-> top]
           d   == calls[Len(calls)]
<1>0. /\ Fetch /\ UNCHANGED <<pc, ret>> /\ Operand(sp, {"ADDR_IP"})
      /\ ip + 1 \in Code[Fn] /\ Operand(a, {"INT"}) /\ mem[a].val = fs
      /\ Arguments(b, f) /\ Enter(m0, a, f, ip + 1, top)
  BY DEF Call, ArgTotal
<1>1. /\ Typed /\ mem \in Memory /\ sp \in Int /\ ip \in Int /\ bp \in Int /\ pc = "exec"
      /\ StackOK(mem, sp, bp, calls) /\ CodeEnd <= sp /\ Tiled(mem, sp, OperandEnd)
      /\ OperandEnd = Limit(calls) /\ Limit(calls) \in Int /\ FramesOK(mem, calls)
      /\ bp = d.bp
  BY <1>0, FetchFacts DEF Fetch
<1>2. /\ d \in Frame /\ d.bp \in Int /\ d.fn \in Program /\ Limit(calls) = d.bp - d.fs
      /\ Limit(calls) <= MemSize
      /\ Len(calls) > 1 => d.top \in Int /\ Limit(calls) <= d.top
      /\ calls \in Seq(Frame) /\ Len(calls) \in Nat
  <2>1. /\ d \in Frame /\ d.bp \in Int /\ d.fn \in Program /\ Limit(calls) = d.bp - d.fs
        /\ Limit(calls) <= MemSize /\ Limit(calls) <= d.bp
        /\ Len(calls) > 1 => d.top \in Int /\ d.bp <= d.top
        /\ Len(calls) \in Nat
    BY <1>1, LimitFacts DEF Limit
  <2>2. calls \in Seq(Frame)
    BY <1>1 DEF FramesOK
  <2> QED
    BY <1>1, <2>1, <2>2
<1>3. /\ a \in Int /\ sp < a /\ a <= Limit(calls) /\ Tiled(mem, a, Limit(calls))
      /\ sp <= a /\ a = sp + AddrSize
  <2>0. sp <= sp
    BY <1>1
  <2>1. /\ a \in Int /\ sp < a /\ a <= OperandEnd /\ Tiled(mem, a, OperandEnd)
        /\ mem[sp].ty = "ADDR_IP"
    BY <1>0, <1>1, <2>0, OperandTypes, OperandPop
  <2>2. a = sp + AddrSize
    BY <2>1, SizeFacts DEF Next1, AddrTypes
  <2>3. sp <= a
    BY <1>1, <2>1
  <2> HIDE DEF a
  <2> QED
    BY <1>1, <2>1, <2>2, <2>3
<1> HIDE DEF a
<1>4. /\ b \in Int /\ a < b /\ b <= Limit(calls) /\ Tiled(mem, b, Limit(calls)) /\ a <= b
  <2>1. /\ Next1(a) \in Int /\ a < Next1(a) /\ Next1(a) <= OperandEnd
        /\ Tiled(mem, Next1(a), OperandEnd) /\ mem[a].ty = "INT"
    BY <1>0, <1>1, <1>3, OperandTypes, OperandPop
  <2>2. b = Next1(a)
    BY <2>1 DEF Next1, IntSize
  <2>3. a <= Next1(a)
    BY <1>3, <2>1
  <2> HIDE DEF b
  <2> QED
    BY <1>1, <2>1, <2>2, <2>3
<1>5. /\ fs \in Nat /\ ArgTotal(f) \in Nat /\ f \in Program
      /\ AddrSize \in Nat /\ AddrSize > 0 /\ IntSize \in Nat /\ IntSize > 0
      /\ CodeEnd \in Nat /\ Size["ADDR_MEM"] = AddrSize
      /\ "ADDR_MEM" \in Types /\ MemSize \in Nat
  <2>1. f \in Program
    BY DEF Program
  <2>2. fs \in Nat /\ ArgTotal(f) \in Nat
    BY <2>1, ProgramFacts
  <2>3. /\ CodeEnd \in Nat /\ "ADDR_MEM" \in Types /\ MemSize \in Nat
        /\ AddrSize \in Nat /\ AddrSize > 0 /\ IntSize \in Nat /\ IntSize > 0
    BY SizeFacts
  <2> QED
    BY <2>1, <2>2, <2>3 DEF AddrSize
<1>6. CodeEnd <= a /\ CodeEnd <= b /\ b \in Int /\ CodeEnd <= b - AddrSize
      /\ b - AddrSize \in Int /\ b - 2 * AddrSize \in Int /\ 0 <= b - 2 * AddrSize
      /\ b - AddrSize - AddrSize = b - 2 * AddrSize
      /\ Size["ADDR_MEM"] <= b /\ Size["ADDR_MEM"] <= b - AddrSize
  <2>1. 2 * AddrSize <= b
    BY <1>0 DEF Enter
  <2> QED
    BY <1>1, <1>3, <1>4, <1>5, <2>1
<1>b. b <= MemSize /\ b - AddrSize + Size["ADDR_MEM"] = b /\ b - AddrSize <= MemSize
      /\ b - 2 * AddrSize + Size["ADDR_MEM"] = b - AddrSize /\ 0 <= b - AddrSize
  <2>1. b <= MemSize
    BY <1>1, <1>2, <1>4, <1>5
  <2> HIDE DEF b
  <2> QED
    BY <1>5, <1>6, <2>1
\* the address and the frame size are popped
<1>7. m0 \in Memory /\ StackOK(m0, a, bp, calls) /\ Agree(mem, m0, a)
  BY <1>1, <1>3, StackPop
<1>8. m0[a].val = fs
  <2>1. a \in Mem
    BY <1>0 DEF Operand, Datum
  <2> QED
    BY <1>0, <1>3, <1>7, <2>1 DEF Agree
<1>9. /\ mem' = m3 /\ bp' = c.bp /\ sp' = c.bp - c.fs /\ ip' = Entry[f]
      /\ calls' = Append(calls, c)
  BY <1>0, <1>8 DEF Enter
<1> HIDE DEF m0
<1>10. m1 \in Memory /\ StackOK(m1, b, bp, calls) /\ Agree(m0, m1, b)
  <2>1. Agree(mem, m0, b)
    BY <1>3, <1>4, <1>7 DEF Agree, Mem
  <2>2. 0 <= b
    BY <1>5, <1>6
  <2>3. Tiled(m0, b, Limit(calls))
    BY <1>1, <1>2, <1>4, <1>7, <2>1, <2>2, TiledAgree
  <2> HIDE DEF b
  <2> QED
    BY <1>1, <1>3, <1>4, <1>6, <1>7, <2>3, StackPop
<1> HIDE DEF m1, b
\* the return address and the base pointer are pushed
<1>11. /\ m2 \in Memory /\ StackOK(m2, b - AddrSize, bp, calls) /\ Agree(m1, m2, b)
       /\ At(m2, b - AddrSize, "ADDR_MEM", ip + 1)
  <2>1. ip + 1 \in Int
    BY <1>1
  <2>2. 0 <= b - AddrSize /\ b - AddrSize + Size["ADDR_MEM"] <= MemSize
    BY <1>b
  <2>3. At(m2, b - AddrSize, "ADDR_MEM", ip + 1)
    BY <1>5, <1>6, <1>10, <2>1, <2>2, PutAt
  <2>4. m2 \in Memory /\ StackOK(m2, b - AddrSize, bp, calls) /\ Agree(m1, m2, b)
    BY <1>5, <1>6, <1>10, <2>1, StackPush
  <2> QED
    BY <2>3, <2>4
<1> HIDE DEF m2
<1>12. /\ m3 \in Memory /\ StackOK(m3, b - 2 * AddrSize, bp, calls) /\ Agree(m2, m3, b - AddrSize)
       /\ At(m3, b - 2 * AddrSize, "ADDR_MEM", bp)
       /\ At(m3, b - AddrSize, "ADDR_MEM", ip + 1)
  <2>1. b - 2 * AddrSize + Size["ADDR_MEM"] = b - AddrSize /\ b - AddrSize <= MemSize
    BY <1>b
  <2>2. At(m3, b - 2 * AddrSize, "ADDR_MEM", bp)
    BY <1>1, <1>5, <1>6, <1>11, <2>1, PutAt
  <2>3. m3 \in Memory /\ StackOK(m3, b - 2 * AddrSize, bp, calls) /\ Agree(m2, m3, b - AddrSize)
    BY <1>1, <1>5, <1>6, <1>11, StackPush
  <2>4. At(m3, b - AddrSize, "ADDR_MEM", ip + 1)
    <3>1. b - AddrSize <= b - AddrSize
      BY <1>6
    <3> QED
      BY <1>5, <1>6, <1>11, <2>3, <3>1, AtAgree
  <2> QED
    BY <2>2, <2>3, <2>4
<1> HIDE DEF m3
<1>13. Agree(mem, m3, b)
  <2> SUFFICES ASSUME NEW x \in Mem, x >= b PROVE mem[x] = m3[x]
    BY DEF Agree
  <2>1. x >= a /\ x >= b - AddrSize
    BY <1>3, <1>4, <1>5 DEF Mem
  <2> QED
    BY <1>7, <1>10, <1>11, <1>12, <2>1 DEF Agree
\* the new frame
<1>14. c \in Frame /\ c.fn = f /\ c.bp = b - 2 * AddrSize /\ c.fs = fs /\ c.top = top
       /\ c.ret = ip + 1 /\ c.link = bp
  BY <1>1, <1>5, <1>6 DEF Frame
<1>15. b <= top /\ top <= Limit(calls)
  BY <1>0, <1>1, <1>4, <1>5 DEF Arguments, ArgTotal
<1> HIDE DEF c
<1>c. c = [fn |-> f, bp |-> b - 2 * AddrSize, fs |-> fs, ret |-> ip + 1, link |-> bp, top |-> top]
  BY DEF c
<1>m. ArgsAt(mem, b, f)
  <2> SUFFICES ASSUME NEW j \in 1 .. NumArgs[f]
               PROVE  At(mem, b + ArgOff[f][j], ArgType[f][j], mem[b + ArgOff[f][j]].val)
    BY DEF ArgsAt
  <2>1. Operand(b + ArgOff[f][j], {ArgType[f][j]})
    BY <1>0 DEF Arguments, b
  <2> QED
    BY <2>1 DEF Operand, Datum
<1>16. ArgsAt(m3, b, f)
  <2>1. 0 <= b /\ b >= b
    BY <1>5, <1>6
  <2> QED
    BY <1>1, <1>5, <1>6, <1>12, <1>13, <1>m, <2>1, ArgsAgree
<1>17. CallOK(m3, c, d)
  <2>1. ShapeOK(c)
    <3>1. c.top = c.bp + 2 * AddrSize + ArgTotal(f)
      BY <1>5, <1>6, <1>14
    <3> QED
      BY <1>6, <1>14, <3>1 DEF ShapeOK
  <2>2. LinkOK(m3, c, d)
    <3>1. c.bp + AddrSize = b - AddrSize
      BY <1>5, <1>6, <1>14
    <3> QED
      BY <1>0, <1>1, <1>12, <1>14, <3>1 DEF LinkOK, Fn
  <2>3. c.bp + 2 * AddrSize = b
    BY <1>5, <1>6, <1>14
  <2>4. Tiled(m3, b, d.bp - d.fs)
    <3>1. 0 <= b /\ b >= b
      BY <1>5, <1>6
    <3> QED
      BY <1>1, <1>2, <1>4, <1>6, <1>12, <1>13, <3>1, TiledAgree
  <2> QED
    BY <1>14, <1>16, <2>1, <2>2, <2>3, <2>4 DEF CallOK
<1>18. FramesOK(m3, calls')
  <2>1. FramesOK(m3, calls)
    BY <1>12 DEF StackOK
  <2> QED
    BY <1>2, <1>9, <1>12, <1>14, <1>15, <1>17, <2>1, FramesPush
<1>19. calls' \in Seq(Frame) /\ calls' # <<>> /\ calls'[Len(calls')] = c
  BY <1>2, <1>9, <1>14
<1>20. StackOK(mem', sp', bp', calls')
  <2>1. sp' \in Int /\ sp' <= sp' /\ sp' = c.bp - c.fs /\ sp' <= b - 2 * AddrSize
    BY <1>5, <1>6, <1>9, <1>14
  <2>2. Tiled(mem', sp', sp')
    <3>1. sp' .. (sp' - 1) = {}
      BY <2>1
    <3> QED
      BY <3>1 DEF Tiled
  <2>3. sp' >= CodeEnd => CodeOK(mem')
    <3>1. sp' >= CodeEnd => b - 2 * AddrSize >= CodeEnd
      BY <1>5, <1>6, <2>1
    <3> QED
      BY <1>9, <1>12, <3>1 DEF StackOK
  <2> QED
    BY <1>9, <1>18, <1>19, <2>1, <2>2, <2>3 DEF StackOK
<1>21. Typed'
  <2>1. ip' \in Int
    BY <1>5, <1>9, ProgramAssumption
  <2>2. sp' \in Int /\ bp' \in Int
    BY <1>5, <1>6, <1>9, <1>14
  <2> QED
    BY <1>0, <1>1, <1>9, <1>12, <1>19, <2>1, <2>2 DEF Typed, Memory
<1>22. IInv'
  BY <1>0, <1>1, <1>20, <1>21 DEF IInv
<1>23. KeepsCaller
  <2> SUFFICES ASSUME Len(calls) > 1, NEW x \in Mem, x >= d.top
               PROVE  mem'[x] = mem[x]
    BY DEF KeepsCaller
  <2>1. x >= b
    <3>1. d.top \in Int /\ Limit(calls) <= d.top /\ Limit(calls) \in Int
      BY <1>1, <1>2
    <3>2. x \in Int
      BY <1>5 DEF Mem
    <3> HIDE DEF d
    <3> QED
      BY <1>4, <3>1, <3>2
  <2> QED
    BY <1>9, <1>13, <2>1 DEF Agree
<1>24. /\ 0 <= b /\ sp <= b /\ b <= OperandEnd /\ b \in Int
       /\ top \in Int /\ b <= top /\ top <= OperandEnd
  BY <1>1, <1>3, <1>4, <1>5, <1>6, <1>15
<1>25. Agree(mem, mem', b) /\ bp' = b - 2 * AddrSize /\ sp' = b - 2 * AddrSize - fs
  BY <1>9, <1>13, <1>14
<1> QED
  BY <1>9, <1>22, <1>23, <1>24, <1>25, <1>c, <1>m DEF a, b

\* A step that changes nothing above the operands leaves the caller's frame alone.
LEMMA KeepsAbove ==
  ASSUME FramesOK(mem, calls), NEW n \in Int, n <= Limit(calls), Agree(mem, mem', n)
  PROVE  KeepsCaller
<1> SUFFICES ASSUME Len(calls) > 1, NEW x \in Mem, x >= calls[Len(calls)].top
             PROVE  mem'[x] = mem[x]
  BY DEF KeepsCaller
<1>1. /\ Limit(calls) \in Int /\ Limit(calls) <= calls[Len(calls)].bp
      /\ calls[Len(calls)].bp \in Int /\ calls[Len(calls)].top \in Int
      /\ calls[Len(calls)].bp <= calls[Len(calls)].top
  BY LimitFacts
<1>2. x >= n
  BY <1>1, SizeFacts DEF Mem
<1> QED
  BY <1>2 DEF Agree

LEMMA RetSafe ==
  ASSUME IInv, Ret
  PROVE  IInv' /\ KeepsCaller
<1> DEFINE a == Next1(sp)
           b == Next1(a)
           c == calls[Len(calls)]
<1>0. /\ Fetch /\ Fn # Boot /\ Operand(sp, {"INT"}) /\ mem[sp].val = NumArgs[Fn]
      /\ Operand(a, {"INT"}) /\ mem[a].val = FrameSize[Fn]
      /\ ret' = [na |-> mem[sp].val, fs |-> mem[a].val, vals |-> <<>>,
                 img |-> [i \in 1 .. (OperandEnd - b) |-> mem[b + i - 1]],
                 fn |-> Fn, top |-> c.top]
      /\ sp' = b /\ mem' = Erase(mem, sp, b)
      /\ pc' = "collect" /\ ip' = ip + 1 /\ UNCHANGED <<bp, calls>>
  BY DEF Ret
<1>1. /\ Typed /\ mem \in Memory /\ sp \in Int /\ ip \in Int /\ bp \in Int
      /\ StackOK(mem, sp, bp, calls) /\ CodeEnd <= sp
      /\ OperandEnd = Limit(calls) /\ Limit(calls) \in Int /\ FramesOK(mem, calls)
      /\ bp = c.bp /\ Fn \in Program
  BY <1>0, FetchFacts
<1>2. b \in Int /\ sp <= b /\ b <= OperandEnd /\ Tiled(mem, b, OperandEnd)
  BY <1>0, OperandTypes, TwoOperands
<1> HIDE DEF b
<1>3. mem' \in Memory /\ StackOK(mem', sp', bp', calls') /\ Agree(mem, mem', b)
  BY <1>0, <1>1, <1>2, StackPop
<1>4. CodeEnd \in Nat /\ CodeEnd <= b /\ Limit(calls) <= MemSize /\ MemSize \in Nat
  <2>1. Limit(calls) <= MemSize
    BY <1>1, LimitFacts
  <2> QED
    BY <1>1, <1>2, <2>1, SizeFacts
<1> DEFINE img == [i \in 1 .. (OperandEnd - b) |-> mem[b + i - 1]]
           n   == OperandEnd - b
<1>5. n \in Nat /\ \A i \in 1 .. n : b + i - 1 \in Mem
  <2>1. n \in Nat
    BY <1>1, <1>2
  <2>2. ASSUME NEW i \in 1 .. n PROVE b + i - 1 \in Mem
    BY <1>1, <1>2, <1>4 DEF Mem
  <2> QED
    BY <2>1, <2>2
<1>6. img \in Seq(Cell) /\ Len(img) = n
  <2>1. \A i \in 1 .. n : mem[b + i - 1] \in Cell
    BY <1>1, <1>5 DEF Memory
  <2>2. img \in [1 .. n -> Cell]
    BY <2>1
  <2> QED
    BY <1>5, <2>2
<1>7. /\ ret'.na = NumArgs[c.fn] /\ ret'.fs = FrameSize[c.fn] /\ ret'.vals = <<>>
      /\ ret'.img = img /\ ret'.fn = c.fn /\ ret'.top = c.top
  BY <1>0 DEF Fn
<1>8. Len(calls) >= 2 /\ Len(calls) \in Nat /\ c.top \in Int
  <2>0. calls \in Seq(Frame) /\ Len(calls) >= 1
    BY <1>1 DEF FramesOK
  <2>1. Len(calls) \in Nat /\ Len(calls) >= 1 /\ calls \in Seq(Frame) /\ c \in Frame
    BY <1>1, <2>0, LimitFacts
  <2>2. Len(calls) # 1
    <3>1. calls[1].fn = Boot
      BY <1>1 DEF FramesOK, BootOK
    <3> QED
      BY <1>0, <3>1 DEF Fn
  <2>3. Len(calls) >= 2
    <3>1. Len(calls) \in Nat /\ Len(calls) >= 1
      BY <2>1
    <3> QED
      BY <2>2, <3>1
  <2>4. c.top \in Int
    <3> HIDE DEF c
    <3> QED
      BY <2>1 DEF Frame
  <2> QED
    BY <2>1, <2>3, <2>4
<1>9. Typed'
  <2>1. ret' \in [na : Int, fs : Int, vals : Seq([ty : DataTypes, val : Int, at : Int]),
                  img : Seq(Cell), fn : Program, top : Int]
    <3>1. NumArgs[Fn] \in Int /\ FrameSize[Fn] \in Int
      BY <1>1, ProgramFacts
    <3>2. <<>> \in Seq([ty : DataTypes, val : Int, at : Int])
      OBVIOUS
    <3> HIDE DEF c
    <3> QED
      BY <1>0, <1>1, <1>6, <1>8, <3>1, <3>2
  <2>2. sp' \in Int /\ bp' \in Int /\ ip' \in Int /\ pc' = "collect"
    BY <1>0, <1>1, <1>2
  <2>3. calls' \in Seq(Frame) /\ calls' # <<>>
    BY <1>0, <1>1 DEF Typed
  <2>4. mem' \in [Mem -> Cell]
    BY <1>3 DEF Memory
  <2> QED
    BY <2>1, <2>2, <2>3, <2>4 DEF Typed
<1> HIDE DEF img
<1>10. CollectOK'
  <2>1. OperandEnd' = OperandEnd /\ OperandEnd' - Len(ret'.img) = b /\ OperandEnd \in Int
    <3>1. OperandEnd' = OperandEnd
      BY <1>0 DEF OperandEnd
    <3>2. OperandEnd - (OperandEnd - b) = b
      BY <1>1, <1>2
    <3> QED
      BY <1>1, <1>6, <1>7, <3>1, <3>2
  <2>2. sp' - (OperandEnd' - Len(ret'.img)) = 0
    BY <1>0, <1>2, <2>1
  <2>3. ValsOK(ret', 0) /\ ChainOK(ret', 0)
    BY <1>7 DEF ValsOK, ChainOK
  <2>4. \A i \in (0 + 1) .. Len(ret'.img) : ret'.img[i] = mem'[OperandEnd' - Len(ret'.img) + i - 1]
    <3> SUFFICES ASSUME NEW i \in 1 .. n
                 PROVE  img[i] = mem'[b + i - 1]
      BY <1>6, <1>7, <2>1
    <3>1. b + i - 1 \in Mem /\ b + i - 1 >= b
      BY <1>2, <1>5
    <3>2. img[i] = mem[b + i - 1]
      BY DEF img
    <3> QED
      BY <1>3, <3>1, <3>2 DEF Agree
  <2>5. CodeEnd <= sp' /\ calls' = calls
    BY <1>0, <1>4
  <2> QED
    BY <1>4, <1>7, <1>8, <2>1, <2>2, <2>3, <2>4, <2>5 DEF CollectOK
<1>11. IInv'
  BY <1>0, <1>3, <1>9, <1>10 DEF IInv
<1>12. KeepsCaller
  BY <1>1, <1>2, <1>3, KeepsAbove
<1> QED
  BY <1>11, <1>12

RetType == [na : Int, fs : Int, vals : Seq([ty : DataTypes, val : Int, at : Int]),
            img : Seq(Cell), fn : Program, top : Int]

RetValue == [ty : DataTypes, val : Int, at : Int]

LEMMA ValueFacts ==
  ASSUME NEW vs \in Seq(RetValue), NEW j \in 1 .. Len(vs)
  PROVE  /\ vs[j] \in RetValue /\ vs[j].ty \in DataTypes /\ vs[j].ty \in Types
         /\ vs[j].val \in Int /\ vs[j].at \in Int
         /\ Size[vs[j].ty] \in Nat /\ Size[vs[j].ty] > 0
<1>1. vs[j] \in RetValue
  OBVIOUS
<1>2. vs[j].ty \in DataTypes /\ vs[j].val \in Int /\ vs[j].at \in Int
  BY <1>1 DEF RetValue
<1> QED
  BY <1>1, <1>2, SizeFacts

\* Stages of RET: facts that do not depend on the stage.
LEMMA StageFacts ==
  ASSUME IInv, pc \in {"collect", "args", "push"}
  PROVE  /\ Typed /\ mem \in Memory /\ sp \in Int /\ ip \in Int /\ bp \in Int
         /\ ret \in RetType /\ ret.top \in Int /\ ret.fn \in Program
         /\ ret.img \in Seq(Cell) /\ Len(ret.img) \in Nat
         /\ ret.vals \in Seq([ty : DataTypes, val : Int, at : Int]) /\ Len(ret.vals) \in Nat
         /\ StackOK(mem, sp, bp, calls) /\ FramesOK(mem, calls) /\ CodeEnd \in Nat
         /\ bp = calls[Len(calls)].bp /\ sp <= OperandEnd /\ Tiled(mem, sp, OperandEnd)
         /\ OperandEnd = Limit(calls) /\ OperandEnd \in Int /\ OperandEnd <= MemSize
<1>1. /\ Typed /\ mem \in Memory /\ sp \in Int /\ ip \in Int /\ bp \in Int
      /\ ret \in RetType /\ StackOK(mem, sp, bp, calls)
  BY DEF IInv, Typed, Memory, Running, RetType
<1>2. /\ ret.top \in Int /\ ret.fn \in Program /\ ret.img \in Seq(Cell)
      /\ ret.vals \in Seq([ty : DataTypes, val : Int, at : Int])
  BY <1>1 DEF RetType
<1>3. Len(ret.img) \in Nat /\ Len(ret.vals) \in Nat
  BY <1>2
<1>4. FramesOK(mem, calls) /\ bp = calls[Len(calls)].bp /\ OperandEnd = Limit(calls)
  BY <1>1 DEF StackOK, OperandEnd, Limit
<1>5. sp <= OperandEnd /\ Tiled(mem, sp, OperandEnd)
  BY <1>1, <1>4 DEF StackOK, Limit
<1>6. OperandEnd \in Int /\ OperandEnd <= MemSize /\ CodeEnd \in Nat
  BY <1>4, LimitFacts, SizeFacts
<1> QED
  BY <1>1, <1>2, <1>3, <1>4, <1>5, <1>6

LEMMA CollectRetvalSafe ==
  ASSUME IInv, CollectRetval
  PROVE  IInv' /\ KeepsCaller
<1> DEFINE a == Next1(sp)
           t == mem[sp].ty
           v == mem[sp].val
           n == sp - (OperandEnd - Len(ret.img))
           w == [ty |-> t, val |-> v, at |-> n]
           l == Len(ret.vals)
           ws == Append(ret.vals, w)
<1>0. /\ pc = "collect" /\ sp + ret.fs < bp /\ Datum(sp, DataTypes)
      /\ ret' = [ret EXCEPT !.vals = Append(@, [ty |-> t, val |-> v,
                                                at |-> sp - (bp - ret.fs - Len(ret.img))])]
      /\ sp' = a /\ mem' = Erase(mem, sp, a) /\ UNCHANGED <<ip, bp, pc, calls>>
  BY DEF CollectRetval
<1>1. /\ Typed /\ mem \in Memory /\ sp \in Int /\ ip \in Int /\ bp \in Int
      /\ ret \in RetType /\ Len(ret.img) \in Nat
      /\ ret.vals \in Seq([ty : DataTypes, val : Int, at : Int]) /\ l \in Nat
      /\ StackOK(mem, sp, bp, calls) /\ FramesOK(mem, calls) /\ CodeEnd \in Nat
      /\ bp = calls[Len(calls)].bp /\ sp <= OperandEnd /\ Tiled(mem, sp, OperandEnd)
      /\ OperandEnd = Limit(calls) /\ OperandEnd \in Int /\ OperandEnd <= MemSize
  BY <1>0, StageFacts
<1>2. /\ CollectOK /\ CodeEnd <= sp /\ ValsOK(ret, n) /\ ChainOK(ret, n) /\ 0 <= n
      /\ \A i \in (n + 1) .. Len(ret.img) :
           ret.img[i] = mem[OperandEnd - Len(ret.img) + i - 1]
  BY <1>0 DEF IInv, CollectOK
<1>3. bp - ret.fs = OperandEnd /\ sp < OperandEnd
  <2>1. ret.fs = calls[Len(calls)].fs /\ ret.fs \in Nat
    BY <1>1, <1>2, LimitFacts DEF CollectOK
  <2>2. bp - ret.fs = OperandEnd
    BY <2>1 DEF OperandEnd
  <2> QED
    BY <1>0, <1>1, <2>1, <2>2
<1>4. /\ a \in Int /\ sp < a /\ sp <= a /\ a <= OperandEnd /\ Tiled(mem, a, OperandEnd)
      /\ t \in DataTypes /\ t \in Types /\ v \in Int /\ sp \in Mem
      /\ Size[t] \in Nat /\ Size[t] > 0 /\ a = sp + Size[t] /\ At(mem, sp, t, v)
  <2>1. sp \in Mem /\ t \in DataTypes /\ At(mem, sp, t, v)
    BY <1>0 DEF Datum
  <2>2. t \in Types /\ Size[t] \in Nat /\ Size[t] > 0
    BY <2>1, SizeFacts
  <2>3. v \in Int
    BY <1>1, <2>1 DEF Memory, Cell
  <2>4. a = sp + Size[t]
    BY DEF Next1
  <2>5. 0 <= sp
    BY <1>1, <1>2
  <2>6. a <= OperandEnd /\ Tiled(mem, a, OperandEnd)
    BY <1>1, <1>3, <2>4, <2>5, TiledPop
  <2>7. a \in Int /\ sp < a /\ sp <= a
    <3> HIDE DEF a, t
    <3> QED
      BY <1>1, <2>2, <2>4
  <2> QED
    BY <2>1, <2>2, <2>3, <2>4, <2>6, <2>7
<1> HIDE DEF a, t, v
<1>5. mem' \in Memory /\ StackOK(mem', sp', bp', calls') /\ Agree(mem, mem', a)
  BY <1>0, <1>1, <1>2, <1>4, StackPop
<1>6. ret' = [ret EXCEPT !.vals = ws]
  BY <1>0, <1>3
<1>7. n \in Int
  BY <1>1
<1>n. sp = n + (OperandEnd - Len(ret.img))
  BY <1>1
<1> HIDE DEF n
<1>8. w \in [ty : DataTypes, val : Int, at : Int] /\ w.ty = t /\ w.val = v /\ w.at = n
  BY <1>4, <1>7
<1> HIDE DEF w
<1>9. /\ ws \in Seq([ty : DataTypes, val : Int, at : Int]) /\ Len(ws) = l + 1
      /\ ws[l + 1] = w /\ \A j \in 1 .. l : ws[j] = ret.vals[j]
  BY <1>1, <1>8
<1> HIDE DEF ws
<1>10. /\ ret' \in RetType /\ ret'.vals = ws /\ ret'.img = ret.img /\ ret'.fn = ret.fn
       /\ ret'.na = ret.na /\ ret'.fs = ret.fs /\ ret'.top = ret.top
  BY <1>1, <1>6, <1>9 DEF RetType
<1>11. Typed'
  <2>1. sp' \in Int /\ bp' \in Int /\ ip' \in Int /\ pc' = "collect" /\ calls' = calls
    BY <1>0, <1>1, <1>4
  <2>2. mem' \in [Mem -> Cell]
    BY <1>5 DEF Memory
  <2> QED
    BY <1>1, <1>10, <2>1, <2>2 DEF Typed, RetType
<1> DEFINE n2 == n + Size[t]
<1> DEFINE len == Len(ret.img)
           o   == OperandEnd - len
<1>i. /\ sp \in Int /\ n \in Int /\ 0 <= n /\ len \in Nat /\ OperandEnd \in Int
      /\ Size[t] \in Nat /\ Size[t] > 0 /\ a \in Int /\ a = sp + Size[t] /\ a <= OperandEnd
      /\ o \in Int /\ OperandEnd = o + len /\ sp = n + o
  BY <1>1, <1>2, <1>4, <1>7, <1>n, SMTT(30)
<1> HIDE DEF len, o
<1>12. n2 \in Int /\ n < n2 /\ 0 <= n2 /\ n2 <= Len(ret.img)
       /\ n2 = a - (OperandEnd - Len(ret.img))
  <2>1. n2 \in Int /\ n < n2 /\ 0 <= n2 /\ n2 <= len /\ n2 = a - o
    BY <1>i
  <2> QED
    BY <2>1 DEF len, o
<1>13. ChainOK(ret', n2)
  <2> SUFFICES ASSUME NEW j \in 1 .. (l + 1)
               PROVE  /\ 0 <= ws[j].at
                      /\ ws[j].at + Size[ws[j].ty] = IF j < l + 1 THEN ws[j + 1].at ELSE n2
                      /\ ws[j].at + Size[ws[j].ty] <= n2
                      /\ \A k \in 0 .. (Size[ws[j].ty] - 1) :
                           ret.img[ws[j].at + k + 1] = Byte(ws[j].ty, ws[j].val, k)
    BY <1>9, <1>10 DEF ChainOK
  <2>1. CASE j = l + 1
    <3>1. ws[j] = w
      BY <1>9, <2>1
    <3>2. ASSUME NEW k \in 0 .. (Size[t] - 1)
          PROVE  ret.img[n + k + 1] = Byte(t, v, k)
      <4>0. n + k + 1 \in (n + 1) .. len
        BY <1>i
      <4>1. n + k + 1 \in (n + 1) .. Len(ret.img)
        BY <4>0 DEF len
      <4>2. ret.img[n + k + 1] = mem[OperandEnd - Len(ret.img) + (n + k + 1) - 1]
        BY <1>2, <4>1
      <4>3. OperandEnd - Len(ret.img) + (n + k + 1) - 1 = sp + k
        <5>1. o + (n + k + 1) - 1 = sp + k
          BY <1>i
        <5> QED
          BY <5>1 DEF o, len
      <4>4. sp + k \in sp .. (sp + Size[t] - 1) /\ (sp + k) - sp = k
        <5>1. sp \in Int /\ Size[t] \in Nat /\ k \in Int /\ 0 <= k /\ k < Size[t]
          BY <1>i
        <5>2. sp + k \in Int /\ sp <= sp + k /\ sp + k < sp + Size[t]
          BY <5>1
        <5>3. (sp + k) - sp = k
          BY <5>1
        <5> QED
          BY <5>1, <5>2, <5>3
      <4>5. mem[sp + k] = Byte(t, v, k)
        <5> DEFINE y == sp + k
        <5>1. \A x \in sp .. (sp + Size[t] - 1) : mem[x] = Byte(t, v, x - sp)
          BY <1>4 DEF At
        <5>2. y \in sp .. (sp + Size[t] - 1) /\ y - sp = k
          BY <4>4
        <5> HIDE DEF y
        <5>3. mem[y] = Byte(t, v, k)
          BY <5>1, <5>2
        <5> QED
          BY <5>3 DEF y
      <4> QED
        BY <4>2, <4>3, <4>5
    <3>3. n2 <= n2 /\ ~(j < l + 1)
      BY <1>1, <1>12, <2>1
    <3> QED
      BY <1>2, <1>8, <3>1, <3>2, <3>3
  <2>2. CASE j # l + 1
    <3>1. j \in 1 .. l /\ j < l + 1
      BY <1>1, <2>2, SMTT(30)
    <3> DEFINE u == ret.vals[j]
    <3>2. /\ 0 <= u.at /\ u.at + Size[u.ty] = IF j < l THEN ret.vals[j + 1].at ELSE n
          /\ u.at + Size[u.ty] <= n
          /\ \A k \in 0 .. (Size[u.ty] - 1) : ret.img[u.at + k + 1] = Byte(u.ty, u.val, k)
      BY <1>2, <3>1 DEF ChainOK
    <3>3. ws[j] = u
      BY <1>9, <3>1
    <3>4. u.at + Size[u.ty] = ws[j + 1].at
      <4>1. CASE j < l
        <5>1. j + 1 \in 1 .. l
          BY <1>1, <3>1, <4>1
        <5> QED
          BY <1>9, <3>2, <4>1, <5>1
      <4>2. CASE ~(j < l)
        <5>1. j + 1 = l + 1
          BY <1>1, <3>1, <4>2
        <5> QED
          BY <1>8, <1>9, <3>2, <4>2, <5>1
      <4> QED
        BY <4>1, <4>2
    <3>5. u.at + Size[u.ty] <= n2
      <4>1. u.at \in Int /\ Size[u.ty] \in Nat
        <5>1. ret.vals \in Seq(RetValue)
          BY <1>1 DEF RetValue
        <5> QED
          BY <3>1, <5>1, ValueFacts
      <4> HIDE DEF u
      <4> QED
        BY <1>i, <3>2, <4>1
    <3> QED
      BY <3>1, <3>2, <3>3, <3>4, <3>5
  <2> QED
    BY <2>1, <2>2
<1>14. ValsOK(ret', n2)
  <2>1. ws # <<>>
    BY <1>1, <1>9
  <2>2. ws[1].at = 0
    <3>1. CASE ret.vals = <<>>
      <4>1. l = 0 /\ n = 0
        BY <1>2, <3>1 DEF ValsOK
      <4> QED
        BY <1>8, <1>9, <4>1
    <3>2. CASE ret.vals # <<>>
      <4>1. 1 \in 1 .. l
        BY <1>1, <3>2
      <4> QED
        BY <1>2, <1>9, <3>2, <4>1 DEF ValsOK
    <3> QED
      BY <3>1, <3>2
  <2> QED
    BY <1>10, <2>1, <2>2 DEF ValsOK
<1>15. CollectOK'
  <2>1. OperandEnd' = OperandEnd /\ calls' = calls
    BY <1>0 DEF OperandEnd
  <2>2. sp' - (OperandEnd' - Len(ret'.img)) = n2
    BY <1>0, <1>10, <1>12, <2>1
  <2>3. CodeEnd <= sp'
    BY <1>0, <1>1, <1>2, <1>4
  <2>4. \A i \in (n2 + 1) .. Len(ret'.img) :
          ret'.img[i] = mem'[OperandEnd' - Len(ret'.img) + i - 1]
    <3> SUFFICES ASSUME NEW i \in (n2 + 1) .. Len(ret.img)
                 PROVE  ret.img[i] = mem'[OperandEnd - Len(ret.img) + i - 1]
      BY <1>10, <2>1
    <3> DEFINE x == OperandEnd - Len(ret.img) + i - 1
    <3>0. i \in Int /\ n2 + 1 <= i /\ i <= len /\ i <= Len(ret.img)
      BY <1>1, <1>12 DEF len
    <3>x. x = o + i - 1
      BY DEF o, len
    <3> HIDE DEF x
    <3>1. x \in Int /\ x >= a /\ x < OperandEnd
      BY <1>i, <3>0, <3>x
    <3>2. x \in Mem
      <4>1. 0 <= a
        BY <1>1, <1>2, <1>4
      <4> QED
        BY <1>1, <1>i, <3>1, <4>1, SizeFacts DEF Mem
    <3>3. i \in (n + 1) .. Len(ret.img)
      <4>1. n + 1 <= i
        BY <1>i, <3>0
      <4> QED
        BY <3>0, <4>1, <1>1, <1>7
    <3>4. ret.img[i] = mem[x]
      BY <1>2, <3>3 DEF x
    <3> QED
      BY <1>5, <3>1, <3>2, <3>4 DEF Agree, x
  <2>5. /\ Len(calls) >= 2 /\ ret.fn = calls[Len(calls)].fn /\ ret.top = calls[Len(calls)].top
        /\ ret.na = NumArgs[calls[Len(calls)].fn] /\ ret.fs = FrameSize[calls[Len(calls)].fn]
        /\ CodeEnd <= OperandEnd - Len(ret.img)
    BY <1>2 DEF CollectOK
  <2> HIDE DEF n2
  <2> QED
    BY <1>10, <1>12, <1>13, <1>14, <2>1, <2>2, <2>3, <2>4, <2>5 DEF CollectOK
<1>16. IInv'
  BY <1>0, <1>5, <1>11, <1>15 DEF IInv
<1>17. KeepsCaller
  BY <1>1, <1>4, <1>5, KeepsAbove
<1> QED
  BY <1>16, <1>17

LEMMA LeaveFrameSafe ==
  ASSUME IInv, LeaveFrame
  PROVE  /\ IInv' /\ KeepsCaller
         /\ LET l   == Len(calls)
                e   == bp + 2 * AddrSize
                d   == calls[l - 1]
                lim == d.bp - d.fs
            IN  /\ l \in Nat /\ l >= 2 /\ sp = OperandEnd
                /\ ret.fn \in Program /\ ret.na = NumArgs[ret.fn] /\ calls[l].top = e + ArgTotal(ret.fn)
                /\ e \in Int /\ 0 <= e /\ lim \in Int /\ lim <= MemSize /\ e + ArgTotal(ret.fn) <= lim
                /\ ArgsAt(mem', e, ret.fn) /\ Agree(mem, mem', e) /\ OperandEnd' = lim
                /\ Len(calls') = l - 1 /\ \A i \in 1 .. (l - 1) : calls'[i] = calls[i]
<1> DEFINE l == Len(calls)
           c == calls[l]
           d == calls[l - 1]
           e == bp + 2 * AddrSize
           ds == SubSeq(calls, 1, l - 1)
           f == ret.fn
<1>0. /\ pc = "collect" /\ ~(sp + ret.fs < bp)
      /\ bp' = mem[bp].val /\ ip' = mem[bp + AddrSize].val /\ sp' = e
      /\ mem' = Erase(mem, sp, e) /\ pc' = "args" /\ calls' = ds /\ UNCHANGED ret
  BY DEF LeaveFrame
<1>1. /\ Typed /\ mem \in Memory /\ sp \in Int /\ ip \in Int /\ bp \in Int
      /\ ret \in RetType /\ ret.top \in Int /\ f \in Program /\ Len(ret.img) \in Nat
      /\ StackOK(mem, sp, bp, calls) /\ FramesOK(mem, calls) /\ CodeEnd \in Nat
      /\ bp = c.bp /\ sp <= OperandEnd
      /\ OperandEnd = Limit(calls) /\ OperandEnd \in Int /\ OperandEnd <= MemSize
  BY <1>0, StageFacts
<1> DEFINE n == sp - (OperandEnd - Len(ret.img))
<1>2. /\ l >= 2 /\ CodeEnd <= sp /\ ValsOK(ret, n) /\ ChainOK(ret, n)
      /\ f = c.fn /\ ret.top = c.top /\ ret.na = NumArgs[f] /\ ret.fs = FrameSize[f]
      /\ CodeEnd <= OperandEnd - Len(ret.img)
  <2>1. CollectOK
    BY <1>0 DEF IInv
  <2> QED
    BY <2>1 DEF CollectOK
<1>3. /\ l \in Nat /\ c \in Frame /\ c.fs = FrameSize[f] /\ c.fs \in Nat /\ OperandEnd <= bp
      /\ OperandEnd = bp - c.fs
  BY <1>1, <1>2, LimitFacts DEF Limit
<1>4. sp = OperandEnd /\ n = Len(ret.img)
  <2>1. sp = OperandEnd
    BY <1>0, <1>1, <1>2, <1>3, SMTT(30)
  <2>2. OperandEnd - (OperandEnd - Len(ret.img)) = Len(ret.img)
    BY <1>1
  <2> QED
    BY <2>1, <2>2
<1>5. CallOK(mem, c, d) /\ ShapeOK(c) /\ LinkOK(mem, c, d) /\ ArgsAt(mem, e, f)
      /\ Tiled(mem, e, d.bp - d.fs)
  <2>1. CallOK(mem, c, d)
    BY <1>1, <1>2, <1>3 DEF FramesOK
  <2> QED
    BY <1>1, <1>2, <2>1 DEF CallOK
<1>6. FramesOK(mem, ds) /\ Len(ds) = l - 1 /\ ds[l - 1] = d
  BY <1>1, <1>2, FramesPop
<1> DEFINE lim == d.bp - d.fs
<1>7. Limit(ds) = lim /\ ds[Len(ds)] = d
  BY <1>6 DEF Limit
<1>8. /\ lim \in Int /\ lim <= MemSize /\ d.bp \in Int /\ d \in Frame
  BY <1>6, <1>7, LimitFacts
<1>9. AddrSize \in Nat /\ AddrSize > 0 /\ ArgTotal(f) \in Nat /\ ArgOff[f][1] = 0
      /\ NumArgs[f] \in Nat /\ MemSize \in Nat /\ Size["ADDR_MEM"] = AddrSize
  <2>1. ArgTotal(f) \in Nat /\ ArgOff[f][1] = 0 /\ NumArgs[f] \in Nat
    BY <1>1, ProgramFacts
  <2>2. AddrSize \in Nat /\ AddrSize > 0 /\ MemSize \in Nat
    BY SizeFacts
  <2> QED
    BY <2>1, <2>2 DEF AddrSize
<1>10. /\ ret.top = e + ArgTotal(f) /\ e \in Int /\ sp <= e /\ CodeEnd <= e /\ bp <= e
       /\ ret.top - ArgTotal(f) = e /\ 0 <= e
  <2>1. c.top = c.bp + 2 * AddrSize + ArgTotal(f)
    BY <1>2, <1>5 DEF ShapeOK
  <2>2. e \in Int /\ bp <= e
    BY <1>1, <1>9
  <2>3. ret.top = e + ArgTotal(f)
    BY <1>1, <1>2, <2>1
  <2>4. sp <= bp /\ CodeEnd <= bp
    BY <1>1, <1>2, <1>3, <1>4
  <2> HIDE DEF e
  <2>5. sp <= e /\ CodeEnd <= e /\ 0 <= e
    BY <1>1, <2>2, <2>4
  <2>6. ret.top - ArgTotal(f) = e
    BY <1>9, <2>2, <2>3
  <2> QED
    BY <2>2, <2>3, <2>5, <2>6
<1>11. ret.top <= lim /\ e <= lim
  <2>1. c.top <= d.bp - d.fs
    <3>1. l - 1 \in 1 .. l /\ l \in 1 .. l /\ l - 1 < l
      BY <1>2, <1>3
    <3> QED
      BY <1>1, <3>1 DEF FramesOK
  <2>2. ret.top <= lim
    BY <1>2, <2>1
  <2> HIDE DEF e, lim
  <2> QED
    BY <1>8, <1>9, <1>10, <2>2
<1>12. CodeOK(mem)
  BY <1>1, <1>2 DEF StackOK
<1> HIDE DEF c, d
\* the saved registers
<1>13. bp' = d.bp /\ ip' \in Int
  <2>1. At(mem, bp, "ADDR_MEM", c.link) /\ At(mem, bp + AddrSize, "ADDR_MEM", c.ret) /\ c.link = d.bp
    BY <1>1, <1>5 DEF LinkOK
  <2>2. mem[bp] = Byte("ADDR_MEM", c.link, bp - bp)
    <3>1. bp \in bp .. (bp + Size["ADDR_MEM"] - 1)
      BY <1>1, <1>9
    <3> QED
      BY <2>1, <3>1 DEF At
  <2>3. bp + AddrSize \in Mem
    BY <1>1, <1>9, <2>1 DEF At, Mem
  <2>4. mem[bp + AddrSize] \in Cell
    BY <1>1, <2>3 DEF Memory
  <2>5. mem[bp + AddrSize].val \in Int
    BY <2>4 DEF Cell
  <2> QED
    BY <1>0, <2>1, <2>2, <2>5 DEF Byte
<1> HIDE DEF e, ds, lim
<1>14. mem' \in Memory /\ StackOK(mem', e, d.bp, ds) /\ Agree(mem, mem', e)
  <2>1. d.bp = ds[Len(ds)].bp /\ e <= Limit(ds) /\ Tiled(mem, e, Limit(ds))
    BY <1>5, <1>7, <1>11 DEF lim
  <2> QED
    BY <1>0, <1>1, <1>2, <1>6, <1>10, <1>12, <2>1, StackErase
<1>15. Typed'
  <2>1. ds \in Seq(Frame) /\ ds # <<>>
    <3>1. ds \in Seq(Frame) /\ Len(ds) >= 1
      BY <1>6 DEF FramesOK
    <3> QED
      BY <3>1
  <2>2. mem' \in [Mem -> Cell]
    BY <1>14 DEF Memory
  <2>3. ip' \in Int /\ sp' \in Int /\ bp' \in Int /\ pc' = "args" /\ ret' = ret /\ calls' = ds
    BY <1>0, <1>8, <1>10, <1>13
  <2> QED
    BY <1>1, <2>1, <2>2, <2>3 DEF Typed
<1>16. OperandEnd' = lim
  BY <1>0, <1>7, <1>13 DEF OperandEnd, lim
<1>a. ArgsAt(mem', e, f)
  <2>1. e >= e
    BY <1>10
  <2> QED
    BY <1>1, <1>5, <1>10, <1>14, <2>1, ArgsAgree
<1>17. ArgsOK'
  <2>2. NumArgs[f] - ret.na + 1 = 1 /\ ret.na \in 0 .. NumArgs[f]
    BY <1>2, <1>9
  <2>3. e = e + ArgOff[f][NumArgs[f] - ret.na + 1]
    BY <1>9, <1>10, <2>2
  <2>4. CodeEnd <= ret.top - Len(ret.img)
    <3>1. OperandEnd <= ret.top
      BY <1>1, <1>3, <1>9, <1>10
    <3> QED
      BY <1>1, <1>2, <3>1
  <2>5. ValsOK(ret, Len(ret.img)) /\ ChainOK(ret, Len(ret.img))
    BY <1>2, <1>4
  <2>6. \A j \in (NumArgs[f] - ret.na + 1) .. NumArgs[f] :
          At(mem', e + ArgOff[f][j], ArgType[f][j], mem'[e + ArgOff[f][j]].val)
    BY <1>a, <2>2 DEF ArgsAt
  <2>7. ret' = ret /\ sp' = e
    BY <1>0
  <2> HIDE DEF n
  <2> QED
    BY <1>10, <1>11, <1>16, <2>2, <2>3, <2>4, <2>5, <2>6, <2>7 DEF ArgsOK
<1>18. IInv'
  BY <1>0, <1>13, <1>14, <1>15, <1>17 DEF IInv
<1>19. KeepsCaller
  <2>1. Len(calls') < Len(calls) /\ Len(calls') \in Nat /\ Len(calls) \in Nat
    BY <1>0, <1>2, <1>3, <1>6
  <2> QED
    BY <2>1 DEF KeepsCaller
<1>20. Len(calls') = l - 1 /\ \A i \in 1 .. (l - 1) : calls'[i] = calls[i]
  <2>1. calls \in Seq(Frame)
    BY <1>1 DEF Typed
  <2>2. \A i \in 1 .. (l - 1) : ds[i] = calls[i]
    BY <1>2, <1>3, <2>1 DEF ds
  <2> QED
    BY <1>0, <1>6, <2>2
<1>21. c.top = e + ArgTotal(f) /\ sp = OperandEnd /\ e + ArgTotal(f) <= lim
  BY <1>2, <1>4, <1>10, <1>11
<1> HIDE DEF n
<1> QED
  BY <1>2, <1>3, <1>1, <1>8, <1>10, <1>14, <1>16, <1>a, <1>18, <1>19, <1>20, <1>21 DEF c, d, e, lim

LEMMA PopArgSafe ==
  ASSUME IInv, PopArg
  PROVE  IInv' /\ KeepsCaller
<1> DEFINE a == Next1(sp)
           f == ret.fn
           base == ret.top - ArgTotal(f)
           i == NumArgs[f] - ret.na + 1
           t == ArgType[f][i]
<1>0. /\ pc = "args" /\ ret.na > 0 /\ Datum(sp, DataTypes)
      /\ ret' = [ret EXCEPT !.na = @ - 1]
      /\ sp' = a /\ mem' = Erase(mem, sp, a) /\ UNCHANGED <<ip, bp, pc, calls>>
  BY DEF PopArg
<1>1. /\ Typed /\ mem \in Memory /\ sp \in Int /\ ip \in Int /\ bp \in Int
      /\ ret \in RetType /\ ret.top \in Int /\ f \in Program /\ Len(ret.img) \in Nat
      /\ StackOK(mem, sp, bp, calls) /\ FramesOK(mem, calls) /\ CodeEnd \in Nat
      /\ sp <= OperandEnd /\ Tiled(mem, sp, OperandEnd)
      /\ OperandEnd = Limit(calls) /\ OperandEnd \in Int /\ OperandEnd <= MemSize
  BY <1>0, StageFacts
<1>2. /\ CodeEnd <= sp /\ ret.top <= OperandEnd /\ ret.na \in 0 .. NumArgs[f]
      /\ sp = base + ArgOff[f][i]
      /\ \A j \in i .. NumArgs[f] :
           At(mem, base + ArgOff[f][j], ArgType[f][j], mem[base + ArgOff[f][j]].val)
      /\ CodeEnd <= ret.top - Len(ret.img)
      /\ ValsOK(ret, Len(ret.img)) /\ ChainOK(ret, Len(ret.img))
  <2>1. ArgsOK
    BY <1>0 DEF IInv
  <2> QED
    BY <2>1 DEF ArgsOK
<1>3. NumArgs[f] \in Nat /\ ret.na \in Nat /\ i \in 1 .. NumArgs[f] /\ i \in i .. NumArgs[f]
      /\ NumArgs[f] - (ret.na - 1) + 1 = i + 1 /\ ret.na - 1 \in 0 .. NumArgs[f]
  <2>1. NumArgs[f] \in Nat
    BY <1>1, ProgramFacts
  <2> HIDE DEF f
  <2> QED
    BY <1>0, <1>2, <2>1
<1> HIDE DEF i
<1>4. /\ t \in Types /\ Size[t] \in Nat /\ Size[t] > 0
      /\ ArgOff[f][i] \in Nat /\ ArgOff[f][i + 1] = ArgOff[f][i] + Size[t]
      /\ ArgOff[f][i] + Size[t] <= ArgTotal(f) /\ ArgTotal(f) \in Nat
  <2>1. /\ t \in DataTypes /\ ArgOff[f][i] \in Nat /\ ArgTotal(f) \in Nat
        /\ ArgOff[f][i + 1] = ArgOff[f][i] + Size[t]
        /\ ArgOff[f][i] + Size[t] <= ArgTotal(f)
    <3>1. i \in 1 .. (NumArgs[f] + 1)
      BY <1>3
    <3> QED
      BY <1>1, <1>3, <3>1, ProgramFacts
  <2> QED
    BY <2>1, SizeFacts
<1>5. base \in Int /\ base + ArgTotal(f) = ret.top
  BY <1>1, <1>4
<1> HIDE DEF base
<1>6. mem[sp].ty = t /\ a = sp + Size[t]
  <2>1. At(mem, sp, t, mem[sp].val)
    BY <1>2, <1>3
  <2>2. sp \in sp .. (sp + Size[t] - 1)
    BY <1>1, <1>4
  <2>3. mem[sp] = Byte(t, mem[sp].val, sp - sp)
    BY <2>1, <2>2 DEF At
  <2>4. mem[sp].ty = t
    BY <2>3 DEF Byte
  <2> QED
    BY <2>4 DEF Next1
<1> HIDE DEF a
<1>7. /\ a \in Int /\ sp <= a /\ sp < a /\ a <= OperandEnd
      /\ a = base + ArgOff[f][i + 1] /\ CodeEnd <= a /\ 0 <= sp
  <2> HIDE DEF f, t
  <2>1. a \in Int /\ sp <= a /\ sp < a
    BY <1>1, <1>4, <1>6
  <2>2. a = base + ArgOff[f][i + 1]
    BY <1>1, <1>2, <1>4, <1>5, <1>6
  <2>3. base + ArgOff[f][i + 1] <= ret.top
    BY <1>4, <1>5
  <2> QED
    BY <1>1, <1>2, <2>1, <2>2, <2>3
<1>8. Tiled(mem, a, OperandEnd)
  BY <1>1, <1>6, <1>7, TiledPop
<1>9. mem' \in Memory /\ StackOK(mem', sp', bp', calls') /\ Agree(mem, mem', a)
  BY <1>0, <1>1, <1>2, <1>7, <1>8, StackPop
<1>10. /\ ret' \in RetType /\ ret'.na = ret.na - 1 /\ ret'.vals = ret.vals /\ ret'.img = ret.img
       /\ ret'.fn = f /\ ret'.fs = ret.fs /\ ret'.top = ret.top
  <2>1. ret.na - 1 \in Int
    BY <1>3
  <2> HIDE DEF f
  <2>2. /\ ret' \in RetType /\ ret'.na = ret.na - 1 /\ ret'.vals = ret.vals
        /\ ret'.img = ret.img /\ ret'.fs = ret.fs /\ ret'.top = ret.top
    BY <1>0, <1>1, <2>1 DEF RetType
  <2>3. ret'.fn = f
    BY <1>0, <1>1 DEF RetType, f
  <2> QED
    BY <2>2, <2>3
<1>11. Typed'
  <2>1. sp' \in Int /\ bp' \in Int /\ ip' \in Int /\ pc' = "args" /\ calls' = calls
    BY <1>0, <1>1, <1>7
  <2>2. mem' \in [Mem -> Cell]
    BY <1>9 DEF Memory
  <2> QED
    BY <1>1, <1>10, <2>1, <2>2 DEF Typed, RetType
<1>12. \A j \in (i + 1) .. NumArgs[f] :
         At(mem', base + ArgOff[f][j], ArgType[f][j], mem'[base + ArgOff[f][j]].val)
  <2> SUFFICES ASSUME NEW j \in (i + 1) .. NumArgs[f]
               PROVE  At(mem', base + ArgOff[f][j], ArgType[f][j], mem'[base + ArgOff[f][j]].val)
    OBVIOUS
  <2>1. j \in i .. NumArgs[f] /\ j \in 1 .. NumArgs[f] /\ i < j /\ j \in 1 .. (NumArgs[f] + 1)
    BY <1>3
  <2> DEFINE q == base + ArgOff[f][j]
             u == ArgType[f][j]
  <2>2. u \in DataTypes /\ ArgOff[f][j] \in Nat /\ ArgOff[f][i] + Size[t] <= ArgOff[f][j]
    BY <1>1, <1>3, <2>1, ProgramFacts
  <2>3. u \in Types /\ Size[u] \in Nat /\ Size[u] > 0
    BY <2>2, SizeFacts
  <2>4. q \in Int /\ a <= q
    BY <1>4, <1>5, <1>7, <2>2
  <2>5. At(mem, q, u, mem[q].val)
    BY <1>2, <2>1
  <2> HIDE DEF q, u
  <2>6. q \in Mem
    BY <1>1, <2>3, <2>4, <2>5, SizeFacts DEF At, Mem
  <2>7. mem'[q] = mem[q]
    BY <1>9, <2>4, <2>6 DEF Agree
  <2>8. At(mem', q, u, mem[q].val)
    BY <1>7, <1>9, <1>1, <2>3, <2>4, <2>5, AtAgree
  <2> QED
    BY <2>7, <2>8 DEF q, u
<1>13. ArgsOK'
  <2>1. OperandEnd' = OperandEnd
    BY <1>0 DEF OperandEnd
  <2>2. ValsOK(ret', Len(ret.img)) /\ ChainOK(ret', Len(ret.img))
    BY <1>2, <1>10 DEF ValsOK, ChainOK
  <2>3. NumArgs[f] - ret'.na + 1 = i + 1 /\ ret'.na \in 0 .. NumArgs[f]
    BY <1>3, <1>10
  <2> QED
    BY <1>0, <1>2, <1>7, <1>10, <1>12, <2>1, <2>2, <2>3 DEF ArgsOK, base
<1>14. IInv'
  BY <1>0, <1>9, <1>11, <1>13 DEF IInv
<1>15. KeepsCaller
  BY <1>1, <1>7, <1>9, KeepsAbove
<1> QED
  BY <1>14, <1>15

\* Once the arguments are gone, the push stage begins with nothing moved yet.
LEMMA ArgsDone ==
  ASSUME IInv, pc \in {"args", "push"}, ret.na <= 0
  PROVE  PushOK
<1>1. CASE pc = "push"
  BY <1>1 DEF IInv
<1>2. CASE pc = "args"
  <2> DEFINE f == ret.fn
  <2>1. /\ ret.top \in Int /\ Len(ret.img) \in Nat /\ f \in Program
        /\ ret.vals \in Seq(RetValue)
    BY <1>2, StageFacts DEF RetValue
  <2>2. /\ ret.top <= OperandEnd /\ ret.na \in 0 .. NumArgs[f]
        /\ sp = ret.top - ArgTotal(f) + ArgOff[f][NumArgs[f] - ret.na + 1]
        /\ CodeEnd <= ret.top - Len(ret.img)
        /\ ValsOK(ret, Len(ret.img)) /\ ChainOK(ret, Len(ret.img))
    <3>1. ArgsOK
      BY <1>2 DEF IInv
    <3> QED
      BY <3>1 DEF ArgsOK
  <2>3. NumArgs[f] \in Nat /\ ArgTotal(f) \in Nat
    BY <2>1, ProgramFacts
  <2>4. ret.na = 0
    BY <2>2, <2>3
  <2>5. NumArgs[f] - ret.na + 1 = NumArgs[f] + 1
    BY <2>3, <2>4
  <2>6. sp = ret.top - ArgTotal(f) + ArgTotal(f)
    BY <2>2, <2>5 DEF ArgTotal
  <2>7. sp = ret.top - 0
    BY <2>1, <2>3, <2>6
  <2> DEFINE n == IF ret.vals = <<>> THEN Len(ret.img) ELSE ret.vals[1].at
  <2>8. n = 0
    BY <2>2 DEF ValsOK
  <2>9. MovedOK(mem, ret, 0)
    BY DEF MovedOK
  <2> QED
    BY <2>1, <2>2, <2>4, <2>7, <2>8, <2>9 DEF PushOK
<1> QED
  BY <1>1, <1>2

LEMMA PushRetvalSafe ==
  ASSUME IInv, PushRetval
  PROVE  IInv' /\ KeepsCaller
<1> DEFINE w   == ret.vals[1]
           ws  == Tail(ret.vals)
           l   == Len(ret.vals)
           len == Len(ret.img)
           n   == w.at
           n2  == n + Size[w.ty]
           p   == sp - Size[w.ty]
<1>0. /\ pc \in {"args", "push"} /\ ret.na <= 0 /\ ret.vals # <<>>
      /\ sp' = p /\ mem' = Put(Erase(mem, sp, sp), p, w.ty, w.val)
      /\ ret' = [ret EXCEPT !.vals = Tail(@)] /\ pc' = "push" /\ UNCHANGED <<ip, bp, calls>>
  <2>1. Head(ret.vals) = ret.vals[1]
    OBVIOUS
  <2> QED
    BY <2>1 DEF PushRetval, Replace
<1>1. /\ Typed /\ mem \in Memory /\ sp \in Int /\ ip \in Int /\ bp \in Int
      /\ ret \in RetType /\ ret.top \in Int /\ ret.img \in Seq(Cell) /\ len \in Nat
      /\ ret.vals \in Seq(RetValue) /\ l \in Nat
      /\ StackOK(mem, sp, bp, calls) /\ FramesOK(mem, calls) /\ CodeEnd \in Nat
      /\ sp <= OperandEnd /\ Tiled(mem, sp, OperandEnd)
      /\ OperandEnd = Limit(calls) /\ OperandEnd \in Int /\ OperandEnd <= MemSize
  BY <1>0, StageFacts DEF RetValue
<1>2. /\ ret.na = 0 /\ ret.top <= OperandEnd /\ 0 <= n /\ n <= len /\ sp = ret.top - n
      /\ CodeEnd <= ret.top - len /\ ChainOK(ret, len) /\ MovedOK(mem, ret, n)
  BY <1>0, ArgsDone DEF PushOK
<1>3. l >= 1 /\ 1 \in 1 .. l
  <2>1. ret.vals \in Seq(RetValue) /\ ret.vals # <<>>
    BY <1>0, <1>1
  <2> QED
    BY <2>1
<1>4. /\ w.ty \in DataTypes /\ w.ty \in Types /\ w.val \in Int /\ n \in Int
      /\ Size[w.ty] \in Nat /\ Size[w.ty] > 0
  BY <1>1, <1>3, ValueFacts
<1>5. /\ ws \in Seq(RetValue) /\ Len(ws) = l - 1 /\ \A j \in 1 .. (l - 1) : ws[j] = ret.vals[j + 1]
  BY <1>0, <1>1, <1>3
<1>6. /\ n2 = (IF 1 < l THEN ret.vals[2].at ELSE len) /\ n2 <= len
      /\ \A k \in 0 .. (Size[w.ty] - 1) : ret.img[n + k + 1] = Byte(w.ty, w.val, k)
  BY <1>2, <1>3 DEF ChainOK
<1> HIDE DEF w, ws, l, len, n, n2, p
<1>i. /\ sp \in Int /\ ret.top \in Int /\ n \in Int /\ 0 <= n /\ len \in Nat /\ sp = ret.top - n
      /\ Size[w.ty] \in Nat /\ Size[w.ty] > 0 /\ ret.top <= OperandEnd /\ OperandEnd \in Int
      /\ OperandEnd <= MemSize /\ CodeEnd \in Nat
  BY <1>1, <1>2, <1>4
<1>7. /\ n2 \in Int /\ n < n2 /\ 0 <= n2 /\ p \in Int /\ p = ret.top - n2 /\ p + Size[w.ty] = sp
      /\ CodeEnd <= sp /\ sp <= sp /\ CodeEnd <= p
  <2>1. n2 = n + Size[w.ty] /\ p = sp - Size[w.ty]
    BY DEF n2, p
  <2>2. n2 \in Int /\ n < n2 /\ 0 <= n2 /\ p \in Int /\ p + Size[w.ty] = sp
    BY <1>i, <2>1
  <2>3. p = ret.top - n2
    BY <1>i, <2>1
  <2>4. CodeEnd <= p
    BY <1>1, <1>2, <1>6, <2>2, <2>3
  <2> QED
    BY <1>1, <1>4, <2>2, <2>3, <2>4
<1>8. mem' \in Memory /\ StackOK(mem', sp', bp', calls') /\ Agree(mem, mem', sp)
  <2>1. p = sp - Size[w.ty] /\ Size[w.ty] <= sp
    BY <1>1, <1>4, <1>7 DEF p
  <2> QED
    BY <1>0, <1>1, <1>4, <1>7, <2>1, StackReplace
<1>9. At(mem', p, w.ty, w.val)
  <2>1. Erase(mem, sp, sp) \in Memory
    BY <1>1, EraseTyped
  <2>2. 0 <= p /\ p + Size[w.ty] <= MemSize
    BY <1>1, <1>7, SizeFacts
  <2> QED
    BY <1>0, <1>4, <1>7, <2>1, <2>2, PutAt
<1>10. /\ ret' \in RetType /\ ret'.na = ret.na /\ ret'.vals = ws /\ ret'.img = ret.img
       /\ ret'.fn = ret.fn /\ ret'.fs = ret.fs /\ ret'.top = ret.top
  BY <1>0, <1>1, <1>5 DEF RetType, RetValue, ws
<1>11. Typed'
  <2>1. sp' \in Int /\ bp' \in Int /\ ip' \in Int /\ pc' = "push" /\ calls' = calls
    BY <1>0, <1>1, <1>7
  <2>2. mem' \in [Mem -> Cell]
    BY <1>8 DEF Memory
  <2> QED
    BY <1>1, <1>10, <2>1, <2>2 DEF Typed, RetType
<1>12. n2 = IF ws = <<>> THEN len ELSE ws[1].at
  <2>1. CASE 1 < l
    <3>1. Len(ws) # 0 /\ 1 \in 1 .. (l - 1)
      BY <1>1, <1>5, <2>1 DEF l
    <3>2. ws # <<>>
      BY <3>1
    <3>3. ws[1] = ret.vals[2]
      BY <1>5, <3>1
    <3> QED
      BY <1>6, <2>1, <3>2, <3>3
  <2>2. CASE ~(1 < l)
    <3>0. l \in Nat /\ l >= 1
      BY <1>1, <1>3
    <3>1. Len(ws) = 0
      BY <1>5, <2>2, <3>0
    <3>2. ws = <<>>
      BY <1>5, <3>1
    <3> QED
      BY <1>6, <2>2, <3>2
  <2> QED
    BY <2>1, <2>2
<1>13. ChainOK(ret', len)
  <2> SUFFICES ASSUME NEW j \in 1 .. (l - 1)
               PROVE  /\ 0 <= ws[j].at
                      /\ ws[j].at + Size[ws[j].ty] = IF j < l - 1 THEN ws[j + 1].at ELSE len
                      /\ ws[j].at + Size[ws[j].ty] <= len
                      /\ \A k \in 0 .. (Size[ws[j].ty] - 1) :
                           ret.img[ws[j].at + k + 1] = Byte(ws[j].ty, ws[j].val, k)
    BY <1>5, <1>10 DEF ChainOK
  <2> DEFINE j1 == j + 1
             u == ret.vals[j1]
  <2>1. j1 \in 1 .. l /\ (j1 < l <=> j < l - 1)
    BY <1>1, <1>3 DEF l
  <2>2. /\ 0 <= u.at /\ u.at + Size[u.ty] = IF j1 < l THEN ret.vals[j1 + 1].at ELSE len
        /\ u.at + Size[u.ty] <= len
        /\ \A k \in 0 .. (Size[u.ty] - 1) : ret.img[u.at + k + 1] = Byte(u.ty, u.val, k)
    BY <1>2, <2>1 DEF ChainOK, l
  <2>3. ws[j] = u
    BY <1>5
  <2>4. ASSUME j < l - 1 PROVE ws[j + 1] = ret.vals[j1 + 1]
    <3>1. j + 1 \in 1 .. (l - 1)
      BY <1>1, <2>4 DEF l
    <3> QED
      BY <1>5, <3>1
  <2> HIDE DEF u, j1
  <2> QED
    BY <2>1, <2>2, <2>3, <2>4
<1>14. MovedOK(mem', ret', n2)
  <2> SUFFICES ASSUME NEW i \in 1 .. n2
               PROVE  LET c == ret.img[i]
                          s == i - 1 - c.k
                      IN  /\ c.ty \in DataTypes /\ 0 <= c.k /\ c.k < Size[c.ty]
                          /\ 0 <= s /\ s + Size[c.ty] <= n2
                          /\ mem'[ret.top - s - Size[c.ty] + c.k] = c
    BY <1>10 DEF MovedOK
  <2> DEFINE c == ret.img[i]
             s == i - 1 - c.k
             x == ret.top - s - Size[c.ty] + c.k
  <2>0. i \in Int /\ 1 <= i /\ i <= n2 /\ i <= len
    BY <1>6, <1>7, <1>1
  <2>1. c.k \in Int
    <3>1. i \in 1 .. Len(ret.img)
      BY <1>1, <2>0 DEF len
    <3>2. c \in Cell
      BY <1>1, <3>1
    <3> HIDE DEF c
    <3> QED
      BY <3>2 DEF Cell
  <2>2. CASE i <= n
    <3>1. i \in 1 .. n
      BY <1>4, <2>0, <2>2
    <3>2. /\ c.ty \in DataTypes /\ 0 <= c.k /\ c.k < Size[c.ty]
          /\ 0 <= s /\ s + Size[c.ty] <= n /\ mem[x] = c
      BY <1>2, <3>1 DEF MovedOK
    <3>3. Size[c.ty] \in Nat /\ s \in Int /\ c.k \in Int
      BY <2>0, <2>1, <3>2, SizeFacts
    <3> HIDE DEF c, s
    <3>4. x \in Int /\ x >= sp /\ x < ret.top
      BY <1>i, <3>2, <3>3
    <3>5. x \in Mem
      BY <1>1, <1>2, <1>7, <3>4, SizeFacts DEF Mem
    <3>6. mem'[x] = c
      BY <1>8, <3>2, <3>4, <3>5 DEF Agree
    <3>7. s + Size[c.ty] <= n2
      BY <1>4, <1>7, <3>2, <3>3
    <3> QED
      BY <3>2, <3>6, <3>7 DEF c, s
  <2>3. CASE i > n
    <3> DEFINE k == i - 1 - n
    <3>1. k \in 0 .. (Size[w.ty] - 1) /\ (n + k) + 1 = i /\ k \in Int
      BY <1>4, <2>0, <2>3 DEF n2
    <3>2. ret.img[n + k + 1] = Byte(w.ty, w.val, k)
      BY <1>6, <3>1
    <3>3. c = Byte(w.ty, w.val, k)
      BY <3>1, <3>2
    <3>4. c.ty = w.ty /\ c.k = k
      BY <3>3 DEF Byte
    <3> HIDE DEF c, k
    <3>5. s = n /\ s + Size[c.ty] = n2
      BY <1>4, <2>0, <3>4 DEF n2, k
    <3>6. x = p + k
      <4>1. x = (ret.top - n - Size[w.ty]) + k
        BY <3>4, <3>5
      <4>2. p = ret.top - n - Size[w.ty]
        BY <1>i DEF p
      <4> QED
        BY <4>1, <4>2
    <3>7. p + k \in p .. (p + Size[w.ty] - 1) /\ (p + k) - p = k
      BY <1>4, <1>7, <3>1
    <3> DEFINE y == p + k
    <3> HIDE DEF y
    <3>8. mem'[y] = Byte(w.ty, w.val, y - p) /\ y - p = k
      BY <1>9, <3>7 DEF At, y
    <3>9. mem'[x] = c
      BY <3>3, <3>6, <3>8 DEF y
    <3>10. 0 <= c.k /\ c.k < Size[c.ty]
      BY <1>4, <3>1, <3>4
    <3>11. 0 <= s /\ s + Size[c.ty] <= n2
      BY <1>2, <1>7, <3>5
    <3> HIDE DEF s, x
    <3> QED
      BY <1>4, <3>4, <3>9, <3>10, <3>11 DEF s, x, c
  <2> QED
    BY <1>4, <2>0, <2>2, <2>3
<1>15. PushOK'
  <2>1. OperandEnd' = OperandEnd /\ sp' = ret.top - n2
    BY <1>0, <1>7 DEF OperandEnd
  <2> QED
    BY <1>2, <1>6, <1>7, <1>10, <1>12, <1>13, <1>14, <2>1 DEF PushOK, len
<1>16. IInv'
  BY <1>0, <1>8, <1>11, <1>15 DEF IInv
<1>17. KeepsCaller
  BY <1>1, <1>8, KeepsAbove
<1> QED
  BY <1>16, <1>17

\* There is room for the value that is pushed next.
LEMMA RetvalRoom ==
  ASSUME IInv, pc \in {"args", "push"}, ret.na <= 0, ret.vals # <<>>
  PROVE  Size[Head(ret.vals).ty] <= sp
<1> DEFINE w   == ret.vals[1]
           len == Len(ret.img)
<1>1. /\ sp \in Int /\ ret.top \in Int /\ len \in Nat /\ ret.vals \in Seq(RetValue)
      /\ CodeEnd \in Nat
  BY StageFacts, SizeFacts DEF RetValue
<1>2. 1 \in 1 .. Len(ret.vals) /\ Head(ret.vals) = w
  BY <1>1
<1>3. /\ w.at \in Int /\ Size[w.ty] \in Nat
  BY <1>1, <1>2, ValueFacts
<1>4. sp = ret.top - w.at /\ CodeEnd <= ret.top - len /\ ChainOK(ret, len)
  BY ArgsDone DEF PushOK
<1>5. w.at + Size[w.ty] <= len
  BY <1>2, <1>4 DEF ChainOK
<1> HIDE DEF w, len
<1> QED
  BY <1>1, <1>2, <1>3, <1>4, <1>5

LEMMA RetDoneSafe ==
  ASSUME IInv, RetDone
  PROVE  IInv' /\ KeepsCaller
<1>0. /\ pc \in {"args", "push"} /\ pc' = "exec" /\ ret' = NoRet
      /\ UNCHANGED <<mem, ip, sp, bp, calls>>
  BY DEF RetDone
<1>1. Typed /\ StackOK(mem, sp, bp, calls)
  BY <1>0, StageFacts
<1>2. NoRet \in RetType
  BY DEF NoRet, RetType, Program
<1>3. Typed'
  BY <1>0, <1>1, <1>2 DEF Typed, RetType
<1>4. IInv'
  BY <1>0, <1>1, <1>3 DEF IInv
<1> QED
  BY <1>0, <1>4 DEF KeepsCaller

-------------------------------------------------------------------------------
(***************************************************************************)
(* The invariant is inductive, and the properties follow from it.          *)
(***************************************************************************)
LEMMA InitSafe ==
  Init => IInv
<1> SUFFICES ASSUME Init PROVE IInv
  OBVIOUS
<1> DEFINE c == [fn |-> Boot, bp |-> MemSize, fs |-> Padding,
                 ret |-> 0, link |-> MemSize, top |-> MemSize]
<1>0. /\ mem = [x \in Mem |-> IF x < CodeEnd THEN CodeByte ELSE ZeroByte]
      /\ ip = Entry[Boot] /\ sp = MemSize - Padding /\ bp = MemSize
      /\ pc = "exec" /\ ret = NoRet /\ calls = <<c>>
  BY DEF Init
<1>1. MemSize \in Nat /\ Padding \in Nat /\ CodeEnd \in Nat /\ CodeEnd + Padding <= MemSize
  BY SizeAssumption
<1>2. Boot \in Program /\ FrameSize[Boot] = Padding
  BY ProgramAssumption DEF Program
<1>3. c \in Frame /\ c.fn = Boot /\ c.bp = MemSize /\ c.fs = Padding
  BY <1>1, <1>2 DEF Frame
<1> HIDE DEF c
<1>4. calls \in Seq(Frame) /\ Len(calls) = 1 /\ calls[1] = c /\ calls # <<>>
  BY <1>0, <1>3
<1>5. Typed
  <2>1. mem \in [Mem -> Cell]
    BY <1>0 DEF Cell, CodeByte, ZeroByte, Byte
  <2>2. ip \in Int /\ sp \in Int /\ bp \in Int
    BY <1>0, <1>1, <1>2, ProgramAssumption
  <2>3. NoRet \in RetType
    BY <1>2 DEF NoRet, RetType
  <2> QED
    BY <1>0, <1>4, <2>1, <2>2, <2>3 DEF Typed, RetType
<1>6. FramesOK(mem, calls)
  BY <1>2, <1>3, <1>4 DEF FramesOK, BootOK
<1>7. StackOK(mem, sp, bp, calls)
  <2>1. sp = c.bp - c.fs /\ bp = c.bp /\ sp \in Int
    BY <1>0, <1>1, <1>3
  <2>2. sp .. (sp - 1) = {}
    BY <2>1
  <2>3. Tiled(mem, sp, c.bp - c.fs)
    BY <2>1, <2>2 DEF Tiled
  <2>4. CodeOK(mem)
    <3> SUFFICES ASSUME NEW x \in 0 .. (CodeEnd - 1) PROVE mem[x] = CodeByte
      BY DEF CodeOK
    <3>1. x \in Mem /\ x < CodeEnd
      BY <1>1 DEF Mem
    <3> QED
      BY <1>0, <3>1
  <2>5. sp <= c.bp - c.fs
    BY <2>1
  <2> QED
    BY <1>4, <1>6, <2>1, <2>3, <2>4, <2>5 DEF StackOK
<1> QED
  BY <1>0, <1>5, <1>7 DEF IInv

LEMMA StepSafe ==
  ASSUME IInv, Instruction
  PROVE  IInv' /\ KeepsCaller
<1>1. ASSUME NEW t \in DataTypes, NEW v \in Vals[t], Push(t, v) \/ OpArithmetic(t, v) \/ OpCast(t, v)
      PROVE  IInv' /\ KeepsCaller
  BY <1>1, PushSafe, ArithmeticSafe
<1>2. ASSUME NEW v \in {0, 1}, OpComparison(v) \/ OpLogical(v)
      PROVE  IInv' /\ KeepsCaller
  BY <1>2, LogicSafe
<1>3. CASE PushAddress
  BY <1>3, PushAddressSafe
<1>4. CASE WriteMem
  BY <1>4, WriteMemSafe
<1>5. CASE ReadMem \/ ReadConst
  BY <1>5, ReadSafe
<1>6. CASE OpNot
  <2>1. 0 \in {0, 1}
    OBVIOUS
  <2> QED
    BY <1>6, <2>1, LogicSafe
<1>7. CASE ComparisonError
  BY <1>7, ComparisonErrorSafe
<1>8. CASE CallExternal
  BY <1>8, CallExternalSafe
<1>9. CASE Jump \/ JumpCond
  BY <1>9, JumpSafe
<1>10. CASE Halt \/ BoundsError \/ PushBelow \/ CastOverCode \/ MisreadBool
  BY <1>10, StopSafe
<1>11. ASSUME NEW f \in Funcs, Call(f) PROVE IInv' /\ KeepsCaller
  BY <1>11, CallSafe
<1>12. CASE Ret
  BY <1>12, RetSafe
<1>13. CASE CollectRetval
  BY <1>13, CollectRetvalSafe
<1>14. CASE LeaveFrame
  BY <1>14, LeaveFrameSafe
<1>15. CASE PopArg
  BY <1>15, PopArgSafe
<1>16. CASE PushRetval
  BY <1>16, PushRetvalSafe
<1>17. CASE RetDone
  BY <1>17, RetDoneSafe
<1>18. CASE ExternalError
  BY <1>18, ExternalErrorSafe
<1> QED
  BY <1>1, <1>2, <1>3, <1>4, <1>5, <1>6, <1>7, <1>8, <1>9, <1>10, <1>11, <1>12,
     <1>13, <1>14, <1>15, <1>16, <1>17, <1>18 DEF Instruction

LEMMA StutterSafe ==
  ASSUME IInv, UNCHANGED vars
  PROVE  IInv'
<1>1. mem' = mem /\ ip' = ip /\ sp' = sp /\ bp' = bp /\ pc' = pc /\ ret' = ret /\ calls' = calls
  BY DEF vars
<1>2. Typed'
  BY <1>1 DEF IInv, Typed
<1>3. (Running => StackOK(mem, sp, bp, calls))'
  BY <1>1 DEF IInv, Running
<1>4. (pc = "collect" => CollectOK)'
  BY <1>1 DEF IInv, CollectOK, OperandEnd
<1>5. (pc = "args" => ArgsOK)'
  BY <1>1 DEF IInv, ArgsOK, OperandEnd
<1>6. (pc = "push" => PushOK)'
  BY <1>1 DEF IInv, PushOK, OperandEnd
<1> QED
  BY <1>2, <1>3, <1>4, <1>5, <1>6 DEF IInv

\* In every reachable state of the machine the stack is in order and a RET
\* under way has kept account of what it moves.
THEOREM Invariance == Spec => []IInv
<1>1. IInv /\ [Instruction]_vars => IInv'
  BY StepSafe, StutterSafe
<1> QED
  BY InitSafe, <1>1, PTL DEF Spec

\* Where an instruction leaves the instruction pointer.
CodeAddr == 0 .. CodeEnd

LEMMA CodeAddresses ==
  /\ CodeEnd \in Nat
  /\ \A f \in Program : /\ Code[f] \subseteq CodeAddr /\ Entry[f] \in CodeAddr
                        /\ Targets[f] \subseteq CodeAddr
  /\ \A a \in Int : a \in 0 .. (CodeEnd - 1) => a \in CodeAddr /\ a + 1 \in CodeAddr
<1>1. CodeEnd \in Nat
  BY SizeAssumption
<1>2. 0 .. (CodeEnd - 1) \subseteq CodeAddr
  BY <1>1 DEF CodeAddr
<1>3. ASSUME NEW f \in Program
      PROVE  Code[f] \subseteq CodeAddr /\ Entry[f] \in CodeAddr /\ Targets[f] \subseteq CodeAddr
  BY <1>2, ProgramAssumption
<1>4. ASSUME NEW a \in Int, a \in 0 .. (CodeEnd - 1) PROVE a \in CodeAddr /\ a + 1 \in CodeAddr
  BY <1>1, <1>4 DEF CodeAddr
<1> QED
  BY <1>1, <1>3, <1>4

\* RET goes back into the caller's code.
LEMMA ReturnAddress ==
  ASSUME IInv, LeaveFrame
  PROVE  ip' \in CodeAddr
<1> DEFINE l == Len(calls)
           c == calls[l]
           d == calls[l - 1]
<1>1. /\ pc = "collect" /\ ip' = mem[bp + AddrSize].val
  BY DEF LeaveFrame
<1>2. /\ bp \in Int /\ FramesOK(mem, calls) /\ bp = c.bp
  BY <1>1, StageFacts
<1>3. l >= 2
  BY <1>1 DEF IInv, CollectOK
<1>4. l \in Nat /\ calls \in Seq(Frame)
  BY <1>2, LimitFacts DEF FramesOK
<1>5. LinkOK(mem, c, d)
  BY <1>2, <1>3, <1>4 DEF FramesOK, CallOK
<1>6. d \in Frame
  BY <1>3, <1>4
<1>7. d.fn \in Program
  BY <1>6 DEF Frame
<1> HIDE DEF c, d
<1> DEFINE a == bp + AddrSize
<1>8. At(mem, a, "ADDR_MEM", c.ret) /\ c.ret \in CodeAddr /\ a \in Int
  BY <1>2, <1>5, <1>7, CodeAddresses, SizeFacts DEF LinkOK, AddrSize
<1> HIDE DEF a
<1>9. a \in a .. (a + Size["ADDR_MEM"] - 1)
  BY <1>8, SizeFacts DEF AddrSize
<1>10. mem[a] = Byte("ADDR_MEM", c.ret, a - a)
  BY <1>8, <1>9 DEF At
<1> QED
  BY <1>1, <1>8, <1>10 DEF Byte, a

LEMMA InstructionPointer ==
  ASSUME IInv, ip \in CodeAddr, Instruction
  PROVE  ip' \in CodeAddr
<1>1. ASSUME Fetch PROVE /\ ip \in Int /\ ip + 1 \in CodeAddr /\ Fn \in Program
  <2>1. ip \in 0 .. (CodeEnd - 1)
    BY <1>1 DEF Fetch, PointersOK
  <2>2. ip \in Int /\ Fn \in Program
    BY <1>1, FetchFacts
  <2> QED
    BY <2>1, <2>2, CodeAddresses
<1>2. ASSUME NEW n, Step(n) PROVE ip' \in CodeAddr
  BY <1>1, <1>2, CodeAddresses DEF Step
<1>3. ASSUME NEW f \in Funcs, Call(f) PROVE ip' \in CodeAddr
  BY <1>3, CodeAddresses DEF Call, Enter, Program
<1>4. CASE Jump \/ JumpCond
  <2>1. Fetch /\ (Resolved \in Targets[Fn] /\ (ip' = Resolved \/ ip' = ip + 1))
    BY <1>4 DEF Jump, JumpCond
  <2> QED
    BY <1>1, <2>1, CodeAddresses
<1>5. CASE Halt \/ ComparisonError \/ ExternalError \/ Ret
  BY <1>1, <1>5 DEF Halt, ComparisonError, ExternalError, Ret
<1>6. CASE BoundsError \/ PushBelow \/ CastOverCode \/ MisreadBool \/ CollectRetval
           \/ PopArg \/ PushRetval \/ RetDone
  BY <1>6 DEF BoundsError, PushBelow, CastOverCode, MisreadBool, Lost, CollectRetval,
              PopArg, PushRetval, RetDone
<1>7. ASSUME NEW t \in DataTypes, NEW v \in Vals[t], Push(t, v) \/ OpArithmetic(t, v) \/ OpCast(t, v)
      PROVE  ip' \in CodeAddr
  BY <1>2, <1>7 DEF Push, OpArithmetic, OpCast
<1>8. ASSUME NEW v \in {0, 1}, OpComparison(v) \/ OpLogical(v) PROVE ip' \in CodeAddr
  BY <1>2, <1>8 DEF OpComparison, OpLogical
<1>9. CASE PushAddress \/ WriteMem \/ ReadMem \/ ReadConst \/ OpNot \/ CallExternal
  BY <1>2, <1>9 DEF PushAddress, WriteMem, ReadMem, ReadConst, OpNot, CallExternal
<1>10. CASE LeaveFrame
  BY <1>10, ReturnAddress
<1> QED
  BY <1>3, <1>4, <1>5, <1>6, <1>7, <1>8, <1>9, <1>10 DEF Instruction

\* Registers, memory cells and RET's local variables keep their types, and the
\* instruction pointer stays in the code, where RET has to find the way back.
THEOREM TypeCorrect == Spec => []TypeOK
<1>1. Init => ip \in CodeAddr
  BY CodeAddresses DEF Init, Program
<1>2. IInv /\ ip \in CodeAddr /\ [Instruction]_vars => (ip \in CodeAddr)'
  BY InstructionPointer DEF vars
<1>3. IInv /\ ip \in CodeAddr => TypeOK
  BY DEF IInv, Typed, TypeOK, CodeAddr
<1>4. Spec => [](ip \in CodeAddr)
  BY Invariance, <1>1, <1>2, PTL DEF Spec
<1> QED
  BY Invariance, <1>3, <1>4, PTL

\* The saved base pointers and return addresses of all active calls survive
\* whatever the program does.
THEOREM FrameChainHolds == Spec => []FrameChain
<1>1. IInv => FrameChain
  <2> SUFFICES ASSUME IInv, Running PROVE FrameChain
    BY DEF FrameChain
  <2>1. /\ FramesOK(mem, calls) /\ bp = calls[Len(calls)].bp
        /\ sp <= calls[Len(calls)].bp - calls[Len(calls)].fs
    BY DEF IInv, StackOK
  <2>2. ASSUME NEW i \in 2 .. Len(calls) PROVE SavedAt(i) /\ Nested(i)
    <3>1. CallOK(mem, calls[i], calls[i - 1])
      BY <2>1 DEF FramesOK
    <3>2. SavedAt(i)
      BY <3>1 DEF CallOK, LinkOK, SavedAt
    <3>3. Len(calls) \in Nat
      BY <2>1, LimitFacts
    <3>4. i \in 1 .. Len(calls) /\ i - 1 \in 1 .. Len(calls) /\ i - 1 < i /\ i > 1
      BY <3>3
    <3>5. calls[i].top <= calls[i - 1].bp - calls[i - 1].fs
      BY <2>1, <3>4 DEF FramesOK
    <3>6. calls[i].bp + 2 * AddrSize <= calls[i].top
      BY <2>1, <3>4, FrameFacts
    <3> QED
      BY <3>2, <3>5, <3>6 DEF Nested
  <2> QED
    BY <2>1, <2>2 DEF FrameChain, OperandEnd
<1> QED
  BY Invariance, <1>1, PTL

\* All operand areas consist of whole data.
THEOREM OperandsTiledHolds == Spec => []OperandsTiled
<1>1. IInv => OperandsTiled
  <2> SUFFICES ASSUME IInv, Running PROVE OperandsTiled
    BY DEF OperandsTiled
  <2>1. /\ FramesOK(mem, calls) /\ bp = calls[Len(calls)].bp
        /\ Tiled(mem, sp, calls[Len(calls)].bp - calls[Len(calls)].fs)
    BY DEF IInv, StackOK
  <2>2. ASSUME NEW i \in 2 .. Len(calls)
        PROVE  Tiled(mem, calls[i].bp + 2 * AddrSize, calls[i - 1].bp - calls[i - 1].fs)
    BY <2>1 DEF FramesOK, CallOK
  <2> QED
    BY <2>1, <2>2 DEF OperandsTiled, OperandEnd
<1> QED
  BY Invariance, <1>1, PTL

\* Whenever an instruction is fetched or a RET is under way the code is the one that was
\* loaded: CheckPointerBounds stops a machine whose last instruction has pushed into it,
\* whatever the size of the datum.
THEOREM CodeIntactHolds == Spec => []CodeIntact
<1>1. IInv => CodeIntact
  <2> SUFFICES ASSUME IInv, Running, pc = "exec" => PointersOK
               PROVE  \A x \in 0 .. (CodeEnd - 1) : mem[x] = CodeByte
    BY DEF CodeIntact
  <2>1. sp >= CodeEnd
    <3>0. CodeEnd \in Nat
      BY SizeFacts
    <3>1. CASE pc = "exec"
      BY <3>0, <3>1 DEF IInv, Typed, PointersOK
    <3>2. CASE pc = "collect"
      BY <3>0, <3>2 DEF IInv, Typed, CollectOK
    <3>3. CASE pc = "args"
      BY <3>0, <3>3 DEF IInv, Typed, ArgsOK
    <3>4. CASE pc = "push"
      <4> DEFINE n == IF ret.vals = <<>> THEN Len(ret.img) ELSE ret.vals[1].at
      <4>1. n <= Len(ret.img) /\ 0 <= n /\ sp = ret.top - n /\ CodeEnd <= ret.top - Len(ret.img)
        BY <3>4 DEF IInv, PushOK
      <4>2. ret.top \in Int /\ Len(ret.img) \in Nat /\ sp \in Int
        BY <3>4, StageFacts
      <4>3. n \in Int
        <5>1. CASE ret.vals = <<>>
          BY <4>2, <5>1
        <5>2. CASE ret.vals # <<>>
          <6>1. ret.vals \in Seq(RetValue)
            BY <3>4, StageFacts DEF RetValue
          <6>2. 1 \in 1 .. Len(ret.vals)
            BY <5>2, <6>1
          <6> QED
            BY <5>2, <6>1, <6>2, ValueFacts
        <5> QED
          BY <5>1, <5>2
      <4> HIDE DEF n
      <4> QED
        BY <3>0, <4>1, <4>2, <4>3
    <3> QED
      BY <3>1, <3>2, <3>3, <3>4 DEF Running
  <2>2. CodeOK(mem)
    BY <2>1 DEF IInv, StackOK
  <2> QED
    BY <2>2 DEF CodeOK
<1> QED
  BY Invariance, <1>1, PTL

\* A function and what it calls leave its caller's frame alone.
THEOREM CallerIsolationHolds == Spec => CallerIsolation
<1>1. IInv /\ [Instruction]_vars => [KeepsCaller]_vars
  BY StepSafe
<1> QED
  BY Invariance, <1>1, PTL DEF Spec, CallerIsolation

\* The return values end up where the arguments were, in reverse order.
THEOREM ReturnExactHolds == Spec => []ReturnExact
<1>1. IInv => ReturnExact
  <2> SUFFICES ASSUME IInv, pc \in {"args", "push"}, ret.na <= 0, ret.vals = <<>>
               PROVE  /\ sp = ret.top - Len(ret.img)
                      /\ \A i \in 1 .. Len(ret.img) :
                           LET c     == ret.img[i]
                               below == i - 1 - c.k
                           IN  mem[ret.top - below - Size[c.ty] + c.k] = c
    BY DEF ReturnExact
  <2>1. sp = ret.top - Len(ret.img) /\ MovedOK(mem, ret, Len(ret.img))
    BY ArgsDone DEF PushOK
  <2> QED
    BY <2>1 DEF MovedOK
<1> QED
  BY Invariance, <1>1, PTL

-------------------------------------------------------------------------------
(***************************************************************************)
(* The option that zeroes popped values.                                   *)
(***************************************************************************)

\* Between the code and the stack pointer s every byte is zero.
Zeroed(m, s) == ZeroPopped => \A x \in CodeEnd .. (s - 1) : m[x] = ZeroByte

ZeroInv == Running => Zeroed(mem, sp)

\* A pop leaves nothing behind.
LEMMA ZeroedErase ==
  ASSUME NEW m \in Memory, NEW s \in Int, NEW a \in Int, a <= MemSize, Zeroed(m, s)
  PROVE  Zeroed(Erase(m, s, a), a)
<1> SUFFICES ASSUME ZeroPopped, NEW x \in CodeEnd .. (a - 1)
             PROVE  Erase(m, s, a)[x] = ZeroByte
  BY DEF Zeroed
<1>1. x \in Mem /\ x \in Int /\ x < a /\ CodeEnd <= x
  BY SizeFacts DEF Mem
<1>2. CASE x < s
  <2>1. Erase(m, s, a)[x] = m[x]
    BY <1>1, <1>2, EraseElsewhere
  <2>2. x \in CodeEnd .. (s - 1)
    BY <1>1, <1>2, SizeFacts
  <2> QED
    BY <2>1, <2>2 DEF Zeroed
<1>3. CASE x >= s
  BY <1>1, <1>3 DEF Erase
<1> QED
  BY <1>1, <1>2, <1>3

\* What is written above the stack pointer does not matter, and nor does it
\* that the stack pointer moves down.
LEMMA ZeroedPut ==
  ASSUME NEW m \in Memory, NEW s \in Int, NEW e \in Int, e <= s, s <= MemSize,
         NEW a \in Int, e <= a, NEW t, NEW v, Zeroed(m, s)
  PROVE  Zeroed(Put(m, a, t, v), e)
<1> SUFFICES ASSUME ZeroPopped, NEW x \in CodeEnd .. (e - 1)
             PROVE  Put(m, a, t, v)[x] = ZeroByte
  BY DEF Zeroed
<1>1. x \in Mem /\ x < a /\ x \in CodeEnd .. (s - 1)
  BY SizeFacts DEF Mem
<1>2. Put(m, a, t, v)[x] = m[x]
  BY <1>1 DEF Put, Mem
<1> QED
  BY <1>1, <1>2 DEF Zeroed

\* The stack pointer stays in the memory while the machine runs.
LEMMA StackPointerFacts ==
  ASSUME IInv, Running
  PROVE  mem \in Memory /\ sp \in Int /\ sp <= MemSize
<1>1. mem \in Memory /\ sp \in Int /\ StackOK(mem, sp, bp, calls)
  BY DEF IInv, Typed, Memory
<1>2. FramesOK(mem, calls) /\ sp <= Limit(calls)
  BY <1>1 DEF StackOK, Limit
<1>3. Limit(calls) \in Int /\ Limit(calls) <= MemSize
  BY <1>2, LimitFacts
<1> QED
  BY <1>1, <1>2, <1>3, SizeFacts

LEMMA PopZeroes ==
  ASSUME IInv, Running, ZeroInv, IInv', NEW a, sp' = a, mem' = Erase(mem, sp, a)
  PROVE  ZeroInv'
<1> SUFFICES ASSUME Running' PROVE Zeroed(mem', sp')
  BY DEF ZeroInv
<1>1. mem \in Memory /\ sp \in Int
  BY StackPointerFacts
<1>2. sp' \in Int /\ sp' <= MemSize
  <2>1. (IInv /\ Running => sp \in Int /\ sp <= MemSize)'
    BY StackPointerFacts, PTL
  <2> QED
    BY <2>1
<1> QED
  BY <1>1, <1>2, ZeroedErase DEF ZeroInv

LEMMA ReplaceZeroes ==
  ASSUME IInv, Running, ZeroInv, NEW a \in Int, a <= MemSize, NEW t \in Types, NEW v,
         Replace(a, t, v)
  PROVE  ZeroInv'
<1>1. mem \in Memory /\ sp \in Int
  BY StackPointerFacts
<1> DEFINE m == Erase(mem, sp, a)
<1>2. m \in Memory /\ Zeroed(m, a)
  BY <1>1, EraseTyped, ZeroedErase DEF ZeroInv
<1> HIDE DEF m
<1> DEFINE e == a - Size[t]
<1>3. e \in Int /\ e <= a
  BY SizeFacts
<1>4. Zeroed(Put(m, e, t, v), e)
  <2>1. e <= e
    BY <1>3
  <2> HIDE DEF e
  <2> QED
    BY <1>2, <1>3, <2>1, ZeroedPut
<1> QED
  BY <1>4 DEF Replace, ZeroInv, m

\* A step that stops the machine, and one that moves no data.
LEMMA StillZeroes ==
  ASSUME IInv, ZeroInv, pc' \in {"halted", "error", "lost"} \/ (Running /\ mem' = mem /\ sp' = sp)
  PROVE  ZeroInv'
  BY DEF ZeroInv, Running

LEMMA OneOperandZeroes ==
  ASSUME IInv, Fetch, ZeroInv, NEW ts \in SUBSET Types, Operand(sp, ts),
         NEW t \in Types, NEW v, Replace(Next1(sp), t, v)
  PROVE  ZeroInv'
<1>1. /\ Typed /\ StackOK(mem, sp, bp, calls) /\ sp \in Int /\ CodeEnd <= sp
      /\ Tiled(mem, sp, OperandEnd) /\ sp <= sp /\ FramesOK(mem, calls)
      /\ OperandEnd = Limit(calls)
  BY FetchFacts
<1>2. Next1(sp) \in Int /\ Next1(sp) <= OperandEnd
  BY <1>1, OperandPop
<1>3. OperandEnd \in Int /\ OperandEnd <= MemSize
  BY <1>1, LimitFacts
<1>4. Next1(sp) <= MemSize /\ Running
  BY <1>2, <1>3, SizeFacts DEF Fetch, Running
<1> QED
  BY <1>2, <1>4, ReplaceZeroes

LEMMA TwoOperandsZero ==
  ASSUME IInv, Fetch, ZeroInv, NEW ts \in SUBSET Types, Operand(sp, ts),
         NEW us \in SUBSET Types, Operand(Next1(sp), us),
         NEW t \in Types, NEW v, Replace(Next1(Next1(sp)), t, v)
  PROVE  ZeroInv'
<1>1. Next1(Next1(sp)) \in Int /\ Next1(Next1(sp)) <= OperandEnd
  BY TwoOperands
<1>2. OperandEnd \in Int /\ OperandEnd <= MemSize
  BY FetchFacts, LimitFacts
<1>3. Next1(Next1(sp)) <= MemSize /\ Running
  BY <1>1, <1>2, SizeFacts DEF Fetch, Running
<1> QED
  BY <1>1, <1>3, ReplaceZeroes

LEMMA PushZeroes ==
  ASSUME IInv, Running, ZeroInv, NEW t \in Types, NEW v, Replace(sp, t, v)
  PROVE  ZeroInv'
  BY StackPointerFacts, ReplaceZeroes

\* The instructions that take operands and push at most one value.
LEMMA OperatorZeroes ==
  ASSUME IInv, ZeroInv, NEW t \in DataTypes, NEW v, NEW w,
         Push(t, v) \/ OpArithmetic(t, v) \/ OpCast(t, v) \/ OpComparison(w) \/ OpLogical(w)
         \/ OpNot
  PROVE  ZeroInv'
<1>0. Fetch /\ Running /\ t \in Types /\ "BOOL" \in Types
  BY SizeFacts DEF Push, OpArithmetic, OpCast, OpComparison, OpLogical, OpNot, Step, Fetch, Running
<1>1. CASE Push(t, v)
  BY <1>0, <1>1, PushZeroes DEF Push, Result
<1>2. CASE OpArithmetic(t, v)
  BY <1>0, <1>2, OperandTypes, TwoOperandsZero DEF OpArithmetic, Result
<1>3. CASE OpCast(t, v)
  BY <1>0, <1>3, OperandTypes, OneOperandZeroes DEF OpCast, Result
<1>4. CASE OpComparison(w)
  <2>1. /\ Operand(sp, DataTypes) /\ Operand(Next1(sp), {mem[sp].ty})
        /\ Replace(Next1(Next1(sp)), "BOOL", w)
    BY <1>4 DEF OpComparison, Result
  <2>2. {mem[sp].ty} \in SUBSET Types
    BY <2>1, SizeFacts DEF Operand, Datum
  <2> QED
    BY <1>0, <2>1, <2>2, OperandTypes, TwoOperandsZero
<1>5. CASE OpLogical(w)
  BY <1>0, <1>5, OperandTypes, TwoOperandsZero DEF OpLogical, Result
<1>6. CASE OpNot
  BY <1>0, <1>6, OperandTypes, OneOperandZeroes DEF OpNot, Result
<1> QED
  BY <1>1, <1>2, <1>3, <1>4, <1>5, <1>6

LEMMA AddressZeroes ==
  ASSUME IInv, ZeroInv, PushAddress \/ ReadMem \/ ReadConst
  PROVE  ZeroInv'
<1>0. Fetch /\ Running
  BY DEF PushAddress, ReadMem, ReadConst, Step, Fetch, Running
<1>1. CASE PushAddress
  <2>1. \E t \in {"ADDR_IP", "ADDR_BP"} : \E v : Replace(sp, t, v)
    BY <1>1 DEF PushAddress, Result
  <2> QED
    BY <1>0, <2>1, SizeFacts, PushZeroes
<1>2. CASE ReadMem
  <2>1. /\ Operand(sp, {"ADDR_BP"})
        /\ Replace(Next1(sp), mem[Resolved].ty, mem[Resolved].val)
    BY <1>2 DEF ReadMem, Result
  <2>2. PICK s \in Slots(Fn) : Datum(Resolved, {s.ty})
    BY <1>2 DEF ReadMem, Result
  <2>3. mem[Resolved].ty \in Types
    <3>1. s.ty \in Types
      BY <1>0, FetchFacts, SlotFacts, SizeFacts
    <3> QED
      BY <2>2, <3>1 DEF Datum
  <2> QED
    BY <1>0, <2>1, <2>3, OperandTypes, OneOperandZeroes
<1>3. CASE ReadConst
  <2>1. PICK c \in Consts : Replace(Next1(sp), c.ty, c.val)
    BY <1>3 DEF ReadConst, Result
  <2>2. Operand(sp, {"ADDR_IP"}) /\ c.ty \in Types
    BY <1>3, SizeAssumption, SizeFacts DEF ReadConst, Result
  <2> QED
    BY <1>0, <2>1, <2>2, OperandTypes, OneOperandZeroes
<1> QED
  BY <1>1, <1>2, <1>3

LEMMA ExternalZeroes ==
  ASSUME IInv, ZeroInv, IInv', CallExternal
  PROVE  ZeroInv'
<1>0. Fetch /\ Running /\ Operand(sp, {"STR"})
  BY DEF CallExternal, Step, Fetch, Running
<1> DEFINE a == Next1(sp)
<1>1. PICK b \in {a} \union Below(a) \union UNION {Below(c) : c \in Below(a)} :
             \/ sp' = b /\ mem' = Erase(mem, sp, b)
             \/ \E t \in DataTypes : \E v \in Vals[t] : Replace(b, t, v)
  BY DEF CallExternal, Result
<1> HIDE DEF a
<1>2. CASE sp' = b /\ mem' = Erase(mem, sp, b)
  BY <1>0, <1>2, PopZeroes
<1>3. ASSUME NEW t \in DataTypes, NEW v \in Vals[t], Replace(b, t, v)
      PROVE  ZeroInv'
  <2>1. t \in Types
    BY SizeFacts
  <2>2. b \in Int /\ b <= OperandEnd
    <3>1. a \in Int /\ a <= OperandEnd /\ sp <= a /\ Tiled(mem, a, OperandEnd)
      <4>1. /\ Typed /\ StackOK(mem, sp, bp, calls) /\ sp \in Int /\ CodeEnd <= sp
            /\ Tiled(mem, sp, OperandEnd) /\ sp <= sp
        BY <1>0, FetchFacts
      <4>2. a \in Int /\ sp < a /\ a <= OperandEnd /\ Tiled(mem, a, OperandEnd)
        BY <1>0, <4>1, OperandTypes, OperandPop DEF a
      <4> QED
        BY <4>1, <4>2
    <3>2. CASE b = a
      BY <3>1, <3>2
    <3>3. CASE b \in Below(a)
      BY <1>0, <3>1, <3>3, OperandBelow
    <3>4. ASSUME NEW c \in Below(a), b \in Below(c) PROVE b \in Int /\ b <= OperandEnd
      <4>1. c \in Int /\ sp <= c /\ Tiled(mem, c, OperandEnd)
        BY <1>0, <3>1, OperandBelow
      <4> QED
        BY <1>0, <3>4, <4>1, OperandBelow
    <3> QED
      BY <3>2, <3>3, <3>4
  <2>3. OperandEnd \in Int /\ OperandEnd <= MemSize
    BY <1>0, FetchFacts, LimitFacts
  <2>4. b <= MemSize
    BY <2>2, <2>3, SizeFacts
  <2> QED
    BY <1>0, <1>3, <2>1, <2>2, <2>4, ReplaceZeroes
<1> QED
  BY <1>1, <1>2, <1>3

\* A variable that is assigned lies above the operands.
LEMMA WriteMemZeroes ==
  ASSUME IInv, ZeroInv, WriteMem
  PROVE  ZeroInv'
<1> DEFINE a == Next1(sp)
           e == Next1(a)
           s == [off |-> mem[sp].val, ty |-> mem[a].ty]
<1>0. /\ Fetch /\ Operand(sp, {"ADDR_BP"}) /\ Operand(a, DataTypes)
      /\ s \in Slots(Fn)
      /\ mem' = Put(Erase(mem, sp, e), Resolved, mem[a].ty, mem[a].val) /\ sp' = e
  BY DEF WriteMem, Step
<1>1. /\ mem \in Memory /\ sp \in Int /\ bp \in Int /\ Fn \in Program /\ Running
      /\ OperandEnd = Limit(calls) /\ OperandEnd \in Int /\ FramesOK(mem, calls)
      /\ bp = calls[Len(calls)].bp
  BY <1>0, FetchFacts DEF Fetch, Running
<1>2. e \in Int /\ e <= OperandEnd
  BY <1>0, OperandTypes, TwoOperands
<1>3. OperandEnd <= MemSize /\ OperandEnd = bp - FrameSize[Fn] /\ FrameSize[Fn] \in Nat
  BY <1>1, LimitFacts, ProgramFacts DEF OperandEnd, Fn
<1>4. Resolved = mem[sp].val + bp
  BY <1>0 DEF Resolved, Operand, Datum
<1>5. s.off = mem[sp].val /\ s.off \in Int /\ s.off + FrameSize[Fn] >= 0
  <2>1. s.off = mem[sp].val
    OBVIOUS
  <2> HIDE DEF s
  <2>2. /\ s.off \in Int /\ s.ty \in DataTypes
        /\ \/ s.off + Size[s.ty] <= 0 /\ 0 <= s.off + FrameSize[Fn]
           \/ \E j \in 1 .. NumArgs[Fn] :
                 s.off = 2 * AddrSize + ArgOff[Fn][j] /\ s.ty = ArgType[Fn][j]
    BY <1>0, <1>1, SlotFacts
  <2>3. CASE \E j \in 1 .. NumArgs[Fn] : s.off = 2 * AddrSize + ArgOff[Fn][j]
    <3>1. PICK j \in 1 .. NumArgs[Fn] : s.off = 2 * AddrSize + ArgOff[Fn][j]
      BY <2>3
    <3>2. ArgOff[Fn][j] \in Nat
      BY <1>1, ProgramFacts
    <3>3. 0 <= s.off
      BY <3>1, <3>2, SizeFacts
    <3> QED
      BY <1>3, <2>1, <2>2, <3>3
  <2> QED
    BY <2>1, <2>2, <2>3
<1> HIDE DEF s
<1>6. Resolved \in Int /\ e <= Resolved /\ e <= MemSize /\ e <= e
  BY <1>1, <1>2, <1>3, <1>4, <1>5, SizeFacts, SMTT(30)
<1> DEFINE m == Erase(mem, sp, e)
<1>7. m \in Memory /\ Zeroed(m, e)
  BY <1>1, <1>2, <1>6, EraseTyped, ZeroedErase DEF ZeroInv
<1> HIDE DEF m, e
<1>8. Zeroed(Put(m, Resolved, mem[a].ty, mem[a].val), e)
  BY <1>2, <1>6, <1>7, ZeroedPut
<1> QED
  BY <1>0, <1>8 DEF ZeroInv, m

\* The saved registers of a new frame lie above its local variables.
LEMMA CallZeroes ==
  ASSUME IInv, ZeroInv, NEW f \in Funcs, Call(f)
  PROVE  ZeroInv'
<1> DEFINE a   == Next1(sp)
           b   == a + IntSize
           fs  == FrameSize[f]
           m0  == Erase(mem, sp, a)
           m1  == Erase(m0, a, b)
           m2  == Put(m1, b - AddrSize, "ADDR_MEM", ip + 1)
           m3  == Put(m2, b - 2 * AddrSize, "ADDR_MEM", bp)
<1>0. /\ Fetch /\ Operand(sp, {"ADDR_IP"}) /\ Operand(a, {"INT"}) /\ mem[a].val = fs
      /\ \E top : Enter(m0, a, f, ip + 1, top)
  BY DEF Call
<1>1. /\ mem \in Memory /\ sp \in Int /\ bp \in Int /\ ip \in Int /\ Running
      /\ OperandEnd = Limit(calls) /\ OperandEnd \in Int /\ FramesOK(mem, calls)
      /\ Typed /\ StackOK(mem, sp, bp, calls) /\ CodeEnd <= sp /\ Tiled(mem, sp, OperandEnd)
      /\ sp <= sp
  BY <1>0, FetchFacts DEF Fetch, Running
<1>2. OperandEnd <= MemSize /\ fs \in Nat
  BY <1>1, LimitFacts, ProgramFacts DEF Program
<1>3. a \in Int /\ a <= OperandEnd
  BY <1>0, <1>1, OperandTypes, OperandPop
<1>4. b \in Int /\ b <= OperandEnd
  <2>1. Next1(a) \in Int /\ Next1(a) <= OperandEnd
    BY <1>0, OperandTypes, TwoOperands
  <2>2. Next1(a) = b
    BY <1>0 DEF Operand, Datum, Next1, IntSize
  <2> QED
    BY <2>1, <2>2
<1>e. m0[a].val = fs
  <2>1. a \in Mem
    BY <1>0 DEF Operand, Datum
  <2>2. a < sp \/ a >= a
    BY <1>3
  <2> HIDE DEF a
  <2>3. m0[a] = mem[a]
    BY <1>1, <1>3, <2>1, <2>2, EraseElsewhere
  <2> QED
    BY <1>0, <2>3
<1>5. mem' = m3 /\ sp' = b - 2 * AddrSize - fs
  <2>1. PICK top : Enter(m0, a, f, ip + 1, top)
    BY <1>0
  <2> HIDE DEF m0, fs
  <2>2. mem' = m3 /\ sp' = b - 2 * AddrSize - m0[a].val
    BY <2>1 DEF Enter
  <2> QED
    BY <1>e, <2>2
<1> HIDE DEF a, b, fs
<1>6. a <= MemSize /\ b <= MemSize /\ AddrSize \in Nat
  BY <1>1, <1>2, <1>3, <1>4, SizeFacts
<1>7. m0 \in Memory /\ Zeroed(m0, a)
  BY <1>1, <1>3, <1>6, EraseTyped, ZeroedErase DEF ZeroInv
<1> HIDE DEF m0
<1>8. m1 \in Memory /\ Zeroed(m1, b)
  BY <1>3, <1>4, <1>6, <1>7, EraseTyped, ZeroedErase
<1> HIDE DEF m1
<1> DEFINE p == b - AddrSize
           q == b - 2 * AddrSize
<1>9. /\ p \in Int /\ q \in Int /\ p <= b /\ p <= p /\ q <= p /\ p <= MemSize
      /\ q - fs \in Int /\ q - fs <= p /\ q - fs <= q
  BY <1>2, <1>4, <1>6, SizeFacts
<1> HIDE DEF p, q
<1>10. m2 \in Memory /\ Zeroed(m2, p)
  <2>1. m2 = Put(m1, p, "ADDR_MEM", ip + 1)
    BY DEF p
  <2>2. ip + 1 \in Int
    BY <1>1
  <2> QED
    BY <1>4, <1>6, <1>8, <1>9, <2>1, <2>2, SizeFacts, PutTyped, ZeroedPut
<1> HIDE DEF m2
<1>11. Zeroed(m3, q - fs)
  <2>1. m3 = Put(m2, q, "ADDR_MEM", bp)
    BY DEF q
  <2> QED
    BY <1>6, <1>9, <1>10, <2>1, ZeroedPut
<1> QED
  BY <1>5, <1>11 DEF ZeroInv, q

\* Jumps and the stages of RET.
LEMMA JumpRetZeroes ==
  ASSUME IInv, ZeroInv, IInv',
         Jump \/ JumpCond \/ Ret \/ CollectRetval \/ LeaveFrame \/ PopArg \/ PushRetval \/ RetDone
  PROVE  ZeroInv'
<1>0. Running
  BY DEF Jump, JumpCond, Ret, CollectRetval, LeaveFrame, PopArg, PushRetval, RetDone,
         Fetch, Running
<1>1. CASE Jump \/ JumpCond \/ Ret \/ CollectRetval \/ LeaveFrame \/ PopArg
  <2>1. \E a : sp' = a /\ mem' = Erase(mem, sp, a)
    BY <1>1 DEF Jump, JumpCond, Ret, CollectRetval, LeaveFrame, PopArg
  <2> QED
    BY <1>0, <2>1, PopZeroes
<1>2. CASE PushRetval
  <2>1. /\ pc \in {"args", "push"} /\ ret.vals # <<>>
        /\ Replace(sp, Head(ret.vals).ty, Head(ret.vals).val)
    BY <1>2 DEF PushRetval
  <2>2. ret.vals \in Seq(RetValue)
    BY <2>1, StageFacts DEF RetValue
  <2>3. Head(ret.vals) \in RetValue
    BY <2>1, <2>2
  <2>4. Head(ret.vals).ty \in Types
    BY <2>3, SizeFacts DEF RetValue
  <2> QED
    BY <1>0, <2>1, <2>4, PushZeroes
<1>3. CASE RetDone
  BY <1>0, <1>3, StillZeroes DEF RetDone
<1> QED
  BY <1>1, <1>2, <1>3

LEMMA StepZeroes ==
  ASSUME IInv, ZeroInv, Instruction
  PROVE  ZeroInv'
<1>0. IInv'
  BY StepSafe
<1>1. ASSUME NEW t \in DataTypes, NEW v \in Vals[t], Push(t, v) \/ OpArithmetic(t, v) \/ OpCast(t, v)
      PROVE  ZeroInv'
  BY <1>1, OperatorZeroes
<1>2. ASSUME NEW v \in {0, 1}, OpComparison(v) \/ OpLogical(v)
      PROVE  ZeroInv'
  BY <1>2, SizeAssumption, OperatorZeroes
<1>3. CASE OpNot
  BY <1>3, SizeAssumption, OperatorZeroes
<1>4. CASE PushAddress \/ ReadMem \/ ReadConst
  BY <1>4, AddressZeroes
<1>5. CASE WriteMem
  BY <1>5, WriteMemZeroes
<1>6. CASE CallExternal
  BY <1>0, <1>6, ExternalZeroes
<1>7. CASE \/ ComparisonError \/ ExternalError \/ Halt \/ BoundsError
           \/ PushBelow \/ CastOverCode \/ MisreadBool
  BY <1>7, StillZeroes DEF ComparisonError, ExternalError, Halt, BoundsError, PushBelow,
                           CastOverCode, MisreadBool, Lost
<1>8. ASSUME NEW f \in Funcs, Call(f) PROVE ZeroInv'
  BY <1>8, CallZeroes
<1>9. CASE Jump \/ JumpCond \/ Ret \/ CollectRetval \/ LeaveFrame \/ PopArg \/ PushRetval \/ RetDone
  BY <1>0, <1>9, JumpRetZeroes
<1> QED
  BY <1>1, <1>2, <1>3, <1>4, <1>5, <1>6, <1>7, <1>8, <1>9 DEF Instruction

\* With the option that zeroes popped values, no popped operand, argument or
\* local variable is left between the code and the stack pointer, whichever
\* calls and returns the program has made.
THEOREM PoppedZeroedHolds == Spec => []PoppedZeroed
<1>1. Init => ZeroInv
  <2> SUFFICES ASSUME Init, ZeroPopped, NEW x \in CodeEnd .. (sp - 1)
               PROVE  mem[x] = ZeroByte
    BY DEF ZeroInv, Zeroed
  <2>1. mem = [y \in Mem |-> IF y < CodeEnd THEN CodeByte ELSE ZeroByte]
    BY DEF Init
  <2>2. x \in Mem /\ ~(x < CodeEnd)
    BY SizeAssumption DEF Init, Mem
  <2> QED
    BY <2>1, <2>2
<1>2. IInv /\ ZeroInv /\ [Instruction]_vars => ZeroInv'
  <2> SUFFICES ASSUME IInv, ZeroInv, [Instruction]_vars PROVE ZeroInv'
    OBVIOUS
  <2>1. CASE Instruction
    BY <2>1, StepZeroes
  <2>2. CASE UNCHANGED vars
    BY <2>2 DEF vars, ZeroInv, Running
  <2> QED
    BY <2>1, <2>2
<1>3. ZeroInv => PoppedZeroed
  BY DEF ZeroInv, Zeroed, PoppedZeroed
<1> QED
  BY Invariance, <1>1, <1>2, <1>3, PTL DEF Spec

-------------------------------------------------------------------------------
(***************************************************************************)
(* The data in a part of the memory.                                       *)
(***************************************************************************)
After(m, x) == x + Size[m[x].ty]

IsParse(p, m, a, b) ==
  p = [x \in a .. b |-> IF Whole(m, x, b) THEN <<Item(m, x)>> \o p[After(m, x)] ELSE <<>>]

LEMMA LeastOf ==
  ASSUME NEW T, T \subseteq Nat, T # {}
  PROVE  \E x \in T : \A y \in T : x <= y
<1>1. IsWellFoundedOn(OpToRel(<, Nat), Nat)
  BY NatLessThanWellFounded
<1> DEFINE R == {ss \in Nat \X Nat : ss[1] < ss[2]}
<1>2. OpToRel(<, Nat) = R
  BY DEF OpToRel
<1>3. IsWellFoundedOn(R, Nat)
  BY <1>1, <1>2
<1> HIDE DEF R
<1>4. PICK x \in T : \A y \in T : ~(<<y, x>> \in R)
  BY <1>3, WFMin
<1>5. ASSUME NEW y \in T PROVE x <= y
  <2>1. x \in Nat /\ y \in Nat /\ ~(<<y, x>> \in R)
    BY <1>4
  <2> QED
    BY <2>1 DEF R
<1> QED
  BY <1>5

LEMMA WholeFacts ==
  ASSUME NEW m, NEW x \in Int, NEW b \in Int, Whole(m, x, b)
  PROVE  m[x].ty \in Types /\ After(m, x) \in Int /\ x < After(m, x) /\ After(m, x) <= b /\ x < b
  BY SizeFacts DEF Whole, After

\* The recursion ends: there is a function that it defines.
LEMMA ParseExists ==
  ASSUME NEW m, NEW a \in Int, NEW b \in Int
  PROVE  \E p : IsParse(p, m, a, b)
<1> DEFINE Bad == {n \in Nat : ~ \E p : IsParse(p, m, b - n, b)}
<1>1. Bad = {}
  <2> SUFFICES ASSUME Bad # {} PROVE FALSE
    OBVIOUS
  <2>1. PICK n \in Bad : \A k \in Bad : n <= k
    <3> HIDE DEF Bad
    <3>1. Bad \subseteq Nat
      BY DEF Bad
    <3> QED
      BY <3>1, LeastOf
  <2>2. n \in Nat /\ ~ \E p : IsParse(p, m, b - n, b)
    OBVIOUS
  <2>3. CASE n = 0
    <3> DEFINE p == [x \in (b - n) .. b |-> <<>>]
    <3>1. \A x \in (b - n) .. b : ~Whole(m, x, b)
      BY <2>3 DEF Whole
    <3>2. IsParse(p, m, b - n, b)
      BY <3>1 DEF IsParse
    <3> QED
      BY <2>2, <3>2
  <2>4. CASE n > 0
    <3>1. n - 1 \in Nat /\ n - 1 \notin Bad
      BY <2>1, <2>2, <2>4
    <3>2. PICK q : IsParse(q, m, b - (n - 1), b)
      BY <3>1
    <3> DEFINE c == b - n
               p == [x \in c .. b |-> IF x = c
                      THEN IF Whole(m, x, b) THEN <<Item(m, x)>> \o q[After(m, x)] ELSE <<>>
                      ELSE q[x]]
    <3>3. c \in Int /\ b - (n - 1) = c + 1 /\ c < b
      BY <2>2, <2>4
    <3>4. \A x \in (c + 1) .. b : q[x] =
             IF Whole(m, x, b) THEN <<Item(m, x)>> \o q[After(m, x)] ELSE <<>>
      BY <3>2, <3>3 DEF IsParse
    <3>5. \A y \in (c + 1) .. b : p[y] = q[y]
      BY <3>3
    <3>6. ASSUME NEW x \in c .. b
          PROVE  p[x] = IF Whole(m, x, b) THEN <<Item(m, x)>> \o p[After(m, x)] ELSE <<>>
      <4>1. ASSUME Whole(m, x, b) PROVE p[After(m, x)] = q[After(m, x)]
        <5>1. After(m, x) \in (c + 1) .. b
          BY <3>3, <4>1, WholeFacts
        <5> QED
          BY <3>5, <5>1
      <4> HIDE DEF c
      <4>2. p[x] = IF x = c
                   THEN IF Whole(m, x, b) THEN <<Item(m, x)>> \o q[After(m, x)] ELSE <<>>
                   ELSE q[x]
        OBVIOUS
      <4>3. CASE x = c
        BY <4>1, <4>2, <4>3
      <4>4. CASE x # c
        <5>1. x \in (c + 1) .. b
          BY <3>3, <4>4
        <5> QED
          BY <3>4, <4>1, <4>2, <4>4, <5>1
      <4> QED
        BY <4>3, <4>4
    <3>7. IsParse(p, m, c, b)
      <4>1. p = [x \in c .. b |-> p[x]]
        OBVIOUS
      <4> DEFINE g == [x \in c .. b |->
                         IF Whole(m, x, b) THEN <<Item(m, x)>> \o p[After(m, x)] ELSE <<>>]
      <4>2. \A x \in c .. b : g[x] = p[x]
        <5> HIDE DEF p
        <5> QED
          BY <3>6
      <4>3. p = g
        <5>1. p = [x \in c .. b |-> p[x]] /\ g = [x \in c .. b |-> g[x]]
          BY <4>1
        <5> HIDE DEF p, g
        <5> QED
          BY <4>2, <5>1
      <4> HIDE DEF p
      <4> QED
        BY <4>3 DEF IsParse
    <3> QED
      BY <2>2, <3>7
  <2> QED
    BY <2>2, <2>3, <2>4
<1>2. CASE a <= b
  <2>1. b - a \in Nat /\ b - (b - a) = a
    BY <1>2
  <2>2. b - a \notin Bad
    BY <1>1
  <2> QED
    BY <2>1, <2>2
<1>3. CASE a > b
  <2> DEFINE p == [x \in a .. b |-> <<>>]
  <2>1. \A x \in a .. b : FALSE
    BY <1>3
  <2>2. IsParse(p, m, a, b)
    BY <2>1 DEF IsParse
  <2> QED
    BY <2>2
<1> QED
  BY <1>2, <1>3

Same(m, k, a, b) == \A x \in a .. (b - 1) : m[x] = k[x]

\* What is read from an address on depends on the bytes from there on only.
LEMMA ParseUnique ==
  ASSUME NEW m, NEW k, NEW a \in Int, NEW c \in Int, NEW b \in Int, a <= c,
         NEW p, IsParse(p, m, a, b), NEW q, IsParse(q, k, c, b),
         Same(m, k, c, b)
  PROVE  \A x \in c .. b : p[x] = q[x]
<1> DEFINE Bad == {n \in Nat : b - n >= c /\ p[b - n] # q[b - n]}
<1>1. Bad = {}
  <2> SUFFICES ASSUME Bad # {} PROVE FALSE
    OBVIOUS
  <2>1. PICK n \in Bad : \A l \in Bad : n <= l
    <3>1. Bad \subseteq Nat
      OBVIOUS
    <3> HIDE DEF Bad
    <3> QED
      BY <3>1, LeastOf
  <2> DEFINE x == b - n
  <2>2. n \in Nat /\ x \in Int /\ x >= c /\ x <= b /\ p[x] # q[x]
    OBVIOUS
  <2>3. x \in a .. b /\ x \in c .. b
    BY <2>2
  <2> HIDE DEF x
  <2>4. /\ p[x] = IF Whole(m, x, b) THEN <<Item(m, x)>> \o p[After(m, x)] ELSE <<>>
        /\ q[x] = IF Whole(k, x, b) THEN <<Item(k, x)>> \o q[After(k, x)] ELSE <<>>
    BY <2>3 DEF IsParse
  <2>5. x < b => m[x] = k[x]
    BY <2>2 DEF Same
  <2>6. Whole(m, x, b) <=> Whole(k, x, b)
    BY <2>5 DEF Whole
  <2>7. ASSUME Whole(m, x, b) PROVE p[After(m, x)] = q[After(k, x)]
    <3>1. After(m, x) = After(k, x) /\ After(m, x) \in Int /\ x < After(m, x) /\ After(m, x) <= b
      BY <2>2, <2>5, <2>7, WholeFacts DEF After
    <3> DEFINE l == b - After(m, x)
    <3>2. l \in Nat /\ l < n /\ b - l = After(m, x) /\ b - l >= c
      BY <2>2, <3>1 DEF x
    <3>3. l \notin Bad
      BY <2>1, <2>2, <3>2
    <3> QED
      BY <3>1, <3>2, <3>3
  <2>8. Whole(m, x, b) => Item(m, x) = Item(k, x)
    BY <2>5 DEF Whole, Item
  <2> QED
    BY <2>2, <2>4, <2>6, <2>7, <2>8
<1> SUFFICES ASSUME NEW x \in c .. b PROVE p[x] = q[x]
  OBVIOUS
<1>2. b - x \in Nat /\ b - (b - x) = x /\ x >= c
  OBVIOUS
<1> QED
  BY <1>1, <1>2

LEMMA DataParse ==
  ASSUME NEW m, NEW a \in Int, NEW b \in Int
  PROVE  \E p : IsParse(p, m, a, b) /\ Data(m, a, b) = p[a]
<1> DEFINE p == CHOOSE p : IsParse(p, m, a, b)
<1>1. IsParse(p, m, a, b)
  BY ParseExists
<1>2. Data(m, a, b) = p[a]
  BY DEF Data, IsParse, After
<1> QED
  BY <1>1, <1>2

LEMMA DataEmpty ==
  ASSUME NEW m, NEW a \in Int
  PROVE  Data(m, a, a) = <<>>
<1>1. PICK p : IsParse(p, m, a, a) /\ Data(m, a, a) = p[a]
  BY DataParse
<1>2. a \in a .. a /\ ~Whole(m, a, a)
  BY DEF Whole
<1> QED
  BY <1>1, <1>2 DEF IsParse

\* The first of the data, and those that follow it.
LEMMA DataFirst ==
  ASSUME NEW m, NEW a \in Int, NEW b \in Int, Whole(m, a, b)
  PROVE  Data(m, a, b) = <<Item(m, a)>> \o Data(m, After(m, a), b)
<1>0. /\ After(m, a) \in Int /\ a < After(m, a) /\ After(m, a) <= b /\ a \in a .. b
      /\ After(m, a) \in a .. b /\ After(m, a) \in After(m, a) .. b
  BY WholeFacts
<1>1. PICK p : IsParse(p, m, a, b) /\ Data(m, a, b) = p[a]
  BY DataParse
<1>2. PICK q : IsParse(q, m, After(m, a), b) /\ Data(m, After(m, a), b) = q[After(m, a)]
  BY <1>0, DataParse
<1>3. p[a] = <<Item(m, a)>> \o p[After(m, a)]
  BY <1>0, <1>1 DEF IsParse
<1>4. p[After(m, a)] = q[After(m, a)]
  <2> DEFINE e == After(m, a)
  <2>0. e \in Int /\ a <= e /\ e \in e .. b /\ IsParse(q, m, e, b)
    BY <1>0, <1>2
  <2> HIDE DEF e
  <2>1. \A x \in e .. b : p[x] = q[x]
    <3>1. Same(m, m, e, b)
      BY DEF Same
    <3> QED
      BY <1>1, <2>0, <3>1, ParseUnique
  <2> QED
    BY <2>0, <2>1 DEF e
<1> QED
  BY <1>1, <1>2, <1>3, <1>4

\* Only the bytes in between matter.
LEMMA DataSame ==
  ASSUME NEW m, NEW k, NEW a \in Int, NEW b \in Int, a <= b,
         Same(m, k, a, b)
  PROVE  Data(m, a, b) = Data(k, a, b)
<1>1. PICK p : IsParse(p, m, a, b) /\ Data(m, a, b) = p[a]
  BY DataParse
<1>2. PICK q : IsParse(q, k, a, b) /\ Data(k, a, b) = q[a]
  BY DataParse
<1>3. \A x \in a .. b : p[x] = q[x]
  BY <1>1, <1>2, ParseUnique
<1> QED
  BY <1>1, <1>2, <1>3

Value == [ty : Types, val : Int]

LEMMA DataTyped ==
  ASSUME NEW m \in Memory, NEW a \in Int, NEW b \in Int, 0 <= a, a <= b, b <= MemSize
  PROVE  Data(m, a, b) \in Seq(Value)
<1>1. PICK p : IsParse(p, m, a, b) /\ Data(m, a, b) = p[a]
  BY DataParse
<1> DEFINE Bad == {n \in Nat : b - n >= a /\ p[b - n] \notin Seq(Value)}
<1>2. Bad = {}
  <2> SUFFICES ASSUME Bad # {} PROVE FALSE
    OBVIOUS
  <2>1. PICK n \in Bad : \A l \in Bad : n <= l
    <3>1. Bad \subseteq Nat
      OBVIOUS
    <3> HIDE DEF Bad
    <3> QED
      BY <3>1, LeastOf
  <2> DEFINE x == b - n
  <2>2. n \in Nat /\ x \in Int /\ x >= a /\ x <= b /\ p[x] \notin Seq(Value)
    OBVIOUS
  <2>3. x \in a .. b
    BY <2>2
  <2> HIDE DEF x
  <2>4. p[x] = IF Whole(m, x, b) THEN <<Item(m, x)>> \o p[After(m, x)] ELSE <<>>
    BY <1>1, <2>3 DEF IsParse
  <2>5. CASE Whole(m, x, b)
    <3>1. After(m, x) \in Int /\ x < After(m, x) /\ After(m, x) <= b /\ x < b /\ m[x].ty \in Types
      BY <2>2, <2>5, WholeFacts
    <3> DEFINE l == b - After(m, x)
    <3>2. l \in Nat /\ l < n /\ b - l = After(m, x) /\ b - l >= a
      BY <2>2, <3>1 DEF x
    <3>3. l \notin Bad
      BY <2>1, <2>2, <3>2
    <3>4. p[After(m, x)] \in Seq(Value)
      BY <3>2, <3>3
    <3>5. x \in Mem
      BY <2>2, <3>1, SizeFacts DEF Mem
    <3>6. Item(m, x) \in Value
      BY <3>1, <3>5 DEF Memory, Cell, Item, Value
    <3>7. <<Item(m, x)>> \o p[After(m, x)] \in Seq(Value)
      BY <3>4, <3>6
    <3> QED
      BY <2>2, <2>4, <2>5, <3>7
  <2>6. CASE ~Whole(m, x, b)
    BY <2>2, <2>4, <2>6
  <2> QED
    BY <2>5, <2>6
<1>4. p[a] \in Seq(Value)
  <2> DEFINE n == b - a
  <2>1. n \in Nat /\ b - n = a /\ b - n >= a
    OBVIOUS
  <2>2. n \notin Bad
    BY <1>2
  <2> HIDE DEF n
  <2>3. p[b - n] \in Seq(Value)
    BY <2>1, <2>2
  <2> QED
    BY <2>1, <2>3
<1> QED
  BY <1>1, <1>4

\* The datum that is intact at a comes first.
LEMMA DataAt ==
  ASSUME NEW m \in Memory, NEW a \in Int, NEW b \in Int, NEW t \in Types, NEW v \in Int,
         At(m, a, t, v), a + Size[t] <= b
  PROVE  /\ Item(m, a) = [ty |-> t, val |-> v]
         /\ Data(m, a, b) = <<[ty |-> t, val |-> v]>> \o Data(m, a + Size[t], b)
<1>1. Size[t] \in Nat /\ Size[t] > 0
  BY SizeFacts
<1>2. a \in a .. (a + Size[t] - 1)
  BY <1>1
<1>3. m[a] = Byte(t, v, a - a)
  BY <1>2 DEF At
<1>4. m[a].ty = t /\ m[a].val = v
  BY <1>3 DEF Byte
<1>5. Whole(m, a, b)
  BY <1>1, <1>4 DEF Whole
<1> QED
  BY <1>4, <1>5, DataFirst DEF Item, After

\* The arguments of a call are the first of the data above its frame.
LEMMA DataArgs ==
  ASSUME NEW m \in Memory, NEW f \in Program, NEW a \in Int, NEW b \in Int,
         0 <= a, b <= MemSize, a + ArgTotal(f) <= b, ArgsAt(m, a, f),
         NEW i \in 1 .. (NumArgs[f] + 1)
  PROVE  LET d == Data(m, a, b) IN
         /\ Len(d) >= i - 1
         /\ SubSeq(d, i, Len(d)) = Data(m, a + ArgOff[f][i], b)
         /\ \A j \in 1 .. (i - 1) : d[j] = Item(m, a + ArgOff[f][j])
<1> DEFINE d    == Data(m, a, b)
           P(k) == /\ Len(d) >= k - 1
                   /\ SubSeq(d, k, Len(d)) = Data(m, a + ArgOff[f][k], b)
                   /\ \A j \in 1 .. (k - 1) : d[j] = Item(m, a + ArgOff[f][j])
           n == NumArgs[f]
           Bad  == {k \in 1 .. (n + 1) : ~P(k)}
<1>0. /\ n \in Nat /\ ArgOff[f][1] = 0 /\ ArgTotal(f) \in Nat
      /\ \A j \in 1 .. (n + 1) : ArgOff[f][j] \in Nat
      /\ \A j \in 1 .. n : /\ ArgOff[f][j + 1] = ArgOff[f][j] + Size[ArgType[f][j]]
                           /\ ArgOff[f][j] + Size[ArgType[f][j]] <= ArgTotal(f)
                           /\ ArgType[f][j] \in DataTypes
  BY ProgramFacts
<1>1. a <= b /\ d \in Seq(Value)
  <2>1. a <= b
    BY <1>0
  <2> QED
    BY <2>1, DataTyped
<1> HIDE DEF d
<1>2. Bad = {}
  <2> SUFFICES ASSUME Bad # {} PROVE FALSE
    OBVIOUS
  <2>1. PICK k \in Bad : \A l \in Bad : k <= l
    <3>1. Bad \subseteq Nat
      BY <1>0
    <3> HIDE DEF Bad
    <3> QED
      BY <3>1, LeastOf
  <2>2. k \in 1 .. (n + 1) /\ ~P(k)
    OBVIOUS
  <2>3. CASE k = 1
    <3>1. SubSeq(d, 1, Len(d)) = d
      BY <1>1
    <3>2. a + ArgOff[f][1] = a
      BY <1>0
    <3>3. P(1)
      BY <1>1, <3>1, <3>2 DEF d
    <3> QED
      BY <2>2, <2>3, <3>3
  <2>4. CASE k > 1
    <3> DEFINE h == k - 1
               q == a + ArgOff[f][h]
               t == ArgType[f][h]
    <3>1. h \in 1 .. n /\ h \in 1 .. (n + 1) /\ h < k /\ h \in Nat /\ h >= 1 /\ k = h + 1
      <4> HIDE DEF P
      <4>1. n \in Nat /\ k \in 1 .. (n + 1)
        BY <1>0, <2>2
      <4> HIDE DEF n
      <4> QED
        BY <2>4, <4>1
    <3>2. P(h)
      <4> HIDE DEF P, h
      <4>1. h \notin Bad
        BY <2>1, <2>2, <3>1
      <4> QED
        BY <3>1, <4>1
    <3>3. /\ q \in Int /\ 0 <= q /\ t \in Types /\ Size[t] \in Nat /\ q + Size[t] <= b
          /\ a + ArgOff[f][k] = q + Size[t]
      <4> HIDE DEF h
      <4>1. t \in Types /\ Size[t] \in Nat /\ ArgOff[f][h] \in Nat
        BY <1>0, <3>1, SizeFacts
      <4>2. /\ ArgOff[f][h + 1] = ArgOff[f][h] + Size[t]
            /\ ArgOff[f][h] + Size[t] <= ArgTotal(f)
        BY <1>0, <3>1
      <4>3. q + Size[t] <= b /\ q \in Int /\ 0 <= q
        <5> DEFINE u == ArgOff[f][h]
                   z == Size[t]
                   w == ArgTotal(f)
        <5>1. u \in Nat /\ z \in Nat /\ w \in Nat /\ u + z <= w /\ a + w <= b /\ q = a + u
          BY <1>0, <4>1, <4>2
        <5> HIDE DEF u, z, w, q
        <5> QED
          BY <5>1, SMTT(30) DEF z
      <4>4. ArgOff[f][k] = ArgOff[f][h] + Size[t]
        BY <3>1, <4>2
      <4>5. a + ArgOff[f][k] = q + Size[t]
        BY <4>1, <4>4
      <4> QED
        BY <4>1, <4>3, <4>5
    <3>4. At(m, q, t, m[q].val)
      BY <3>1 DEF ArgsAt
    <3>5. q \in Mem /\ m[q].val \in Int
      <4>1. Size[t] > 0 /\ MemSize \in Nat
        BY <3>3, SizeFacts
      <4>2. q \in Mem
        BY <3>3, <4>1 DEF Mem
      <4> QED
        BY <4>2 DEF Memory, Cell
    <3> HIDE DEF q, t, P, h
    <3> DEFINE v == m[q].val
    <3>v. v \in Int /\ At(m, q, t, v)
      BY <3>4, <3>5
    <3> HIDE DEF v, Bad
    <3>w. q \in Int /\ t \in Types /\ q + Size[t] <= b
      BY <3>3
    <3>i. /\ Item(m, q) = [ty |-> t, val |-> v]
          /\ Data(m, q, b) = <<[ty |-> t, val |-> v]>> \o Data(m, q + Size[t], b)
      BY <3>v, <3>w, DataAt
    <3>6. Data(m, q, b) = <<Item(m, q)>> \o Data(m, q + Size[t], b)
      BY <3>i
    <3>7. Data(m, q + Size[t], b) \in Seq(Value) /\ Item(m, q) \in Value
      <4> DEFINE e == q + Size[t]
      <4>e. e \in Int /\ 0 <= e /\ e <= b
        BY <3>3
      <4> HIDE DEF e
      <4>f. Data(m, e, b) \in Seq(Value)
        BY <4>e, DataTyped
      <4>1. Data(m, q + Size[t], b) \in Seq(Value)
        BY <4>f DEF e
      <4> QED
        BY <3>3, <3>i, <3>v, <4>1 DEF Value
    <3>8. /\ Len(d) >= h - 1 /\ SubSeq(d, h, Len(d)) = <<Item(m, q)>> \o Data(m, q + Size[t], b)
          /\ \A j \in 1 .. (h - 1) : d[j] = Item(m, a + ArgOff[f][j])
      BY <3>2, <3>6 DEF P, q
    <3>9. Len(d) >= h /\ d[h] = Item(m, q) /\ SubSeq(d, h + 1, Len(d)) = Data(m, q + Size[t], b)
      <4> DEFINE r == Data(m, q + Size[t], b)
                 u == Item(m, q)
      <4>1. r \in Seq(Value) /\ u \in Value /\ SubSeq(d, h, Len(d)) = <<u>> \o r /\ Len(d) >= h - 1
        BY <3>7, <3>8
      <4> HIDE DEF r, u
      <4>2. Len(<<u>> \o r) >= 1 /\ (<<u>> \o r)[1] = u
        BY <4>1
      <4>3. Len(d) >= h
        BY <1>1, <3>1, <4>1, <4>2
      <4>4. d[h] = SubSeq(d, h, Len(d))[1]
        BY <1>1, <3>1, <4>3
      <4>5. SubSeq(d, h + 1, Len(d)) = Tail(SubSeq(d, h, Len(d)))
        BY <1>1, <3>1, <4>3
      <4>6. Tail(<<u>> \o r) = r
        BY <4>1
      <4> QED
        BY <4>1, <4>2, <4>3, <4>4, <4>5, <4>6 DEF r, u
    <3>10. P(k)
      <4>1. \A j \in 1 .. (k - 1) : d[j] = Item(m, a + ArgOff[f][j])
        <5> SUFFICES ASSUME NEW j \in 1 .. (k - 1) PROVE d[j] = Item(m, a + ArgOff[f][j])
          OBVIOUS
        <5>1. CASE j = h
          BY <3>9, <5>1 DEF q
        <5>2. CASE j # h
          <6>1. j \in 1 .. (h - 1)
            BY <3>1, <5>2
          <6> QED
            BY <3>8, <6>1
        <5> QED
          BY <5>1, <5>2
      <4>2. Len(d) >= k - 1 /\ SubSeq(d, k, Len(d)) = Data(m, a + ArgOff[f][k], b)
        BY <3>1, <3>3, <3>9
      <4> QED
        BY <4>1, <4>2 DEF P
    <3> QED
      BY <2>2, <3>10
  <2> QED
    BY <1>0, <2>2, <2>3, <2>4
<1>3. P(i)
  BY <1>2
<1> QED
  BY <1>3 DEF d

-------------------------------------------------------------------------------
(***************************************************************************)
(* The variables of a call.                                                *)
(***************************************************************************)

LEMMA HeldSame ==
  ASSUME NEW m, NEW k, NEW a \in Int, NEW t \in Types,
         \A x \in Mem : a <= x /\ x < a + Size[t] => m[x] = k[x]
  PROVE  Held(m, a, t) = Held(k, a, t)
<1>0. Size[t] \in Nat /\ Size[t] > 0 /\ MemSize \in Nat
  BY SizeFacts
<1>1. CASE a \in Mem
  <2>1. m[a] = k[a]
    BY <1>0, <1>1 DEF Mem
  <2> DEFINE v == m[a].val
  <2>2. ASSUME a + Size[t] <= MemSize, NEW x \in a .. (a + Size[t] - 1)
        PROVE  m[x] = k[x]
    <3>1. x \in Mem
      BY <1>0, <1>1, <2>2 DEF Mem
    <3> QED
      BY <1>0, <3>1
  <2> HIDE DEF v
  <2>3. At(m, a, t, v) <=> At(k, a, t, v)
    BY <2>2 DEF At
  <2>4. Item(m, a) = Item(k, a)
    BY <2>1 DEF Item
  <2> QED
    BY <2>1, <2>3, <2>4 DEF Held, v
<1>2. CASE a \notin Mem
  BY <1>2 DEF Held
<1> QED
  BY <1>1, <1>2

LEMMA HeldPut ==
  ASSUME NEW m \in Memory, NEW a \in Int, NEW t \in Types, NEW v \in Int,
         0 <= a, a + Size[t] <= MemSize
  PROVE  Held(Put(m, a, t, v), a, t) = [ty |-> t, val |-> v]
<1> DEFINE k == Put(m, a, t, v)
<1>0. Size[t] \in Nat /\ Size[t] > 0 /\ MemSize \in Nat
  BY SizeFacts
<1>1. At(k, a, t, v)
  BY PutAt
<1>2. a \in Mem /\ a \in a .. (a + Size[t] - 1)
  BY <1>0 DEF Mem
<1> HIDE DEF k
<1>3. k[a] = Byte(t, v, a - a)
  BY <1>1, <1>2 DEF At
<1>4. k[a].ty = t /\ k[a].val = v
  BY <1>3 DEF Byte
<1>5. Held(k, a, t) = Item(k, a)
  BY <1>1, <1>2, <1>4 DEF Held
<1> QED
  BY <1>4, <1>5 DEF Item, k

\* Where the variables of a call are.
LEMMA SlotPlace ==
  ASSUME NEW m, NEW cs, FramesOK(m, cs), NEW i \in 1 .. Len(cs), NEW s \in Slots(cs[i].fn)
  PROVE  LET c == cs[i]
             a == c.bp + s.off
         IN  /\ a \in Int /\ s.ty \in DataTypes /\ s.ty \in Types
             /\ c.bp - c.fs <= a /\ a + Size[s.ty] <= MemSize
<1> DEFINE c == cs[i]
           f == c.fn
           t == s.ty
<1>1. /\ f \in Program /\ c.bp \in Int /\ c.fs = FrameSize[f] /\ c.fs \in Nat
      /\ c.bp <= MemSize /\ c.top \in Int /\ (i > 1 => c.top <= MemSize)
  BY FrameFacts
<1>2. /\ s.off \in Int /\ t \in DataTypes
      /\ \/ s.off + Size[t] <= 0 /\ 0 <= s.off + FrameSize[f]
         \/ \E j \in 1 .. NumArgs[f] : s.off = 2 * AddrSize + ArgOff[f][j] /\ t = ArgType[f][j]
  BY <1>1, SlotFacts
<1>3. t \in Types /\ Size[t] \in Nat /\ AddrSize \in Nat /\ MemSize \in Nat
  BY <1>2, SizeFacts
<1>4. CASE s.off + Size[t] <= 0 /\ 0 <= s.off + FrameSize[f]
  <2> HIDE DEF c, f, t
  <2>1. c.bp - c.fs <= c.bp + s.off /\ c.bp + s.off + Size[t] <= MemSize
    BY <1>1, <1>2, <1>3, <1>4
  <2> QED
    BY <1>1, <1>2, <1>3, <2>1 DEF c, t
<1>5. ASSUME NEW j \in 1 .. NumArgs[f], s.off = 2 * AddrSize + ArgOff[f][j], t = ArgType[f][j]
      PROVE  c.bp - c.fs <= c.bp + s.off /\ c.bp + s.off + Size[t] <= MemSize
  <2>1. i # 1
    <3>1. CASE i = 1
      <4>1. f = Boot
        BY <3>1 DEF FramesOK, BootOK
      <4>2. NumArgs[f] = 0
        BY <1>1, <4>1, ProgramFacts
      <4> QED
        BY <1>5, <4>2
    <3> QED
      BY <3>1
  <2>2. c.top = c.bp + 2 * AddrSize + ArgTotal(f) /\ c.top <= MemSize
    <3>1. i \in 2 .. Len(cs)
      BY <2>1
    <3>2. CallOK(m, c, cs[i - 1])
      BY <3>1 DEF FramesOK
    <3> QED
      BY <1>1, <2>1, <3>2 DEF CallOK, ShapeOK
  <2>3. ArgOff[f][j] \in Nat /\ ArgOff[f][j] + Size[t] <= ArgTotal(f) /\ ArgTotal(f) \in Nat
    BY <1>1, <1>5, ProgramFacts
  <2> DEFINE u == ArgOff[f][j]
             w == ArgTotal(f)
             z == Size[t]
             o == s.off
             b == c.bp
             h == c.fs
             p == c.top
  <2>4. /\ u \in Nat /\ w \in Nat /\ z \in Nat /\ u + z <= w /\ o = 2 * AddrSize + u
        /\ b \in Int /\ h \in Nat /\ p = b + 2 * AddrSize + w /\ p <= MemSize
    BY <1>1, <1>3, <1>5, <2>2, <2>3
  <2> HIDE DEF c, f, t, u, w, z, o, b, h, p
  <2>5. b - h <= b + o /\ b + o + z <= MemSize
    BY <1>3, <2>4
  <2> QED
    BY <2>5 DEF o, z, b, h
<1> QED
  BY <1>1, <1>2, <1>3, <1>4, <1>5

\* What happens below the frame of a call does not change its variables.
LEMMA VariablesSame ==
  ASSUME NEW m, NEW k, NEW cs, FramesOK(m, cs), NEW i \in 1 .. Len(cs),
         NEW n \in Int, Agree(m, k, n), n <= cs[i].bp - cs[i].fs
  PROVE  Variables(m, cs[i]) = Variables(k, cs[i])
<1> DEFINE c == cs[i]
<1>1. ASSUME NEW s \in Slots(c.fn)
      PROVE  Held(m, c.bp + s.off, s.ty) = Held(k, c.bp + s.off, s.ty)
  <2> DEFINE a == c.bp + s.off
  <2>1. a \in Int /\ s.ty \in Types /\ c.bp - c.fs <= a
    BY SlotPlace
  <2>2. c.bp - c.fs \in Int
    BY FrameFacts
  <2> HIDE DEF a
  <2>3. \A x \in Mem : a <= x /\ x < a + Size[s.ty] => m[x] = k[x]
    BY <2>1, <2>2 DEF Agree, Mem
  <2>4. Held(m, a, s.ty) = Held(k, a, s.ty)
    BY <2>1, <2>3, HeldSame
  <2> QED
    BY <2>4 DEF a
<1> QED
  BY <1>1 DEF Variables

\* Two variables have no byte in common.
LEMMA SlotsApart ==
  ASSUME NEW f \in Program, NEW s \in Slots(f), NEW x \in Slots(f), s # x
  PROVE  s.off + Size[s.ty] <= x.off \/ x.off + Size[x.ty] <= s.off
<1>0. /\ s.off \in Int /\ x.off \in Int /\ s.ty \in DataTypes /\ x.ty \in DataTypes
  BY SlotFacts
<1>s. /\ Size[s.ty] \in Nat /\ Size[x.ty] \in Nat /\ AddrSize \in Nat
      /\ Size[s.ty] > 0 /\ Size[x.ty] > 0 /\ AddrSize > 0
  BY <1>0, SizeFacts
<1> DEFINE LocalSlot(y, l) == l \in Locals[f] /\ y = [off |-> -l.off, ty |-> l.ty]
           ArgSlot(y, j)   == /\ j \in 1 .. NumArgs[f]
                              /\ y = [off |-> 2 * AddrSize + ArgOff[f][j], ty |-> ArgType[f][j]]
<1>1. \A y \in Slots(f) : (\E l : LocalSlot(y, l)) \/ (\E j : ArgSlot(y, j))
  BY DEF Slots
<1>2. ASSUME NEW y \in Slots(f), NEW l, LocalSlot(y, l)
      PROVE  /\ l \in Locals[f] /\ l.off \in Nat /\ y.off = -l.off /\ y.ty = l.ty
             /\ y.off + Size[y.ty] <= 0
  <2>1. y.off = -l.off /\ y.ty = l.ty /\ l \in Locals[f]
    BY <1>2
  <2>2. l.off \in Nat /\ l.ty \in DataTypes /\ Size[l.ty] <= l.off
    BY <2>1, ProgramAssumption
  <2>3. Size[l.ty] \in Nat
    BY <2>2, SizeFacts
  <2> QED
    BY <2>1, <2>2, <2>3
<1>3. ASSUME NEW y \in Slots(f), NEW j, ArgSlot(y, j)
      PROVE  /\ j \in 1 .. NumArgs[f] /\ y.off = 2 * AddrSize + ArgOff[f][j]
             /\ y.ty = ArgType[f][j] /\ y.off > 0
  <2>1. j \in 1 .. NumArgs[f] /\ y.off = 2 * AddrSize + ArgOff[f][j] /\ y.ty = ArgType[f][j]
    BY <1>3
  <2>2. ArgOff[f][j] \in Nat
    BY <2>1, ProgramFacts
  <2> QED
    BY <1>s, <2>1, <2>2
<1>4. CASE (\E l : LocalSlot(s, l)) /\ (\E l : LocalSlot(x, l))
  <2>1. PICK l : LocalSlot(s, l)
    BY <1>4
  <2>2. PICK k : LocalSlot(x, k)
    BY <1>4
  <2>3. /\ l \in Locals[f] /\ l.off \in Nat /\ s.off = -l.off /\ s.ty = l.ty
        /\ k \in Locals[f] /\ k.off \in Nat /\ x.off = -k.off /\ x.ty = k.ty
    BY <1>2, <2>1, <2>2
  <2>4. k # l
    BY <2>1, <2>2
  <2>5. k.off + Size[l.ty] <= l.off \/ l.off + Size[k.ty] <= k.off
    BY <2>3, <2>4, LocalsAssumption
  <2> QED
    BY <1>s, <2>3, <2>5
<1>5. CASE (\E j : ArgSlot(s, j)) /\ (\E j : ArgSlot(x, j))
  <2>1. PICK j : ArgSlot(s, j)
    BY <1>5
  <2>2. PICK k : ArgSlot(x, k)
    BY <1>5
  <2>3. /\ j \in 1 .. NumArgs[f] /\ s.off = 2 * AddrSize + ArgOff[f][j] /\ s.ty = ArgType[f][j]
        /\ k \in 1 .. NumArgs[f] /\ x.off = 2 * AddrSize + ArgOff[f][k] /\ x.ty = ArgType[f][k]
    BY <1>3, <2>1, <2>2
  <2>4. j # k /\ NumArgs[f] \in Nat
    BY <2>1, <2>2, ProgramFacts
  <2>5. \/ ArgOff[f][j] + Size[s.ty] <= ArgOff[f][k]
        \/ ArgOff[f][k] + Size[x.ty] <= ArgOff[f][j]
    BY <2>3, <2>4, ProgramFacts
  <2>6. ArgOff[f][j] \in Nat /\ ArgOff[f][k] \in Nat
    BY <2>3, ProgramFacts
  <2> QED
    BY <1>s, <2>3, <2>5, <2>6
<1>6. CASE (\E l : LocalSlot(s, l)) /\ (\E j : ArgSlot(x, j))
  <2>1. s.off + Size[s.ty] <= 0 /\ x.off > 0
    BY <1>2, <1>3, <1>6
  <2> QED
    BY <1>0, <1>s, <2>1
<1>7. CASE (\E j : ArgSlot(s, j)) /\ (\E l : LocalSlot(x, l))
  <2>1. x.off + Size[x.ty] <= 0 /\ s.off > 0
    BY <1>2, <1>3, <1>7
  <2> QED
    BY <1>0, <1>s, <2>1
<1> QED
  BY <1>1, <1>4, <1>5, <1>6, <1>7

\* An assignment changes the one variable.
LEMMA VariablesAssign ==
  ASSUME NEW m \in Memory, NEW cs, FramesOK(m, cs), NEW i \in 1 .. Len(cs),
         NEW x \in Slots(cs[i].fn), NEW v \in Int, 0 <= cs[i].bp - cs[i].fs
  PROVE  Variables(Put(m, cs[i].bp + x.off, x.ty, v), cs[i])
           = [Variables(m, cs[i]) EXCEPT ![x] = [ty |-> x.ty, val |-> v]]
<1> DEFINE c == cs[i]
           q == c.bp + x.off
           k == Put(m, q, x.ty, v)
<1>1. /\ q \in Int /\ x.ty \in Types /\ c.bp - c.fs <= q /\ q + Size[x.ty] <= MemSize
      /\ c.bp \in Int /\ c.fs \in Nat /\ c.fn \in Program
  <2>1. q \in Int /\ x.ty \in Types /\ c.bp - c.fs <= q /\ q + Size[x.ty] <= MemSize
    BY SlotPlace
  <2> QED
    BY <2>1, FrameFacts
<1>2. 0 <= q /\ Size[x.ty] \in Nat
  BY <1>1, SizeFacts
<1>3. Held(k, q, x.ty) = [ty |-> x.ty, val |-> v]
  BY <1>1, <1>2, HeldPut
<1>4. ASSUME NEW s \in Slots(c.fn), s # x
      PROVE  Held(k, c.bp + s.off, s.ty) = Held(m, c.bp + s.off, s.ty)
  <2> DEFINE a == c.bp + s.off
  <2>1. a \in Int /\ s.ty \in Types
    BY SlotPlace
  <2>2. s.off + Size[s.ty] <= x.off \/ x.off + Size[x.ty] <= s.off
    BY <1>1, <1>4, SlotsApart
  <2>3. Size[s.ty] \in Nat /\ s.off \in Int /\ x.off \in Int
    BY <1>1, <2>1, SizeFacts, SlotFacts
  <2>4. a + Size[s.ty] <= q \/ q + Size[x.ty] <= a
    BY <1>1, <1>2, <2>2, <2>3, SMTT(30)
  <2> HIDE DEF a, k, q
  <2>5. ASSUME NEW y \in Mem, a <= y, y < a + Size[s.ty] PROVE k[y] = m[y]
    <3>1. y < q \/ y >= q + Size[x.ty]
      BY <1>1, <1>2, <2>1, <2>3, <2>4, <2>5 DEF Mem
    <3> QED
      BY <1>1, <3>1, PutElsewhere DEF k
  <2>6. Held(k, a, s.ty) = Held(m, a, s.ty)
    BY <2>1, <2>5, HeldSame
  <2> QED
    BY <2>6 DEF a
<1> HIDE DEF k
<1>5. Variables(k, c) = [Variables(m, c) EXCEPT ![x] = [ty |-> x.ty, val |-> v]]
  BY <1>3, <1>4 DEF Variables
<1> QED
  BY <1>5 DEF k

-------------------------------------------------------------------------------
(***************************************************************************)
(* The activations.                                                        *)
(***************************************************************************)

\* What happens below the arguments of the last call changes nothing of its callers.
LEMMA CallersSame ==
  ASSUME NEW m, NEW k, NEW cs, FramesOK(m, cs), NEW n \in Int, Agree(m, k, n),
         n <= cs[Len(cs)].top, NEW i \in 1 .. (Len(cs) - 1)
  PROVE  /\ Variables(m, cs[i]) = Variables(k, cs[i])
         /\ Data(m, cs[i + 1].top, cs[i].bp - cs[i].fs)
              = Data(k, cs[i + 1].top, cs[i].bp - cs[i].fs)
<1> DEFINE l == Len(cs)
           e == cs[i].bp - cs[i].fs
           j == i + 1
           a == cs[j].top
<1>0. /\ l \in Nat /\ l > 1 /\ cs[l].bp \in Int /\ cs[l].top \in Int /\ cs[l].bp <= cs[l].top
      /\ i \in 1 .. l /\ i < l /\ j \in 1 .. l /\ j > 1 /\ i < j /\ l \in 1 .. l
  <2>1. l \in Nat
    BY LimitFacts
  <2>2. l > 1
    BY <2>1
  <2> QED
    BY <2>1, <2>2, LimitFacts
<1>1. e \in Int /\ cs[l].top <= e /\ e <= MemSize
  <2>1. cs[i].bp \in Int /\ cs[i].fs \in Nat /\ cs[i].bp <= MemSize /\ cs[l].top <= e
    BY <1>0, FrameFacts
  <2> QED
    BY <2>1, SizeFacts
<1>2. a \in Int /\ 0 <= a /\ a <= e /\ cs[l].top <= a
  <2>1. cs[j].bp \in Int /\ a \in Int /\ cs[j].bp + 2 * AddrSize <= a /\ 0 <= cs[j].bp
        /\ cs[j].fs \in Nat
    BY <1>0, FrameFacts
  <2>2. a <= e
    BY <1>0 DEF FramesOK
  <2>3. j < l => cs[l].top <= cs[j].bp - cs[j].fs
    BY <1>0, FrameFacts
  <2>4. j = l => cs[l].top = a
    OBVIOUS
  <2>5. j < l \/ j = l
    BY <1>0
  <2>6. AddrSize \in Nat
    BY SizeFacts
  <2>7. 0 <= a /\ cs[j].bp - cs[j].fs <= a
    <3> HIDE DEF a, e, j, l
    <3> QED
      BY <2>1, <2>6
  <2>8. cs[l].top <= a
    <3> HIDE DEF a, e, j, l
    <3>1. CASE j < l
      <4>1. cs[l].top <= cs[j].bp - cs[j].fs
        BY <2>3, <3>1
      <4>2. cs[l].top \in Int /\ cs[j].bp - cs[j].fs \in Int
        BY <1>0, <2>1
      <4> QED
        BY <2>1, <2>7, <4>1, <4>2
    <3>2. CASE j = l
      BY <3>2, <2>1, <2>4
    <3> QED
      BY <2>5, <3>1, <3>2
  <2> QED
    BY <2>1, <2>2, <2>7, <2>8
<1>3. Variables(m, cs[i]) = Variables(k, cs[i])
  <2>1. n <= e
    BY <1>0, <1>1
  <2> QED
    BY <1>0, <2>1, VariablesSame
<1>4. Data(m, a, e) = Data(k, a, e)
  <2>1. n <= a
    BY <1>0, <1>2
  <2> HIDE DEF e, a
  <2>2. Same(m, k, a, e)
    BY <1>1, <1>2, <2>1, SizeFacts DEF Same, Agree, Mem
  <2> QED
    BY <1>1, <1>2, <2>2, DataSame
<1> QED
  BY <1>3, <1>4

\* What happens below its own frame changes none of the variables and waiting operands.
LEMMA WaitingSame ==
  ASSUME NEW m, NEW k, NEW cs, FramesOK(m, cs), NEW n \in Int, Agree(m, k, n), n <= Limit(cs),
         NEW i \in 1 .. Len(cs)
  PROVE  /\ Variables(m, cs[i]) = Variables(k, cs[i])
         /\ i < Len(cs) => Data(m, cs[i + 1].top, cs[i].bp - cs[i].fs)
                             = Data(k, cs[i + 1].top, cs[i].bp - cs[i].fs)
<1> DEFINE l == Len(cs)
<1>0. /\ l \in Nat /\ l \in 1 .. l /\ Limit(cs) \in Int /\ Limit(cs) <= cs[l].bp
      /\ cs[l].bp \in Int
  BY LimitFacts
<1>1. CASE i = l
  BY <1>0, <1>1, VariablesSame DEF Limit
<1>2. CASE i < l
  <2>1. l > 1 /\ i \in 1 .. (l - 1)
    BY <1>0, <1>2
  <2>2. cs[l].top \in Int /\ cs[l].bp <= cs[l].top
    BY <2>1, LimitFacts
  <2>3. n <= cs[l].top
    BY <1>0, <2>2
  <2> QED
    BY <2>1, <2>3, CallersSame
<1> QED
  BY <1>0, <1>1, <1>2

LEMMA RunningFacts ==
  ASSUME IInv, Running
  PROVE  /\ mem \in Memory /\ sp \in Int /\ FramesOK(mem, calls) /\ bp = calls[Len(calls)].bp
         /\ StackOK(mem, sp, bp, calls) /\ OperandEnd = Limit(calls) /\ sp <= OperandEnd
         /\ OperandEnd \in Int /\ OperandEnd <= MemSize /\ Tiled(mem, sp, OperandEnd)
         /\ Len(calls) \in Nat /\ Len(calls) >= 1 /\ Fn \in Program
<1>1. mem \in Memory /\ sp \in Int /\ StackOK(mem, sp, bp, calls)
  BY DEF IInv, Typed, Memory
<1>2. FramesOK(mem, calls) /\ bp = calls[Len(calls)].bp /\ OperandEnd = Limit(calls)
  BY <1>1 DEF StackOK, OperandEnd, Limit
<1>3. sp <= OperandEnd /\ Tiled(mem, sp, OperandEnd)
  BY <1>1, <1>2 DEF StackOK, Limit
<1>4. /\ OperandEnd \in Int /\ OperandEnd <= MemSize /\ Len(calls) \in Nat
      /\ Len(calls) \in 1 .. Len(calls) /\ Fn \in Program
  BY <1>2, LimitFacts DEF Fn
<1> QED
  BY <1>1, <1>2, <1>3, <1>4

Activation(i) ==
  [fn |-> calls[i].fn, vars |-> Variables(mem, calls[i]), ops |-> Operands(i)]

\* The stack of activations while the machine runs.
LEMMA StackForm ==
  ASSUME IInv, Running
  PROVE  /\ Len(calls) \in Nat /\ Len(calls) >= 1
         /\ Stack = [i \in 1 .. Len(calls) |-> Activation(i)]
         /\ Len(Stack) = Len(calls)
         /\ Stack[Len(calls)] = [fn |-> Fn, vars |-> Variables(mem, calls[Len(calls)]),
                                 ops |-> TopOperands]
<1>1. Len(calls) \in Nat /\ Len(calls) >= 1
  BY RunningFacts
<1>2. Stack = [i \in 1 .. Len(calls) |-> Activation(i)]
  BY DEF Stack, Activation
<1>3. Len(Stack) = Len(calls)
  BY <1>1, <1>2
<1>4. Operands(Len(calls)) = TopOperands
  BY DEF Operands
<1>5. Stack[Len(calls)] = Activation(Len(calls))
  BY <1>1, <1>2
<1> QED
  BY <1>1, <1>2, <1>3, <1>4, <1>5 DEF Activation, Fn

\* An instruction that leaves what is above the operands alone changes the operands of
\* the last activation only.
LEMMA StackOperands ==
  ASSUME IInv, Running, Running', calls' = calls, Agree(mem, mem', OperandEnd)
  PROVE  Stack' = [Stack EXCEPT ![Len(calls)].ops = TopOperands']
<1> DEFINE l == Len(calls)
           s == [Stack EXCEPT ![l].ops = TopOperands']
<1>0. /\ FramesOK(mem, calls) /\ OperandEnd = Limit(calls) /\ OperandEnd \in Int
      /\ l \in Nat /\ l >= 1
  BY RunningFacts
<1>1. ASSUME NEW i \in 1 .. l
      PROVE  Activation(i)' = IF i = l THEN [Activation(i) EXCEPT !.ops = TopOperands']
                                       ELSE Activation(i)
  <2>0. OperandEnd <= Limit(calls)
    BY <1>0
  <2>1. /\ Variables(mem', calls[i]) = Variables(mem, calls[i])
        /\ i < l => Data(mem', calls[i + 1].top, calls[i].bp - calls[i].fs)
                      = Data(mem, calls[i + 1].top, calls[i].bp - calls[i].fs)
    BY <1>0, <2>0, WaitingSame
  <2>2. Operands(i)' = IF i = l THEN TopOperands' ELSE Operands(i)
    BY <1>0, <2>1 DEF Operands
  <2> QED
    BY <2>1, <2>2 DEF Activation
<1>2. Stack = [i \in 1 .. l |-> Activation(i)]
  BY StackForm
<1>3. Stack' = [i \in 1 .. l |-> Activation(i)']
  BY DEF Stack, Activation
<1>4. s = [i \in 1 .. l |-> IF i = l THEN [Activation(i) EXCEPT !.ops = TopOperands']
                                     ELSE Activation(i)]
  BY <1>0, <1>2
<1> HIDE DEF l, s
<1> QED
  BY <1>1, <1>3, <1>4 DEF s, l

-------------------------------------------------------------------------------
(***************************************************************************)
(* Instructions that replace at most two operands.                         *)
(***************************************************************************)

LEMMA SequenceParts ==
  ASSUME NEW S, NEW p \in Seq(S), NEW r \in Seq(S)
  PROVE  /\ p \o r \in Seq(S) /\ Len(p \o r) = Len(p) + Len(r)
         /\ SubSeq(p \o r, 1, Len(p)) = p
         /\ SubSeq(p \o r, Len(p) + 1, Len(p \o r)) = r
         /\ \A i \in 1 .. Len(p) : (p \o r)[i] = p[i]
<1>1. p \o r \in Seq(S) /\ Len(p \o r) = Len(p) + Len(r)
  OBVIOUS
<1>2. \A i \in 1 .. Len(p) : (p \o r)[i] = p[i]
  OBVIOUS
<1>3. SubSeq(p \o r, 1, Len(p)) = p
  BY <1>1, <1>2
<1>4. SubSeq(p \o r, Len(p) + 1, Len(p \o r)) = r
  BY <1>1
<1> QED
  BY <1>1, <1>2, <1>3, <1>4

LEMMA HeadTail ==
  ASSUME NEW S, NEW p \in Seq(S), NEW r \in Seq(S), Len(p) = 1
  PROVE  p \o r # <<>> /\ Head(p \o r) = p[1] /\ Tail(p \o r) = r
<1> DEFINE s == p \o r
<1>1. /\ s \in Seq(S) /\ Len(s) = 1 + Len(r) /\ SubSeq(s, 2, Len(s)) = r /\ s[1] = p[1]
  BY SequenceParts
<1>2. Len(r) \in Nat
  OBVIOUS
<1> HIDE DEF s
<1>3. s # <<>> /\ Head(s) = p[1]
  BY <1>1, <1>2
<1>4. Tail(s) = SubSeq(s, 2, Len(s))
  BY <1>1, <1>2
<1> QED
  BY <1>1, <1>3, <1>4 DEF s

LEMMA EvaluateStep ==
  ASSUME IInv, Running, Running', calls' = calls, Agree(mem, mem', OperandEnd),
         NEW p \in Seq(Value), NEW q \in Seq(Value), NEW r \in Seq(Value),
         TopOperands = p \o r, TopOperands' = q \o r, Len(p) <= 3, Len(q) <= 1,
         \A i \in 1 .. Len(p) : p[i].ty # "ADDR_BP"
  PROVE  Abstract!Evaluate
<1> DEFINE l   == Len(calls)
           top == Stack[l]
           ops == Stack'[l].ops
<1>0. /\ l \in Nat /\ l >= 1 /\ Len(Stack) = l /\ top.ops = p \o r /\ top.fn = Fn
      /\ Fn \in Program /\ Stack = [i \in 1 .. l |-> Activation(i)]
  BY StackForm, RunningFacts
<1>1. Stack' = [Stack EXCEPT ![l].ops = q \o r]
  BY StackOperands
<1>2. Len(Stack') = l /\ ops = q \o r
  <2>1. \A i \in 1 .. l : Stack[i] = Activation(i)
    BY <1>0
  <2>2. Stack' = [i \in 1 .. l |-> IF i = l THEN [Stack[l] EXCEPT !.ops = q \o r] ELSE Stack[i]]
    BY <1>0, <1>1
  <2>3. Stack[l] = [fn |-> Activation(l).fn, vars |-> Activation(l).vars, ops |-> Activation(l).ops]
    BY <1>0 DEF Activation
  <2> QED
    BY <1>0, <2>2, <2>3
<1>3. /\ Len(p) \in 0 .. 3 /\ Len(q) \in 0 .. 1
      /\ Len(p) <= Len(top.ops) /\ Len(q) <= Len(ops)
  <2>1. Len(p \o r) = Len(p) + Len(r) /\ Len(q \o r) = Len(q) + Len(r)
    BY SequenceParts
  <2>2. Len(p) \in Nat /\ Len(q) \in Nat /\ Len(r) \in Nat
    OBVIOUS
  <2>3. Len(top.ops) = Len(p) + Len(r) /\ Len(ops) = Len(q) + Len(r)
    BY <1>0, <1>2, <2>1
  <2> DEFINE u == Len(p)
             v == Len(q)
             w == Len(r)
             y == Len(top.ops)
             z == Len(ops)
  <2>4. /\ u \in Nat /\ v \in Nat /\ w \in Nat /\ u <= 3 /\ v <= 1
        /\ y = u + w /\ z = v + w
    BY <2>2, <2>3
  <2> HIDE DEF u, v, w, y, z
  <2>5. u \in 0 .. 3 /\ v \in 0 .. 1 /\ u <= y /\ v <= z
    BY <2>4
  <2> QED
    BY <2>5 DEF u, v, y, z
<1>4. ASSUME NEW i \in 1 .. Len(p), NEW x \in Slots(Fn)
      PROVE  top.ops[i] # [ty |-> "ADDR_BP", val |-> x.off]
  <2>1. top.ops[i] = p[i]
    BY <1>0, SequenceParts
  <2> QED
    BY <2>1
<1>5. Stack' = [Stack EXCEPT ![l].ops = SubSeq(ops, 1, Len(q)) \o SubSeq(@, Len(p) + 1, Len(@))]
  <2>1. SubSeq(ops, 1, Len(q)) = q
    BY <1>2, SequenceParts
  <2>2. SubSeq(top.ops, Len(p) + 1, Len(top.ops)) = r
    BY <1>0, SequenceParts
  <2> QED
    BY <1>1, <2>1, <2>2
<1> DEFINE Vs == [f \in Program |-> Slots(f)]
           As == [f \in Program |-> [x \in Slots(f) |-> [ty |-> "ADDR_BP", val |-> x.off]]]
<1>6. \A i \in 1 .. Len(p), x \in Vs[top.fn] : top.ops[i] # As[top.fn][x]
  <2> SUFFICES ASSUME NEW i \in 1 .. Len(p), NEW x \in Vs[top.fn]
               PROVE  top.ops[i] # As[top.fn][x]
    OBVIOUS
  <2>1. top.fn = Fn /\ Fn \in Program
    BY <1>0
  <2>2. x \in Slots(Fn)
    BY <2>1
  <2>3. As[top.fn][x] = [ty |-> "ADDR_BP", val |-> x.off]
    BY <2>1, <2>2
  <2> QED
    BY <1>4, <2>2, <2>3
<1>7. /\ Stack[Len(Stack)] = top /\ Stack'[Len(Stack)].ops = ops
      /\ (IF Running THEN "running" ELSE pc) = "running"
      /\ (IF Running' THEN "running" ELSE pc') = "running"
  BY <1>0
<1> HIDE DEF ops, top, Vs, As
<1>8. Abstract!Running /\ Len(Stack') = Len(Stack) /\ Abstract!Top = top
  BY <1>0, <1>2, <1>7 DEF Abstract!Running, Abstract!Top
<1>9. \E n \in 0 .. 3, m \in 0 .. 1 :
        /\ n <= Len(top.ops) /\ m <= Len(ops)
        /\ \A i \in 1 .. n, x \in Vs[top.fn] : top.ops[i] # As[top.fn][x]
        /\ Stack' = [Stack EXCEPT ![Len(Stack)].ops =
                       SubSeq(ops, 1, m) \o Abstract!Dropped(@, n)]
  <2>1. Stack' = [Stack EXCEPT ![Len(Stack)].ops =
                    SubSeq(ops, 1, Len(q)) \o Abstract!Dropped(@, Len(p))]
    BY <1>0, <1>5 DEF Abstract!Dropped
  <2> QED
    BY <1>3, <1>6, <2>1
<1>10. PICK n \in 0 .. 3, m \in 0 .. 1 :
        /\ n <= Len(top.ops) /\ m <= Len(ops)
        /\ \A i \in 1 .. n, x \in Vs[top.fn] : top.ops[i] # As[top.fn][x]
        /\ Stack' = [Stack EXCEPT ![Len(Stack)].ops =
                       SubSeq(ops, 1, m) \o Abstract!Dropped(@, n)]
  BY <1>9
<1>11. n <= Len(Abstract!Top.ops) /\ m <= Len(Stack'[Len(Stack)].ops)
  BY <1>7, <1>8, <1>10
<1>12. \A i \in 1 .. n, x \in Vs[Abstract!Top.fn] : Abstract!Top.ops[i] # As[Abstract!Top.fn][x]
  BY <1>8, <1>10
<1>13. Stack' = [Stack EXCEPT ![Len(Stack)].ops =
                   SubSeq(Stack'[Len(Stack)].ops, 1, m) \o Abstract!Dropped(@, n)]
  BY <1>7, <1>10
<1> QED
  BY <1>8, <1>11, <1>12, <1>13, Zenon DEF Abstract!Evaluate, Vs, As

\* The operands between the instruction's own and the frame.
LEMMA RestFacts ==
  ASSUME IInv, Fetch, NEW a \in Int, sp <= a, a <= OperandEnd
  PROVE  /\ Running /\ TopOperands = Data(mem, sp, OperandEnd)
         /\ Data(mem, a, OperandEnd) \in Seq(Value)
<1>1. Running /\ pc = "exec"
  BY DEF Fetch, Running
<1>2. /\ mem \in Memory /\ sp \in Int /\ CodeEnd <= sp /\ OperandEnd \in Int
      /\ OperandEnd <= MemSize
  BY <1>1, FetchFacts, RunningFacts
<1>3. 0 <= a
  BY <1>2, SizeFacts
<1>4. Data(mem, a, OperandEnd) \in Seq(Value)
  BY <1>2, <1>3, DataTyped
<1> QED
  BY <1>1, <1>4 DEF TopOperands

LEMMA OperandsReplaced ==
  ASSUME IInv, Fetch, NEW a \in Int, sp <= a, a <= OperandEnd, Tiled(mem, a, OperandEnd),
         NEW t \in Types, NEW v \in Int, Result(a, t, v), UNCHANGED <<bp, pc, ret, calls>>
  PROVE  /\ Agree(mem, mem', OperandEnd)
         /\ TopOperands' = <<[ty |-> t, val |-> v]>> \o Data(mem, a, OperandEnd)
         /\ Running' /\ Data(mem, a, OperandEnd) \in Seq(Value)
<1> DEFINE e == OperandEnd
           n == a - Size[t]
           r == Data(mem, a, e)
           q == <<[ty |-> t, val |-> v]>>
<1>1. /\ Running /\ r \in Seq(Value) /\ pc = "exec" /\ pc' = "exec" /\ Running' /\ OperandEnd' = e
  BY RestFacts DEF Fetch, Running, OperandEnd
<1>2. /\ mem \in Memory /\ sp \in Int /\ CodeEnd <= sp /\ e \in Int /\ e <= MemSize
      /\ StackOK(mem, sp, bp, calls) /\ e = Limit(calls)
  BY <1>1, FetchFacts, RunningFacts
<1>3. mem' \in Memory /\ Agree(mem, mem', a) /\ sp' = n
  BY <1>2, StackReplace DEF Result, Replace
<1>4. /\ Size[t] \in Nat /\ CodeEnd \in Nat /\ MemSize \in Nat
      /\ 0 <= n /\ n \in Int /\ n + Size[t] = a /\ a <= MemSize
  <2>1. Size[t] \in Nat /\ Size[t] <= a /\ CodeEnd \in Nat /\ MemSize \in Nat
    BY SizeFacts DEF Result
  <2> QED
    BY <1>2, <2>1
<1>5. At(mem', n, t, v)
  <2>1. Erase(mem, sp, a) \in Memory
    BY <1>2, EraseTyped
  <2>2. mem' = Put(Erase(mem, sp, a), n, t, v)
    BY DEF Result, Replace
  <2> HIDE DEF n
  <2>3. n + Size[t] <= MemSize
    BY <1>4
  <2> QED
    BY <1>4, <2>1, <2>2, <2>3, PutAt
<1>6. Agree(mem, mem', e)
  BY <1>2, <1>3 DEF Agree, Mem
<1>7. Data(mem', a, e) = r
  <2>1. Same(mem, mem', a, e)
    BY <1>2, <1>3, <1>4, SizeFacts DEF Same, Agree, Mem
  <2>2. e \in Int /\ a <= e
    BY <1>2
  <2> HIDE DEF e
  <2> QED
    BY <2>1, <2>2, DataSame
<1>8. Data(mem', n, e) = q \o r
  <2> HIDE DEF e, n, r
  <2>1. n + Size[t] <= e /\ n \in Int /\ e \in Int /\ mem' \in Memory
    BY <1>2, <1>3, <1>4 DEF e
  <2>2. Data(mem', n, e) = <<[ty |-> t, val |-> v]>> \o Data(mem', n + Size[t], e)
    BY <1>5, <2>1, DataAt
  <2> QED
    BY <1>4, <1>7, <2>2
<1>9. TopOperands' = q \o r
  <2>1. TopOperands' = Data(mem', sp', OperandEnd')
    BY <1>1 DEF TopOperands
  <2> QED
    BY <1>1, <1>3, <1>8, <2>1
<1> QED
  BY <1>1, <1>6, <1>9

LEMMA EvaluateReplace ==
  ASSUME IInv, Fetch, NEW a \in Int, sp <= a, a <= OperandEnd, Tiled(mem, a, OperandEnd),
         NEW p \in Seq(Value), Len(p) <= 3, \A i \in 1 .. Len(p) : p[i].ty # "ADDR_BP",
         TopOperands = p \o Data(mem, a, OperandEnd),
         NEW t \in Types, NEW v \in Int, Result(a, t, v), UNCHANGED <<bp, pc, ret, calls>>
  PROVE  Abstract!Evaluate
<1> DEFINE r == Data(mem, a, OperandEnd)
           q == <<[ty |-> t, val |-> v]>>
<1>1. /\ Agree(mem, mem', OperandEnd) /\ TopOperands' = q \o r /\ Running' /\ r \in Seq(Value)
  BY OperandsReplaced
<1>2. q \in Seq(Value) /\ Len(q) <= 1 /\ Running
  BY DEF Value, Fetch, Running
<1> HIDE DEF q, r
<1>3. TopOperands = p \o r
  BY DEF r
<1> QED
  BY <1>1, <1>2, <1>3, EvaluateStep

LEMMA EvaluatePop ==
  ASSUME IInv, Fetch, NEW a \in Int, sp <= a, a <= OperandEnd, Tiled(mem, a, OperandEnd),
         NEW p \in Seq(Value), Len(p) <= 3, \A i \in 1 .. Len(p) : p[i].ty # "ADDR_BP",
         TopOperands = p \o Data(mem, a, OperandEnd),
         sp' = a, mem' = Erase(mem, sp, a), pc' = "exec", UNCHANGED <<bp, ret, calls>>
  PROVE  Abstract!Evaluate
<1> DEFINE e == OperandEnd
           r == Data(mem, a, e)
           q == <<>>
<1>1. /\ Running /\ r \in Seq(Value) /\ Running' /\ OperandEnd' = e
  BY RestFacts DEF Fetch, Running, OperandEnd
<1>2. /\ mem \in Memory /\ sp \in Int /\ CodeEnd <= sp /\ e \in Int /\ e <= MemSize
      /\ StackOK(mem, sp, bp, calls) /\ e = Limit(calls)
  BY <1>1, FetchFacts, RunningFacts
<1>3. mem' \in Memory /\ Agree(mem, mem', a)
  BY <1>2, StackPop
<1>4. 0 <= a
  BY <1>2, SizeFacts
<1>6. Agree(mem, mem', e)
  BY <1>2, <1>3 DEF Agree, Mem
<1>7. Data(mem', a, e) = r
  <2>1. Same(mem, mem', a, e)
    BY <1>2, <1>3, <1>4, SizeFacts DEF Same, Agree, Mem
  <2>2. e \in Int /\ a <= e
    BY <1>2
  <2> HIDE DEF e
  <2> QED
    BY <2>1, <2>2, DataSame
<1>9. TopOperands' = q \o r
  <2>1. TopOperands' = Data(mem', sp', OperandEnd')
    BY DEF TopOperands
  <2>2. q \o r = r
    BY <1>1
  <2> QED
    BY <1>1, <1>7, <2>1, <2>2
<1>10. q \in Seq(Value) /\ Len(q) <= 1
  OBVIOUS
<1> HIDE DEF q, r
<1>11. TopOperands = p \o r
  BY DEF r
<1> QED
  BY <1>1, <1>6, <1>9, <1>10, <1>11, EvaluateStep

\* An operand is the first of the data from its address on.
LEMMA DataOperand ==
  ASSUME IInv, Fetch, NEW a \in Int, sp <= a, Tiled(mem, a, OperandEnd),
         NEW ts \in SUBSET Types, Operand(a, ts)
  PROVE  /\ Item(mem, a) \in Value /\ Item(mem, a).ty \in ts
         /\ Item(mem, a) = [ty |-> mem[a].ty, val |-> mem[a].val]
         /\ Data(mem, a, OperandEnd) = <<Item(mem, a)>> \o Data(mem, Next1(a), OperandEnd)
         /\ Next1(a) \in Int /\ a < Next1(a) /\ Next1(a) <= OperandEnd
         /\ Tiled(mem, Next1(a), OperandEnd)
<1>1. /\ mem[a].ty \in ts /\ mem[a].ty \in Types /\ mem[a].val \in Int
      /\ Next1(a) \in Int /\ a < Next1(a) /\ Next1(a) <= OperandEnd
      /\ Tiled(mem, Next1(a), OperandEnd) /\ OperandEnd \in Int
  BY FetchFacts, OperandPop
<1>2. a < OperandEnd
  BY <1>1
<1>3. Whole(mem, a, OperandEnd)
  BY <1>1, <1>2 DEF Whole, Next1
<1>4. Data(mem, a, OperandEnd) = <<Item(mem, a)>> \o Data(mem, Next1(a), OperandEnd)
  BY <1>1, <1>3, DataFirst DEF After, Next1
<1> QED
  BY <1>1, <1>4 DEF Item, Value

\* One operand, and two operands, on top of the others.
LEMMA OneOnTop ==
  ASSUME IInv, Fetch, NEW ts \in SUBSET Types, Operand(sp, ts)
  PROVE  LET p == <<Item(mem, sp)>>
             a == Next1(sp)
         IN  /\ p \in Seq(Value) /\ Len(p) = 1 /\ p[1] = [ty |-> mem[sp].ty, val |-> mem[sp].val]
             /\ p[1].ty \in ts
             /\ TopOperands = p \o Data(mem, a, OperandEnd)
             /\ a \in Int /\ sp < a /\ sp <= a /\ a <= OperandEnd /\ Tiled(mem, a, OperandEnd)
<1>1. sp \in Int /\ sp <= OperandEnd /\ Tiled(mem, sp, OperandEnd) /\ sp <= sp
  BY FetchFacts
<1>2. TopOperands = Data(mem, sp, OperandEnd)
  BY <1>1, RestFacts
<1>3. /\ Item(mem, sp) \in Value /\ Item(mem, sp).ty \in ts
      /\ Item(mem, sp) = [ty |-> mem[sp].ty, val |-> mem[sp].val]
      /\ Data(mem, sp, OperandEnd) = <<Item(mem, sp)>> \o Data(mem, Next1(sp), OperandEnd)
      /\ Next1(sp) \in Int /\ sp < Next1(sp) /\ Next1(sp) <= OperandEnd
      /\ Tiled(mem, Next1(sp), OperandEnd)
  BY <1>1, DataOperand
<1>4. sp <= Next1(sp)
  BY <1>1, <1>3
<1> QED
  BY <1>2, <1>3, <1>4

LEMMA TwoOnTop ==
  ASSUME IInv, Fetch, NEW ts \in SUBSET Types, Operand(sp, ts),
         NEW us \in SUBSET Types, Operand(Next1(sp), us)
  PROVE  LET p == <<Item(mem, sp), Item(mem, Next1(sp))>>
             a == Next1(Next1(sp))
         IN  /\ p \in Seq(Value) /\ Len(p) = 2 /\ p[1].ty \in ts /\ p[2].ty \in us
             /\ p[1] = [ty |-> mem[sp].ty, val |-> mem[sp].val]
             /\ p[2] = [ty |-> mem[Next1(sp)].ty, val |-> mem[Next1(sp)].val]
             /\ TopOperands = p \o Data(mem, a, OperandEnd)
             /\ a \in Int /\ sp <= a /\ a <= OperandEnd /\ Tiled(mem, a, OperandEnd)
<1> DEFINE b == Next1(sp)
           a == Next1(b)
           d == Item(mem, sp)
           g == Item(mem, b)
           r == Data(mem, a, OperandEnd)
<1>1. /\ <<d>> \in Seq(Value) /\ d = [ty |-> mem[sp].ty, val |-> mem[sp].val] /\ d.ty \in ts
      /\ TopOperands = <<d>> \o Data(mem, b, OperandEnd)
      /\ b \in Int /\ sp < b /\ sp <= b /\ b <= OperandEnd /\ Tiled(mem, b, OperandEnd)
  BY OneOnTop
<1>2. sp \in Int
  BY FetchFacts
<1>o. Operand(b, us)
  OBVIOUS
<1> HIDE DEF b
<1>3. /\ g \in Value /\ g.ty \in us /\ g = [ty |-> mem[b].ty, val |-> mem[b].val]
      /\ Data(mem, b, OperandEnd) = <<g>> \o r
      /\ a \in Int /\ b < a /\ a <= OperandEnd /\ Tiled(mem, a, OperandEnd)
  BY <1>1, <1>o, DataOperand
<1>4. sp <= a
  BY <1>1, <1>2, <1>3
<1>5. r \in Seq(Value)
  BY <1>3, <1>4, RestFacts
<1> HIDE DEF d, g, r, a
<1>6. d \in Value
  BY <1>1
<1>7. <<d>> \o (<<g>> \o r) = <<d, g>> \o r
  BY <1>3, <1>5, <1>6
<1>8. TopOperands = <<d, g>> \o r
  BY <1>1, <1>3, <1>7
<1>9. <<d, g>> \in Seq(Value) /\ Len(<<d, g>>) = 2
  BY <1>3, <1>6
<1> QED
  BY <1>1, <1>3, <1>4, <1>8, <1>9 DEF a, b, d, g, r

LEMMA PlainTypes ==
  /\ \A t \in DataTypes : t # "ADDR_BP"
  /\ \A ts \in SUBSET Types : "ADDR_BP" \notin ts => \A t \in ts : t # "ADDR_BP"
  BY SizeAssumption DEF AddrTypes

LEMMA PushEvaluates ==
  ASSUME IInv, NEW t \in Types, NEW v \in Int, NEW n \in Int, Step(n), Result(sp, t, v)
  PROVE  Abstract!Evaluate
<1> DEFINE p == <<>>
<1>1. Fetch /\ UNCHANGED <<bp, pc, ret, calls>>
  BY DEF Step
<1>2. sp \in Int /\ sp <= sp /\ sp <= OperandEnd /\ Tiled(mem, sp, OperandEnd)
  BY <1>1, FetchFacts
<1>3. TopOperands = p \o Data(mem, sp, OperandEnd)
  <2>1. /\ TopOperands = Data(mem, sp, OperandEnd) /\ Data(mem, sp, OperandEnd) \in Seq(Value)
    BY <1>1, <1>2, RestFacts
  <2> QED
    BY <2>1
<1>4. p \in Seq(Value) /\ Len(p) <= 3 /\ \A i \in 1 .. Len(p) : p[i].ty # "ADDR_BP"
  OBVIOUS
<1> HIDE DEF p
<1> QED
  BY <1>1, <1>2, <1>3, <1>4, EvaluateReplace

LEMMA UnaryEvaluates ==
  ASSUME IInv, Fetch, NEW ts \in SUBSET Types, Operand(sp, ts), "ADDR_BP" \notin ts,
         NEW t \in Types, NEW v \in Int, Result(Next1(sp), t, v),
         UNCHANGED <<bp, pc, ret, calls>>
  PROVE  Abstract!Evaluate
<1> DEFINE p == <<Item(mem, sp)>>
           a == Next1(sp)
<1>1. /\ p \in Seq(Value) /\ Len(p) = 1 /\ p[1].ty \in ts
      /\ TopOperands = p \o Data(mem, a, OperandEnd)
      /\ a \in Int /\ sp <= a /\ a <= OperandEnd /\ Tiled(mem, a, OperandEnd)
  BY OneOnTop
<1>2. Result(a, t, v)
  OBVIOUS
<1> HIDE DEF p, a
<1>3. Len(p) <= 3 /\ \A i \in 1 .. Len(p) : p[i].ty # "ADDR_BP"
  BY <1>1
<1> QED
  BY <1>1, <1>2, <1>3, EvaluateReplace

LEMMA BinaryEvaluates ==
  ASSUME IInv, Fetch, NEW ts \in SUBSET Types, Operand(sp, ts), "ADDR_BP" \notin ts,
         NEW us \in SUBSET Types, Operand(Next1(sp), us), "ADDR_BP" \notin us,
         NEW t \in Types, NEW v \in Int, Result(Next1(Next1(sp)), t, v),
         UNCHANGED <<bp, pc, ret, calls>>
  PROVE  Abstract!Evaluate
<1> DEFINE p == <<Item(mem, sp), Item(mem, Next1(sp))>>
           a == Next1(Next1(sp))
<1>1. /\ p \in Seq(Value) /\ Len(p) = 2 /\ p[1].ty \in ts /\ p[2].ty \in us
      /\ TopOperands = p \o Data(mem, a, OperandEnd)
      /\ a \in Int /\ sp <= a /\ a <= OperandEnd /\ Tiled(mem, a, OperandEnd)
  BY TwoOnTop
<1>2. Result(a, t, v)
  OBVIOUS
<1> HIDE DEF p, a
<1>3. Len(p) <= 3 /\ \A i \in 1 .. Len(p) : p[i].ty # "ADDR_BP"
  <2>1. \A i \in 1 .. 2 : i = 1 \/ i = 2
    OBVIOUS
  <2> QED
    BY <1>1, <2>1
<1> QED
  BY <1>1, <1>2, <1>3, EvaluateReplace

\* One or two operands are removed.
LEMMA PopOneEvaluates ==
  ASSUME IInv, Fetch, NEW ts \in SUBSET Types, Operand(sp, ts), "ADDR_BP" \notin ts,
         sp' = Next1(sp), mem' = Erase(mem, sp, Next1(sp)),
         UNCHANGED <<bp, pc, ret, calls>>
  PROVE  Abstract!Evaluate
<1> DEFINE p == <<Item(mem, sp)>>
           a == Next1(sp)
<1>1. /\ p \in Seq(Value) /\ Len(p) = 1 /\ p[1].ty \in ts
      /\ TopOperands = p \o Data(mem, a, OperandEnd)
      /\ a \in Int /\ sp <= a /\ a <= OperandEnd /\ Tiled(mem, a, OperandEnd)
  BY OneOnTop
<1>2. sp' = a /\ mem' = Erase(mem, sp, a) /\ pc' = "exec"
  BY DEF Fetch
<1> HIDE DEF p, a
<1>3. Len(p) <= 3 /\ \A i \in 1 .. Len(p) : p[i].ty # "ADDR_BP"
  BY <1>1
<1> QED
  BY <1>1, <1>2, <1>3, EvaluatePop

LEMMA PopTwoEvaluates ==
  ASSUME IInv, Fetch, NEW ts \in SUBSET Types, Operand(sp, ts), "ADDR_BP" \notin ts,
         NEW us \in SUBSET Types, Operand(Next1(sp), us), "ADDR_BP" \notin us,
         sp' = Next1(Next1(sp)), mem' = Erase(mem, sp, Next1(Next1(sp))),
         UNCHANGED <<bp, pc, ret, calls>>
  PROVE  Abstract!Evaluate
<1> DEFINE p == <<Item(mem, sp), Item(mem, Next1(sp))>>
           a == Next1(Next1(sp))
<1>1. /\ p \in Seq(Value) /\ Len(p) = 2 /\ p[1].ty \in ts /\ p[2].ty \in us
      /\ TopOperands = p \o Data(mem, a, OperandEnd)
      /\ a \in Int /\ sp <= a /\ a <= OperandEnd /\ Tiled(mem, a, OperandEnd)
  BY TwoOnTop
<1>2. sp' = a /\ mem' = Erase(mem, sp, a) /\ pc' = "exec"
  BY DEF Fetch
<1> HIDE DEF p, a
<1>3. Len(p) <= 3 /\ \A i \in 1 .. Len(p) : p[i].ty # "ADDR_BP"
  <2>1. \A i \in 1 .. 2 : i = 1 \/ i = 2
    OBVIOUS
  <2> QED
    BY <1>1, <2>1
<1> QED
  BY <1>1, <1>2, <1>3, EvaluatePop

LEMMA ConstantEvaluates ==
  ASSUME IInv, (\E t \in DataTypes : \E v \in Vals[t] : Push(t, v)) \/ PushAddress
  PROVE  Abstract!Evaluate
<1>1. ASSUME NEW t \in DataTypes, NEW v \in Vals[t], Push(t, v)
      PROVE  Abstract!Evaluate
  <2>1. t \in Types /\ v \in Int /\ 1 + Size[t] \in Int
    BY ValFacts, SizeFacts
  <2> QED
    BY <1>1, <2>1, PushEvaluates DEF Push
<1>2. CASE PushAddress
  <2>1. Step(1 + AddrSize) /\ 1 + AddrSize \in Int /\ "ADDR_IP" \in Types /\ "ADDR_BP" \in Types
    BY <1>2, SizeFacts DEF PushAddress
  <2>2. ip \in Int /\ Fn \in Program /\ AddrSize \in Nat
    BY <2>1, FetchFacts, SizeFacts DEF Step
  <2>3. CASE \E s \in Slots(Fn) : Result(sp, "ADDR_BP", s.off)
    <3>1. PICK s \in Slots(Fn) : Result(sp, "ADDR_BP", s.off)
      BY <2>3
    <3>2. s.off \in Int
      BY <2>2, SlotFacts
    <3> QED
      BY <2>1, <3>1, <3>2, PushEvaluates
  <2>4. CASE \E a \in Targets[Fn] \union {Entry[f] : f \in Funcs} \union {c.addr : c \in Consts} :
               Result(sp, "ADDR_IP", a - (ip + AddrSize + 2))
    <3>1. PICK a \in Targets[Fn] \union {Entry[f] : f \in Funcs} \union {c.addr : c \in Consts} :
                 Result(sp, "ADDR_IP", a - (ip + AddrSize + 2))
      BY <2>4
    <3>2. a \in Int
      <4>1. CASE a \in Targets[Fn]
        BY <2>2, <4>1, ProgramAssumption
      <4>2. CASE a \in {Entry[f] : f \in Funcs}
        BY <4>2, ProgramAssumption DEF Program
      <4>3. CASE a \in {c.addr : c \in Consts}
        BY <4>3, SizeAssumption
      <4> QED
        BY <4>1, <4>2, <4>3
    <3>3. a - (ip + AddrSize + 2) \in Int
      BY <2>2, <3>2
    <3> QED
      BY <2>1, <3>1, <3>3, PushEvaluates
  <2> QED
    BY <1>2, <2>3, <2>4 DEF PushAddress
<1> QED
  BY <1>1, <1>2

LEMMA OperatorEvaluates ==
  ASSUME IInv,
         \/ \E t \in DataTypes : \E v \in Vals[t] : OpArithmetic(t, v) \/ OpCast(t, v)
         \/ \E v \in {0, 1} : OpComparison(v) \/ OpLogical(v)
         \/ OpNot
  PROVE  Abstract!Evaluate
<1>0. /\ DataTypes \in SUBSET Types /\ "ADDR_BP" \notin DataTypes
      /\ {"BOOL"} \in SUBSET Types /\ "ADDR_BP" \notin {"BOOL"} /\ "BOOL" \in Types
  BY OperandTypes, PlainTypes, SizeFacts
<1>1. ASSUME NEW t \in DataTypes, NEW v \in Vals[t], OpArithmetic(t, v)
      PROVE  Abstract!Evaluate
  <2>1. /\ Fetch /\ UNCHANGED <<bp, pc, ret, calls>> /\ t \in Types /\ v \in Int
        /\ Operand(sp, DataTypes) /\ Operand(Next1(sp), DataTypes)
        /\ Result(Next1(Next1(sp)), t, v)
    BY <1>1, ValFacts DEF OpArithmetic, Step
  <2> QED
    BY <1>0, <2>1, BinaryEvaluates
<1>2. ASSUME NEW t \in DataTypes, NEW v \in Vals[t], OpCast(t, v)
      PROVE  Abstract!Evaluate
  <2>1. /\ Fetch /\ UNCHANGED <<bp, pc, ret, calls>> /\ t \in Types /\ v \in Int
        /\ Operand(sp, DataTypes) /\ Result(Next1(sp), t, v)
    BY <1>2, ValFacts DEF OpCast, Step
  <2> QED
    BY <1>0, <2>1, UnaryEvaluates
<1>3. ASSUME NEW v \in {0, 1}, OpComparison(v)
      PROVE  Abstract!Evaluate
  <2>1. /\ Fetch /\ UNCHANGED <<bp, pc, ret, calls>> /\ v \in Int
        /\ Operand(sp, DataTypes) /\ Operand(Next1(sp), {mem[sp].ty})
        /\ Result(Next1(Next1(sp)), "BOOL", v)
    BY <1>3 DEF OpComparison, Step
  <2>2. mem[sp].ty \in DataTypes
    BY <2>1 DEF Operand, Datum
  <2>3. {mem[sp].ty} \in SUBSET Types /\ "ADDR_BP" \notin {mem[sp].ty}
    BY <1>0, <2>2
  <2> QED
    BY <1>0, <2>1, <2>3, BinaryEvaluates
<1>4. ASSUME NEW v \in {0, 1}, OpLogical(v)
      PROVE  Abstract!Evaluate
  <2>1. /\ Fetch /\ UNCHANGED <<bp, pc, ret, calls>> /\ v \in Int
        /\ Operand(sp, {"BOOL"}) /\ Operand(Next1(sp), {"BOOL"})
        /\ Result(Next1(Next1(sp)), "BOOL", v)
    BY <1>4 DEF OpLogical, Step
  <2> QED
    BY <1>0, <2>1, BinaryEvaluates
<1>5. CASE OpNot
  <2>1. /\ Fetch /\ UNCHANGED <<bp, pc, ret, calls>> /\ Operand(sp, {"BOOL"})
        /\ Result(Next1(sp), "BOOL", 1 - mem[sp].val)
    BY <1>5 DEF OpNot, Step
  <2>2. 1 - mem[sp].val \in Int
    <3>1. sp \in Mem /\ mem \in Memory
      BY <2>1, FetchFacts DEF Operand, Datum
    <3>2. mem[sp].val \in Int
      BY <3>1 DEF Memory, Cell
    <3> QED
      BY <3>2
  <2> QED
    BY <1>0, <2>1, <2>2, UnaryEvaluates
<1> QED
  BY <1>1, <1>2, <1>3, <1>4, <1>5

\* One more operand below the ones that have been popped.
LEMMA OneBelow ==
  ASSUME IInv, Fetch, NEW a \in Int, sp <= a, Tiled(mem, a, OperandEnd),
         NEW p \in Seq(Value), \A i \in 1 .. Len(p) : p[i].ty # "ADDR_BP",
         TopOperands = p \o Data(mem, a, OperandEnd), NEW b \in Below(a)
  PROVE  LET q == Append(p, Item(mem, a)) IN
         /\ q \in Seq(Value) /\ Len(q) = Len(p) + 1
         /\ \A i \in 1 .. Len(q) : q[i].ty # "ADDR_BP"
         /\ TopOperands = q \o Data(mem, b, OperandEnd)
         /\ b \in Int /\ sp <= b /\ b <= OperandEnd /\ Tiled(mem, b, OperandEnd)
<1> DEFINE d == Item(mem, a)
           q == Append(p, d)
           r == Data(mem, b, OperandEnd)
<1>1. /\ Operand(a, DataTypes) /\ b = Next1(a)
      /\ b \in Int /\ sp <= b /\ b <= OperandEnd /\ Tiled(mem, b, OperandEnd)
  BY OperandBelow
<1>2. /\ d \in Value /\ d.ty \in DataTypes
      /\ Data(mem, a, OperandEnd) = <<d>> \o r
  BY <1>1, OperandTypes, DataOperand
<1>3. r \in Seq(Value)
  BY <1>1, RestFacts
<1>4. d.ty # "ADDR_BP"
  BY <1>2, PlainTypes
<1> HIDE DEF d, r
<1>5. q \in Seq(Value) /\ Len(q) = Len(p) + 1 /\ p \o (<<d>> \o r) = q \o r
  BY <1>2, <1>3
<1>6. \A i \in 1 .. Len(q) : q[i].ty # "ADDR_BP"
  BY <1>2, <1>4, <1>5
<1> QED
  BY <1>1, <1>2, <1>5, <1>6 DEF d, r

LEMMA ExternalEvaluates ==
  ASSUME IInv, CallExternal \/ ReadConst
  PROVE  Abstract!Evaluate
<1>0. /\ {"STR"} \in SUBSET Types /\ "ADDR_BP" \notin {"STR"}
      /\ {"ADDR_IP"} \in SUBSET Types /\ "ADDR_BP" \notin {"ADDR_IP"}
  BY OperandTypes
<1>1. CASE CallExternal
  <2> DEFINE a == Next1(sp)
             p == <<Item(mem, sp)>>
  <2>1. Fetch /\ pc' = "exec" /\ UNCHANGED <<bp, pc, ret, calls>> /\ Operand(sp, {"STR"})
    BY <1>1 DEF CallExternal, Step, Fetch
  <2>2. PICK b \in {a} \union Below(a) \union UNION {Below(c) : c \in Below(a)} :
               \/ sp' = b /\ mem' = Erase(mem, sp, b)
               \/ \E t \in DataTypes : \E v \in Vals[t] : Result(b, t, v)
    BY <1>1 DEF CallExternal
  <2>3. /\ p \in Seq(Value) /\ Len(p) = 1 /\ p[1].ty # "ADDR_BP"
        /\ TopOperands = p \o Data(mem, a, OperandEnd)
        /\ a \in Int /\ sp <= a /\ a <= OperandEnd /\ Tiled(mem, a, OperandEnd)
    BY <1>0, <2>1, OneOnTop
  <2> HIDE DEF p, a
  <2>4. \A i \in 1 .. Len(p) : p[i].ty # "ADDR_BP"
    BY <2>3
  <2>5. /\ b \in Int /\ sp <= b /\ b <= OperandEnd /\ Tiled(mem, b, OperandEnd)
        /\ \E q \in Seq(Value) : /\ Len(q) <= 3 /\ \A i \in 1 .. Len(q) : q[i].ty # "ADDR_BP"
                                /\ TopOperands = q \o Data(mem, b, OperandEnd)
    <3>1. CASE b = a
      <4>1. p \in Seq(Value) /\ Len(p) <= 3
        BY <2>3
      <4>2. TopOperands = p \o Data(mem, b, OperandEnd)
        BY <2>3, <3>1
      <4>3. b \in Int /\ sp <= b /\ b <= OperandEnd /\ Tiled(mem, b, OperandEnd)
        BY <2>3, <3>1
      <4> QED
        BY <2>4, <4>1, <4>2, <4>3
    <3>2. ASSUME NEW c \in Below(a)
          PROVE  LET q == Append(p, Item(mem, a)) IN
                 /\ q \in Seq(Value) /\ Len(q) = 2
                 /\ \A i \in 1 .. Len(q) : q[i].ty # "ADDR_BP"
                 /\ TopOperands = q \o Data(mem, c, OperandEnd)
                 /\ c \in Int /\ sp <= c /\ c <= OperandEnd /\ Tiled(mem, c, OperandEnd)
      <4> DEFINE u == Append(p, Item(mem, a))
      <4>1. /\ u \in Seq(Value) /\ Len(u) = Len(p) + 1
            /\ \A i \in 1 .. Len(u) : u[i].ty # "ADDR_BP"
            /\ TopOperands = u \o Data(mem, c, OperandEnd)
            /\ c \in Int /\ sp <= c /\ c <= OperandEnd /\ Tiled(mem, c, OperandEnd)
        BY <2>1, <2>3, <2>4, OneBelow
      <4> HIDE DEF u
      <4>2. Len(u) = 2
        BY <2>3, <4>1
      <4> QED
        BY <4>1, <4>2 DEF u
    <3>3. CASE b \in Below(a)
      <4>1. 2 <= 3
        OBVIOUS
      <4> QED
        BY <3>2, <3>3, <4>1
    <3>4. ASSUME NEW c \in Below(a), b \in Below(c)
          PROVE  LET q == Append(Append(p, Item(mem, a)), Item(mem, c)) IN
                 /\ q \in Seq(Value) /\ Len(q) = 3
                 /\ \A i \in 1 .. Len(q) : q[i].ty # "ADDR_BP"
                 /\ TopOperands = q \o Data(mem, b, OperandEnd)
                 /\ b \in Int /\ sp <= b /\ b <= OperandEnd /\ Tiled(mem, b, OperandEnd)
      <4> DEFINE u == Append(p, Item(mem, a))
      <4>1. /\ u \in Seq(Value) /\ Len(u) = 2
            /\ \A i \in 1 .. Len(u) : u[i].ty # "ADDR_BP"
            /\ TopOperands = u \o Data(mem, c, OperandEnd)
            /\ c \in Int /\ sp <= c /\ Tiled(mem, c, OperandEnd)
        BY <3>2
      <4> HIDE DEF u
      <4>2. LET q == Append(u, Item(mem, c)) IN
            /\ q \in Seq(Value) /\ Len(q) = Len(u) + 1
            /\ \A i \in 1 .. Len(q) : q[i].ty # "ADDR_BP"
            /\ TopOperands = q \o Data(mem, b, OperandEnd)
            /\ b \in Int /\ sp <= b /\ b <= OperandEnd /\ Tiled(mem, b, OperandEnd)
        BY <2>1, <3>4, <4>1, OneBelow
      <4> QED
        BY <4>1, <4>2 DEF u
    <3>5. ASSUME NEW c \in Below(a), b \in Below(c)
          PROVE  /\ b \in Int /\ sp <= b /\ b <= OperandEnd /\ Tiled(mem, b, OperandEnd)
                 /\ \E q \in Seq(Value) :
                      /\ Len(q) <= 3 /\ \A i \in 1 .. Len(q) : q[i].ty # "ADDR_BP"
                      /\ TopOperands = q \o Data(mem, b, OperandEnd)
      <4>1. 3 <= 3
        OBVIOUS
      <4> QED
        BY <3>4, <3>5, <4>1
    <3>6. \/ b = a \/ b \in Below(a)
          \/ \E c \in Below(a) : b \in Below(c)
      OBVIOUS
    <3> QED
      BY <3>1, <3>3, <3>5, <3>6
  <2>6. PICK q \in Seq(Value) : /\ Len(q) <= 3 /\ \A i \in 1 .. Len(q) : q[i].ty # "ADDR_BP"
                                /\ TopOperands = q \o Data(mem, b, OperandEnd)
    BY <2>5
  <2>7. CASE sp' = b /\ mem' = Erase(mem, sp, b)
    BY <2>1, <2>5, <2>6, <2>7, EvaluatePop
  <2>8. ASSUME NEW t \in DataTypes, NEW v \in Vals[t], Result(b, t, v)
        PROVE  Abstract!Evaluate
    <3>1. t \in Types /\ v \in Int
      BY ValFacts
    <3> QED
      BY <2>1, <2>5, <2>6, <2>8, <3>1, EvaluateReplace
  <2> QED
    BY <2>2, <2>7, <2>8
<1>2. CASE ReadConst
  <2>1. Fetch /\ UNCHANGED <<bp, pc, ret, calls>> /\ Operand(sp, {"ADDR_IP"})
    BY <1>2 DEF ReadConst, Step
  <2>2. PICK c \in Consts : Result(Next1(sp), c.ty, c.val)
    BY <1>2 DEF ReadConst
  <2>3. c.ty \in Types /\ c.val \in Int
    BY SizeAssumption, SizeFacts
  <2> QED
    BY <1>0, <2>1, <2>2, <2>3, UnaryEvaluates
<1> QED
  BY <1>1, <1>2

LEMMA JumpEvaluates ==
  ASSUME IInv, Jump \/ JumpCond
  PROVE  Abstract!Evaluate
<1>0. /\ {"ADDR_IP"} \in SUBSET Types /\ "ADDR_BP" \notin {"ADDR_IP"}
      /\ {"BOOL"} \in SUBSET Types /\ "ADDR_BP" \notin {"BOOL"}
  BY OperandTypes
<1>1. Fetch /\ UNCHANGED <<bp, pc, ret, calls>> /\ Operand(sp, {"ADDR_IP"})
  BY DEF Jump, JumpCond
<1>2. CASE Jump
  <2>1. sp' = Next1(sp) /\ mem' = Erase(mem, sp, Next1(sp))
    BY <1>2 DEF Jump
  <2> QED
    BY <1>0, <1>1, <2>1, PopOneEvaluates
<1>3. CASE JumpCond
  <2>1. /\ Operand(Next1(sp), {"BOOL"})
        /\ sp' = Next1(Next1(sp)) /\ mem' = Erase(mem, sp, Next1(Next1(sp)))
    BY <1>3 DEF JumpCond
  <2> QED
    BY <1>0, <1>1, <2>1, PopTwoEvaluates
<1> QED
  BY <1>2, <1>3

-------------------------------------------------------------------------------
(***************************************************************************)
(* Variables are read and assigned.                                        *)
(***************************************************************************)

\* The variable that the address on top of the stack stands for.
LEMMA AddressedSlot ==
  ASSUME IInv, Fetch, Operand(sp, {"ADDR_BP"}), NEW s \in Slots(Fn), s.off = mem[sp].val
  PROVE  LET d == <<Item(mem, sp)>>
             r == Data(mem, Next1(sp), OperandEnd)
         IN  /\ Resolved = calls[Len(calls)].bp + s.off
             /\ Stack[Len(calls)].ops = d \o r /\ d[1] = [ty |-> "ADDR_BP", val |-> s.off]
             /\ d \in Seq(Value) /\ r \in Seq(Value) /\ Len(d) = 1
             /\ Stack[Len(calls)].fn = Fn
             /\ Stack[Len(calls)].vars[s] = Held(mem, Resolved, s.ty)
<1>1. Running /\ bp = calls[Len(calls)].bp /\ Fn \in Program
  BY FetchFacts DEF Fetch, Running
<1>2. /\ Stack[Len(calls)] = [fn |-> Fn, vars |-> Variables(mem, calls[Len(calls)]),
                              ops |-> TopOperands]
  BY <1>1, StackForm
<1>3. {"ADDR_BP"} \in SUBSET Types
  BY OperandTypes
<1> DEFINE d == <<Item(mem, sp)>>
           r == Data(mem, Next1(sp), OperandEnd)
<1>4. /\ d \in Seq(Value) /\ Len(d) = 1 /\ d[1] = [ty |-> mem[sp].ty, val |-> mem[sp].val]
      /\ d[1].ty \in {"ADDR_BP"} /\ TopOperands = d \o r
      /\ Next1(sp) \in Int /\ sp <= Next1(sp) /\ Next1(sp) <= OperandEnd
  BY <1>3, OneOnTop
<1>5. r \in Seq(Value)
  BY <1>4, RestFacts
<1>6. mem[sp].ty = "ADDR_BP"
  BY DEF Operand, Datum
<1>7. Resolved = calls[Len(calls)].bp + s.off
  <2>1. Resolved = mem[sp].val + bp
    BY <1>6 DEF Resolved
  <2>2. s.off \in Int /\ bp \in Int
    BY <1>1, SlotFacts, FetchFacts
  <2> QED
    BY <1>1, <2>1, <2>2
<1>8. Variables(mem, calls[Len(calls)])[s] = Held(mem, Resolved, s.ty)
  BY <1>7 DEF Variables, Fn
<1> HIDE DEF d, r
<1>9. d[1] = [ty |-> "ADDR_BP", val |-> s.off]
  BY <1>4, <1>6
<1> QED
  BY <1>2, <1>4, <1>5, <1>7, <1>8, <1>9 DEF d, r

LEMMA AbstractTop ==
  ASSUME IInv, Running
  PROVE  /\ Abstract!Top = Stack[Len(calls)] /\ Abstract!Top.fn = Fn
         /\ [f \in Program |-> Slots(f)][Abstract!Top.fn] = Slots(Fn)
         /\ Len(Stack) = Len(calls)
<1>1. /\ Len(Stack) = Len(calls) /\ Stack[Len(calls)].fn = Fn /\ Fn \in Program
  BY StackForm, RunningFacts
<1>2. Abstract!Top = Stack[Len(calls)]
  BY <1>1 DEF Abstract!Top
<1> QED
  BY <1>1, <1>2

LEMMA ReadMemReads ==
  ASSUME IInv, ReadMem
  PROVE  \E x \in [f \in Program |-> Slots(f)][Abstract!Top.fn] : Abstract!Read(x)
<1> DEFINE l == Len(calls)
           a == Next1(sp)
           top == Stack[l]
<1>0. /\ Fetch /\ UNCHANGED <<bp, pc, ret, calls>> /\ Operand(sp, {"ADDR_BP"})
      /\ Result(a, mem[Resolved].ty, mem[Resolved].val) /\ Running
  BY DEF ReadMem, Step, Fetch, Running
<1>1. PICK s \in Slots(Fn) : s.off = mem[sp].val /\ Datum(Resolved, {s.ty})
  BY DEF ReadMem
<1>2. Fn \in Program /\ mem \in Memory /\ {"ADDR_BP"} \in SUBSET Types
  BY <1>0, FetchFacts, OperandTypes
<1>3. s.ty \in DataTypes /\ s.ty \in Types /\ s.ty # "ZERO"
  <2>1. s.ty \in DataTypes
    BY <1>2, SlotFacts
  <2> QED
    BY <2>1, SizeFacts, SizeAssumption
<1> DEFINE w == Item(mem, Resolved)
           d == <<Item(mem, sp)>>
           r == Data(mem, a, OperandEnd)
<1>4. /\ Resolved \in Mem /\ mem[Resolved].ty = s.ty /\ mem[Resolved].val \in Int
      /\ w = [ty |-> mem[Resolved].ty, val |-> mem[Resolved].val]
      /\ Held(mem, Resolved, s.ty) = w
  <2>1. /\ Resolved \in Mem /\ mem[Resolved].ty = s.ty
        /\ At(mem, Resolved, mem[Resolved].ty, mem[Resolved].val)
    BY <1>1 DEF Datum
  <2>2. mem[Resolved].val \in Int
    BY <1>2, <2>1 DEF Memory, Cell
  <2> QED
    BY <2>1, <2>2 DEF Held, Item
<1>5. /\ top.ops = d \o r /\ d[1] = [ty |-> "ADDR_BP", val |-> s.off]
      /\ d \in Seq(Value) /\ r \in Seq(Value) /\ Len(d) = 1
      /\ top.fn = Fn /\ top.vars[s] = w
  BY <1>0, <1>1, <1>4, AddressedSlot
<1>6. a \in Int /\ sp <= a /\ a <= OperandEnd /\ Tiled(mem, a, OperandEnd)
  BY <1>0, <1>2, OneOnTop
<1>7. Agree(mem, mem', OperandEnd) /\ TopOperands' = <<w>> \o r /\ Running'
  BY <1>0, <1>3, <1>4, <1>6, OperandsReplaced
<1>8. Stack' = [Stack EXCEPT ![l].ops = <<w>> \o r]
  BY <1>0, <1>7, StackOperands
<1>9. top.vars[s] # Unset
  BY <1>3, <1>4, <1>5 DEF Unset
<1>10. top.ops # <<>> /\ Head(top.ops) = [ty |-> "ADDR_BP", val |-> s.off] /\ Tail(top.ops) = r
  <2> HIDE DEF d, r, top
  <2> QED
    BY <1>5, HeadTail
<1>11. Abstract!Top = top /\ Len(Stack) = l
  BY <1>0, AbstractTop
<1>12. /\ (IF Running THEN "running" ELSE pc) = "running"
       /\ (IF Running' THEN "running" ELSE pc') = "running"
  BY <1>0, <1>7
<1>13. Stack' = [Stack EXCEPT ![Len(Stack)].ops = <<Abstract!Top.vars[s]>> \o Tail(@)]
  <2> HIDE DEF w, r, d
  <2> QED
    BY <1>5, <1>8, <1>10, <1>11
<1> HIDE DEF top
<1>14. [f \in Program |-> [x \in Slots(f) |-> [ty |-> "ADDR_BP", val |-> x.off]]][Abstract!Top.fn][s]
         = [ty |-> "ADDR_BP", val |-> s.off]
  BY <1>2, <1>5, <1>11
<1>15. Abstract!Running
  BY <1>12 DEF Abstract!Running
<1>16. Abstract!Read(s)
  BY <1>9, <1>10, <1>11, <1>13, <1>14, <1>15 DEF Abstract!Read
<1> QED
  BY <1>0, <1>16, AbstractTop

LEMMA WriteMemAssigns ==
  ASSUME IInv, WriteMem
  PROVE  \E x \in [f \in Program |-> Slots(f)][Abstract!Top.fn] : Abstract!Assign(x)
<1> DEFINE a   == Next1(sp)
           b   == Next1(a)
           e   == OperandEnd
           l   == Len(calls)
           t   == mem[a].ty
           v   == mem[a].val
           s   == [off |-> mem[sp].val, ty |-> t]
           g   == [ty |-> t, val |-> v]
           m1  == Erase(mem, sp, b)
           q   == bp + s.off
           r   == Data(mem, b, e)
           top == Stack[l]
           c   == calls[l]
<1>0. /\ Fetch /\ UNCHANGED <<bp, pc, ret, calls>>
      /\ Operand(sp, {"ADDR_BP"}) /\ Operand(a, DataTypes) /\ s \in Slots(Fn)
      /\ mem' = Put(m1, Resolved, t, v) /\ sp' = b
      /\ Running /\ Running' /\ pc' = "exec" /\ OperandEnd' = e
  BY DEF WriteMem, Step, Fetch, Running, OperandEnd
<1>1. /\ Typed /\ mem \in Memory /\ sp \in Int /\ bp \in Int /\ Fn \in Program /\ bp = c.bp
      /\ StackOK(mem, sp, bp, calls) /\ CodeEnd <= sp /\ FramesOK(mem, calls)
      /\ e = Limit(calls) /\ e \in Int /\ l \in Nat /\ l >= 1 /\ l \in 1 .. l
      /\ e <= MemSize /\ e = c.bp - c.fs
  BY <1>0, FetchFacts, RunningFacts, LimitFacts DEF Limit
<1> DEFINE p == <<Item(mem, sp), Item(mem, a)>>
<1>2. /\ p \in Seq(Value) /\ Len(p) = 2 /\ p[1].ty \in {"ADDR_BP"} /\ p[2].ty \in DataTypes
      /\ p[1] = [ty |-> mem[sp].ty, val |-> mem[sp].val] /\ p[2] = g
      /\ TopOperands = p \o r
      /\ b \in Int /\ sp <= b /\ b <= e /\ Tiled(mem, b, e)
  BY <1>0, OperandTypes, TwoOnTop
<1>3. /\ r \in Seq(Value) /\ mem[sp].ty = "ADDR_BP" /\ s.off = mem[sp].val /\ s.ty = t
      /\ p[1] = [ty |-> "ADDR_BP", val |-> s.off]
  <2>1. mem[sp].ty = "ADDR_BP"
    BY <1>0 DEF Operand, Datum
  <2>2. r \in Seq(Value)
    BY <1>0, <1>2, RestFacts
  <2> QED
    BY <1>2, <2>1, <2>2
<1>4. s.off \in Int /\ t \in Types /\ v \in Int /\ Resolved = q
  <2>1. s.off \in Int /\ s.ty \in DataTypes
    BY <1>0, <1>1, SlotFacts
  <2>2. p[2] \in Value
    BY <1>2
  <2>3. v \in Int
    BY <1>2, <2>2 DEF Value
  <2>4. Resolved = mem[sp].val + bp
    BY <1>3 DEF Resolved
  <2> QED
    BY <1>1, <1>3, <2>1, <2>3, <2>4, SizeFacts
<1> HIDE DEF p, r, s, b, g, m1, a, e
<1>5. m1 \in Memory /\ StackOK(m1, b, bp, calls) /\ Agree(mem, m1, b) /\ FramesOK(m1, calls)
  <2>1. m1 \in Memory /\ StackOK(m1, b, bp, calls) /\ Agree(mem, m1, b)
    BY <1>1, <1>2, StackPop DEF m1
  <2> QED
    BY <2>1 DEF StackOK
<1>6. mem' = Put(m1, q, s.ty, v) /\ mem' = Put(m1, c.bp + s.off, s.ty, v)
  BY <1>0, <1>1, <1>3, <1>4
<1>7. q \in Int /\ e <= q /\ CodeEnd <= b /\ 0 <= e
  <2>1. s \in Slots(calls[l].fn)
    BY <1>0 DEF Fn
  <2>2. c.bp - c.fs <= c.bp + s.off /\ c.bp + s.off \in Int
    BY <1>1, <1>5, <2>1, SlotPlace
  <2>3. CodeEnd <= b /\ 0 <= e
    BY <1>1, <1>2, SizeFacts
  <2> QED
    BY <1>1, <2>2, <2>3
<1>8. Variables(mem', c) = [Variables(mem, c) EXCEPT ![s] = g]
  <2>1. Variables(m1, c) = Variables(mem, c)
    <3>1. b <= c.bp - c.fs
      BY <1>1, <1>2
    <3> QED
      BY <1>1, <1>2, <1>5, <3>1, VariablesSame, SMTT(30)
  <2>2. s \in Slots(calls[l].fn) /\ 0 <= c.bp - c.fs
    BY <1>0, <1>1, <1>7 DEF Fn
  <2>3. Variables(Put(m1, c.bp + s.off, s.ty, v), c)
          = [Variables(m1, c) EXCEPT ![s] = [ty |-> s.ty, val |-> v]]
    <3> DEFINE k == calls
               i == Len(k)
    <3>1. /\ m1 \in Memory /\ FramesOK(m1, k) /\ i \in 1 .. Len(k) /\ s \in Slots(k[i].fn)
          /\ v \in Int /\ 0 <= k[i].bp - k[i].fs
      BY <1>1, <1>4, <1>5, <2>2
    <3> HIDE DEF k, i, v
    <3>2. Variables(Put(m1, k[i].bp + s.off, s.ty, v), k[i])
            = [Variables(m1, k[i]) EXCEPT ![s] = [ty |-> s.ty, val |-> v]]
      BY <3>1, VariablesAssign, SMTT(30)
    <3> QED
      BY <3>2 DEF k, i
  <2>4. g = [ty |-> s.ty, val |-> v]
    BY <1>3 DEF g
  <2> QED
    BY <1>6, <2>1, <2>3, <2>4
<1>9. Data(mem', b, e) = r
  <2>1. Same(mem, mem', b, e)
    <3> SUFFICES ASSUME NEW x \in b .. (e - 1) PROVE mem[x] = mem'[x]
      BY DEF Same
    <3>1. x \in Mem /\ b <= x /\ x < q
      BY <1>1, <1>2, <1>7, SizeFacts DEF Mem
    <3>2. m1[x] = mem[x]
      BY <1>5, <3>1 DEF Agree
    <3>3. mem'[x] = m1[x]
      <4>1. s.ty \in Types
        BY <1>3, <1>4
      <4> DEFINE z == s.ty
      <4>2. /\ m1 \in Memory /\ q \in Int /\ z \in Types /\ v \in Int /\ x \in Mem
            /\ x < q \/ x >= q + Size[z]
        BY <1>4, <1>5, <1>7, <3>1, <4>1
      <4> HIDE DEF q, v, z
      <4>3. Put(m1, q, z, v)[x] = m1[x]
        BY <4>2, PutElsewhere
      <4> QED
        BY <1>6, <4>3 DEF z
    <3> QED
      BY <3>2, <3>3
  <2> QED
    BY <1>1, <1>2, <2>1, DataSame DEF r
<1>10. TopOperands' = r
  <2>1. TopOperands' = Data(mem', sp', OperandEnd')
    BY <1>0 DEF TopOperands
  <2> QED
    BY <1>0, <1>9, <2>1
<1>11. ASSUME NEW i \in 1 .. l, i # l PROVE Activation(i)' = Activation(i)
  <2>1. i \in 1 .. (l - 1) /\ i < l /\ l > 1
    <3> HIDE DEF l
    <3> QED
      BY <1>1, <1>11
  <2> DEFINE n == c.top
  <2>2. n \in Int /\ b <= n
    <3>1. c.top \in Int /\ c.bp <= c.top /\ c.fs \in Nat
      BY <1>1, <2>1, LimitFacts
    <3> QED
      BY <1>1, <1>2, <3>1, SMTT(30)
  <2>3. Agree(m1, mem', n)
    BY <1>0, <1>1, <1>4, <1>5, <1>6, <1>7, <2>1, <1>2, StackAssign, SMTT(30) DEF Fn
  <2> HIDE DEF n
  <2>4. Agree(mem, mem', n)
    BY <1>2, <1>5, <2>2, <2>3 DEF Agree, Mem
  <2>5. n <= c.top
    BY <2>2 DEF n
  <2>6. /\ Variables(mem, calls[i]) = Variables(mem', calls[i])
        /\ Data(mem, calls[i + 1].top, calls[i].bp - calls[i].fs)
             = Data(mem', calls[i + 1].top, calls[i].bp - calls[i].fs)
    BY <1>1, <2>1, <2>2, <2>4, <2>5, CallersSame
  <2> QED
    BY <1>0, <1>11, <2>6 DEF Activation, Operands
<1>12. ASSUME NEW i \in 1 .. l
       PROVE  Activation(i)' =
                IF i = l THEN [fn |-> Fn, vars |-> [Variables(mem, c) EXCEPT ![s] = g], ops |-> r]
                         ELSE Activation(i)
  <2>1. CASE i = l
    BY <1>0, <1>8, <1>10, <2>1 DEF Activation, Operands, Fn
  <2>2. CASE i # l
    BY <1>11, <2>2
  <2> QED
    BY <2>1, <2>2
<1>13. /\ Stack = [i \in 1 .. l |-> Activation(i)] /\ Len(Stack) = l
       /\ Stack' = [i \in 1 .. l |-> Activation(i)']
       /\ top = [fn |-> Fn, vars |-> Variables(mem, c), ops |-> p \o r]
  BY <1>0, <1>2, StackForm DEF Stack, Activation
<1>t. top.fn = Fn /\ top.vars = Variables(mem, c) /\ top.ops = p \o r
  <2> HIDE DEF top, c
  <2> QED
    BY <1>13
<1>14. Stack' = [Stack EXCEPT ![l] = [fn |-> Fn, vars |-> [Variables(mem, c) EXCEPT ![s] = g],
                                     ops |-> r]]
  <2> DEFINE h == [fn |-> Fn, vars |-> [Variables(mem, c) EXCEPT ![s] = g], ops |-> r]
  <2>1. \A i \in 1 .. l : Activation(i)' = IF i = l THEN h ELSE Activation(i)
    BY <1>12
  <2> HIDE DEF h
  <2>2. [Stack EXCEPT ![l] = h] = [i \in 1 .. l |-> IF i = l THEN h ELSE Activation(i)]
    BY <1>1, <1>13
  <2> HIDE DEF l
  <2>3. Stack' = [Stack EXCEPT ![l] = h]
    BY <1>13, <2>1, <2>2
  <2> QED
    BY <2>3 DEF h
<1>15. /\ Len(top.ops) >= 2 /\ top.ops[1] = [ty |-> "ADDR_BP", val |-> s.off]
       /\ top.ops[2] = g /\ SubSeq(top.ops, 3, Len(top.ops)) = r
  <2>1. /\ Len(p \o r) = Len(p) + Len(r) /\ SubSeq(p \o r, Len(p) + 1, Len(p \o r)) = r
        /\ \A i \in 1 .. Len(p) : (p \o r)[i] = p[i]
    <3>1. p \in Seq(Value) /\ r \in Seq(Value)
      BY <1>2, <1>3
    <3> QED
      BY <3>1, SequenceParts
  <2>2. top.ops = p \o r /\ Len(r) \in Nat
    BY <1>3, <1>t
  <2>3. (p \o r)[1] = p[1] /\ (p \o r)[2] = p[2] /\ Len(p) + 1 = 3
    BY <1>2, <2>1
  <2> HIDE DEF top
  <2>4. Len(top.ops) >= 2
    BY <1>2, <2>1, <2>2
  <2> QED
    BY <1>2, <1>3, <2>1, <2>2, <2>3, <2>4
<1>16. Stack' = [Stack EXCEPT ![Len(Stack)].ops = Abstract!Dropped(@, 2),
                              ![Len(Stack)].vars[s] = top.ops[2]]
  <2>1. Abstract!Dropped(top.ops, 2) = r
    BY <1>15 DEF Abstract!Dropped
  <2>2. top.vars = Variables(mem, c) /\ top.fn = Fn
    BY <1>13
  <2> DEFINE A == Activation(l)
             V == Variables(mem, c)
             o == p \o r
  <2>3. /\ Stack[l] = [fn |-> Fn, vars |-> V, ops |-> o] /\ Len(Stack) = l
        /\ top.ops[2] = g /\ Abstract!Dropped(o, 2) = r
        /\ Stack' = [Stack EXCEPT ![l] = [fn |-> Fn, vars |-> [V EXCEPT ![s] = g], ops |-> r]]
    <3>1. Stack[l] = [fn |-> Fn, vars |-> V, ops |-> o] /\ top.ops = o
      BY <1>13, <1>t
    <3>2. Abstract!Dropped(o, 2) = r
      BY <2>1, <3>1
    <3> QED
      BY <1>13, <1>14, <1>15, <3>1, <3>2
  <2> HIDE DEF V, o, top
  <2>4. [Stack EXCEPT ![l].ops = Abstract!Dropped(@, 2), ![l].vars[s] = g]
          = [Stack EXCEPT ![l] = [Stack[l] EXCEPT !.ops = Abstract!Dropped(@, 2), !.vars[s] = g]]
    BY <1>13, <1>1
  <2>5. [Stack[l] EXCEPT !.ops = Abstract!Dropped(@, 2), !.vars[s] = g]
          = [fn |-> Fn, vars |-> [V EXCEPT ![s] = g], ops |-> r]
    <3> DEFINE y == Stack[l]
               W == [V EXCEPT ![s] = g]
               o2 == Abstract!Dropped(o, 2)
    <3>1. y = [fn |-> Fn, vars |-> V, ops |-> o] /\ y.vars = V /\ y.ops = o
      BY <2>3
    <3>2. [y EXCEPT !.ops = Abstract!Dropped(@, 2), !.vars[s] = g]
            = [y EXCEPT !.ops = Abstract!Dropped(y.ops, 2), !.vars = [y.vars EXCEPT ![s] = g]]
      OBVIOUS
    <3> HIDE DEF y, W, o2
    <3>3. [y EXCEPT !.ops = o2, !.vars = W] = [fn |-> Fn, vars |-> W, ops |-> o2]
      <4>1. [y EXCEPT !.ops = o2, !.vars = W]
              = [x \in DOMAIN y |-> IF x = "vars" THEN W ELSE IF x = "ops" THEN o2 ELSE y[x]]
        OBVIOUS
      <4>2. DOMAIN y = {"fn", "vars", "ops"} /\ y.fn = Fn
        BY <3>1
      <4> QED
        BY <4>1, <4>2
    <3>4. [y EXCEPT !.ops = Abstract!Dropped(y.ops, 2), !.vars = [y.vars EXCEPT ![s] = g]]
            = [y EXCEPT !.ops = o2, !.vars = W]
      BY <3>1 DEF o2, W
    <3> QED
      BY <2>3, <3>2, <3>3, <3>4 DEF y, W, o2
  <2> QED
    BY <2>3, <2>4, <2>5
<1>17. Abstract!Top = top /\ Len(Stack) = l /\ top.fn = Fn
  BY <1>0, <1>13, AbstractTop
<1>18. Abstract!Running
  BY <1>0 DEF Abstract!Running
<1> HIDE DEF top
<1>19. [f \in Program |-> [x \in Slots(f) |-> [ty |-> "ADDR_BP", val |-> x.off]]][Abstract!Top.fn][s]
         = [ty |-> "ADDR_BP", val |-> s.off]
  BY <1>0, <1>1, <1>17
<1>20. Abstract!Assign(s)
  BY <1>15, <1>16, <1>17, <1>18, <1>19 DEF Abstract!Assign
<1> QED
  BY <1>0, <1>20, AbstractTop

-------------------------------------------------------------------------------
(***************************************************************************)
(* CALL.                                                                   *)
(***************************************************************************)
LEMMA AppendForm ==
  ASSUME NEW l \in Nat, NEW T, T = [i \in 1 .. l |-> T[i]], NEW n
  PROVE  Append(T, n) = [i \in 1 .. (l + 1) |-> IF i = l + 1 THEN n ELSE T[i]]
<1> DEFINE S == {T[i] : i \in 1 .. l} \union {n}
           g == Append(T, n)
           h == [i \in 1 .. (l + 1) |-> IF i = l + 1 THEN n ELSE T[i]]
<1>1. T \in [1 .. l -> S]
  OBVIOUS
<1> HIDE DEF S
<1>2. T \in Seq(S) /\ Len(T) = l
  BY <1>1
<1>3. n \in S
  BY DEF S
<1>4. g \in Seq(S) /\ Len(g) = l + 1 /\ g[l + 1] = n /\ \A i \in 1 .. l : g[i] = T[i]
  BY <1>2, <1>3
<1>5. g = [i \in 1 .. (l + 1) |-> g[i]]
  BY <1>4
<1>6. \A i \in 1 .. (l + 1) : g[i] = h[i]
  <2> HIDE DEF g
  <2>1. \A i \in 1 .. (l + 1) : i # l + 1 => i \in 1 .. l
    OBVIOUS
  <2> QED
    BY <1>4, <2>1
<1> HIDE DEF g
<1>7. g = h
  BY <1>5, <1>6
<1> QED
  BY <1>7 DEF g

LEMMA PartsShifted ==
  ASSUME NEW S, NEW p \in Seq(S), Len(p) = 2, NEW d \in Seq(S), NEW n \in Nat, n <= Len(d)
  PROVE  LET s == p \o d IN
         /\ Len(s) >= n + 2
         /\ SubSeq(s, n + 3, Len(s)) = SubSeq(d, n + 1, Len(d))
         /\ \A i \in 1 .. n : s[i + 2] = d[i]
<1> DEFINE s == p \o d
           u == SubSeq(s, n + 3, Len(s))
           w == SubSeq(d, n + 1, Len(d))
<1> HIDE DEF u, w
<1>a. /\ s \in Seq(S) /\ Len(s) = Len(p) + Len(d)
      /\ SubSeq(s, Len(p) + 1, Len(s)) = d
  <2>1. p \in Seq(S) /\ d \in Seq(S)
    OBVIOUS
  <2>2. /\ p \o d \in Seq(S) /\ Len(p \o d) = Len(p) + Len(d)
        /\ SubSeq(p \o d, Len(p) + 1, Len(p \o d)) = d
    BY ONLY <2>1, SequenceParts
  <2> QED
    BY <2>2
<1> HIDE DEF s
<1>1. s \in Seq(S) /\ Len(s) = 2 + Len(d) /\ Len(d) \in Nat /\ SubSeq(s, 3, Len(s)) = d
  BY <1>a
<1>2. \A i \in 1 .. Len(d) : s[i + 2] = d[i]
  <2>1. SubSeq(s, 3, Len(s)) = [i \in 1 .. (Len(s) - 3 + 1) |-> s[i + 3 - 1]]
    BY <1>1
  <2>2. \A i \in 1 .. Len(d) : i \in 1 .. (Len(s) - 3 + 1) /\ i + 3 - 1 = i + 2
    BY <1>1
  <2> QED
    BY <1>1, <2>1, <2>2
<1>3. Len(s) >= n + 2
  BY <1>1
<1>4. /\ u = [i \in 1 .. (Len(s) - (n + 3) + 1) |-> s[i + (n + 3) - 1]]
      /\ w = [i \in 1 .. (Len(d) - (n + 1) + 1) |-> d[i + (n + 1) - 1]]
  BY <1>1 DEF u, w
<1>5. Len(s) - (n + 3) + 1 = Len(d) - n /\ Len(d) - (n + 1) + 1 = Len(d) - n
  BY <1>1
<1>6. ASSUME NEW i \in 1 .. (Len(d) - n) PROVE s[i + (n + 3) - 1] = d[i + (n + 1) - 1]
  <2>1. i + n \in 1 .. Len(d) /\ i + (n + 3) - 1 = (i + n) + 2 /\ i + (n + 1) - 1 = i + n
    BY <1>1
  <2> QED
    BY <1>2, <2>1
<1>7. u = w
  <2> HIDE DEF u, w
  <2> QED
    BY <1>4, <1>5, <1>6
<1>8. \A i \in 1 .. n : s[i + 2] = d[i]
  <2>1. \A i \in 1 .. n : i \in 1 .. Len(d)
    BY <1>1
  <2> QED
    BY <1>2, <2>1
<1> QED
  BY <1>3, <1>7, <1>8 DEF s, u, w

Params(f) ==
  [i \in 1 .. NumArgs[f] |-> [off |-> 2 * AddrSize + ArgOff[f][i], ty |-> ArgType[f][i]]]

\* The parameters hold what the caller pushed.
LEMMA ParamsHold ==
  ASSUME NEW m \in Memory, NEW k \in Memory, NEW f \in Program, NEW b \in Int,
         0 <= b, ArgsAt(m, b, f), Agree(m, k, b), NEW i \in 1 .. NumArgs[f]
  PROVE  /\ Params(f)[i] \in Slots(f)
         /\ Held(k, b - 2 * AddrSize + Params(f)[i].off, Params(f)[i].ty)
              = Item(m, b + ArgOff[f][i])
<1> DEFINE x == Params(f)[i]
           y == b + ArgOff[f][i]
           t == ArgType[f][i]
           o == ArgOff[f][i]
<1>1. x = [off |-> 2 * AddrSize + o, ty |-> t] /\ x.off = 2 * AddrSize + o /\ x.ty = t
  BY DEF Params
<1>2. x \in Slots(f)
  BY <1>1 DEF Slots
<1>3. o \in Nat /\ t \in DataTypes /\ t \in Types /\ Size[t] \in Nat /\ Size[t] > 0 /\ AddrSize \in Nat
      /\ MemSize \in Nat
  <2>1. o \in Nat /\ t \in DataTypes /\ NumArgs[f] \in Nat
    BY ProgramFacts
  <2> QED
    BY <2>1, SizeFacts
<1>4. At(m, y, t, m[y].val)
  BY DEF ArgsAt
<1>5. b - 2 * AddrSize + x.off = y /\ y \in Int /\ b <= y /\ 0 <= y
  <2> HIDE DEF x, o
  <2> QED
    BY <1>1, <1>3 DEF o
<1> HIDE DEF x, y, t, o
<1>6. y \in Mem /\ y \in y .. (y + Size[t] - 1)
  BY <1>3, <1>4, <1>5 DEF At, Mem
<1>7. m[y].ty = t
  <2>1. m[y] = Byte(t, m[y].val, y - y)
    BY <1>4, <1>6 DEF At
  <2> QED
    BY <2>1 DEF Byte
<1>8. k[y] = m[y]
  BY <1>5, <1>6 DEF Agree
<1> DEFINE v == m[y].val
<1>9. v \in Int /\ k[y].val = v
  BY <1>6, <1>8 DEF Memory, Cell
<1> HIDE DEF v
<1>10. At(k, y, t, v)
  <2>1. At(m, y, t, v)
    BY <1>4 DEF v
  <2> QED
    BY <1>3, <1>5, <1>9, <2>1, AtAgree
<1>11. Held(k, y, t) = Item(m, y)
  BY <1>6, <1>7, <1>8, <1>9, <1>10 DEF Held, Item
<1>12. Held(k, b - 2 * AddrSize + x.off, x.ty) = Item(m, y)
  BY <1>1, <1>5, <1>11
<1> QED
  BY <1>2, <1>12 DEF x, y, o

LEMMA CallCalls ==
  ASSUME IInv, NEW f \in Funcs, Call(f)
  PROVE  Abstract!Call(f)
<1> DEFINE a    == Next1(sp)
           b    == a + IntSize
           e    == OperandEnd
           l    == Len(calls)
           n    == NumArgs[f]
           t    == b + ArgTotal(f)
           c    == [fn |-> f, bp |-> b - 2 * AddrSize, fs |-> FrameSize[f],
                    ret |-> ip + 1, link |-> bp, top |-> t]
           p    == <<Item(mem, sp), Item(mem, a)>>
           d    == Data(mem, b, e)
           rest == Data(mem, t, e)
           V    == Variables(mem', c)
           new  == [fn |-> f, vars |-> V, ops |-> <<>>]
           top  == Stack[l]
<1>0. /\ Fetch /\ UNCHANGED <<pc, ret>> /\ Operand(sp, {"ADDR_IP"}) /\ Operand(a, {"INT"})
      /\ Running /\ Running' /\ pc' = "exec"
  BY DEF Call, Fetch, Running
<1>1. /\ Typed /\ mem \in Memory /\ sp \in Int /\ FramesOK(mem, calls)
      /\ e = Limit(calls) /\ e \in Int /\ l \in Nat /\ l >= 1 /\ l \in 1 .. l
      /\ e <= MemSize /\ e = calls[l].bp - calls[l].fs /\ calls \in Seq(Frame) /\ CodeEnd <= sp
  BY <1>0, FetchFacts, RunningFacts, LimitFacts DEF Limit, FramesOK
<1>2. /\ IInv'
      /\ b \in Int /\ 0 <= b /\ sp <= b /\ b <= e
      /\ t \in Int /\ b <= t /\ t <= e
      /\ ArgsAt(mem, b, f) /\ Agree(mem, mem', b)
      /\ bp' = b - 2 * AddrSize /\ sp' = b - 2 * AddrSize - FrameSize[f]
      /\ calls' = Append(calls, c)
  BY CallSafe
<1>3. mem' \in Memory /\ f \in Program /\ n \in Nat
  BY <1>2, ProgramFacts DEF IInv, Typed, Memory, Program
<1>4. /\ p \in Seq(Value) /\ Len(p) = 2 /\ TopOperands = p \o d
  <2>1. /\ p \in Seq(Value) /\ Len(p) = 2 /\ p[2].ty \in {"INT"}
        /\ p[2] = [ty |-> mem[a].ty, val |-> mem[a].val]
        /\ TopOperands = p \o Data(mem, Next1(a), e)
    BY <1>0, OperandTypes, TwoOnTop
  <2>2. mem[a].ty = "INT"
    BY <2>1
  <2>3. Next1(a) = b
    BY <2>2 DEF Next1, IntSize
  <2> QED
    BY <2>1, <2>3
<1>5. d \in Seq(Value) /\ rest \in Seq(Value)
  <2> HIDE DEF t, b, e
  <2>1. sp <= t
    BY <1>1, <1>2
  <2> QED
    BY <1>0, <1>2, <2>1, RestFacts DEF e
<1>6. /\ Len(d) >= n /\ SubSeq(d, n + 1, Len(d)) = rest
      /\ \A j \in 1 .. n : d[j] = Item(mem, b + ArgOff[f][j])
  <2>1. n + 1 \in 1 .. (NumArgs[f] + 1) /\ n + 1 - 1 = n
    BY <1>3
  <2>2. b + ArgTotal(f) <= e
    BY <1>2
  <2> DEFINE k == n + 1
  <2>a. /\ mem \in Memory /\ f \in Program /\ b \in Int /\ e \in Int /\ 0 <= b /\ e <= MemSize
        /\ b + ArgTotal(f) <= e /\ ArgsAt(mem, b, f) /\ k \in 1 .. (NumArgs[f] + 1)
    BY <1>1, <1>2, <1>3, <2>1, <2>2
  <2> HIDE DEF b, e, k
  <2>b. LET g == Data(mem, b, e) IN
         /\ Len(g) >= k - 1
         /\ SubSeq(g, k, Len(g)) = Data(mem, b + ArgOff[f][k], e)
         /\ \A j \in 1 .. (k - 1) : g[j] = Item(mem, b + ArgOff[f][j])
    BY <2>a, DataArgs
  <2>3. k - 1 = n /\ k = n + 1
    BY <1>3 DEF k
  <2>4. b + ArgOff[f][k] = t
    BY <2>3 DEF ArgTotal
  <2> HIDE DEF n, t
  <2> QED
    BY <2>b, <2>3, <2>4
<1> HIDE DEF p, d, rest, t, b, e, V, a
<1>7. /\ Len(top.ops) >= n + 2 /\ SubSeq(top.ops, n + 3, Len(top.ops)) = rest
      /\ \A j \in 1 .. n : top.ops[j + 2] = d[j]
      /\ top = [fn |-> Fn, vars |-> Variables(mem, calls[l]), ops |-> p \o d]
  <2>1. top = [fn |-> Fn, vars |-> Variables(mem, calls[l]), ops |-> p \o d]
    BY <1>0, <1>4, StackForm
  <2>2. top.ops = p \o d
    BY <2>1
  <2>3. /\ Len(p \o d) >= n + 2
        /\ SubSeq(p \o d, n + 3, Len(p \o d)) = SubSeq(d, n + 1, Len(d))
        /\ \A i \in 1 .. n : (p \o d)[i + 2] = d[i]
    <3>1. p \in Seq(Value) /\ Len(p) = 2 /\ d \in Seq(Value) /\ n \in Nat /\ n <= Len(d)
      BY <1>3, <1>4, <1>5, <1>6
    <3> HIDE DEF n
    <3> QED
      BY <3>1, PartsShifted
  <2> HIDE DEF top
  <2> QED
    BY <1>6, <2>1, <2>2, <2>3
\* the frames
<1>8. /\ Len(calls') = l + 1 /\ calls'[l + 1] = c /\ \A i \in 1 .. l : calls'[i] = calls[i]
  <2> HIDE DEF c
  <2>1. c \in Frame
    <3>1. calls' \in Seq(Frame) /\ Len(calls') \in 1 .. Len(calls')
      <4>1. FramesOK(mem', calls')
        BY <1>0, <1>2 DEF IInv, StackOK
      <4> QED
        BY <4>1, LimitFacts DEF FramesOK
    <3>2. calls'[Len(calls')] = c
      BY <1>1, <1>2
    <3> QED
      BY <3>1, <3>2
  <2> QED
    BY <1>1, <1>2, <2>1
<1>9. c.fn = f /\ c.bp = b - 2 * AddrSize /\ c.fs = FrameSize[f] /\ c.top = t
  OBVIOUS
<1> HIDE DEF c
<1>10. ASSUME NEW i, i = l + 1
       PROVE  Activation(i)' = new
  <2>1. Operands(i)' = TopOperands'
    BY <1>8, <1>10 DEF Operands
  <2>2. TopOperands' = Data(mem', sp', OperandEnd')
    BY <1>0 DEF TopOperands
  <2>3. OperandEnd' = sp' /\ sp' \in Int
    BY <1>1, <1>2, <1>8, <1>9 DEF OperandEnd, IInv, Typed
  <2>4. Data(mem', sp', sp') = <<>>
    BY <2>3, DataEmpty
  <2> QED
    BY <1>8, <1>9, <1>10, <2>1, <2>2, <2>3, <2>4 DEF Activation, V
<1>11. ASSUME NEW i \in 1 .. l
       PROVE  Activation(i)' = IF i = l THEN [fn |-> Fn, vars |-> Variables(mem, calls[l]), ops |-> rest]
                                        ELSE Activation(i)
  <2>0. b <= Limit(calls) /\ i # l + 1 /\ i + 1 \in 1 .. (l + 1) /\ l + 1 \in Nat
    BY <1>1, <1>2
  <2>1. /\ Variables(mem, calls[i]) = Variables(mem', calls[i])
        /\ i < l => Data(mem, calls[i + 1].top, calls[i].bp - calls[i].fs)
                      = Data(mem', calls[i + 1].top, calls[i].bp - calls[i].fs)
    <3>1. FramesOK(mem, calls) /\ b \in Int /\ Agree(mem, mem', b) /\ i \in 1 .. Len(calls)
      BY <1>1, <1>2
    <3> QED
      BY <2>0, <3>1, WaitingSame
  <2>2. Operands(i)' = Data(mem', calls'[i + 1].top, calls[i].bp - calls[i].fs)
    <3>1. Operands(i)' = IF i = Len(calls') THEN TopOperands'
                         ELSE Data(mem', calls'[i + 1].top, calls'[i].bp - calls'[i].fs)
      BY DEF Operands
    <3> QED
      BY <1>8, <2>0, <3>1
  <2>3. CASE i = l
    <3>1. Same(mem, mem', t, e)
      <4>1. ASSUME NEW x \in t .. (e - 1) PROVE x \in Mem /\ x >= b
        BY <1>1, <1>2, SizeFacts DEF Mem
      <4> QED
        BY <1>2, <4>1 DEF Same, Agree
    <3>2. Data(mem', t, e) = rest
      BY <1>1, <1>2, <3>1, DataSame DEF rest
    <3>3. Operands(i)' = rest
      BY <1>1, <1>8, <1>9, <2>2, <2>3, <3>2
    <3> QED
      BY <1>8, <2>1, <2>3, <3>3 DEF Activation, Fn
  <2>4. CASE i # l
    <3>1. i < l /\ i + 1 \in 1 .. l
      BY <2>4, <1>1
    <3>2. Operands(i)' = Operands(i)
      BY <1>8, <2>1, <2>2, <2>4, <3>1 DEF Operands
    <3> QED
      BY <1>8, <2>1, <2>4, <3>2 DEF Activation
  <2> QED
    BY <2>3, <2>4
<1> DEFINE h == [fn |-> Fn, vars |-> Variables(mem, calls[l]), ops |-> rest]
           T == [i \in 1 .. l |-> IF i = l THEN h ELSE Activation(i)]
<1>12. /\ Stack = [i \in 1 .. l |-> Activation(i)] /\ Len(Stack) = l
       /\ Stack' = [i \in 1 .. (l + 1) |-> Activation(i)'] /\ Len(Stack') = l + 1
  <2>1. Stack = [i \in 1 .. l |-> Activation(i)] /\ Len(Stack) = l
    BY <1>0, StackForm
  <2>2. Stack' = [i \in 1 .. Len(calls') |-> Activation(i)']
    BY <1>0 DEF Stack, Activation
  <2>3. l + 1 \in Nat
    BY <1>1
  <2>4. Len(calls') = l + 1
    BY <1>8
  <2>5. Stack' = [i \in 1 .. (l + 1) |-> Activation(i)']
    BY <2>2, <2>4
  <2>6. Len(Stack') = l + 1
    <3> HIDE DEF l
    <3> QED
      BY <2>3, <2>5
  <2> QED
    BY <2>1, <2>5, <2>6
<1>13. Stack' = Append(T, new)
  <2>1. T = [i \in 1 .. l |-> T[i]]
    OBVIOUS
  <2> HIDE DEF T
  <2>2. Append(T, new) = [i \in 1 .. (l + 1) |-> IF i = l + 1 THEN new ELSE T[i]]
    BY <1>1, <2>1, AppendForm
  <2>3. ASSUME NEW i \in 1 .. (l + 1)
        PROVE  Activation(i)' = IF i = l + 1 THEN new ELSE T[i]
    <3>1. CASE i = l + 1
      BY <1>10, <3>1
    <3>2. CASE i # l + 1
      <4>1. i \in 1 .. l
        BY <1>1, <3>2
      <4> QED
        BY <1>11, <3>2, <4>1 DEF T, h
    <3> QED
      BY <3>1, <3>2
  <2> HIDE DEF new
  <2> QED
    BY <1>12, <2>2, <2>3
<1>14. T = [Stack EXCEPT ![l] = h]
  BY <1>1, <1>12
<1>15. [top EXCEPT !.ops = rest] = h
  <2>1. [top EXCEPT !.ops = rest] = [x \in DOMAIN top |-> IF x = "ops" THEN rest ELSE top[x]]
    OBVIOUS
  <2>2. DOMAIN top = {"fn", "vars", "ops"} /\ top.fn = Fn /\ top.vars = Variables(mem, calls[l])
    <3> HIDE DEF top
    <3> QED
      BY <1>7
  <2> QED
    BY <2>1, <2>2
<1>16. T = [Stack EXCEPT ![Len(Stack)].ops = Abstract!Dropped(@, n + 2)]
  <2>1. Abstract!Dropped(top.ops, n + 2) = rest
    <3>1. n + 2 + 1 = n + 3
      BY <1>3
    <3> QED
      BY <1>7, <3>1 DEF Abstract!Dropped
  <2> QED
    BY <1>12, <1>14, <1>15, <2>1
<1>17. ASSUME NEW i \in 1 .. n
       PROVE  V[Params(f)[i]] = top.ops[i + 2]
  <2>1. /\ Params(f)[i] \in Slots(f)
        /\ Held(mem', b - 2 * AddrSize + Params(f)[i].off, Params(f)[i].ty)
              = Item(mem, b + ArgOff[f][i])
    BY <1>1, <1>2, <1>3, ParamsHold
  <2>2. V[Params(f)[i]] = Item(mem, b + ArgOff[f][i])
    BY <1>9, <2>1 DEF V, Variables
  <2> QED
    BY <1>6, <1>7, <2>2
<1>18. DOMAIN V = Slots(f)
  BY <1>9 DEF V, Variables
<1>19. Abstract!Top = top /\ Abstract!Running
  <2>1. Abstract!Running
    BY <1>0 DEF Abstract!Running
  <2>2. Abstract!Top = Stack[l]
    BY <1>0, AbstractTop
  <2> QED
    BY <2>1, <2>2
<1>20. Stack'[Len(Stack')].vars = V
  <2>1. l + 1 \in 1 .. (l + 1) /\ l + 1 \in Nat
    BY <1>1
  <2>2. ASSUME NEW i, i = l + 1 PROVE Stack'[i] = new
    <3> HIDE DEF new, l
    <3>1. Stack'[i] = Activation(i)'
      BY <1>12, <2>1, <2>2
    <3> QED
      BY <1>10, <2>2, <3>1
  <2>3. Stack'[l + 1] = new
    BY <2>2
  <2> QED
    BY <1>12, <2>3
<1> DEFINE Ps == [g \in Program |->
                   [i \in 1 .. NumArgs[g] |->
                     [off |-> 2 * AddrSize + ArgOff[g][i], ty |-> ArgType[g][i]]]]
           Vs == [g \in Program |-> Slots(g)]
<1>21. Ps[f] = Params(f) /\ Vs[f] = Slots(f) /\ Len(Ps[f]) = n
  <2>1. Ps[f] = Params(f)
    BY <1>3 DEF Params
  <2>2. Len(Params(f)) = n
    BY <1>3 DEF Params
  <2> QED
    BY <1>3, <2>1, <2>2
<1> HIDE DEF Ps, Vs, top, T
<1>22. /\ Len(Stack') = Len(Stack) + 1 /\ Len(Abstract!Top.ops) >= Len(Ps[f]) + 2
       /\ DOMAIN Stack'[Len(Stack')].vars = Vs[f]
       /\ \A i \in 1 .. Len(Ps[f]) :
            Stack'[Len(Stack')].vars[Ps[f][i]] = Abstract!Top.ops[i + 2]
  BY <1>7, <1>12, <1>17, <1>18, <1>19, <1>20, <1>21
<1>23. Stack' = Append([Stack EXCEPT ![Len(Stack)].ops = Abstract!Dropped(@, Len(Ps[f]) + 2)],
                       [fn |-> f, vars |-> Stack'[Len(Stack')].vars, ops |-> <<>>])
  BY <1>13, <1>16, <1>20, <1>21
<1> QED
  BY <1>19, <1>22, <1>23, Zenon DEF Abstract!Call, Ps, Vs

-------------------------------------------------------------------------------
(***************************************************************************)
(* RET, up to the frame.                                                   *)
(***************************************************************************)
LEMMA PopKeeps ==
  ASSUME mem \in Memory, sp \in Int, StackOK(mem, sp, bp, calls), CodeEnd <= sp,
         NEW a \in Int, sp <= a, a <= OperandEnd, Tiled(mem, a, OperandEnd),
         mem' = Erase(mem, sp, a), UNCHANGED <<bp, calls>>
  PROVE  /\ Agree(mem, mem', OperandEnd) /\ OperandEnd' = OperandEnd
         /\ Data(mem', a, OperandEnd') = Data(mem, a, OperandEnd)
         /\ Data(mem, a, OperandEnd) \in Seq(Value)
<1> DEFINE e == OperandEnd
<1>1. FramesOK(mem, calls) /\ e = Limit(calls) /\ OperandEnd' = e
  BY DEF StackOK, OperandEnd, Limit
<1>2. e \in Int /\ e <= MemSize
  BY <1>1, LimitFacts
<1>3. mem' \in Memory /\ Agree(mem, mem', a)
  BY <1>1, StackPop
<1>4. 0 <= a
  BY SizeFacts
<1>5. Agree(mem, mem', e)
  BY <1>2, <1>3 DEF Agree, Mem
<1>6. a <= e
  OBVIOUS
<1> HIDE DEF e
<1>7. Data(mem', a, e) = Data(mem, a, e)
  <2>1. Same(mem, mem', a, e)
    BY <1>2, <1>3, <1>4, SizeFacts DEF Same, Agree, Mem
  <2> QED
    BY <1>2, <1>6, <2>1, DataSame
<1>8. Data(mem, a, e) \in Seq(Value)
  BY <1>2, <1>4, <1>6, DataTyped
<1> QED
  BY <1>1, <1>5, <1>7, <1>8 DEF e

\* A RET first pops its two operands.
LEMMA RetEvaluates ==
  ASSUME IInv, Ret
  PROVE  Abstract!Evaluate
<1> DEFINE a == Next1(Next1(sp))
           p == <<Item(mem, sp), Item(mem, Next1(sp))>>
           r == Data(mem, a, OperandEnd)
           q == <<>>
<1>1. /\ Fetch /\ Operand(sp, {"INT"}) /\ Operand(Next1(sp), {"INT"})
      /\ ret'.vals = <<>> /\ sp' = a /\ mem' = Erase(mem, sp, a)
      /\ pc' = "collect" /\ UNCHANGED <<bp, calls>>
  BY DEF Ret
<1>2. /\ p \in Seq(Value) /\ Len(p) = 2 /\ p[1].ty \in {"INT"} /\ p[2].ty \in {"INT"}
      /\ TopOperands = p \o r
      /\ a \in Int /\ sp <= a /\ a <= OperandEnd /\ Tiled(mem, a, OperandEnd)
  BY <1>1, OperandTypes, TwoOnTop
<1> HIDE DEF a, p
<1>3. /\ mem \in Memory /\ sp \in Int /\ StackOK(mem, sp, bp, calls) /\ CodeEnd <= sp
  BY <1>1, FetchFacts
<1>4. /\ Agree(mem, mem', OperandEnd) /\ Data(mem', a, OperandEnd') = r /\ r \in Seq(Value)
  BY <1>1, <1>2, <1>3, PopKeeps
<1>5. TopOperands' = q \o r
  <2>1. TopOperands' = Popped' \o Data(mem', sp', OperandEnd')
    BY <1>1 DEF TopOperands
  <2>2. Popped' = <<>>
    <3>1. Popped' = [i \in 1 .. Len(ret'.vals) |->
                       [ty |-> ret'.vals[i].ty, val |-> ret'.vals[i].val]]
      BY DEF Popped
    <3>2. Len(ret'.vals) = 0
      BY <1>1
    <3> QED
      BY <3>1, <3>2
  <2> QED
    BY <1>1, <1>4, <2>1, <2>2
<1>6. q \in Seq(Value) /\ Len(q) <= 1 /\ Len(p) <= 3 /\ Running /\ Running'
  BY <1>1, <1>2 DEF Fetch, Running
<1>7. \A i \in 1 .. Len(p) : p[i].ty # "ADDR_BP"
  <2>1. \A i \in 1 .. 2 : i = 1 \/ i = 2
    OBVIOUS
  <2> QED
    BY <1>2, <2>1
<1> HIDE DEF q, r
<1>8. TopOperands = p \o r /\ calls' = calls
  BY <1>1, <1>2
<1> QED
  BY <1>2, <1>4, <1>5, <1>6, <1>7, <1>8, EvaluateStep

\* A step that leaves the operands of the last activation as they are.
LEMMA OperandsKept ==
  ASSUME IInv, Running, Running', calls' = calls, Agree(mem, mem', OperandEnd),
         TopOperands' = TopOperands
  PROVE  Stack' = Stack
<1> DEFINE l == Len(calls)
<1>1. /\ l \in Nat /\ l >= 1 /\ Stack = [i \in 1 .. l |-> Activation(i)]
      /\ Stack[l] = [fn |-> Fn, vars |-> Variables(mem, calls[l]), ops |-> TopOperands]
  BY StackForm
<1>2. Stack' = [Stack EXCEPT ![l].ops = TopOperands]
  BY StackOperands
<1>3. [Stack[l] EXCEPT !.ops = TopOperands] = Stack[l]
  BY <1>1
<1> HIDE DEF l
<1>4. \A i \in 1 .. l : Stack[i] = Activation(i)
  BY <1>1
<1>5. Stack' = [i \in 1 .. l |-> IF i = l THEN [Stack[l] EXCEPT !.ops = TopOperands] ELSE Stack[i]]
  BY <1>1, <1>2
<1>6. Stack' = [i \in 1 .. l |-> Stack[i]]
  BY <1>3, <1>5
<1> QED
  BY <1>1, <1>4, <1>6

LEMMA AppendMove ==
  ASSUME NEW S, NEW p \in Seq(S), NEW x \in S, NEW r \in Seq(S)
  PROVE  Append(p, x) \o r = p \o (<<x>> \o r)
  OBVIOUS

LEMMA DropFirst ==
  ASSUME NEW S, NEW x \in S, NEW r \in Seq(S), NEW n \in Nat, n >= 1
  PROVE  LET d == <<x>> \o r IN SubSeq(d, n + 1, Len(d)) = SubSeq(r, n, Len(r))
<1> DEFINE d == <<x>> \o r
<1>1. d \in Seq(S) /\ Len(d) = Len(r) + 1 /\ Len(r) \in Nat
  OBVIOUS
<1>2. \A i \in 1 .. Len(r) : d[i + 1] = r[i]
  OBVIOUS
<1> HIDE DEF d
<1>3. SubSeq(d, n + 1, Len(d)) = [i \in 1 .. (Len(r) + 1 - n) |-> d[i + n]]
  BY <1>1
<1>4. SubSeq(r, n, Len(r)) = [i \in 1 .. (Len(r) + 1 - n) |-> r[i + n - 1]]
  BY <1>1
<1>5. ASSUME NEW i \in 1 .. (Len(r) + 1 - n) PROVE d[i + n] = r[i + n - 1]
  <2>1. i + n - 1 \in 1 .. Len(r) /\ i + n - 1 + 1 = i + n
    BY <1>1
  <2> QED
    BY <1>2, <2>1
<1>6. SubSeq(d, n + 1, Len(d)) = SubSeq(r, n, Len(r))
  BY <1>3, <1>4, <1>5
<1> QED
  BY <1>6 DEF d

LEMMA ReverseStep ==
  ASSUME NEW S, NEW p \in Seq(S)
  PROVE  /\ Seqs!Reverse(p) \in Seq(S) /\ Len(Seqs!Reverse(p)) = Len(p)
         /\ p # <<>> => Seqs!Reverse(p) = Append(Seqs!Reverse(Tail(p)), Head(p))
<1> DEFINE l == Len(p)
           q == Tail(p)
           R(s) == [i \in 1 .. Len(s) |-> s[(Len(s) - i) + 1]]
<1>1. Seqs!Reverse(p) = R(p) /\ Seqs!Reverse(q) = R(q)
  BY DEF Seqs!Reverse
<1>2. ASSUME NEW s \in Seq(S) PROVE R(s) \in Seq(S) /\ Len(R(s)) = Len(s)
  <2>1. \A i \in 1 .. Len(s) : (Len(s) - i) + 1 \in 1 .. Len(s)
    OBVIOUS
  <2>2. R(s) \in [1 .. Len(s) -> S] /\ Len(s) \in Nat
    BY <2>1
  <2> HIDE DEF R
  <2> QED
    BY <2>2
<1>3. ASSUME p # <<>> PROVE R(p) = Append(R(q), Head(p))
  <2>1. /\ q \in Seq(S) /\ Len(q) = l - 1 /\ l \in Nat /\ l >= 1 /\ Head(p) = p[1] /\ p[1] \in S
        /\ \A i \in 1 .. (l - 1) : q[i] = p[i + 1]
    BY <1>3
  <2>2. /\ R(q) \in Seq(S) /\ Len(R(q)) = l - 1
        /\ R(q) = [i \in 1 .. (l - 1) |-> q[((l - 1) - i) + 1]]
        /\ R(p) = [i \in 1 .. l |-> p[(l - i) + 1]]
    BY <1>2, <2>1
  <2> DEFINE z == R(q)
             g == Append(z, p[1])
  <2>3. g \in Seq(S) /\ Len(g) = l /\ g[l] = p[1] /\ \A i \in 1 .. (l - 1) : g[i] = z[i]
    BY <2>1, <2>2
  <2>4. g = [i \in 1 .. l |-> g[i]]
    BY <2>3
  <2>5. ASSUME NEW i \in 1 .. l PROVE g[i] = p[(l - i) + 1]
    <3>1. CASE i = l
      <4>1. (l - i) + 1 = 1
        BY <2>1, <3>1
      <4> QED
        BY <2>3, <3>1, <4>1
    <3>2. CASE i # l
      <4> HIDE DEF l, g, z, R, q
      <4>1. i \in 1 .. (l - 1) /\ ((l - 1) - i) + 1 \in 1 .. (l - 1)
            /\ ((l - 1) - i) + 1 + 1 = (l - i) + 1
        BY <2>1, <3>2
      <4>2. z[i] = q[((l - 1) - i) + 1]
        BY <2>2, <4>1 DEF z
      <4> QED
        BY <2>1, <2>3, <4>1, <4>2
    <3> QED
      BY <3>1, <3>2
  <2> HIDE DEF g, R, l
  <2>6. R(p) = g
    BY <2>2, <2>4, <2>5
  <2> QED
    BY <2>1, <2>6 DEF g
<1> QED
  BY <1>1, <1>2, <1>3


-------------------------------------------------------------------------------
(***************************************************************************)
(* The data a RET has popped and has not yet pushed.                       *)
(***************************************************************************)
Popping(vs) == [i \in 1 .. Len(vs) |-> [ty |-> vs[i].ty, val |-> vs[i].val]]

LEMMA PoppingForm ==
  ASSUME NEW vs \in Seq(RetValue)
  PROVE  /\ Popping(vs) \in Seq(Value) /\ Len(Popping(vs)) = Len(vs)
         /\ \A w \in RetValue :
              Popping(Append(vs, w)) = Append(Popping(vs), [ty |-> w.ty, val |-> w.val])
         /\ vs # <<>> => /\ Popping(vs) # <<>> /\ Tail(vs) \in Seq(RetValue)
                         /\ Head(Popping(vs)) = [ty |-> Head(vs).ty, val |-> Head(vs).val]
                         /\ Tail(Popping(vs)) = Popping(Tail(vs))
<1> DEFINE P == Popping(vs)
           l == Len(vs)
<1>1. P \in Seq(Value) /\ Len(P) = l /\ l \in Nat
  <2>1. \A i \in 1 .. l : [ty |-> vs[i].ty, val |-> vs[i].val] \in Value
    <3> SUFFICES ASSUME NEW i \in 1 .. l PROVE [ty |-> vs[i].ty, val |-> vs[i].val] \in Value
      OBVIOUS
    <3>1. vs[i].ty \in Types /\ vs[i].val \in Int
      BY ValueFacts
    <3> QED
      BY <3>1 DEF Value
  <2>2. P \in [1 .. l -> Value] /\ l \in Nat
    BY <2>1 DEF Popping
  <2> HIDE DEF P
  <2> QED
    BY <2>2
<1>2. ASSUME NEW w \in RetValue
      PROVE  Popping(Append(vs, w)) = Append(P, [ty |-> w.ty, val |-> w.val])
  <2> DEFINE x  == [ty |-> w.ty, val |-> w.val]
             ws == Append(vs, w)
             A  == Append(P, x)
  <2>1. /\ Len(ws) = l + 1 /\ ws[l + 1] = w /\ \A i \in 1 .. l : ws[i] = vs[i]
    OBVIOUS
  <2>2. x \in Value
    <3>1. w.ty \in DataTypes /\ w.val \in Int
      BY DEF RetValue
    <3> QED
      BY <3>1, SizeFacts DEF Value
  <2> HIDE DEF x, P
  <2>3. A \in Seq(Value) /\ Len(A) = l + 1 /\ A[l + 1] = x /\ \A i \in 1 .. l : A[i] = P[i]
    BY <1>1, <2>2
  <2>4. A = [i \in 1 .. (l + 1) |-> A[i]]
    <3> HIDE DEF A, l
    <3> QED
      BY <2>3
  <2>5. \A i \in 1 .. l : P[i] = [ty |-> vs[i].ty, val |-> vs[i].val]
    BY DEF P, Popping
  <2>6. ASSUME NEW i \in 1 .. (l + 1) PROVE A[i] = [ty |-> ws[i].ty, val |-> ws[i].val]
    <3>1. CASE i = l + 1
      BY <2>1, <2>3, <3>1 DEF x
    <3>2. CASE i # l + 1
      <4>1. i \in 1 .. l
        BY <1>1, <3>2
      <4> QED
        BY <2>1, <2>3, <2>5, <4>1
    <3> QED
      BY <3>1, <3>2
  <2>7. Popping(ws) = [i \in 1 .. (l + 1) |-> [ty |-> ws[i].ty, val |-> ws[i].val]]
    BY <2>1 DEF Popping
  <2> HIDE DEF A, ws
  <2> QED
    BY <2>4, <2>6, <2>7 DEF A, ws, x
<1>3. ASSUME vs # <<>>
      PROVE  /\ P # <<>> /\ Tail(vs) \in Seq(RetValue)
             /\ Head(P) = [ty |-> Head(vs).ty, val |-> Head(vs).val]
             /\ Tail(P) = Popping(Tail(vs))
  <2> DEFINE q == Tail(vs)
  <2>1. /\ q \in Seq(RetValue) /\ Len(q) = l - 1 /\ l >= 1 /\ Head(vs) = vs[1]
        /\ \A i \in 1 .. (l - 1) : q[i] = vs[i + 1]
    BY <1>3
  <2>2. \A i \in 1 .. l : P[i] = [ty |-> vs[i].ty, val |-> vs[i].val]
    BY DEF Popping
  <2> HIDE DEF P
  <2>3. /\ P # <<>> /\ Head(P) = P[1] /\ Tail(P) = [i \in 1 .. (l - 1) |-> P[i + 1]] /\ 1 \in 1 .. l
    <3> HIDE DEF l
    <3>1. Len(P) >= 1 /\ 1 \in 1 .. l
      BY <1>1, <2>1
    <3>2. P # <<>>
      BY <3>1
    <3>3. Tail(P) = [i \in 1 .. (Len(P) - 1) |-> P[i + 1]]
      <4> DEFINE T == Tail(P)
      <4>1. T \in Seq(Value) /\ Len(T) = Len(P) - 1 /\ \A i \in 1 .. (Len(P) - 1) : T[i] = P[i + 1]
        BY <1>1, <3>2
      <4> HIDE DEF T
      <4>2. T = [i \in 1 .. (Len(P) - 1) |-> T[i]]
        BY <4>1
      <4>3. T = [i \in 1 .. (Len(P) - 1) |-> P[i + 1]]
        BY <4>1, <4>2
      <4> QED
        BY <4>3 DEF T
    <3> QED
      BY <1>1, <3>1, <3>2, <3>3
  <2>4. Popping(q) = [i \in 1 .. (l - 1) |-> [ty |-> q[i].ty, val |-> q[i].val]]
    BY <2>1 DEF Popping
  <2> HIDE DEF q
  <2>5. ASSUME NEW i \in 1 .. (l - 1) PROVE P[i + 1] = [ty |-> q[i].ty, val |-> q[i].val]
    <3>1. i + 1 \in 1 .. l
      BY <1>1
    <3> QED
      BY <2>1, <2>2, <3>1
  <2>6. Tail(P) = Popping(q)
    BY <2>3, <2>4, <2>5
  <2> QED
    BY <2>1, <2>2, <2>3, <2>6 DEF q
<1> QED
  BY <1>1, <1>2, <1>3

\* A value is popped from the running function's operands or from the arguments.
LEMMA StagePop ==
  ASSUME IInv, pc \in {"collect", "args"}, CodeEnd <= sp, sp < OperandEnd, Datum(sp, DataTypes),
         sp' = Next1(sp), mem' = Erase(mem, sp, Next1(sp)), UNCHANGED <<bp, calls>>
  PROVE  /\ Agree(mem, mem', OperandEnd) /\ Item(mem, sp) \in Value
         /\ Data(mem', sp', OperandEnd') \in Seq(Value)
         /\ Data(mem, sp, OperandEnd) = <<Item(mem, sp)>> \o Data(mem', sp', OperandEnd')
<1> DEFINE a == Next1(sp)
           t == mem[sp].ty
           e == OperandEnd
<1>1. /\ mem \in Memory /\ sp \in Int /\ StackOK(mem, sp, bp, calls) /\ CodeEnd \in Nat
      /\ Tiled(mem, sp, e) /\ e \in Int /\ e <= MemSize /\ sp < e /\ 0 <= sp
  <2>1. /\ mem \in Memory /\ sp \in Int /\ StackOK(mem, sp, bp, calls) /\ CodeEnd \in Nat
        /\ Tiled(mem, sp, e) /\ e \in Int /\ e <= MemSize
    BY StageFacts
  <2> QED
    BY <2>1
<1>2. /\ sp \in Mem /\ t \in DataTypes /\ t \in Types /\ Size[t] \in Nat /\ Size[t] > 0
      /\ a = sp + Size[t] /\ mem[sp].val \in Int
  <2>1. sp \in Mem /\ t \in DataTypes
    BY DEF Datum
  <2>2. mem[sp].val \in Int
    BY <1>1, <2>1 DEF Memory, Cell
  <2> QED
    BY <2>1, <2>2, SizeFacts DEF Next1
<1> HIDE DEF e
<1>3. /\ sp + Size[t] <= e /\ Tiled(mem, sp + Size[t], e)
  BY <1>1, <1>2, TiledPop
<1>4. a \in Int /\ sp <= a /\ a <= e /\ Tiled(mem, a, e)
  <2> HIDE DEF t
  <2> QED
    BY <1>1, <1>2, <1>3
<1>5. Item(mem, sp) \in Value
  BY <1>2 DEF Item, Value
<1>6. Whole(mem, sp, e)
  BY <1>1, <1>2, <1>3 DEF Whole
<1>7. Data(mem, sp, e) = <<Item(mem, sp)>> \o Data(mem, a, e)
  <2>1. After(mem, sp) = a
    BY DEF After, Next1
  <2> QED
    BY <1>1, <1>6, <2>1, DataFirst
<1> HIDE DEF a, t
<1>8. /\ Agree(mem, mem', OperandEnd)
      /\ Data(mem', a, OperandEnd') = Data(mem, a, OperandEnd)
      /\ Data(mem, a, OperandEnd) \in Seq(Value)
  <2>1. sp' = a /\ mem' = Erase(mem, sp, a) /\ UNCHANGED <<bp, calls>>
    BY DEF a
  <2>2. a <= OperandEnd /\ Tiled(mem, a, OperandEnd)
    BY <1>4 DEF e
  <2> QED
    BY <1>1, <1>4, <2>1, <2>2, PopKeeps
<1>9. sp' = a
  BY DEF a
<1> QED
  BY <1>5, <1>7, <1>8, <1>9 DEF e

\* A RET pops the values that are left of its function: nothing is lost.
LEMMA CollectKeeps ==
  ASSUME IInv, CollectRetval
  PROVE  Stack' = Stack /\ Running /\ Running'
<1> DEFINE x == Item(mem, sp)
           w == [ty |-> mem[sp].ty, val |-> mem[sp].val,
                 at |-> sp - (bp - ret.fs - Len(ret.img))]
           r == Data(mem', sp', OperandEnd')
<1>1. /\ pc = "collect" /\ sp + ret.fs < bp /\ Datum(sp, DataTypes)
      /\ ret' = [ret EXCEPT !.vals = Append(@, w)]
      /\ sp' = Next1(sp) /\ mem' = Erase(mem, sp, Next1(sp)) /\ UNCHANGED <<ip, bp, pc, calls>>
  BY DEF CollectRetval
<1>2. /\ mem \in Memory /\ sp \in Int /\ bp \in Int /\ ret \in RetType /\ ret.vals \in Seq(RetValue)
      /\ FramesOK(mem, calls) /\ OperandEnd \in Int /\ bp = calls[Len(calls)].bp
      /\ Len(ret.img) \in Nat
  BY <1>1, StageFacts DEF RetValue
<1>3. CodeEnd <= sp /\ ret.fs = calls[Len(calls)].fs /\ ret.fs \in Int
  <2>1. CollectOK
    BY <1>1 DEF IInv
  <2>2. ret.fs = calls[Len(calls)].fs
    BY <1>2, <2>1, LimitFacts DEF CollectOK
  <2> QED
    BY <1>2, <2>1, <2>2 DEF CollectOK, RetType
<1>4. sp < OperandEnd
  <2>1. OperandEnd = bp - ret.fs
    BY <1>3 DEF OperandEnd
  <2> QED
    BY <1>1, <1>2, <1>3, <2>1
<1>5. /\ Agree(mem, mem', OperandEnd) /\ x \in Value /\ r \in Seq(Value)
      /\ Data(mem, sp, OperandEnd) = <<x>> \o r
  BY <1>1, <1>3, <1>4, StagePop
<1>6. w \in RetValue /\ x = [ty |-> w.ty, val |-> w.val]
  <2>1. mem[sp].ty \in DataTypes /\ sp \in Mem
    BY <1>1 DEF Datum
  <2>2. mem[sp].val \in Int
    BY <1>2, <2>1 DEF Memory, Cell
  <2>3. sp - (bp - ret.fs - Len(ret.img)) \in Int
    BY <1>2, <1>3
  <2> QED
    BY <2>1, <2>2, <2>3 DEF RetValue, Item
<1> HIDE DEF w, x, r
<1>7. ret'.vals = Append(ret.vals, w)
  BY <1>1, <1>2 DEF RetType
<1>8. Popped = Popping(ret.vals) /\ Popped' = Popping(ret'.vals)
  BY DEF Popped, Popping
<1>9. Popped \in Seq(Value) /\ Popped' = Append(Popped, x)
  BY <1>2, <1>6, <1>7, <1>8, PoppingForm
<1>10. TopOperands = Popped \o (<<x>> \o r) /\ TopOperands' = Append(Popped, x) \o r
  <2>1. TopOperands = Popped \o Data(mem, sp, OperandEnd)
    BY <1>1 DEF TopOperands
  <2>2. TopOperands' = Popped' \o Data(mem', sp', OperandEnd')
    BY <1>1 DEF TopOperands
  <2> QED
    BY <1>5, <1>9, <2>1, <2>2 DEF r
<1>11. TopOperands' = TopOperands
  BY <1>5, <1>9, <1>10, AppendMove
<1>12. Running /\ Running' /\ calls' = calls
  BY <1>1 DEF Running
<1> QED
  BY <1>5, <1>11, <1>12, OperandsKept


\* The arguments of the call are not among the caller's operands any more.
LEMMA PopArgKeeps ==
  ASSUME IInv, PopArg
  PROVE  Stack' = Stack /\ Running /\ Running'
<1> DEFINE x == Item(mem, sp)
           r == Data(mem', sp', OperandEnd')
           d == Data(mem, sp, OperandEnd)
           n == ret.na
           f == ret.fn
           i == NumArgs[f] - n + 1
           base == ret.top - ArgTotal(f)
<1>1. /\ pc = "args" /\ n > 0 /\ Datum(sp, DataTypes) /\ ret' = [ret EXCEPT !.na = @ - 1]
      /\ sp' = Next1(sp) /\ mem' = Erase(mem, sp, Next1(sp)) /\ UNCHANGED <<ip, bp, pc, calls>>
  BY DEF PopArg
<1>2. /\ mem \in Memory /\ sp \in Int /\ ret \in RetType /\ ret.vals \in Seq(RetValue)
      /\ OperandEnd \in Int /\ ret.top \in Int /\ f \in Program
  BY <1>1, StageFacts DEF RetValue
<1>3. /\ CodeEnd <= sp /\ ret.top <= OperandEnd /\ n \in 0 .. NumArgs[f]
      /\ sp = base + ArgOff[f][i]
  <2>1. ArgsOK
    BY <1>1 DEF IInv
  <2> QED
    BY <2>1 DEF ArgsOK
<1>4. /\ NumArgs[f] \in Nat /\ n \in Nat /\ n >= 1 /\ i \in 1 .. NumArgs[f]
      /\ i \in 1 .. (NumArgs[f] + 1) /\ n - 1 \in Nat
  <2>1. NumArgs[f] \in Nat
    BY <1>2, ProgramFacts
  <2> HIDE DEF f
  <2> QED
    BY <1>1, <1>3, <2>1
<1> HIDE DEF i
<1>5. sp < OperandEnd
  <2> DEFINE o == ArgOff[f][i]
             s == Size[ArgType[f][i]]
             g == ArgTotal(f)
  <2>1. o \in Nat /\ ArgType[f][i] \in DataTypes /\ g \in Nat /\ o + s <= g
    BY <1>2, <1>4, ProgramFacts
  <2>2. s \in Nat /\ s > 0
    BY <2>1, SizeFacts
  <2>3. sp = ret.top - g + o
    BY <1>3
  <2> HIDE DEF o, s, g
  <2> QED
    BY <1>2, <1>3, <2>1, <2>2, <2>3
<1>6. /\ Agree(mem, mem', OperandEnd) /\ x \in Value /\ r \in Seq(Value) /\ d = <<x>> \o r
  BY <1>1, <1>3, <1>5, StagePop
<1>7. ret'.vals = ret.vals /\ ret'.na = n - 1
  BY <1>1, <1>2 DEF RetType
<1>8. Popped' = Popped
  BY <1>7 DEF Popped
<1>9. TopOperands = Seqs!Reverse(Popped) \o SubSeq(d, n + 1, Len(d))
  BY <1>1 DEF TopOperands
<1>10. TopOperands' = Seqs!Reverse(Popped) \o SubSeq(r, n, Len(r))
  <2>1. TopOperands' = Seqs!Reverse(Popped') \o SubSeq(r, ret'.na + 1, Len(r))
    BY <1>1 DEF TopOperands, Seqs!Reverse
  <2>2. (n - 1) + 1 = n
    BY <1>4
  <2> HIDE DEF r, n
  <2> QED
    BY <1>7, <1>8, <2>1, <2>2
<1> HIDE DEF x, r, n
<1>11. SubSeq(d, n + 1, Len(d)) = SubSeq(r, n, Len(r))
  BY <1>4, <1>6, DropFirst
<1>12. TopOperands' = TopOperands
  BY <1>9, <1>10, <1>11
<1>13. Running /\ Running' /\ calls' = calls
  BY <1>1 DEF Running
<1> QED
  BY <1>6, <1>12, <1>13, OperandsKept

\* The operands once the arguments have been removed.
LEMMA MovedOperands ==
  ASSUME IInv, pc \in {"args", "push"}, ret.na <= 0
  PROVE  /\ ret.na = 0 /\ CodeEnd <= sp /\ ret.vals \in Seq(RetValue)
         /\ Data(mem, sp, OperandEnd) \in Seq(Value)
         /\ TopOperands = Seqs!Reverse(Popping(ret.vals)) \o Data(mem, sp, OperandEnd)
<1> DEFINE d == Data(mem, sp, OperandEnd)
<1>1. /\ mem \in Memory /\ sp \in Int /\ ret.vals \in Seq(RetValue) /\ OperandEnd \in Int
      /\ sp <= OperandEnd /\ OperandEnd <= MemSize /\ CodeEnd \in Nat
      /\ ret.top \in Int /\ Len(ret.img) \in Nat
  BY StageFacts DEF RetValue
<1>2. ret.na = 0 /\ CodeEnd <= sp
  <2> DEFINE n == IF ret.vals = <<>> THEN Len(ret.img) ELSE ret.vals[1].at
             len == Len(ret.img)
  <2>1. /\ ret.na = 0 /\ 0 <= n /\ n <= len /\ sp = ret.top - n /\ CodeEnd <= ret.top - len
    BY ArgsDone DEF PushOK
  <2>2. n \in Int
    <3>1. CASE ret.vals = <<>>
      BY <1>1, <3>1
    <3>2. CASE ret.vals # <<>>
      <4>1. 1 \in 1 .. Len(ret.vals)
        BY <1>1, <3>2
      <4>2. ret.vals[1].at \in Int
        BY <1>1, <4>1, ValueFacts
      <4> QED
        BY <3>2, <4>2
    <3> QED
      BY <3>1, <3>2
  <2> HIDE DEF n
  <2> QED
    BY <1>1, <2>1, <2>2
<1>3. d \in Seq(Value)
  <2>1. 0 <= sp
    BY <1>1, <1>2
  <2> QED
    BY <1>1, <2>1, DataTyped
<1>4. TopOperands = Seqs!Reverse(Popped) \o SubSeq(d, ret.na + 1, Len(d))
  BY DEF TopOperands
<1>5. Popped = Popping(ret.vals)
  BY DEF Popped, Popping
<1> HIDE DEF d
<1>6. SubSeq(d, ret.na + 1, Len(d)) = d
  <2>1. ret.na + 1 = 1
    BY <1>2
  <2> QED
    BY <1>3, <2>1
<1> QED
  BY <1>1, <1>2, <1>3, <1>4, <1>5, <1>6 DEF d

\* A RET pushes the values in reverse order.
LEMMA PushKeeps ==
  ASSUME IInv, PushRetval
  PROVE  Stack' = Stack /\ Running /\ Running'
<1> DEFINE w  == Head(ret.vals)
           x  == [ty |-> w.ty, val |-> w.val]
           vs == Tail(ret.vals)
           p  == sp - Size[w.ty]
           e  == OperandEnd
           d  == Data(mem, sp, e)
<1>1. /\ pc \in {"args", "push"} /\ ret.na <= 0 /\ ret.vals # <<>>
      /\ sp' = p /\ mem' = Put(Erase(mem, sp, sp), p, w.ty, w.val)
      /\ ret' = [ret EXCEPT !.vals = Tail(@)] /\ pc' = "push" /\ UNCHANGED <<ip, bp, calls>>
  BY DEF PushRetval, Replace
<1>2. /\ mem \in Memory /\ sp \in Int /\ ret \in RetType /\ StackOK(mem, sp, bp, calls)
      /\ CodeEnd \in Nat /\ sp <= e /\ e = Limit(calls) /\ e \in Int /\ e <= MemSize
      /\ Tiled(mem, sp, e)
  BY <1>1, StageFacts
<1>3. /\ ret.na = 0 /\ CodeEnd <= sp /\ ret.vals \in Seq(RetValue) /\ d \in Seq(Value)
      /\ TopOperands = Seqs!Reverse(Popping(ret.vals)) \o d
  BY <1>1, MovedOperands
<1>4. w \in RetValue /\ w.ty \in Types /\ w.val \in Int /\ x \in Value
  <2>1. 1 \in 1 .. Len(ret.vals) /\ w = ret.vals[1]
    BY <1>1, <1>3
  <2>2. w \in RetValue /\ w.ty \in Types /\ w.val \in Int
    BY <1>3, <2>1, ValueFacts
  <2> HIDE DEF w
  <2> QED
    BY <2>2 DEF Value
<1> HIDE DEF w, e
<1>5. /\ Size[w.ty] \in Nat /\ Size[w.ty] > 0 /\ Size[w.ty] <= sp /\ p \in Int /\ 0 <= p
      /\ p + Size[w.ty] = sp /\ sp <= MemSize /\ sp <= sp
  <2>1. Size[w.ty] <= sp
    BY <1>1, RetvalRoom DEF w
  <2> QED
    BY <1>2, <1>3, <1>4, <2>1, SizeFacts
<1>6. mem' \in Memory /\ Agree(mem, mem', sp)
  <2>1. sp <= Limit(calls) /\ Tiled(mem, sp, Limit(calls))
    BY <1>2
  <2> QED
    BY <1>1, <1>2, <1>3, <1>4, <1>5, <2>1, StackReplace
<1> HIDE DEF p
<1>7. At(mem', p, w.ty, w.val)
  <2>1. Erase(mem, sp, sp) \in Memory
    BY <1>2, EraseTyped
  <2>2. p + Size[w.ty] <= MemSize
    BY <1>5
  <2> QED
    BY <1>1, <1>4, <1>5, <2>1, <2>2, PutAt
<1>8. Data(mem', sp, e) = d
  <2>1. Same(mem, mem', sp, e)
    BY <1>2, <1>3, <1>6, SizeFacts DEF Same, Agree, Mem
  <2> QED
    BY <1>2, <2>1, DataSame
<1>9. Data(mem', p, e) = <<x>> \o d
  <2>1. p + Size[w.ty] <= e
    BY <1>2, <1>5
  <2>2. Data(mem', p, e) = <<x>> \o Data(mem', p + Size[w.ty], e)
    <3> DEFINE k == mem'
               t == w.ty
               v == w.val
    <3>1. /\ k \in Memory /\ p \in Int /\ e \in Int /\ t \in Types /\ v \in Int
          /\ At(k, p, t, v) /\ p + Size[t] <= e
      BY <1>2, <1>4, <1>5, <1>6, <1>7, <2>1
    <3> HIDE DEF k, t, v
    <3>2. Data(k, p, e) = <<[ty |-> t, val |-> v]>> \o Data(k, p + Size[t], e)
      BY <3>1, DataAt
    <3> QED
      BY <3>2 DEF k, t, v
  <2> QED
    BY <1>5, <1>8, <2>2
<1>10. Agree(mem, mem', OperandEnd)
  BY <1>2, <1>6 DEF Agree, Mem, e
<1>11. IInv' /\ pc' = "push" /\ ret'.vals = vs /\ ret'.na = 0 /\ OperandEnd' = e
  BY <1>1, <1>2, <1>3, PushRetvalSafe DEF RetType, OperandEnd, e
<1>12. TopOperands' = Seqs!Reverse(Popping(vs)) \o (<<x>> \o d)
  <2> DEFINE g == <<x>> \o d
  <2>1. TopOperands' = Seqs!Reverse(Popped') \o
          SubSeq(Data(mem', sp', OperandEnd'), ret'.na + 1, Len(Data(mem', sp', OperandEnd')))
    BY <1>11 DEF TopOperands, Seqs!Reverse
  <2>2. Popped' = Popping(vs)
    BY <1>11 DEF Popped, Popping
  <2>3. Data(mem', sp', OperandEnd') = g
    BY <1>1, <1>9, <1>11
  <2>4. g \in Seq(Value)
    BY <1>3, <1>4
  <2> HIDE DEF g
  <2>5. SubSeq(g, 1, Len(g)) = g
    BY <2>4
  <2>6. ret'.na + 1 = 1
    BY <1>11
  <2>7. TopOperands' = Seqs!Reverse(Popping(vs)) \o g
    BY <2>1, <2>2, <2>3, <2>5, <2>6
  <2> QED
    BY <2>7 DEF g
<1> DEFINE P == Popping(ret.vals)
           Q == Popping(vs)
<1>13. /\ P \in Seq(Value) /\ P # <<>> /\ vs \in Seq(RetValue) /\ Head(P) = x /\ Tail(P) = Q
  BY <1>1, <1>3, PoppingForm DEF w
<1>14. Q \in Seq(Value)
  BY <1>13, PoppingForm
<1> HIDE DEF P, Q, x, d, vs
<1>15. Seqs!Reverse(P) = Append(Seqs!Reverse(Q), x) /\ Seqs!Reverse(Q) \in Seq(Value)
  BY <1>13, <1>14, ReverseStep
<1>16. Append(Seqs!Reverse(Q), x) \o d = Seqs!Reverse(Q) \o (<<x>> \o d)
  BY <1>3, <1>4, <1>15, AppendMove
<1>17. TopOperands' = TopOperands
  BY <1>3, <1>12, <1>15, <1>16 DEF P, Q
<1>18. Running /\ Running' /\ calls' = calls
  BY <1>1 DEF Running
<1> QED
  BY <1>10, <1>17, <1>18, OperandsKept

LEMMA DoneKeeps ==
  ASSUME IInv, RetDone
  PROVE  Stack' = Stack /\ Running /\ Running'
<1> DEFINE d == Data(mem, sp, OperandEnd)
           P == Popping(ret.vals)
<1>1. /\ pc \in {"args", "push"} /\ ret.na <= 0 /\ ret.vals = <<>> /\ pc' = "exec"
      /\ UNCHANGED <<mem, ip, sp, bp, calls>>
  BY DEF RetDone
<1>2. /\ d \in Seq(Value) /\ TopOperands = Seqs!Reverse(P) \o d
  BY <1>1, MovedOperands
<1>3. TopOperands' = d
  BY <1>1 DEF TopOperands, OperandEnd
<1>4. Len(P) = 0 /\ P \in Seq(Value)
  <2>1. ret.vals \in Seq(RetValue) /\ Len(ret.vals) = 0
    BY <1>1
  <2> QED
    BY <2>1, PoppingForm
<1> HIDE DEF d, P
<1>5. Seqs!Reverse(P) \in Seq(Value) /\ Len(Seqs!Reverse(P)) = 0
  BY <1>4, ReverseStep
<1>6. Seqs!Reverse(P) = <<>>
  BY <1>5
<1>7. TopOperands' = TopOperands
  BY <1>2, <1>3, <1>6
<1>8. Running /\ Running' /\ calls' = calls /\ Agree(mem, mem', OperandEnd)
  BY <1>1 DEF Running, Agree
<1> QED
  BY <1>7, <1>8, OperandsKept


-------------------------------------------------------------------------------
(***************************************************************************)
(* The step of a RET that removes the frame, and the end of a program.     *)
(***************************************************************************)
LEMMA FrontForm ==
  ASSUME NEW l \in Nat, l >= 1, NEW T, T = [i \in 1 .. l |-> T[i]]
  PROVE  SubSeq(T, 1, l - 1) = [i \in 1 .. (l - 1) |-> T[i]]
<1> DEFINE S == {T[i] : i \in 1 .. l}
           g == SubSeq(T, 1, l - 1)
<1>1. T \in Seq(S) /\ Len(T) = l
  <2>1. T \in [1 .. l -> S]
    OBVIOUS
  <2> HIDE DEF S
  <2> QED
    BY <2>1
<1> HIDE DEF S
<1>2. g \in Seq(S) /\ Len(g) = l - 1 /\ \A i \in 1 .. (l - 1) : g[i] = T[i]
  BY <1>1
<1> HIDE DEF g
<1>3. g = [i \in 1 .. (l - 1) |-> g[i]]
  BY <1>2
<1>4. g = [i \in 1 .. (l - 1) |-> T[i]]
  BY <1>2, <1>3
<1> QED
  BY <1>4 DEF g

LEMMA ActivationParts ==
  ASSUME NEW i, NEW r
  PROVE  [Activation(i) EXCEPT !.ops = r]
           = [fn |-> calls[i].fn, vars |-> Variables(mem, calls[i]), ops |-> r]
<1> DEFINE y == Activation(i)
<1>1. [y EXCEPT !.ops = r] = [x \in DOMAIN y |-> IF x = "ops" THEN r ELSE y[x]]
  OBVIOUS
<1>2. DOMAIN y = {"fn", "vars", "ops"} /\ y.fn = calls[i].fn /\ y.vars = Variables(mem, calls[i])
  BY DEF Activation
<1> HIDE DEF y
<1>3. [y EXCEPT !.ops = r] = [fn |-> calls[i].fn, vars |-> Variables(mem, calls[i]), ops |-> r]
  BY <1>1, <1>2
<1> QED
  BY <1>3 DEF y

LEMMA LeaveReturns ==
  ASSUME IInv, LeaveFrame
  PROVE  Abstract!Return
<1> DEFINE l   == Len(calls)
           k   == l - 1
           c   == calls[l]
           d   == calls[k]
           e   == bp + 2 * AddrSize
           lim == d.bp - d.fs
           f   == ret.fn
           n   == NumArgs[f]
           W   == Data(mem, c.top, lim)
           R   == Seqs!Reverse(Popped)
<1>1. /\ pc = "collect" /\ pc' = "args" /\ UNCHANGED ret /\ sp' = e /\ Running /\ Running'
  BY DEF LeaveFrame, Running
<1>2. /\ IInv' /\ l \in Nat /\ l >= 2 /\ sp = OperandEnd
      /\ f \in Program /\ ret.na = n /\ c.top = e + ArgTotal(f)
      /\ e \in Int /\ 0 <= e /\ lim \in Int /\ lim <= MemSize /\ e + ArgTotal(f) <= lim
      /\ ArgsAt(mem', e, f) /\ Agree(mem, mem', e) /\ OperandEnd' = lim
      /\ Len(calls') = l - 1 /\ \A i \in 1 .. (l - 1) : calls'[i] = calls[i]
  BY LeaveFrameSafe
<1>3. /\ mem \in Memory /\ sp \in Int /\ FramesOK(mem, calls) /\ ret.vals \in Seq(RetValue)
      /\ OperandEnd \in Int
  BY <1>1, StageFacts DEF RetValue
<1>4. mem' \in Memory
  BY <1>2 DEF IInv, Typed, Memory
<1>5. /\ k \in Nat /\ k >= 1 /\ k \in 1 .. l /\ k \in 1 .. k /\ k + 1 = l /\ k # l
  <2> HIDE DEF l
  <2> QED
    BY <1>2
<1> HIDE DEF l, c, d, e, lim, f, n
<1>6. Popped = Popping(ret.vals) /\ Popped \in Seq(Value) /\ R \in Seq(Value)
  <2>1. Popped = Popping(ret.vals)
    BY DEF Popped, Popping
  <2>2. Popped \in Seq(Value)
    BY <1>3, <2>1, PoppingForm
  <2> QED
    BY <2>1, <2>2, ReverseStep
\* the function's operands are the values popped so far, the others were consumed
<1>7. TopOperands = Popped
  <2>1. TopOperands = Popped \o Data(mem, sp, OperandEnd)
    BY <1>1 DEF TopOperands
  <2>2. Data(mem, sp, OperandEnd) = <<>>
    BY <1>2, <1>3, DataEmpty
  <2> QED
    BY <1>6, <2>1, <2>2
\* the callers
<1>8. ASSUME NEW i \in 1 .. k
      PROVE  /\ Variables(mem', calls[i]) = Variables(mem, calls[i])
             /\ Data(mem', calls[i + 1].top, calls[i].bp - calls[i].fs)
                  = Data(mem, calls[i + 1].top, calls[i].bp - calls[i].fs)
  <2>1. i \in 1 .. (Len(calls) - 1)
    BY DEF l
  <2>2. e <= calls[Len(calls)].top
    <3>1. ArgTotal(f) \in Nat
      BY <1>2, ProgramFacts
    <3> QED
      BY <1>2, <3>1 DEF l, c
  <2>3. e \in Int /\ Agree(mem, mem', e)
    BY <1>2
  <2> QED
    BY <1>3, <2>1, <2>2, <2>3, CallersSame
<1>9. W \in Seq(Value) /\ Data(mem', c.top, lim) = W /\ Operands(k) = W
  <2>1. ArgTotal(f) \in Nat
    BY <1>2, ProgramFacts
  <2>2. c.top \in Int /\ 0 <= c.top /\ c.top <= lim
    <3> DEFINE g == ArgTotal(f)
    <3> HIDE DEF g
    <3> QED
      BY <1>2, <2>1 DEF g
  <2>3. W \in Seq(Value)
    BY <1>2, <1>3, <2>2, DataTyped
  <2>4. Data(mem', c.top, lim) = W
    BY <1>5, <1>8 DEF c, d, lim
  <2>5. Operands(k) = W
    BY <1>5 DEF Operands, l, c, d, lim
  <2> QED
    BY <2>3, <2>4, <2>5
<1>10. TopOperands' = R \o W
  <2> DEFINE D == Data(mem', e, lim)
             j == n + 1
  <2>1. TopOperands' = R \o SubSeq(D, n + 1, Len(D))
    <3>1. TopOperands' = Seqs!Reverse(Popped') \o
            SubSeq(Data(mem', sp', OperandEnd'), ret'.na + 1, Len(Data(mem', sp', OperandEnd')))
      BY <1>1 DEF TopOperands, Seqs!Reverse
    <3>2. Popped' = Popped
      BY <1>1 DEF Popped
    <3>3. Data(mem', sp', OperandEnd') = D /\ ret'.na = n
      BY <1>1, <1>2
    <3> HIDE DEF D
    <3> QED
      BY <3>1, <3>2, <3>3
  <2>2. n \in Nat /\ j \in 1 .. (NumArgs[f] + 1)
    <3>1. n \in Nat
      BY <1>2, ProgramFacts DEF n
    <3> QED
      BY <3>1 DEF n
  <2>3. e + ArgOff[f][j] = c.top
    BY <1>2 DEF ArgTotal, n
  <2> HIDE DEF j
  <2>4. SubSeq(D, j, Len(D)) = Data(mem', e + ArgOff[f][j], lim)
    <3> DEFINE m2 == mem'
    <3>1. /\ m2 \in Memory /\ f \in Program /\ e \in Int /\ lim \in Int /\ 0 <= e
          /\ lim <= MemSize /\ e + ArgTotal(f) <= lim /\ ArgsAt(m2, e, f)
      BY <1>2, <1>4
    <3> HIDE DEF m2
    <3>2. LET g == Data(m2, e, lim) IN SubSeq(g, j, Len(g)) = Data(m2, e + ArgOff[f][j], lim)
      BY <2>2, <3>1, DataArgs
    <3> QED
      BY <3>2 DEF m2
  <2> HIDE DEF D
  <2> QED
    BY <1>9, <2>1, <2>3, <2>4 DEF j
<1> HIDE DEF R, W
<1>11. ASSUME NEW i \in 1 .. k
       PROVE  Activation(i)' = IF i = k THEN [Activation(i) EXCEPT !.ops = R \o @]
                                        ELSE Activation(i)
  <2>1. calls'[i] = calls[i]
    BY <1>2 DEF l
  <2>2. Variables(mem', calls'[i]) = Variables(mem, calls[i])
    BY <1>8, <2>1
  <2>3. Operands(i)' = IF i = Len(calls') THEN TopOperands'
                       ELSE Data(mem', calls'[i + 1].top, calls'[i].bp - calls'[i].fs)
    BY DEF Operands
  <2>4. CASE i = k
    <3>1. Operands(i)' = R \o W
      BY <1>2, <1>10, <2>3, <2>4 DEF l
    <3>2. Activation(i)' = [fn |-> calls[i].fn, vars |-> Variables(mem, calls[i]), ops |-> R \o W]
      BY <2>1, <2>2, <3>1 DEF Activation
    <3>3. Activation(i).ops = W
      BY <1>9, <2>4 DEF Activation
    <3>4. [Activation(i) EXCEPT !.ops = R \o W]
            = [fn |-> calls[i].fn, vars |-> Variables(mem, calls[i]), ops |-> R \o W]
      BY ActivationParts
    <3> QED
      BY <2>4, <3>2, <3>3, <3>4
  <2>5. CASE i # k
    <3>1. i + 1 \in 1 .. k /\ i # l /\ i # Len(calls')
      BY <1>2, <1>5, <2>5 DEF l
    <3>2. calls'[i + 1] = calls[i + 1]
      BY <1>2, <3>1 DEF l
    <3>3. Operands(i)' = Operands(i)
      BY <1>8, <2>1, <2>3, <3>1, <3>2 DEF Operands, l
    <3> QED
      BY <2>1, <2>2, <2>5, <3>3 DEF Activation
  <2> QED
    BY <2>4, <2>5
<1> DEFINE T == [i \in 1 .. k |-> Activation(i)]
<1>12. /\ Stack = [i \in 1 .. l |-> Activation(i)] /\ Len(Stack) = l
       /\ Stack' = [i \in 1 .. k |-> Activation(i)']
       /\ Stack[l].ops = Popped
  <2>1. /\ Stack = [i \in 1 .. l |-> Activation(i)] /\ Len(Stack) = l
        /\ Stack[l] = [fn |-> Fn, vars |-> Variables(mem, calls[l]), ops |-> TopOperands]
    BY <1>1, StackForm DEF l
  <2>2. Stack' = [i \in 1 .. Len(calls') |-> Activation(i)']
    BY <1>1 DEF Stack, Activation
  <2> QED
    BY <1>2, <1>7, <2>1, <2>2
<1>13. SubSeq(Stack, 1, Len(Stack) - 1) = T
  <2>1. Stack = [i \in 1 .. l |-> Stack[i]] /\ \A i \in 1 .. l : Stack[i] = Activation(i)
    BY <1>12
  <2>2. SubSeq(Stack, 1, l - 1) = [i \in 1 .. (l - 1) |-> Stack[i]]
    BY <1>2, <2>1, FrontForm
  <2>3. \A i \in 1 .. (l - 1) : Stack[i] = Activation(i)
    BY <1>2, <2>1
  <2> QED
    BY <1>12, <2>2, <2>3
<1>14. Stack' = [T EXCEPT ![k].ops = R \o @]
  <2>1. [T EXCEPT ![k].ops = R \o @]
          = [i \in 1 .. k |-> IF i = k THEN [Activation(k) EXCEPT !.ops = R \o @] ELSE Activation(i)]
    BY <1>5
  <2> QED
    BY <1>11, <1>12, <2>1
<1> HIDE DEF T
<1>15. Abstract!Top.ops = Popped /\ Abstract!Running /\ Len(Stack) > 1
  <2>1. Abstract!Running
    BY <1>1 DEF Abstract!Running
  <2>2. Abstract!Top = Stack[l]
    BY <1>1, AbstractTop DEF l
  <2> QED
    BY <1>2, <1>12, <2>1, <2>2
<1>16. Abstract!Seqs!Reverse(Abstract!Top.ops) = R
  BY <1>15 DEF R, Seqs!Reverse, Abstract!Seqs!Reverse
<1>17. Stack' = [SubSeq(Stack, 1, Len(Stack) - 1)
                   EXCEPT ![Len(Stack) - 1].ops = Abstract!Seqs!Reverse(Abstract!Top.ops) \o @]
  BY <1>12, <1>13, <1>14, <1>16
<1> QED
  BY <1>15, <1>17, Zenon DEF Abstract!Return


\* The machine stops in an error, or at the end of the start-up code.
LEMMA EndStops ==
  ASSUME IInv,
         \/ BoundsError \/ ComparisonError \/ ExternalError \/ Halt
         \/ PushBelow \/ CastOverCode \/ MisreadBool
  PROVE  Abstract!Stop
<1>1. pc' \in {"error", "halted", "lost"} /\ Running /\ ~Running'
  BY DEF BoundsError, ComparisonError, ExternalError, Halt, PushBelow, CastOverCode, MisreadBool,
         Lost, Fetch, Running
<1>2. Stack' = <<>>
  BY <1>1 DEF Stack
<1>3. ASSUME pc' = "halted" PROVE Len(Stack) = 1
  <2>1. Fetch /\ Fn = Boot
    BY <1>3 DEF BoundsError, ComparisonError, ExternalError, Halt, PushBelow, CastOverCode,
                MisreadBool, Lost
  <2>2. FramesOK(mem, calls) /\ Len(calls) \in Nat /\ Len(calls) >= 1
    BY <1>1, RunningFacts
  <2>3. Len(calls) = 1
    <3> SUFFICES ASSUME Len(calls) # 1 PROVE FALSE
      OBVIOUS
    <3>1. Len(calls) \in 2 .. Len(calls)
      <4> DEFINE l == Len(calls)
      <4>1. l \in Nat /\ l >= 1 /\ l # 1
        BY <2>2
      <4> HIDE DEF l
      <4>2. l \in 2 .. l
        BY <4>1
      <4> QED
        BY <4>2 DEF l
    <3>2. calls[Len(calls)].fn \in Funcs
      BY <2>2, <3>1 DEF FramesOK, CallOK, ShapeOK
    <3> QED
      BY <2>1, <3>2, ProgramAssumption DEF Fn
  <2> QED
    BY <1>1, <2>3, AbstractTop
<1> QED
  BY <1>1, <1>2, <1>3 DEF Abstract!Stop

LEMMA InitAbstract ==
  Init => Abstract!Init
<1> SUFFICES ASSUME Init PROVE Abstract!Init
  OBVIOUS
<1> DEFINE c == [fn |-> Boot, bp |-> MemSize, fs |-> Padding,
                 ret |-> 0, link |-> MemSize, top |-> MemSize]
           v == [x \in Slots(Boot) |-> Unset]
           new == [fn |-> Boot, vars |-> v, ops |-> <<>>]
<1>1. /\ mem = [x \in Mem |-> IF x < CodeEnd THEN CodeByte ELSE ZeroByte]
      /\ sp = MemSize - Padding /\ pc = "exec" /\ calls = <<c>> /\ bp = MemSize
  BY DEF Init
<1>2. IInv /\ Running
  BY <1>1, InitSafe DEF Running
<1>3. c.fn = Boot /\ c.bp = MemSize /\ c.fs = Padding
  OBVIOUS
<1> HIDE DEF c
<1>4. Len(calls) = 1 /\ calls[1] = c
  BY <1>1
<1>5. TopOperands = <<>>
  <2>1. OperandEnd = sp /\ sp \in Int
    <3>1. sp \in Int
      BY <1>2 DEF IInv, Typed
    <3> QED
      BY <1>1, <1>3, <1>4, <3>1 DEF OperandEnd
  <2> QED
    BY <1>1, <2>1, DataEmpty DEF TopOperands
<1>6. Variables(mem, c) = v
  <2>1. ASSUME NEW s \in Slots(Boot) PROVE Held(mem, MemSize + s.off, s.ty) = Unset
    <3> DEFINE a == MemSize + s.off
    <3>1. s.ty \in DataTypes
      <4>1. FramesOK(mem, calls) /\ 1 \in 1 .. Len(calls)
        BY <1>2, <1>4, RunningFacts
      <4> QED
        BY <1>3, <1>4, <4>1, SlotPlace
    <3>2. a \in Mem => mem[a].ty # s.ty
      <4>1. ASSUME a \in Mem PROVE mem[a].ty \in {"CODE", "ZERO"}
        BY <1>1, <4>1 DEF CodeByte, ZeroByte, Byte
      <4> QED
        BY <3>1, <4>1, SizeAssumption
    <3> HIDE DEF a
    <3> QED
      BY <3>2 DEF Held, a
  <2> QED
    BY <1>3, <2>1 DEF Variables
<1>7. Stack = <<new>>
  <2>1. Stack = [i \in 1 .. 1 |-> Activation(i)]
    BY <1>2, <1>4, StackForm
  <2>2. Operands(1) = <<>>
    BY <1>4, <1>5 DEF Operands
  <2>3. Activation(1) = new
    BY <1>3, <1>4, <1>6, <2>2 DEF Activation
  <2> HIDE DEF new
  <2>4. \A i \in 1 .. 1 : Activation(i) = new
    BY <2>3
  <2> QED
    BY <2>1, <2>4
<1> DEFINE Vs == [f \in Program |-> Slots(f)]
<1>8. Vs[Boot] = Slots(Boot)
  BY DEF Program
<1> HIDE DEF Vs
<1>9. /\ (IF Running THEN "running" ELSE pc) = "running"
      /\ Stack = << [fn |-> Boot, vars |-> [x \in Vs[Boot] |-> Unset], ops |-> <<>>] >>
  BY <1>2, <1>7, <1>8
<1> QED
  BY <1>9, Zenon DEF Abstract!Init, Vs

LEMMA StutterKeeps ==
  ASSUME UNCHANGED vars
  PROVE  UNCHANGED Abstract!vars
<1>1. mem' = mem /\ ip' = ip /\ sp' = sp /\ bp' = bp /\ pc' = pc /\ ret' = ret /\ calls' = calls
  BY DEF vars
<1>2. (IF Running' THEN "running" ELSE pc') = IF Running THEN "running" ELSE pc
  BY <1>1 DEF Running
<1>3. TopOperands' = TopOperands
  BY <1>1 DEF TopOperands, Popped, OperandEnd, Seqs!Reverse
<1>4. \A i : Operands(i)' = Operands(i)
  BY <1>1, <1>3 DEF Operands
<1>5. Stack' = Stack
  BY <1>1, <1>4 DEF Stack, Running
<1> QED
  BY <1>2, <1>5 DEF Abstract!vars

LEMMA Simulates ==
  ASSUME IInv, [Instruction]_vars
  PROVE  [Abstract!Next]_Abstract!vars
<1> DEFINE Moves == \E x \in [f \in Program |-> Slots(f)][Abstract!Top.fn] :
                      Abstract!Read(x) \/ Abstract!Assign(x)
<1>1. ASSUME NEW t \in DataTypes, NEW v \in Vals[t], Push(t, v) \/ OpArithmetic(t, v) \/ OpCast(t, v)
      PROVE  Abstract!Evaluate
  BY <1>1, ConstantEvaluates, OperatorEvaluates
<1>2. ASSUME NEW v \in {0, 1}, OpComparison(v) \/ OpLogical(v) PROVE Abstract!Evaluate
  BY <1>2, OperatorEvaluates
<1>3. CASE PushAddress \/ ReadConst \/ OpNot \/ CallExternal \/ Jump \/ JumpCond \/ Ret
  <2>1. Abstract!Evaluate
    BY <1>3, ConstantEvaluates, OperatorEvaluates, ExternalEvaluates, JumpEvaluates, RetEvaluates
  <2> QED
    BY <2>1 DEF Abstract!Next
<1>4. CASE WriteMem \/ ReadMem
  <2>1. Moves
    BY <1>4, ReadMemReads, WriteMemAssigns
  <2> QED
    BY <2>1 DEF Abstract!Next
<1>5. CASE \/ BoundsError \/ ComparisonError \/ ExternalError \/ Halt
           \/ PushBelow \/ CastOverCode \/ MisreadBool
  BY <1>5, EndStops DEF Abstract!Next
<1>6. ASSUME NEW f \in Funcs, Call(f) PROVE Abstract!Call(f)
  BY <1>6, CallCalls
<1>7. CASE LeaveFrame
  BY <1>7, LeaveReturns DEF Abstract!Next
<1>8. CASE CollectRetval \/ PopArg \/ PushRetval \/ RetDone
  <2>1. Stack' = Stack /\ Running /\ Running'
    BY <1>8, CollectKeeps, PopArgKeeps, PushKeeps, DoneKeeps
  <2> QED
    BY <2>1 DEF Abstract!vars
<1>9. CASE UNCHANGED vars
  BY <1>9, StutterKeeps
<1>10. CASE \E t \in DataTypes : \E v \in Vals[t] : Push(t, v) \/ OpArithmetic(t, v) \/ OpCast(t, v)
  BY <1>1, <1>10 DEF Abstract!Next
<1>11. CASE \E v \in {0, 1} : OpComparison(v) \/ OpLogical(v)
  BY <1>2, <1>11 DEF Abstract!Next
<1>12. CASE \E f \in Funcs : Call(f)
  BY <1>6, <1>12 DEF Abstract!Next
<1> QED
  BY <1>3, <1>4, <1>5, <1>7, <1>8, <1>9, <1>10, <1>11, <1>12, Zenon DEF Instruction

-------------------------------------------------------------------------------
\* The byte memory, the pointers and the instructions, CALL and RET among them, behave
\* like activations that keep their variables and operands to themselves: VMFrames
\* implements CallStack.
THEOREM CallsRefined == Spec => CallsAbstracted
<1>1. IInv /\ [Instruction]_vars => [Abstract!Next]_Abstract!vars
  BY Simulates
<1> QED
  BY <1>1, InitAbstract, Invariance, PTL DEF Spec, CallsAbstracted, Abstract!Spec
===============================================================================
