------------------------- MODULE ThreeACControlProofs -------------------------
(***************************************************************************)
(* Proofs about ThreeACControl: for every function that the generator may  *)
(* be given, the branches of the finished code lead to where they were     *)
(* meant to, and wherever the code is when it runs, its variables and      *)
(* temporaries in scope are allocated and the saved stack pointers around  *)
(* it are those that its restores rely on.                                 *)
(*                                                                         *)
(* The argument: an instruction notes what is in scope before it.  From    *)
(* one instruction to the next, and from a branch to its label, what is in *)
(* scope changes only in a way that the instruction justifies (Flow): it   *)
(* grows by what is allocated or saved and shrinks to an initial part.     *)
(* This is a property of the code, composed from its pieces while it is    *)
(* written; that what is in scope is on the stack then follows step by     *)
(* step while it runs.                                                     *)
(***************************************************************************)
EXTENDS ThreeACControl, TLAPS, SequenceTheorems, WellFoundedInduction

\* the elements of a sequence, and an initial part of one
Elems(s)     == {s[i] : i \in 1 .. Len(s)}
Begins(s, t) == Len(s) <= Len(t) /\ \A i \in 1 .. Len(s) : s[i] = t[i]

Ops      == {"save", "restore", "alloca", "use", "label", "br", "next", "cbr",
             "call", "strcall", "heap", "free", "ret"}
Branches == {"br", "next", "cbr"}
Kinds    == {"func", "stmts", "loop", "if", "ifelse", "else"}
Places   == [to : {"start", "begin", "end", "if", "else"}, at : Nat]
Regs     == Names \union {None}
Instrs   == [op : Ops, reg : Regs, to : Seq(Nat), meant : Seq(Places), open : Seq(Names)]
Visits   == [kind : Kinds, stage : {"body", "done"}, begin : Nat, label : Nat, block : Regs,
             out : Seq(Names), in : Seq(Names), dom : SUBSET Vars, nest : Nat]

InstrOK(x) ==
  /\ Len(x.to) = Len(x.meant)
  /\ x.op = "label" => Len(x.to) = 1
  /\ x.op \in {"br", "next"} => Len(x.to) = 1
  /\ x.op = "cbr" => Len(x.to) = 2
  /\ x.op \in {"save", "alloca", "call", "strcall", "heap"} => x.reg \in Names
  /\ x.op = "save" => x.reg[1] = "block"

\* o may be in scope behind the instruction x
Flow(x, o) ==
  /\ x.op \in {"save", "alloca"} => x.reg \notin Elems(x.open) /\ o = Append(x.open, x.reg)
  /\ x.op \in {"call", "strcall", "heap"} => x.reg \notin Elems(x.open) /\ Begins(o, x.open)
  /\ x.op \in {"use", "label", "free"} => Begins(o, x.open)
  /\ x.op = "restore" =>
       /\ Begins(o, x.open)
       /\ \E p \in 1 .. Len(x.open) : x.open[p] = x.reg /\ Len(o) <= p

\* a piece of code that begins with o1 and ends with o2 in scope
Piece(s, o1, o2) ==
  /\ s # <<>> /\ s[1].open = o1
  /\ \A i \in 1 .. (Len(s) - 1) : Flow(s[i], s[i + 1].open)
  /\ Flow(s[Len(s)], o2)

\* no label is placed twice
Once(s) ==
  \A i, j \in 1 .. Len(s) :
    s[i].op = "label" /\ s[j].op = "label" /\ s[i].to = s[j].to => i = j

\* the labels that an open visit has yet to place, with what they are meant for
Pending(v) ==
  CASE v.kind \in {"loop", "else"} -> {<<v.label + 2, Place("end", v.begin)>>}
    [] v.kind = "if"     -> {<<v.label + 1, Place("end", v.begin)>>}
    [] v.kind = "ifelse" -> {<<v.label + 1, Place("else", v.begin)>>,
                             <<v.label + 2, Place("end", v.begin)>>}
    [] OTHER             -> {}

\* label l is, or will be, the place pl, with an initial part of o in scope
LabelAt(x, l, pl, o) == x.op = "label" /\ x.to = <<l>> /\ x.meant = <<pl>> /\ Begins(x.open, o)
Leads(l, pl, o) ==
  \/ \E x \in Elems(code) : LabelAt(x, l, pl, o)
  \/ \E p \in 1 .. Len(visits) : <<l, pl>> \in Pending(visits[p]) /\ Begins(visits[p].in, o)

CodeOK ==
  /\ code \in Seq(Instrs)
  /\ \A x \in Elems(code) : InstrOK(x)
  /\ (code = <<>> /\ open = <<>>) \/ Piece(code, <<>>, open)

LabelsOK ==
  /\ Once(code)
  /\ \A x \in Elems(code) : x.op = "label" => x.to[1] < labelCount
  /\ \A p \in 1 .. Len(visits) : \A t \in Pending(visits[p]) :
       /\ t[1] < labelCount
       /\ \A x \in Elems(code) : x.op = "label" => x.to # <<t[1]>>

BranchesOK ==
  \A x \in Elems(code) : x.op \in Branches =>
    \A k \in 1 .. Len(x.to) : Leads(x.to[k], x.meant[k], x.open)

\* the open visits: what was in scope when they began still is
VisitOK(p) ==
  LET v == visits[p] IN
  /\ v.kind = "func" <=> p = 1
  /\ Begins(v.out, v.in) /\ Begins(v.in, open)
  /\ v.kind \in {"stmts", "loop"} => Len(v.out) < Len(v.in) /\ v.in[Len(v.out) + 1] = v.block
  /\ \A q \in 1 .. (p - 1) : Begins(visits[q].in, v.out)
  /\ \A q \in 1 .. Len(visits) : q # p =>
       \A s \in Pending(visits[q]) : \A t \in Pending(v) : s[1] # t[1]

VisitsOK ==
  /\ visits \in Seq(Visits)
  /\ \A p \in 1 .. Len(visits) : VisitOK(p)

\* the stacks of labels hold those of the open loops
LoopOK(v) ==
  /\ v.nest \in 1 .. Len(loopStartStack)
  /\ loopStartStack[v.nest] = v.label /\ loopEndStack[v.nest] = v.label + 2
  /\ \E x \in Elems(code) : LabelAt(x, v.label, Place("start", v.begin), v.out)

LoopsOK ==
  /\ Len(loopEndStack) = Len(loopStartStack)
  /\ Len(loopStartStack) = IF visits = <<>> THEN 0 ELSE Top.nest
  /\ visits # <<>> => visits[1].nest = 0
  /\ \A p \in 2 .. Len(visits) :
       visits[p].nest = visits[p - 1].nest + (IF visits[p].kind = "loop" THEN 1 ELSE 0)
  /\ \A q \in 1 .. Len(visits) : \A p \in 1 .. (q - 1) :
       /\ visits[p].nest <= visits[q].nest
       /\ visits[q].kind = "loop" => visits[p].nest < visits[q].nest
  /\ \A p \in 1 .. Len(visits) : visits[p].kind = "loop" => LoopOK(visits[p])
  /\ \A m \in 1 .. Len(loopStartStack) :
       \E p \in 1 .. Len(visits) : visits[p].kind = "loop" /\ visits[p].nest = m

\* the names in scope have been given
NamesOK ==
  \A r \in Elems(open) :
    /\ r[1] = "tmp"   => r[2] \in Nat /\ r[2] < varCount
    /\ r[1] = "block" => r[2] \in Nat /\ r[2] < labelCountBlock
    /\ r[1] = "var"   => \E x \in Elems(code) : x.op = "alloca" /\ x.reg = r

PhaseOK ==
  /\ phase = "start" => code = <<>> /\ visits = <<>> /\ open = <<>>
  /\ phase \in {"run", "returned", "undefined"} =>
       visits = <<>> /\ code # <<>> /\ code[Len(code)].op = "ret"
  /\ phase \in {"start", "gen"} => ip = 1 /\ stack = <<>> /\ heap = EmptyHeap /\ DOMAIN reg = {}
  /\ Len(visits) >= 2 => code # <<>>
  /\ visits # <<>> /\ visits[1].stage = "done" => Len(code) >= 2
  /\ retty \in {"void", "scalar", "heap"}

\* what is allocated is at its place on the stack
RegsOK == \A r \in DOMAIN reg : reg[r].mem = "stack" => reg[r].n >= 1

Generated == CodeOK /\ LabelsOK /\ BranchesOK /\ VisitsOK /\ LoopsOK /\ NamesOK /\ PhaseOK

IInv == TypeOK /\ Generated /\ RegsOK /\ ScopesLive

-------------------------------------------------------------------------------
(***************************************************************************)
(* Sequences.                                                              *)
(***************************************************************************)
LEMMA BeginsReflexive ==
  ASSUME NEW S, NEW s \in Seq(S)
  PROVE  Begins(s, s)
BY DEF Begins

LEMMA BeginsTransitive ==
  ASSUME NEW S, NEW s \in Seq(S), NEW t \in Seq(S), NEW u \in Seq(S),
         Begins(s, t), Begins(t, u)
  PROVE  Begins(s, u)
BY DEF Begins

LEMMA BeginsAppend ==
  ASSUME NEW S, NEW s \in Seq(S), NEW t \in Seq(S), NEW x \in S, Begins(s, t)
  PROVE  Begins(s, Append(t, x))
BY DEF Begins

LEMMA AppendElems ==
  ASSUME NEW S, NEW s \in Seq(S), NEW x \in S
  PROVE  /\ Append(s, x) \in Seq(S)
         /\ Elems(Append(s, x)) = Elems(s) \union {x}
<1>1. Append(s, x) \in Seq(S) /\ Len(Append(s, x)) = Len(s) + 1
  OBVIOUS
<1>2. /\ \A i \in 1 .. Len(s) : Append(s, x)[i] = s[i]
      /\ Append(s, x)[Len(s) + 1] = x
  OBVIOUS
<1>3. ASSUME NEW i \in 1 .. Len(s) + 1 PROVE Append(s, x)[i] \in Elems(s) \union {x}
  <2>1. i \in 1 .. Len(s) \/ i = Len(s) + 1
    OBVIOUS
  <2>2. QED
    BY <1>2, <2>1 DEF Elems
<1>4. ASSUME NEW y \in Elems(s) PROVE y \in Elems(Append(s, x))
  <2>1. PICK i \in 1 .. Len(s) : y = s[i]
    BY DEF Elems
  <2>2. QED
    BY <1>1, <1>2, <2>1 DEF Elems
<1>5. x \in Elems(Append(s, x))
  BY <1>1, <1>2 DEF Elems
<1>6. Elems(Append(s, x)) \subseteq Elems(s) \union {x}
  BY <1>1, <1>3 DEF Elems
<1>7. QED
  BY <1>1, <1>4, <1>5, <1>6

LEMMA ConcatElems ==
  ASSUME NEW S, NEW s \in Seq(S), NEW t \in Seq(S)
  PROVE  /\ s \o t \in Seq(S)
         /\ Elems(s \o t) = Elems(s) \union Elems(t)
<1> DEFINE u == s \o t
<1>1. u \in Seq(S) /\ Len(u) = Len(s) + Len(t)
  BY ConcatProperties
<1>2. \A i \in 1 .. Len(u) : u[i] = IF i <= Len(s) THEN s[i] ELSE t[i - Len(s)]
  BY <1>1, ConcatProperties
<1> HIDE DEF u
<1>3. ASSUME NEW x \in Elems(u) PROVE x \in Elems(s) \union Elems(t)
  <2>1. PICK i \in 1 .. Len(u) : x = u[i]
    BY DEF Elems
  <2>2. CASE i <= Len(s)
    <3>1. i \in 1 .. Len(s) /\ x = s[i]
      BY <1>2, <2>1, <2>2
    <3>2. QED
      BY <3>1 DEF Elems
  <2>3. CASE i > Len(s)
    <3>1. i - Len(s) \in 1 .. Len(t) /\ x = t[i - Len(s)]
      BY <1>1, <1>2, <2>1, <2>3
    <3>2. QED
      BY <3>1 DEF Elems
  <2>4. QED
    BY <2>2, <2>3
<1>4. ASSUME NEW x \in Elems(s) PROVE x \in Elems(u)
  <2>1. PICK i \in 1 .. Len(s) : x = s[i]
    BY DEF Elems
  <2>2. i \in 1 .. Len(u) /\ u[i] = x
    BY <1>1, <1>2, <2>1
  <2>3. QED
    BY <2>2 DEF Elems
<1>5. ASSUME NEW x \in Elems(t) PROVE x \in Elems(u)
  <2>1. PICK i \in 1 .. Len(t) : x = t[i]
    BY DEF Elems
  <2>2. i + Len(s) \in 1 .. Len(u) /\ u[i + Len(s)] = x
    BY <1>1, <1>2, <2>1
  <2>3. QED
    BY <2>2 DEF Elems
<1>6. QED
  BY <1>1, <1>3, <1>4, <1>5 DEF u

LEMMA ElemsEmpty == Elems(<<>>) = {}
BY DEF Elems

LEMMA ElemsType ==
  ASSUME NEW S, NEW s \in Seq(S)
  PROVE  Elems(s) \subseteq S
BY DEF Elems

LEMMA ConcatOne ==
  ASSUME NEW S, NEW s \in Seq(S), NEW x \in S
  PROVE  s \o <<x>> = Append(s, x)
BY Z3

LEMMA TakeBegins ==
  ASSUME NEW S, NEW s \in Seq(S), s # <<>>
  PROVE  LET t == SubSeq(s, 1, Len(s) - 1)
         IN  /\ t \in Seq(S) /\ Len(t) = Len(s) - 1
             /\ \A i \in 1 .. Len(t) : t[i] = s[i]
<1>1. Len(s) \in Nat /\ Len(s) >= 1
  BY EmptySeq
<1> DEFINE n == Len(s) - 1
<1>2. n \in Int /\ 1 \in Int /\ \A i \in 1 .. n : s[i] \in S
  BY <1>1
<1> HIDE DEF n
<1>3. /\ SubSeq(s, 1, n) \in Seq(S)
      /\ Len(SubSeq(s, 1, n)) = IF 1 <= n THEN n - 1 + 1 ELSE 0
      /\ \A i \in 1 .. n - 1 + 1 : SubSeq(s, 1, n)[i] = s[1 + i - 1]
  BY <1>2, SubSeqProperties
<1>4. n >= 0 /\ n - 1 + 1 = n
  BY <1>1 DEF n
<1>5. Len(SubSeq(s, 1, n)) = n
  BY <1>2, <1>3, <1>4
<1>6. ASSUME NEW i \in 1 .. n PROVE SubSeq(s, 1, n)[i] = s[i]
  <2>1. 1 + i - 1 = i /\ i \in 1 .. n - 1 + 1
    BY <1>2
  <2>2. QED
    BY <1>3, <2>1
<1>7. QED
  BY <1>3, <1>5, <1>6 DEF n

-------------------------------------------------------------------------------
(***************************************************************************)
(* Pieces of code.                                                         *)
(***************************************************************************)
\* code that can be appended; "plain" code has neither labels nor branches
Sound(s) == s \in Seq(Instrs) /\ \A x \in Elems(s) : InstrOK(x)
Plain(s) == Sound(s) /\ \A x \in Elems(s) : x.op \notin Branches \union {"label"}

LEMMA PieceConcat ==
  ASSUME NEW s \in Seq(Instrs), NEW t \in Seq(Instrs), NEW o1, NEW o2, NEW o3,
         Piece(s, o1, o2), Piece(t, o2, o3)
  PROVE  Piece(s \o t, o1, o3)
<1> DEFINE u == s \o t
<1>1. u \in Seq(Instrs) /\ Len(u) = Len(s) + Len(t)
  BY ConcatProperties
<1>2. \A i \in 1 .. Len(u) : u[i] = IF i <= Len(s) THEN s[i] ELSE t[i - Len(s)]
  BY <1>1, ConcatProperties
<1>3. Len(s) >= 1 /\ Len(t) >= 1
  BY EmptySeq DEF Piece
<1> HIDE DEF u
<1>4. u # <<>> /\ u[1].open = o1
  <2>1. u # <<>>
    BY <1>1, <1>3
  <2>2. u[1] = s[1]
    BY <1>1, <1>2, <1>3
  <2>3. QED
    BY <2>1, <2>2 DEF Piece
<1>5. ASSUME NEW i \in 1 .. (Len(u) - 1) PROVE Flow(u[i], u[i + 1].open)
  <2>1. CASE i < Len(s)
    <3>1. u[i] = s[i] /\ u[i + 1] = s[i + 1] /\ i \in 1 .. (Len(s) - 1)
      BY <1>1, <1>2, <2>1
    <3>2. QED
      BY <3>1 DEF Piece
  <2>2. CASE i = Len(s)
    <3>1. u[i] = s[Len(s)] /\ u[i + 1] = t[1]
      <4>1. i \in 1 .. Len(u) /\ i + 1 \in 1 .. Len(u) /\ i <= Len(s) /\ ~(i + 1 <= Len(s))
        BY <1>1, <2>2
      <4>2. i + 1 - Len(s) = 1
        BY <1>1, <2>2
      <4>3. QED
        BY <1>2, <2>2, <4>1, <4>2
    <3>2. QED
      BY <3>1 DEF Piece
  <2>3. CASE i > Len(s)
    <3>1. /\ i - Len(s) \in 1 .. (Len(t) - 1)
          /\ u[i] = t[i - Len(s)] /\ u[i + 1] = t[(i - Len(s)) + 1]
      <4>1. i \in 1 .. Len(u) /\ i + 1 \in 1 .. Len(u) /\ ~(i <= Len(s)) /\ ~(i + 1 <= Len(s))
        BY <1>1, <2>3
      <4>2. i + 1 - Len(s) = (i - Len(s)) + 1
        BY <1>1
      <4>3. QED
        BY <1>1, <1>2, <4>1, <4>2
    <3>2. QED
      BY <3>1 DEF Piece
  <2>4. QED
    BY <1>1, <2>1, <2>2, <2>3
<1>6. u[Len(u)] = t[Len(t)]
  BY <1>1, <1>2, <1>3
<1>7. QED
  BY <1>1, <1>4, <1>5, <1>6 DEF Piece, u

LEMMA SoundConcat ==
  ASSUME NEW s, NEW t, Sound(s), Sound(t)
  PROVE  Sound(s \o t) /\ Elems(s \o t) = Elems(s) \union Elems(t)
BY ConcatElems DEF Sound

LEMMA PlainConcat ==
  ASSUME NEW s, NEW t, Plain(s), Plain(t)
  PROVE  Plain(s \o t)
BY SoundConcat DEF Plain

\* the labels that are placed
Labs(s) == {x.to : x \in {y \in Elems(s) : y.op = "label"}}

LEMMA OnceConcat ==
  ASSUME NEW s \in Seq(Instrs), NEW t \in Seq(Instrs),
         Once(s), Once(t), Labs(s) \intersect Labs(t) = {}
  PROVE  Once(s \o t)
<1> DEFINE u == s \o t
<1>1. u \in Seq(Instrs) /\ Len(u) = Len(s) + Len(t)
  BY ConcatProperties
<1>2. \A i \in 1 .. Len(u) : u[i] = IF i <= Len(s) THEN s[i] ELSE t[i - Len(s)]
  BY <1>1, ConcatProperties
<1> HIDE DEF u
<1>3. SUFFICES ASSUME NEW i \in 1 .. Len(u), NEW j \in 1 .. Len(u),
                      u[i].op = "label", u[j].op = "label", u[i].to = u[j].to
               PROVE  i = j
  BY DEF Once, u
<1>4. ASSUME NEW k \in 1 .. Len(u), u[k].op = "label", k <= Len(s)
      PROVE  k \in 1 .. Len(s) /\ u[k] = s[k] /\ u[k].to \in Labs(s)
  <2>1. k \in 1 .. Len(s) /\ u[k] = s[k]
    BY <1>1, <1>2, <1>4
  <2>2. QED
    BY <1>4, <2>1 DEF Labs, Elems
<1>5. ASSUME NEW k \in 1 .. Len(u), u[k].op = "label", k > Len(s)
      PROVE  k - Len(s) \in 1 .. Len(t) /\ u[k] = t[k - Len(s)] /\ u[k].to \in Labs(t)
  <2>1. k - Len(s) \in 1 .. Len(t) /\ u[k] = t[k - Len(s)]
    BY <1>1, <1>2, <1>5
  <2>2. QED
    BY <1>5, <2>1 DEF Labs, Elems
<1>6. CASE i <= Len(s) /\ j <= Len(s)
  BY <1>3, <1>4, <1>6 DEF Once
<1>7. CASE i > Len(s) /\ j > Len(s)
  <2>1. i - Len(s) = j - Len(s)
    BY <1>3, <1>5, <1>7 DEF Once
  <2>2. QED
    BY <1>1, <2>1
<1>8. CASE (i <= Len(s) /\ j > Len(s)) \/ (i > Len(s) /\ j <= Len(s))
  BY <1>3, <1>4, <1>5, <1>8
<1>9. QED
  BY <1>1, <1>6, <1>7, <1>8

-------------------------------------------------------------------------------
(***************************************************************************)
(* Code that grows.                                                        *)
(***************************************************************************)
LEMMA CodeExtended ==
  ASSUME CodeOK, NEW is, Sound(is), Piece(is, open, open'), code' = code \o is
  PROVE  CodeOK' /\ Elems(code') = Elems(code) \union Elems(is)
<1>1. code \in Seq(Instrs) /\ is \in Seq(Instrs)
  BY DEF CodeOK, Sound
<1>2. code' \in Seq(Instrs) /\ Elems(code') = Elems(code) \union Elems(is)
  BY <1>1, ConcatElems
<1>3. \A x \in Elems(code') : InstrOK(x)
  BY <1>2 DEF CodeOK, Sound
<1>4. Piece(code', <<>>, open')
  <2>1. CASE code = <<>> /\ open = <<>>
    <3>1. code' = is
      BY <1>1, <2>1, ConcatEmptySeq
    <3>2. QED
      BY <2>1, <3>1
  <2>2. CASE Piece(code, <<>>, open)
    BY <1>1, <2>2, PieceConcat
  <2>3. QED
    BY <2>1, <2>2 DEF CodeOK
<1>5. QED
  BY <1>2, <1>3, <1>4 DEF CodeOK

LEMMA LabelType ==
  ASSUME NEW x \in Instrs, InstrOK(x), x.op = "label"
  PROVE  x.to[1] \in Nat /\ x.to = << x.to[1] >>
<1>1. x.to \in Seq(Nat) /\ Len(x.to) = 1
  BY DEF InstrOK, Instrs
<1>2. QED
  BY <1>1

LEMMA PendingType ==
  ASSUME NEW v \in Visits, NEW t \in Pending(v)
  PROVE  t[1] \in Nat /\ t = <<t[1], t[2]>> /\ v.in \in Seq(Names)
BY DEF Pending, Visits, Place

\* a promised label is still promised, or it is placed in the new code
Kept(is, p, t) ==
  \/ \E q \in 1 .. Len(visits') :
       t \in Pending(visits'[q]) /\ Begins(visits'[q].in, visits[p].in)
  \/ \E x \in Elems(is) : LabelAt(x, t[1], t[2], visits[p].in)

\* the label is in the new code, or is promised now
LeadsNow(is, l, pl, o) ==
  \/ \E y \in Elems(is) : LabelAt(y, l, pl, o)
  \/ \E q \in 1 .. Len(visits') :
       <<l, pl>> \in Pending(visits'[q]) /\ Begins(visits'[q].in, o)

\* the labels in the new code are new or promised, and not promised any more
LabelsNew(is) ==
  /\ \A x \in Elems(is) : x.op = "label" =>
       /\ x.to[1] < labelCount'
       /\ \/ x.to[1] >= labelCount
          \/ \E p \in 1 .. Len(visits) : \E t \in Pending(visits[p]) : t[1] = x.to[1]
  /\ \A p \in 1 .. Len(visits') : \A t \in Pending(visits'[p]) :
       /\ t[1] < labelCount'
       /\ \/ t[1] >= labelCount
          \/ \E q \in 1 .. Len(visits) : t \in Pending(visits[q])
       /\ \A x \in Elems(is) : x.op = "label" => x.to # <<t[1]>>

LEMMA LinksKept ==
  ASSUME CodeOK, LabelsOK, BranchesOK, visits \in Seq(Visits), visits' \in Seq(Visits),
         labelCount \in Nat, labelCount' \in Nat, labelCount <= labelCount',
         NEW is, Sound(is), Once(is), code' = code \o is, LabelsNew(is),
         \A p \in 1 .. Len(visits) : \A t \in Pending(visits[p]) : Kept(is, p, t),
         \A x \in Elems(is) : x.op \in Branches =>
           \A k \in 1 .. Len(x.to) :
             \/ Leads(x.to[k], x.meant[k], x.open)
             \/ LeadsNow(is, x.to[k], x.meant[k], x.open)
  PROVE  LabelsOK' /\ BranchesOK'
<1>1. /\ code \in Seq(Instrs) /\ is \in Seq(Instrs)
      /\ Elems(code) \subseteq Instrs /\ Elems(is) \subseteq Instrs
  BY ElemsType DEF CodeOK, Sound
<1>2. Elems(code') = Elems(code) \union Elems(is)
  BY <1>1, ConcatElems
<1>3. \A x \in Elems(code) \union Elems(is) :
        x.op = "label" => x.to[1] \in Nat /\ x.to = << x.to[1] >>
  BY <1>1, LabelType DEF CodeOK, Sound
<1>4. \A p \in 1 .. Len(visits) : \A t \in Pending(visits[p]) :
        t[1] \in Nat /\ t = <<t[1], t[2]>> /\ visits[p].in \in Seq(Names)
  BY PendingType, ElementOfSeq
<1>5. \A p \in 1 .. Len(visits') : \A t \in Pending(visits'[p]) :
        t[1] \in Nat /\ t = <<t[1], t[2]>> /\ visits'[p].in \in Seq(Names)
  BY PendingType, ElementOfSeq
<1>6. Once(code')
  <2>1. ASSUME NEW x \in Elems(code), NEW y \in Elems(is),
               x.op = "label", y.op = "label", x.to = y.to
        PROVE  FALSE
    <3>1. x.to[1] < labelCount /\ x.to[1] \in Nat
      BY <1>3, <2>1 DEF LabelsOK
    <3>2. PICK p \in 1 .. Len(visits) : \E t \in Pending(visits[p]) : t[1] = y.to[1]
      BY <2>1, <3>1 DEF LabelsNew
    <3>3. PICK t \in Pending(visits[p]) : t[1] = y.to[1]
      BY <3>2
    <3>4. y.to = <<t[1]>>
      BY <1>3, <2>1, <3>3
    <3>5. QED
      BY <2>1, <3>4 DEF LabelsOK
  <2>2. Labs(code) \intersect Labs(is) = {}
    BY <2>1 DEF Labs
  <2>3. QED
    BY <1>1, <2>2, OnceConcat DEF LabelsOK
<1>7. \A x \in Elems(code') : x.op = "label" => x.to[1] < labelCount'
  <2>1. ASSUME NEW x \in Elems(code), x.op = "label" PROVE x.to[1] < labelCount'
    BY <1>3, <2>1 DEF LabelsOK
  <2>2. QED
    BY <1>2, <2>1 DEF LabelsNew
<1>8. ASSUME NEW p \in 1 .. Len(visits'), NEW t \in Pending(visits'[p]),
             NEW x \in Elems(code'), x.op = "label"
      PROVE  x.to # <<t[1]>>
  <2>1. CASE x \in Elems(is)
    BY <1>8, <2>1 DEF LabelsNew
  <2>2. CASE x \in Elems(code)
    <3>1. CASE t[1] >= labelCount
      <4>1. x.to[1] < labelCount /\ x.to[1] \in Nat /\ t[1] \in Nat
        BY <1>3, <1>5, <1>8, <2>2 DEF LabelsOK
      <4>2. x.to[1] # t[1]
        BY <3>1, <4>1
      <4>3. QED
        BY <4>2
    <3>2. CASE \E q \in 1 .. Len(visits) : t \in Pending(visits[q])
      BY <1>8, <2>2, <3>2 DEF LabelsOK
    <3>3. QED
      BY <3>1, <3>2 DEF LabelsNew
  <2>3. QED
    BY <1>2, <2>1, <2>2
<1>9. LabelsOK'
  <2>1. \A p \in 1 .. Len(visits') : \A t \in Pending(visits'[p]) : t[1] < labelCount'
    BY DEF LabelsNew
  <2>2. QED
    BY <1>6, <1>7, <1>8, <2>1 DEF LabelsOK
<1>10. ASSUME NEW l, NEW pl, NEW o \in Seq(Names), Leads(l, pl, o)
       PROVE  Leads(l, pl, o)'
  <2>3. CASE \E y \in Elems(code) : LabelAt(y, l, pl, o)
    BY <1>2, <2>3 DEF Leads
  <2>4. CASE \E p \in 1 .. Len(visits) : <<l, pl>> \in Pending(visits[p]) /\ Begins(visits[p].in, o)
    <3>1. PICK p \in 1 .. Len(visits) : <<l, pl>> \in Pending(visits[p]) /\ Begins(visits[p].in, o)
      BY <2>4
    <3>2. Kept(is, p, <<l, pl>>) /\ visits[p].in \in Seq(Names)
      BY <1>4, <3>1
    <3>3. CASE \E q \in 1 .. Len(visits') :
                 <<l, pl>> \in Pending(visits'[q]) /\ Begins(visits'[q].in, visits[p].in)
      <4>1. PICK q \in 1 .. Len(visits') :
                   <<l, pl>> \in Pending(visits'[q]) /\ Begins(visits'[q].in, visits[p].in)
        BY <3>3
      <4>2. visits'[q].in \in Seq(Names)
        BY <1>5, <4>1
      <4>3. Begins(visits'[q].in, o)
        BY <3>1, <3>2, <4>1, <4>2, BeginsTransitive
      <4>4. QED
        BY <4>1, <4>3 DEF Leads
    <3>4. CASE \E y \in Elems(is) : LabelAt(y, l, pl, visits[p].in)
      <4>1. PICK y \in Elems(is) : LabelAt(y, l, pl, visits[p].in)
        BY <3>4
      <4>2. y.open \in Seq(Names)
        BY <1>1 DEF Instrs
      <4>3. Begins(y.open, o)
        BY <3>1, <3>2, <4>1, <4>2, BeginsTransitive DEF LabelAt
      <4>4. LabelAt(y, l, pl, o)
        BY <4>1, <4>3 DEF LabelAt
      <4>5. QED
        BY <1>2, <4>4 DEF Leads
    <3>5. QED
      BY <3>2, <3>3, <3>4 DEF Kept
  <2>5. QED
    BY <1>10, <2>3, <2>4 DEF Leads
<1>11. BranchesOK'
  <2>1. ASSUME NEW x \in Elems(code), x.op \in Branches, NEW k \in 1 .. Len(x.to)
        PROVE  Leads(x.to[k], x.meant[k], x.open)'
    <3>1. x.open \in Seq(Names)
      BY <1>1 DEF Instrs
    <3>2. QED
      BY <1>10, <2>1, <3>1 DEF BranchesOK
  <2>2. ASSUME NEW x \in Elems(is), x.op \in Branches, NEW k \in 1 .. Len(x.to)
        PROVE  Leads(x.to[k], x.meant[k], x.open)'
    <3>1. x.open \in Seq(Names)
      BY <1>1 DEF Instrs
    <3>2. CASE Leads(x.to[k], x.meant[k], x.open)
      BY <1>10, <3>1, <3>2
    <3>3. CASE LeadsNow(is, x.to[k], x.meant[k], x.open)
      BY <1>2, <3>3 DEF LeadsNow, Leads
    <3>4. QED
      BY <2>2, <3>2, <3>3
  <2>3. QED
    BY <1>2, <2>1, <2>2 DEF BranchesOK
<1>12. QED
  BY <1>9, <1>11

\* code without labels and branches leaves the links to the visits
LEMMA PlainLinks ==
  ASSUME CodeOK, LabelsOK, BranchesOK, visits \in Seq(Visits), visits' \in Seq(Visits),
         labelCount \in Nat, labelCount' \in Nat, labelCount <= labelCount',
         NEW is, Plain(is), code' = code \o is,
         \A p \in 1 .. Len(visits') : \A t \in Pending(visits'[p]) :
           \E q \in 1 .. Len(visits) : t \in Pending(visits[q]),
         \A p \in 1 .. Len(visits) : \A t \in Pending(visits[p]) :
           \E q \in 1 .. Len(visits') :
             t \in Pending(visits'[q]) /\ Begins(visits'[q].in, visits[p].in)
  PROVE  LabelsOK' /\ BranchesOK'
<1>1. Sound(is) /\ \A x \in Elems(is) : x.op # "label" /\ x.op \notin Branches
  BY DEF Plain
<1>2. Once(is)
  BY <1>1 DEF Once, Elems
<1>3. ASSUME NEW p \in 1 .. Len(visits'), NEW t \in Pending(visits'[p]) PROVE t[1] < labelCount'
  <2>1. PICK q \in 1 .. Len(visits) : t \in Pending(visits[q])
    OBVIOUS
  <2>2. t[1] \in Nat /\ t[1] < labelCount
    BY <2>1, PendingType, ElementOfSeq DEF LabelsOK
  <2>3. QED
    BY <2>2
<1>4. LabelsNew(is)
  BY <1>1, <1>3 DEF LabelsNew
<1>5. \A p \in 1 .. Len(visits) : \A t \in Pending(visits[p]) : Kept(is, p, t)
  BY DEF Kept
<1>6. QED
  BY <1>1, <1>2, <1>4, <1>5, LinksKept

-------------------------------------------------------------------------------
(***************************************************************************)
(* The pieces that the generator writes.                                   *)
(***************************************************************************)
LEMMA DoType ==
  ASSUME NEW op \in Ops, NEW r \in Regs, NEW o \in Seq(Names)
  PROVE  /\ Do(op, r, o) \in Instrs
         /\ Do(op, r, o).op = op /\ Do(op, r, o).reg = r
         /\ Do(op, r, o).to = <<>> /\ Do(op, r, o).meant = <<>> /\ Do(op, r, o).open = o
BY DEF Do, Instr, Instrs

LEMMA BranchType ==
  ASSUME NEW op \in Ops, NEW to \in Seq(Nat), NEW meant \in Seq(Places), NEW o \in Seq(Names)
  PROVE  LET x == Branch(op, to, meant, o)
         IN  /\ x \in Instrs
             /\ x.op = op /\ x.to = to /\ x.meant = meant /\ x.open = o
BY DEF Branch, Instr, Instrs, Regs, None

LEMMA PlaceType ==
  ASSUME NEW to \in {"start", "begin", "end", "if", "else"}, NEW at \in Nat
  PROVE  Place(to, at) \in Places /\ <<Place(to, at)>> \in Seq(Places)
BY DEF Place, Places

LEMMA NameTypes ==
  /\ \A k \in Nat : /\ Tmp(k) \in Names /\ Tmp(k)[1] = "tmp" /\ Tmp(k)[2] = k
                    /\ Block(k) \in Names /\ Block(k)[1] = "block" /\ Block(k)[2] = k
  /\ \A v \in Vars : Var(v) \in Names /\ Var(v)[1] = "var" /\ Var(v)[2] = v
  /\ Names \subseteq Regs /\ None \in Regs
BY DEF Tmp, Block, Var, Names, Regs

LEMMA Tuple1 ==
  ASSUME NEW S, NEW a \in S
  PROVE  <<a>> \in Seq(S) /\ Len(<<a>>) = 1 /\ Elems(<<a>>) = {a}
BY DEF Elems

LEMMA Tuple2 ==
  ASSUME NEW S, NEW a \in S, NEW b \in S
  PROVE  <<a, b>> \in Seq(S) /\ Len(<<a, b>>) = 2 /\ Elems(<<a, b>>) = {a, b}
<1>1. 1 .. 2 = {1, 2}
  OBVIOUS
<1>2. QED
  BY <1>1 DEF Elems

LEMMA Tuple3 ==
  ASSUME NEW S, NEW a \in S, NEW b \in S, NEW c \in S
  PROVE  <<a, b, c>> \in Seq(S) /\ Len(<<a, b, c>>) = 3 /\ Elems(<<a, b, c>>) = {a, b, c}
<1>1. 1 .. 3 = {1, 2, 3}
  OBVIOUS
<1>2. QED
  BY <1>1 DEF Elems

LEMMA Piece1 ==
  ASSUME NEW x, NEW o, Flow(x, o)
  PROVE  Piece(<<x>>, x.open, o)
BY DEF Piece

LEMMA Piece2 ==
  ASSUME NEW x, NEW y, NEW o, Flow(x, y.open), Flow(y, o)
  PROVE  Piece(<<x, y>>, x.open, o)
<1>1. 1 .. (2 - 1) = {1} /\ Len(<<x, y>>) = 2
  OBVIOUS
<1>2. QED
  BY <1>1 DEF Piece

LEMMA Piece3 ==
  ASSUME NEW x, NEW y, NEW z, NEW o, Flow(x, y.open), Flow(y, z.open), Flow(z, o)
  PROVE  Piece(<<x, y, z>>, x.open, o)
<1>1. 1 .. (3 - 1) = {1, 2} /\ Len(<<x, y, z>>) = 3
  OBVIOUS
<1>2. QED
  BY <1>1 DEF Piece

\* the kinds of instructions that the generator uses without labels
LEMMA PlainDo ==
  ASSUME NEW op \in Ops \ (Branches \union {"label"}), NEW r \in Regs, NEW o \in Seq(Names),
         op \in {"save", "alloca", "call", "strcall", "heap"} => r \in Names,
         op = "save" => r[1] = "block"
  PROVE  /\ Do(op, r, o) \in Instrs
         /\ InstrOK(Do(op, r, o)) /\ Do(op, r, o).op \notin Branches \union {"label"}
         /\ Plain(<< Do(op, r, o) >>)
<1> DEFINE x == Do(op, r, o)
<1>1. /\ x \in Instrs /\ x.op = op /\ x.reg = r
      /\ x.to = <<>> /\ x.meant = <<>> /\ x.open = o
  BY DoType
<1> HIDE DEF x
<1>2. InstrOK(x) /\ x.op \notin Branches \union {"label"}
  BY <1>1 DEF InstrOK, Branches
<1>3. <<x>> \in Seq(Instrs) /\ Elems(<<x>>) = {x}
  BY <1>1, Tuple1
<1>4. Plain(<<x>>)
  BY <1>2, <1>3 DEF Plain, Sound
<1>5. QED
  BY <1>1, <1>2, <1>4 DEF x

LEMMA PlainOne ==
  ASSUME NEW x
  PROVE  Plain(<<x>>) <=> /\ x \in Instrs /\ InstrOK(x)
                          /\ x.op \notin Branches \union {"label"}
<1>1. <<x>> \in Seq(Instrs) => x \in Instrs
  <2>1. Len(<<x>>) = 1 /\ <<x>>[1] = x
    OBVIOUS
  <2>2. QED
    BY <2>1, ElementOfSeq
<1>2. x \in Instrs => <<x>> \in Seq(Instrs)
  BY Tuple1
<1>3. Elems(<<x>>) = {x}
  BY DEF Elems
<1>4. QED
  BY <1>1, <1>2, <1>3 DEF Plain, Sound

LEMMA Plain2 ==
  ASSUME NEW x, NEW y, Plain(<<x>>), Plain(<<y>>)
  PROVE  Plain(<<x, y>>)
<1>1. x \in Instrs /\ y \in Instrs
  BY PlainOne
<1>2. <<x, y>> \in Seq(Instrs) /\ Elems(<<x, y>>) = {x, y}
  BY <1>1, Tuple2
<1>3. QED
  BY <1>2, PlainOne DEF Plain, Sound

LEMMA Plain3 ==
  ASSUME NEW x, NEW y, NEW z, Plain(<<x>>), Plain(<<y>>), Plain(<<z>>)
  PROVE  Plain(<<x, y, z>>)
<1>1. x \in Instrs /\ y \in Instrs /\ z \in Instrs
  BY PlainOne
<1>2. <<x, y, z>> \in Seq(Instrs) /\ Elems(<<x, y, z>>) = {x, y, z}
  BY <1>1, Tuple3
<1>3. QED
  BY <1>2, PlainOne DEF Plain, Sound

\* what the instructions do to what is in scope
LEMMA FlowAlloc ==
  ASSUME NEW op \in {"save", "alloca"}, NEW r \in Names, NEW o \in Seq(Names), r \notin Elems(o)
  PROVE  Flow(Do(op, r, o), Append(o, r))
<1>1. Do(op, r, o).op = op /\ Do(op, r, o).reg = r /\ Do(op, r, o).open = o
  BY DEF Do, Instr
<1>2. QED
  BY <1>1 DEF Flow

LEMMA FlowKeep ==
  ASSUME NEW op \in {"call", "strcall", "heap", "use", "free"}, NEW r \in Regs,
         NEW o \in Seq(Names), op \in {"call", "strcall", "heap"} => r \notin Elems(o)
  PROVE  Flow(Do(op, r, o), o)
<1>1. Do(op, r, o).op = op /\ Do(op, r, o).reg = r /\ Do(op, r, o).open = o
  BY DEF Do, Instr
<1>2. Begins(o, o)
  BY BeginsReflexive
<1>3. QED
  BY <1>1, <1>2 DEF Flow

LEMMA FlowRestore ==
  ASSUME NEW r \in Names, NEW o \in Seq(Names), NEW o1 \in Seq(Names), Begins(o1, o),
         NEW p \in 1 .. Len(o), o[p] = r, Len(o1) <= p
  PROVE  Flow(Do("restore", r, o), o1)
<1>1. Do("restore", r, o).op = "restore" /\ Do("restore", r, o).reg = r
      /\ Do("restore", r, o).open = o
  BY DEF Do, Instr
<1>2. QED
  BY <1>1 DEF Flow

LEMMA FlowBranch ==
  ASSUME NEW op \in Branches \union {"ret"}, NEW x, x.op = op, NEW o
  PROVE  Flow(x, o)
BY DEF Flow, Branches

LEMMA FlowLabel ==
  ASSUME NEW x, NEW o, x.op = "label", Begins(o, x.open)
  PROVE  Flow(x, o)
BY DEF Flow

LEMMA EvalPiece ==
  ASSUME NEW e \in {"const", "array", "string", "comp"}, NEW k \in Nat, NEW o \in Seq(Names),
         Tmp(k) \notin Elems(o), Tmp(k + 1) \notin Elems(o)
  PROVE  /\ Plain(Eval(e, k, o)) /\ Piece(Eval(e, k, o), o, o \o Opened(e, k))
         /\ o \o Opened(e, k) \in Seq(Names)
         /\ Begins(o, o \o Opened(e, k))
         /\ Elems(o \o Opened(e, k)) \subseteq Elems(o) \union {Tmp(k), Tmp(k + 1)}
         /\ Result(e, k) \in Names
<1> DEFINE oa == Append(o, Tmp(k))
           ob == Append(o, Tmp(k + 1))
<1>1. /\ Tmp(k) \in Names /\ Tmp(k + 1) \in Names /\ Tmp(k) # Tmp(k + 1)
      /\ Tmp(k) \in Regs /\ Tmp(k + 1) \in Regs
  BY NameTypes DEF Tmp
<1>2. /\ oa \in Seq(Names) /\ Elems(oa) = Elems(o) \union {Tmp(k)}
      /\ ob \in Seq(Names) /\ Elems(ob) = Elems(o) \union {Tmp(k + 1)}
  BY <1>1, AppendElems
<1>3. Begins(o, oa) /\ Begins(o, ob) /\ Begins(o, o)
  BY <1>1, BeginsAppend, BeginsReflexive
<1>4. o \o <<Tmp(k)>> = oa /\ o \o <<Tmp(k + 1)>> = ob /\ o \o <<>> = o
  BY <1>1, ConcatOne, ConcatEmptySeq
<1>5. CASE e = "const"
  <2>1. Eval(e, k, o) = <<Do("alloca", Tmp(k), o), Do("use", Tmp(k), oa)>>
    BY <1>5 DEF Eval
  <2>2. Opened(e, k) = <<Tmp(k)>> /\ Result(e, k) = Tmp(k)
    BY <1>5 DEF Opened, Result
  <2>3. Do("alloca", Tmp(k), o).open = o /\ Do("use", Tmp(k), oa).open = oa
    BY DEF Do, Instr
  <2>4. Flow(Do("alloca", Tmp(k), o), oa) /\ Flow(Do("use", Tmp(k), oa), oa)
    BY <1>1, <1>2, FlowAlloc, FlowKeep
  <2>5. Piece(<<Do("alloca", Tmp(k), o), Do("use", Tmp(k), oa)>>, o, oa)
    BY <2>3, <2>4, Piece2
  <2>6. Plain(<<Do("alloca", Tmp(k), o), Do("use", Tmp(k), oa)>>)
    BY <1>1, <1>2, Plain2, PlainDo DEF Ops, Branches
  <2>7. QED
    BY <1>1, <1>2, <1>3, <1>4, <2>1, <2>2, <2>5, <2>6
<1>6. CASE e \in {"array", "string"}
  <2> DEFINE op == IF e = "array" THEN "call" ELSE "strcall"
             fr == IF e = "array" THEN Tmp(k) ELSE Tmp(k + 1)
             a == Do(op, Tmp(k), o)
             b == Do("alloca", Tmp(k + 1), o)
             c == Do("free", fr, ob)
  <2>1. Eval(e, k, o) = <<a, b, c>>
    BY <1>6 DEF Eval
  <2>2. Opened(e, k) = <<Tmp(k + 1)>> /\ Result(e, k) = Tmp(k + 1)
    BY <1>6 DEF Opened, Result
  <2>3. a.open = o /\ b.open = o /\ c.open = ob
    BY DEF Do, Instr
  <2>4. Flow(a, o) /\ Flow(b, ob) /\ Flow(c, ob)
    BY <1>1, <1>2, FlowAlloc, FlowKeep
  <2>5. Plain(<<a>>) /\ Plain(<<b>>) /\ Plain(<<c>>)
    BY <1>1, <1>2, PlainDo DEF Ops, Branches
  <2> HIDE DEF a, b, c
  <2>6. Piece(<<a, b, c>>, o, ob)
    BY <2>3, <2>4, Piece3
  <2>7. Plain(<<a, b, c>>)
    BY <2>5, Plain3
  <2>8. QED
    BY <1>1, <1>2, <1>3, <1>4, <2>1, <2>2, <2>6, <2>7
<1>7. CASE e = "comp"
  <2>1. Eval(e, k, o) = <<Do("call", Tmp(k), o)>>
    BY <1>7 DEF Eval
  <2>2. Opened(e, k) = <<>> /\ Result(e, k) = Tmp(k)
    BY <1>7 DEF Opened, Result
  <2>3. Do("call", Tmp(k), o).open = o
    BY DEF Do, Instr
  <2>4. Flow(Do("call", Tmp(k), o), o)
    BY <1>1, FlowKeep
  <2>5. Piece(<<Do("call", Tmp(k), o)>>, o, o)
    BY <2>3, <2>4, Piece1
  <2>6. Plain(<<Do("call", Tmp(k), o)>>)
    BY <1>1, PlainDo DEF Ops, Branches
  <2>7. QED
    BY <1>1, <1>3, <1>4, <2>1, <2>2, <2>5, <2>6
<1>8. QED
  BY <1>5, <1>6, <1>7

-------------------------------------------------------------------------------
(***************************************************************************)
(* The code of loops.                                                      *)
(***************************************************************************)
LEMMA Tuple4 ==
  ASSUME NEW S, NEW a \in S, NEW b \in S, NEW c \in S, NEW d \in S
  PROVE  /\ <<a, b, c, d>> \in Seq(S) /\ Len(<<a, b, c, d>>) = 4
         /\ Elems(<<a, b, c, d>>) = {a, b, c, d}
<1>1. 1 .. 4 = {1, 2, 3, 4}
  OBVIOUS
<1>2. QED
  BY <1>1 DEF Elems

LEMMA Piece4 ==
  ASSUME NEW x, NEW y, NEW z, NEW w, NEW o,
         Flow(x, y.open), Flow(y, z.open), Flow(z, w.open), Flow(w, o)
  PROVE  Piece(<<x, y, z, w>>, x.open, o)
<1>1. 1 .. (4 - 1) = {1, 2, 3} /\ Len(<<x, y, z, w>>) = 4
  OBVIOUS
<1>2. QED
  BY <1>1 DEF Piece

LEMMA PlainLabs ==
  ASSUME NEW s, Plain(s)
  PROVE  Labs(s) = {} /\ Once(s)
BY DEF Plain, Labs, Once, Elems

LEMMA LabsConcat ==
  ASSUME NEW s, NEW t, Sound(s), Sound(t)
  PROVE  Labs(s \o t) = Labs(s) \union Labs(t)
BY SoundConcat DEF Labs

StartBranch(h) == Branch("br", <<h.label>>, <<Place("start", h.begin)>>, h.out)
StartLabel(h)  == Branch("label", <<h.label>>, <<Place("start", h.begin)>>, h.out)
BeginLabel(h)  == Branch("label", <<h.label + 1>>, <<Place("begin", h.begin)>>, h.in)
EndLabel(h)    == Branch("label", <<h.label + 2>>, <<Place("end", h.begin)>>, h.in)
LoopTest(h)    == Branch("cbr", <<h.label + 1, h.label + 2>>,
                         <<Place("begin", h.begin), Place("end", h.begin)>>, h.in)

\* a visit of a loop, or the counterpart of one in a loop that copies
HeadType(h) ==
  /\ h.label \in Nat /\ h.begin \in Nat /\ h.block \in Names
  /\ h.out \in Seq(Names) /\ h.in \in Seq(Names)
HeadOK(h) == HeadType(h) /\ h.block[1] = "block" /\ h.block \notin Elems(h.out)

LEMMA LoopBranches ==
  ASSUME NEW h, HeadType(h)
  PROVE  /\ StartBranch(h) \in Instrs /\ InstrOK(StartBranch(h))
         /\ StartLabel(h) \in Instrs /\ InstrOK(StartLabel(h))
         /\ BeginLabel(h) \in Instrs /\ InstrOK(BeginLabel(h))
         /\ EndLabel(h) \in Instrs /\ InstrOK(EndLabel(h))
         /\ LoopTest(h) \in Instrs /\ InstrOK(LoopTest(h))
         /\ StartBranch(h).op = "br" /\ StartBranch(h).to = <<h.label>>
         /\ StartBranch(h).meant = <<Place("start", h.begin)>> /\ StartBranch(h).open = h.out
         /\ StartLabel(h).op = "label" /\ StartLabel(h).to = <<h.label>>
         /\ StartLabel(h).meant = <<Place("start", h.begin)>> /\ StartLabel(h).open = h.out
         /\ BeginLabel(h).op = "label" /\ BeginLabel(h).to = <<h.label + 1>>
         /\ BeginLabel(h).meant = <<Place("begin", h.begin)>> /\ BeginLabel(h).open = h.in
         /\ EndLabel(h).op = "label" /\ EndLabel(h).to = <<h.label + 2>>
         /\ EndLabel(h).meant = <<Place("end", h.begin)>> /\ EndLabel(h).open = h.in
         /\ LoopTest(h).op = "cbr" /\ LoopTest(h).to = <<h.label + 1, h.label + 2>>
         /\ LoopTest(h).meant = <<Place("begin", h.begin), Place("end", h.begin)>>
         /\ LoopTest(h).open = h.in
<1>1. /\ <<h.label>> \in Seq(Nat) /\ <<h.label + 1>> \in Seq(Nat) /\ <<h.label + 2>> \in Seq(Nat)
      /\ <<h.label + 1, h.label + 2>> \in Seq(Nat)
  BY DEF HeadType
<1>2. /\ <<Place("start", h.begin)>> \in Seq(Places)
      /\ <<Place("begin", h.begin)>> \in Seq(Places)
      /\ <<Place("end", h.begin)>> \in Seq(Places)
      /\ <<Place("begin", h.begin), Place("end", h.begin)>> \in Seq(Places)
  BY PlaceType, Tuple2 DEF HeadType
<1>3. h.out \in Seq(Names) /\ h.in \in Seq(Names)
  BY DEF HeadType
<1>4. None \in Regs /\ "br" \in Ops /\ "label" \in Ops /\ "cbr" \in Ops
  BY NameTypes DEF Ops
<1>5. /\ StartBranch(h) \in Instrs
      /\ StartBranch(h).op = "br" /\ StartBranch(h).to = <<h.label>>
      /\ StartBranch(h).meant = <<Place("start", h.begin)>> /\ StartBranch(h).open = h.out
  BY <1>1, <1>2, <1>3, <1>4 DEF StartBranch, Branch, Instr, Instrs
<1>6. /\ StartLabel(h) \in Instrs
      /\ StartLabel(h).op = "label" /\ StartLabel(h).to = <<h.label>>
      /\ StartLabel(h).meant = <<Place("start", h.begin)>> /\ StartLabel(h).open = h.out
  BY <1>1, <1>2, <1>3, <1>4 DEF StartLabel, Branch, Instr, Instrs
<1>7. /\ BeginLabel(h) \in Instrs
      /\ BeginLabel(h).op = "label" /\ BeginLabel(h).to = <<h.label + 1>>
      /\ BeginLabel(h).meant = <<Place("begin", h.begin)>> /\ BeginLabel(h).open = h.in
  BY <1>1, <1>2, <1>3, <1>4 DEF BeginLabel, Branch, Instr, Instrs
<1>8. /\ EndLabel(h) \in Instrs
      /\ EndLabel(h).op = "label" /\ EndLabel(h).to = <<h.label + 2>>
      /\ EndLabel(h).meant = <<Place("end", h.begin)>> /\ EndLabel(h).open = h.in
  BY <1>1, <1>2, <1>3, <1>4 DEF EndLabel, Branch, Instr, Instrs
<1>9. /\ LoopTest(h) \in Instrs
      /\ LoopTest(h).op = "cbr" /\ LoopTest(h).to = <<h.label + 1, h.label + 2>>
      /\ LoopTest(h).meant = <<Place("begin", h.begin), Place("end", h.begin)>>
      /\ LoopTest(h).open = h.in
  BY <1>1, <1>2, <1>3, <1>4 DEF LoopTest, Branch, Instr, Instrs
<1>10. /\ InstrOK(StartBranch(h)) /\ InstrOK(StartLabel(h)) /\ InstrOK(BeginLabel(h))
       /\ InstrOK(EndLabel(h)) /\ InstrOK(LoopTest(h))
  BY <1>5, <1>6, <1>7, <1>8, <1>9 DEF InstrOK
<1>11. QED
  BY <1>5, <1>6, <1>7, <1>8, <1>9, <1>10

LEMMA LoopHeadPiece ==
  ASSUME NEW h, HeadOK(h), NEW test, Plain(test),
         Piece(test, Append(h.out, h.block), h.in)
  PROVE  LET s == LoopHead(h, test)
         IN  /\ Sound(s) /\ Once(s) /\ Piece(s, h.out, h.in)
             /\ Elems(s) = Elems(test) \union
                  {StartBranch(h), StartLabel(h), Do("save", h.block, h.out),
                   LoopTest(h), BeginLabel(h)}
             /\ Labs(s) = {<<h.label>>, <<h.label + 1>>}
<1> DEFINE sv == Do("save", h.block, h.out)
           a == <<StartBranch(h), StartLabel(h), sv>>
           b == <<LoopTest(h), BeginLabel(h)>>
<1> HeadType(h)
  BY DEF HeadOK
<1>1. LoopHead(h, test) = a \o test \o b
  BY DEF LoopHead, StartBranch, StartLabel, LoopTest, BeginLabel
<1>2. /\ h.block \in Names /\ h.block \in Regs /\ h.out \in Seq(Names)
      /\ h.block[1] = "block" /\ h.label \in Nat /\ h.block \notin Elems(h.out)
      /\ h.in \in Seq(Names)
  BY NameTypes DEF HeadOK, HeadType
<1>3. /\ sv \in Instrs /\ InstrOK(sv) /\ sv.op = "save" /\ sv.open = h.out
  <2>1. "save" \in Ops \ (Branches \union {"label"})
    BY DEF Ops, Branches
  <2>2. sv \in Instrs /\ InstrOK(sv)
    BY <1>2, <2>1, PlainDo
  <2>3. QED
    BY <2>2 DEF Do, Instr
<1>4. Flow(sv, Append(h.out, h.block))
  BY <1>2, FlowAlloc
<1> HIDE DEF sv
<1>5. Sound(a) /\ Elems(a) = {StartBranch(h), StartLabel(h), sv}
  BY <1>3, LoopBranches, Tuple3 DEF Sound
<1>6. Sound(b) /\ Elems(b) = {LoopTest(h), BeginLabel(h)}
  BY LoopBranches, Tuple2 DEF Sound
<1>7. Piece(a, h.out, Append(h.out, h.block))
  <2>1. Flow(StartBranch(h), h.out)
    BY LoopBranches, FlowBranch DEF Branches
  <2>2. Flow(StartLabel(h), h.out)
    BY <1>2, LoopBranches, FlowLabel, BeginsReflexive
  <2>3. QED
    BY <1>3, <1>4, <2>1, <2>2, Piece3, LoopBranches
<1>8. Piece(b, h.in, h.in)
  <2>1. Flow(LoopTest(h), h.in)
    BY LoopBranches, FlowBranch DEF Branches
  <2>2. Flow(BeginLabel(h), h.in)
    BY <1>2, LoopBranches, FlowLabel, BeginsReflexive
  <2>3. QED
    BY <2>1, <2>2, Piece2, LoopBranches
<1>9. Once(a)
  <2>1. 1 .. 3 = {1, 2, 3}
    OBVIOUS
  <2>2. QED
    BY <1>3, <2>1, LoopBranches DEF Once
<1>10. Once(b)
  <2>1. 1 .. 2 = {1, 2}
    OBVIOUS
  <2>2. QED
    BY <2>1, LoopBranches DEF Once
<1>11. Labs(a) = {<<h.label>>}
  BY <1>3, <1>5, LoopBranches DEF Labs
<1>12. Labs(b) = {<<h.label + 1>>}
  BY <1>6, LoopBranches DEF Labs
<1> HIDE DEF a, b
<1>13. Sound(test) /\ Labs(test) = {} /\ Once(test)
  BY PlainLabs DEF Plain
<1>14. /\ Sound(a \o test) /\ Elems(a \o test) = Elems(a) \union Elems(test)
       /\ Labs(a \o test) = Labs(a) /\ Once(a \o test)
       /\ Piece(a \o test, h.out, h.in)
  <2>1. a \in Seq(Instrs) /\ test \in Seq(Instrs)
    BY <1>5, <1>13 DEF Sound
  <2>2. Sound(a \o test) /\ Elems(a \o test) = Elems(a) \union Elems(test)
    BY <1>5, <1>13, SoundConcat
  <2>3. Labs(a \o test) = Labs(a)
    BY <1>5, <1>13, LabsConcat
  <2>4. Once(a \o test)
    BY <1>9, <1>13, <2>1, OnceConcat
  <2>5. Piece(a \o test, h.out, h.in)
    BY <1>7, <2>1, PieceConcat
  <2>6. QED
    BY <2>2, <2>3, <2>4, <2>5
<1>15. <<h.label>> # <<h.label + 1>>
  BY <1>2
<1>16. /\ Sound(a \o test \o b) /\ Elems(a \o test \o b) = Elems(a) \union Elems(test) \union Elems(b)
       /\ Labs(a \o test \o b) = {<<h.label>>, <<h.label + 1>>} /\ Once(a \o test \o b)
       /\ Piece(a \o test \o b, h.out, h.in)
  <2> DEFINE c == a \o test
  <2> HIDE DEF c
  <2>1. Sound(c \o b) /\ Elems(c \o b) = Elems(c) \union Elems(b)
    BY <1>6, <1>14, SoundConcat DEF c
  <2>2. Labs(c \o b) = {<<h.label>>, <<h.label + 1>>}
    BY <1>6, <1>11, <1>12, <1>14, LabsConcat DEF c
  <2>3. Once(c \o b)
    BY <1>6, <1>10, <1>11, <1>12, <1>14, <1>15, OnceConcat DEF c, Sound
  <2>4. Piece(c \o b, h.out, h.in)
    BY <1>6, <1>8, <1>14, PieceConcat DEF c, Sound
  <2>5. QED
    BY <1>14, <2>1, <2>2, <2>3, <2>4 DEF c
<1>17. Elems(a) \union Elems(test) \union Elems(b)
         = Elems(test) \union {StartBranch(h), StartLabel(h), sv, LoopTest(h), BeginLabel(h)}
  BY <1>5, <1>6
<1>18. QED
  BY <1>1, <1>16, <1>17 DEF sv

LEMMA LoopTailPiece ==
  ASSUME NEW h, HeadType(h), NEW o \in Seq(Names), Begins(h.out, h.in), Begins(h.in, o),
         Len(h.out) < Len(h.in), h.in[Len(h.out) + 1] = h.block
  PROVE  LET s == LoopTail(h, o)
         IN  /\ Sound(s) /\ Once(s) /\ Piece(s, o, h.out)
             /\ Elems(s) = {Do("restore", h.block, o), StartBranch(h), EndLabel(h),
                            Do("restore", h.block, h.in)}
             /\ Labs(s) = {<<h.label + 2>>}
<1> DEFINE ra == Do("restore", h.block, o)
           rb == Do("restore", h.block, h.in)
           s == <<ra, StartBranch(h), EndLabel(h), rb>>
<1>1. LoopTail(h, o) = s
  BY DEF LoopTail, StartBranch, EndLabel
<1>2. /\ h.block \in Names /\ h.block \in Regs /\ h.out \in Seq(Names) /\ h.in \in Seq(Names)
  BY NameTypes DEF HeadType
<1>3. /\ ra \in Instrs /\ InstrOK(ra) /\ ra.op = "restore" /\ ra.open = o
      /\ rb \in Instrs /\ InstrOK(rb) /\ rb.op = "restore" /\ rb.open = h.in
  <2>1. "restore" \in Ops \ (Branches \union {"label"})
    BY DEF Ops, Branches
  <2>2. ra \in Instrs /\ InstrOK(ra) /\ rb \in Instrs /\ InstrOK(rb)
    BY <1>2, <2>1, PlainDo
  <2>3. QED
    BY <2>2 DEF Do, Instr
<1>4. Begins(h.out, o)
  BY <1>2, BeginsTransitive
<1>5. Flow(ra, h.out)
  <2>1. Len(h.out) + 1 \in 1 .. Len(o) /\ o[Len(h.out) + 1] = h.block
    BY <1>2 DEF Begins
  <2>2. QED
    BY <1>2, <1>4, <2>1, FlowRestore
<1>6. Flow(rb, h.out)
  <2>1. Len(h.out) + 1 \in 1 .. Len(h.in)
    BY <1>2
  <2>2. QED
    BY <1>2, <2>1, FlowRestore
<1> HIDE DEF ra, rb
<1>7. Flow(StartBranch(h), h.in) /\ Flow(EndLabel(h), h.in)
  BY <1>2, LoopBranches, FlowBranch, FlowLabel, BeginsReflexive DEF Branches
<1>8. Piece(s, o, h.out)
  BY <1>3, <1>5, <1>6, <1>7, LoopBranches, Piece4
<1>9. Sound(s) /\ Elems(s) = {ra, StartBranch(h), EndLabel(h), rb}
  <2>1. s \in Seq(Instrs) /\ Elems(s) = {ra, StartBranch(h), EndLabel(h), rb}
    BY <1>3, LoopBranches, Tuple4
  <2>2. \A x \in {ra, StartBranch(h), EndLabel(h), rb} : InstrOK(x)
    BY <1>3, LoopBranches
  <2>3. QED
    BY <2>1, <2>2 DEF Sound
<1>10. Once(s)
  <2>1. 1 .. 4 = {1, 2, 3, 4}
    OBVIOUS
  <2>2. s[1] = ra /\ s[2] = StartBranch(h) /\ s[4] = rb /\ Len(s) = 4
    OBVIOUS
  <2>3. s[1].op # "label" /\ s[2].op # "label" /\ s[4].op # "label"
    BY <1>3, <2>2, LoopBranches
  <2> HIDE DEF s
  <2>4. QED
    BY <2>1, <2>2, <2>3 DEF Once
<1>11. Labs(s) = {<<h.label + 2>>}
  <2>1. /\ ra.op # "label" /\ StartBranch(h).op # "label" /\ rb.op # "label"
        /\ EndLabel(h).op = "label" /\ EndLabel(h).to = <<h.label + 2>>
    BY <1>3, LoopBranches
  <2>2. {y \in Elems(s) : y.op = "label"} = {EndLabel(h)}
    BY <1>9, <2>1
  <2>3. QED
    BY <2>1, <2>2 DEF Labs
<1>12. QED
  BY <1>1, <1>8, <1>9, <1>10, <1>11 DEF ra, rb

\* every branch of a piece of code leads to a label in it
Closed(s) ==
  \A x \in Elems(s) : x.op \in Branches =>
    \A k \in 1 .. Len(x.to) : \E y \in Elems(s) : LabelAt(y, x.to[k], x.meant[k], x.open)

LEMMA CopyLoopPiece ==
  ASSUME NEW v \in Vars, NEW src \in Names, NEW at \in Nat, NEW label \in Nat,
         NEW block \in Names, block[1] = "block", NEW k \in Nat, NEW o \in Seq(Names),
         Tmp(k) \notin Elems(o), block \notin Elems(o)
  PROVE  LET s == CopyLoop(v, src, at, label, block, k, o)
         IN  /\ Sound(s) /\ Once(s) /\ Closed(s) /\ Piece(s, o, Append(o, Tmp(k)))
             /\ Labs(s) = {<<label>>, <<label + 1>>, <<label + 2>>}
<1> DEFINE out == Append(o, Tmp(k))
           h == [begin |-> at + 1, label |-> label, block |-> block,
                 out |-> out, in |-> Append(out, block)]
           a == <<Do("alloca", Tmp(k), o)>>
           t == <<Do("use", Tmp(k), h.in)>>
           b == <<Do("use", src, h.in), Do("use", Var(v), h.in), Do("use", Tmp(k), h.in)>>
<1>1. CopyLoop(v, src, at, label, block, k, o)
        = a \o LoopHead(h, t) \o b \o LoopTail(h, h.in)
  BY DEF CopyLoop
<1>2. /\ Tmp(k) \in Names /\ Tmp(k) \in Regs /\ Tmp(k)[1] = "tmp" /\ Tmp(k) # block
      /\ src \in Regs /\ Var(v) \in Regs
  BY NameTypes
<1>3. /\ out \in Seq(Names) /\ Elems(out) = Elems(o) \union {Tmp(k)}
      /\ Append(out, block) \in Seq(Names)
  BY <1>2, AppendElems
<1>4. h.in = Append(h.out, h.block) /\ h.out = out /\ h.label = label
  OBVIOUS
<1>5. HeadOK(h) /\ HeadType(h)
  BY <1>2, <1>3 DEF HeadOK, HeadType
<1>6. Begins(h.out, h.in) /\ Begins(h.in, h.in)
  BY <1>3, BeginsAppend, BeginsReflexive
<1>7. Len(h.out) < Len(h.in) /\ h.in[Len(h.out) + 1] = h.block
  BY <1>3
<1> DEFINE in == h.in
<1>8. h.in = in /\ in \in Seq(Names)
  BY <1>3
<1> HIDE DEF h, in
<1>9. Plain(a) /\ Piece(a, o, out)
  <2>1. Do("alloca", Tmp(k), o).open = o
    BY DEF Do, Instr
  <2>2. Flow(Do("alloca", Tmp(k), o), out)
    BY <1>2, FlowAlloc
  <2>3. QED
    BY <1>2, <2>1, <2>2, Piece1, PlainDo DEF Ops, Branches
<1>10. ASSUME NEW r \in Regs
       PROVE  /\ Plain(<<Do("use", r, in)>>) /\ Do("use", r, in).open = in
              /\ Flow(Do("use", r, in), in)
  <2>1. "use" \in Ops \ (Branches \union {"label"})
    BY DEF Ops, Branches
  <2>2. Plain(<<Do("use", r, in)>>)
    BY <1>8, <2>1, PlainDo
  <2>3. Flow(Do("use", r, in), in)
    BY <1>8, FlowKeep
  <2>4. QED
    BY <2>2, <2>3 DEF Do, Instr
<1>11. Plain(t) /\ Piece(t, in, in)
  BY <1>2, <1>8, <1>10, Piece1
<1>12. Plain(b) /\ Piece(b, in, in)
  <2> DEFINE x == Do("use", src, in)
             y == Do("use", Var(v), in)
             z == Do("use", Tmp(k), in)
  <2>1. /\ Plain(<<x>>) /\ Plain(<<y>>) /\ Plain(<<z>>)
        /\ x.open = in /\ y.open = in /\ z.open = in
        /\ Flow(x, in) /\ Flow(y, in) /\ Flow(z, in)
    BY <1>2, <1>10
  <2>2. b = <<x, y, z>>
    BY <1>8
  <2> HIDE DEF x, y, z
  <2>3. QED
    BY <2>1, <2>2, Plain3, Piece3
<1> DEFINE lh == LoopHead(h, t)
           lt == LoopTail(h, in)
<1>13. /\ Sound(lh) /\ Once(lh) /\ Piece(lh, out, in)
       /\ Elems(lh) = Elems(t) \union {StartBranch(h), StartLabel(h), Do("save", h.block, h.out),
                                       LoopTest(h), BeginLabel(h)}
       /\ Labs(lh) = {<<label>>, <<label + 1>>}
  BY <1>4, <1>5, <1>8, <1>11, LoopHeadPiece
<1>14. /\ Sound(lt) /\ Once(lt) /\ Piece(lt, in, out)
       /\ Elems(lt) = {Do("restore", h.block, in), StartBranch(h), EndLabel(h),
                       Do("restore", h.block, h.in)}
       /\ Labs(lt) = {<<label + 2>>}
  <2>1. h.in \in Seq(Names)
    BY <1>8
  <2>2. LET u == LoopTail(h, h.in)
        IN  /\ Sound(u) /\ Once(u) /\ Piece(u, h.in, h.out)
            /\ Elems(u) = {Do("restore", h.block, h.in), StartBranch(h), EndLabel(h),
                           Do("restore", h.block, h.in)}
            /\ Labs(u) = {<<h.label + 2>>}
    BY <1>5, <1>6, <1>7, <2>1, LoopTailPiece
  <2>3. QED
    BY <1>4, <1>8, <2>2
<1>15. /\ Sound(a) /\ Once(a) /\ Labs(a) = {}
       /\ Sound(b) /\ Once(b) /\ Labs(b) = {}
  BY <1>9, <1>12, PlainLabs DEF Plain
<1>16. \A x \in Elems(a) \union Elems(t) \union Elems(b) : x.op \notin Branches
  BY <1>9, <1>11, <1>12 DEF Plain
<1> HIDE DEF a, b, t, lh, lt, out
<1> DEFINE s1 == a \o lh
           s2 == s1 \o b
           s3 == s2 \o lt
<1>17. Sound(s1) /\ Elems(s1) = Elems(a) \union Elems(lh) /\ Labs(s1) = Labs(lh)
  BY <1>13, <1>15, SoundConcat, LabsConcat
<1>18. Once(s1) /\ Piece(s1, o, in)
  <2>1. a \in Seq(Instrs) /\ lh \in Seq(Instrs)
    BY <1>13, <1>15 DEF Sound
  <2>2. Once(s1)
    BY <1>13, <1>15, <2>1, OnceConcat
  <2>3. Piece(s1, o, in)
    BY <1>9, <1>13, <2>1, PieceConcat
  <2>4. QED
    BY <2>2, <2>3
<1> HIDE DEF s1
<1>19. Sound(s2) /\ Elems(s2) = Elems(s1) \union Elems(b) /\ Labs(s2) = Labs(lh)
  <2>1. Sound(s2) /\ Elems(s2) = Elems(s1) \union Elems(b)
    BY <1>15, <1>17, SoundConcat
  <2>2. Labs(s2) = Labs(s1) \union Labs(b)
    BY <1>15, <1>17, LabsConcat
  <2>3. QED
    BY <1>15, <1>17, <2>1, <2>2
<1>20. Once(s2) /\ Piece(s2, o, in)
  <2>1. s1 \in Seq(Instrs) /\ b \in Seq(Instrs)
    BY <1>15, <1>17 DEF Sound
  <2>2. Once(s2)
    BY <1>15, <1>18, <2>1, OnceConcat
  <2>3. Piece(s2, o, in)
    BY <1>12, <1>18, <2>1, PieceConcat
  <2>4. QED
    BY <2>2, <2>3
<1> HIDE DEF s2
<1>21. Sound(s3) /\ Elems(s3) = Elems(s2) \union Elems(lt) /\ Labs(s3) = Labs(lh) \union Labs(lt)
  BY <1>14, <1>19, SoundConcat, LabsConcat
<1>22. Labs(lh) \intersect Labs(lt) = {}
  <2>1. label # label + 2 /\ label + 1 # label + 2
    OBVIOUS
  <2>2. <<label>> # <<label + 2>> /\ <<label + 1>> # <<label + 2>>
    BY <2>1
  <2>3. QED
    BY <1>13, <1>14, <2>2
<1>23. Once(s3) /\ Piece(s3, o, out)
  <2>1. s2 \in Seq(Instrs) /\ lt \in Seq(Instrs)
    BY <1>14, <1>19 DEF Sound
  <2>2. Once(s3)
    BY <1>14, <1>19, <1>20, <1>22, <2>1, OnceConcat
  <2>3. Piece(s3, o, out)
    BY <1>14, <1>20, <2>1, PieceConcat
  <2>4. QED
    BY <2>2, <2>3
<1> HIDE DEF s3
<1>24. Elems(s3) = Elems(a) \union Elems(lh) \union Elems(b) \union Elems(lt)
  BY <1>17, <1>19, <1>21
<1>25. Closed(s3)
  <2>1. ASSUME NEW x \in Elems(s3), x.op \in Branches
        PROVE  x = StartBranch(h) \/ x = LoopTest(h)
    <3>1. x \in {StartBranch(h), StartLabel(h), Do("save", h.block, h.out), LoopTest(h),
                 BeginLabel(h), Do("restore", h.block, in), EndLabel(h),
                 Do("restore", h.block, h.in)}
      BY <1>13, <1>14, <1>16, <1>24, <2>1
    <3>2. \A r, o1 : Do("save", r, o1).op = "save" /\ Do("restore", r, o1).op = "restore"
      BY DEF Do, Instr
    <3>3. StartLabel(h).op = "label" /\ BeginLabel(h).op = "label" /\ EndLabel(h).op = "label"
      BY <1>5, LoopBranches
    <3>4. QED
      BY <2>1, <3>1, <3>2, <3>3 DEF Branches
  <2>2. /\ StartLabel(h) \in Elems(s3) /\ BeginLabel(h) \in Elems(s3) /\ EndLabel(h) \in Elems(s3)
    BY <1>13, <1>14, <1>24
  <2>3. h.out \in Seq(Names) /\ Begins(h.out, h.out)
    BY <1>3, <1>4, BeginsReflexive
  <2>4. LabelAt(StartLabel(h), h.label, Place("start", h.begin), h.out)
    BY <1>5, <2>3, LoopBranches DEF LabelAt
  <2>5. LabelAt(BeginLabel(h), h.label + 1, Place("begin", h.begin), h.in)
    BY <1>5, <1>6, LoopBranches DEF LabelAt
  <2>6. LabelAt(EndLabel(h), h.label + 2, Place("end", h.begin), h.in)
    BY <1>5, <1>6, LoopBranches DEF LabelAt
  <2>7. \A k1 \in 1 .. Len(StartBranch(h).to) : \E y \in Elems(s3) :
          LabelAt(y, StartBranch(h).to[k1], StartBranch(h).meant[k1], StartBranch(h).open)
    <3>1. /\ StartBranch(h).to = <<h.label>> /\ StartBranch(h).open = h.out
          /\ StartBranch(h).meant = <<Place("start", h.begin)>>
      BY <1>5, LoopBranches
    <3>2. QED
      BY <2>2, <2>4, <3>1
  <2>8. \A k1 \in 1 .. Len(LoopTest(h).to) : \E y \in Elems(s3) :
          LabelAt(y, LoopTest(h).to[k1], LoopTest(h).meant[k1], LoopTest(h).open)
    <3>1. /\ LoopTest(h).to = <<h.label + 1, h.label + 2>> /\ LoopTest(h).open = h.in
          /\ LoopTest(h).meant = <<Place("begin", h.begin), Place("end", h.begin)>>
      BY <1>5, LoopBranches
    <3>2. 1 .. Len(LoopTest(h).to) = {1, 2}
      BY <3>1
    <3>3. QED
      BY <2>2, <2>5, <2>6, <3>1, <3>2
  <2>9. QED
    BY <2>1, <2>7, <2>8 DEF Closed
<1>26. CopyLoop(v, src, at, label, block, k, o) = s3
  BY <1>1, <1>8 DEF s1, s2, s3, lh, lt
<1>27. QED
  BY <1>13, <1>14, <1>21, <1>23, <1>25, <1>26 DEF out

-------------------------------------------------------------------------------
(***************************************************************************)
(* Visits that begin and end.                                              *)
(***************************************************************************)
\* the same visit, at another stage perhaps
Like(v, w) ==
  /\ v.kind = w.kind \/ (v.kind = "else" /\ w.kind = "ifelse")
  /\ v.begin = w.begin /\ v.label = w.label /\ v.block = w.block
  /\ v.out = w.out /\ v.in = w.in /\ v.dom = w.dom /\ v.nest = w.nest

LEMMA LikePending ==
  ASSUME NEW v, NEW w, Like(v, w)
  PROVE  /\ Pending(v) \subseteq Pending(w)
         /\ v.kind = w.kind => Pending(v) = Pending(w)
BY DEF Like, Pending

LEMMA ReturnedVisits ==
  ASSUME NEW vs \in Seq(Visits)
  PROVE  /\ Returned(vs) \in Seq(Visits) /\ Len(Returned(vs)) = Len(vs)
         /\ \A p \in 1 .. Len(vs) :
              Like(Returned(vs)[p], vs[p]) /\ Returned(vs)[p].kind = vs[p].kind
<1>1. CASE vs # <<>> /\ vs[Len(vs)].kind # "stmts"
  <2> DEFINE n == Len(vs)
             w == [vs[n] EXCEPT !.stage = "done"]
  <2>1. n \in 1 .. Len(vs) /\ vs[n] \in Visits
    BY <1>1, EmptySeq
  <2>2. w \in Visits /\ Like(w, vs[n]) /\ w.kind = vs[n].kind
    BY <2>1 DEF Visits, Like
  <2>3. Returned(vs) = [vs EXCEPT ![n] = w]
    BY <1>1 DEF Returned
  <2> HIDE DEF w
  <2>4. /\ Returned(vs) \in Seq(Visits) /\ Len(Returned(vs)) = Len(vs)
        /\ \A p \in 1 .. Len(vs) : Returned(vs)[p] = IF p = n THEN w ELSE vs[p]
    BY <2>1, <2>2, <2>3, ExceptSeq
  <2>5. \A p \in 1 .. Len(vs) : Like(vs[p], vs[p])
    BY DEF Like
  <2>6. QED
    BY <2>2, <2>4, <2>5
<1>2. CASE ~(vs # <<>> /\ vs[Len(vs)].kind # "stmts")
  <2>1. Returned(vs) = vs
    BY <1>2 DEF Returned
  <2>2. QED
    BY <2>1 DEF Like
<1>3. QED
  BY <1>1, <1>2

\* after a statement all visits are still there, after a return to the one around all
\* but the last
LEMMA VisitsSame ==
  ASSUME VisitsOK, visits' \in Seq(Visits), Len(visits') <= Len(visits),
         open' \in Seq(Names),
         \A p \in 1 .. Len(visits') :
           Like(visits'[p], visits[p]) /\ Begins(visits[p].in, open')
  PROVE  VisitsOK'
<1>1. \A p \in 1 .. Len(visits') : p \in 1 .. Len(visits) /\ Pending(visits'[p]) \subseteq Pending(visits[p])
  <2>1. Len(visits) \in Nat /\ Len(visits') \in Nat
    BY DEF VisitsOK
  <2>2. QED
    BY <2>1, LikePending
<1>2. SUFFICES ASSUME NEW p \in 1 .. Len(visits') PROVE VisitOK(p)'
  BY DEF VisitsOK
<1>3. VisitOK(p) /\ Like(visits'[p], visits[p])
  BY <1>1 DEF VisitsOK
<1>4. \A q \in 1 .. (p - 1) : Begins(visits'[q].in, visits'[p].out)
  <2>1. \A q \in 1 .. (p - 1) : q \in 1 .. Len(visits')
    OBVIOUS
  <2>2. QED
    BY <1>3, <2>1 DEF VisitOK, Like
<1>5. \A q \in 1 .. Len(visits') : q # p =>
        \A s \in Pending(visits'[q]) : \A t \in Pending(visits'[p]) : s[1] # t[1]
  BY <1>1, <1>3 DEF VisitOK
<1>6. /\ visits'[p].kind = "func" <=> p = 1
      /\ Begins(visits'[p].out, visits'[p].in) /\ Begins(visits'[p].in, open')
      /\ visits'[p].kind \in {"stmts", "loop"} =>
           /\ Len(visits'[p].out) < Len(visits'[p].in)
           /\ visits'[p].in[Len(visits'[p].out) + 1] = visits'[p].block
  BY <1>3 DEF VisitOK, Like
<1>7. QED
  BY <1>4, <1>5, <1>6 DEF VisitOK

LEMMA VisitsPush ==
  ASSUME VisitsOK, LabelsOK, labelCount \in Nat, open \in Seq(Names), open' \in Seq(Names),
         visits # <<>>, NEW v \in Visits, visits' = Append(visits, v),
         v.kind # "func", v.out = open, Begins(open, v.in), Begins(v.in, open'),
         v.kind \in {"stmts", "loop"} => Len(v.out) < Len(v.in) /\ v.in[Len(v.out) + 1] = v.block,
         \A t \in Pending(v) : t[1] >= labelCount
  PROVE  VisitsOK'
<1> DEFINE n == Len(visits) + 1
<1>1. /\ visits \in Seq(Visits) /\ visits' \in Seq(Visits)
      /\ Len(visits) \in Nat /\ Len(visits) >= 1 /\ Len(visits') = n
  BY EmptySeq DEF VisitsOK
<1>2. visits'[n] = v /\ \A p \in 1 .. Len(visits) : visits'[p] = visits[p]
  BY <1>1
<1>3. ASSUME NEW p \in 1 .. Len(visits)
      PROVE  /\ VisitOK(p) /\ visits[p].in \in Seq(Names) /\ Begins(visits[p].in, open)
             /\ Begins(visits[p].in, open')
  <2>1. VisitOK(p) /\ visits[p].in \in Seq(Names) /\ Begins(visits[p].in, open)
    <3>1. visits[p] \in Visits /\ VisitOK(p)
      BY <1>1 DEF VisitsOK
    <3>2. visits[p].in \in Seq(Names)
      BY <3>1 DEF Visits
    <3>3. QED
      BY <3>1, <3>2 DEF VisitOK
  <2>2. v.in \in Seq(Names)
    BY DEF Visits
  <2>3. Begins(visits[p].in, v.in)
    BY <2>1, <2>2, BeginsTransitive
  <2>4. QED
    BY <2>1, <2>2, <2>3, BeginsTransitive
<1>4. ASSUME NEW p \in 1 .. Len(visits), NEW s \in Pending(visits[p]), NEW t \in Pending(v)
      PROVE  s[1] # t[1]
  <2>1. s[1] \in Nat /\ s[1] < labelCount
    BY <1>1, <1>4, PendingType, ElementOfSeq DEF LabelsOK
  <2>2. t[1] \in Nat /\ t[1] >= labelCount
    BY <1>4, PendingType
  <2>3. QED
    BY <2>1, <2>2
<1>5. ASSUME NEW p \in 1 .. n PROVE VisitOK(p)'
  <2>1. CASE p = n
    <3>1. visits'[p] = v /\ p # 1
      BY <1>1, <1>2, <2>1
    <3>2. \A q \in 1 .. (p - 1) : Begins(visits'[q].in, v.out)
      BY <1>1, <1>2, <1>3, <2>1
    <3>3. \A q \in 1 .. Len(visits') : q # p =>
            \A s \in Pending(visits'[q]) : \A t \in Pending(v) : s[1] # t[1]
      BY <1>1, <1>2, <1>4, <2>1
    <3>4. QED
      BY <3>1, <3>2, <3>3 DEF VisitOK
  <2>2. CASE p \in 1 .. Len(visits)
    <3>1. visits'[p] = visits[p] /\ VisitOK(p) /\ Begins(visits[p].in, open')
      BY <1>2, <1>3, <2>2
    <3>2. \A q \in 1 .. (p - 1) : Begins(visits'[q].in, visits[p].out)
      BY <1>1, <1>2, <2>2, <3>1 DEF VisitOK
    <3>3. ASSUME NEW q \in 1 .. Len(visits'), q # p,
                 NEW s \in Pending(visits'[q]), NEW t \in Pending(visits[p])
          PROVE  s[1] # t[1]
      <4>1. CASE q = n
        BY <1>2, <1>4, <2>2, <3>3, <4>1
      <4>2. CASE q \in 1 .. Len(visits)
        BY <1>2, <3>1, <3>3, <4>2 DEF VisitOK
      <4>3. QED
        BY <1>1, <4>1, <4>2
    <3>4. QED
      BY <3>1, <3>2, <3>3 DEF VisitOK
  <2>3. QED
    BY <1>1, <2>1, <2>2
<1>6. QED
  BY <1>1, <1>5 DEF VisitsOK

LEMMA NamesKept ==
  ASSUME NamesOK, varCount \in Nat, labelCountBlock \in Nat,
         varCount' \in Nat, labelCountBlock' \in Nat,
         varCount <= varCount', labelCountBlock <= labelCountBlock',
         Elems(code) \subseteq Elems(code'),
         \A r \in Elems(open') :
           \/ r \in Elems(open)
           \/ r[1] = "tmp" /\ r[2] \in Nat /\ r[2] < varCount'
           \/ r[1] = "block" /\ r[2] \in Nat /\ r[2] < labelCountBlock'
           \/ r[1] = "var" /\ \E x \in Elems(code') : x.op = "alloca" /\ x.reg = r
  PROVE  NamesOK'
<1>1. SUFFICES ASSUME NEW r \in Elems(open')
               PROVE  /\ r[1] = "tmp"   => r[2] \in Nat /\ r[2] < varCount'
                      /\ r[1] = "block" => r[2] \in Nat /\ r[2] < labelCountBlock'
                      /\ r[1] = "var"   => \E x \in Elems(code') : x.op = "alloca" /\ x.reg = r
  BY DEF NamesOK
<1>2. CASE r \in Elems(open)
  BY <1>2 DEF NamesOK
<1>3. CASE r \notin Elems(open)
  BY <1>3
<1>4. QED
  BY <1>2, <1>3

\* what follows for names that have not been given yet
LEMMA NamesFresh ==
  ASSUME NamesOK, varCount \in Nat, labelCountBlock \in Nat
  PROVE  /\ \A k \in Nat : k >= varCount => Tmp(k) \notin Elems(open)
         /\ Block(labelCountBlock) \notin Elems(open)
         /\ \A v \in Vars :
              (\A i \in 1 .. Len(code) : code[i].op = "alloca" => code[i].reg # Var(v)) =>
                Var(v) \notin Elems(open)
<1>1. ASSUME NEW k \in Nat, k >= varCount PROVE Tmp(k) \notin Elems(open)
  <2>1. Tmp(k)[1] = "tmp" /\ Tmp(k)[2] = k
    BY NameTypes
  <2>2. QED
    BY <1>1, <2>1 DEF NamesOK
<1>2. Block(labelCountBlock) \notin Elems(open)
  <2>1. Block(labelCountBlock)[1] = "block" /\ Block(labelCountBlock)[2] = labelCountBlock
    BY NameTypes
  <2>2. QED
    BY <2>1 DEF NamesOK
<1>3. ASSUME NEW v \in Vars,
             \A i \in 1 .. Len(code) : code[i].op = "alloca" => code[i].reg # Var(v)
      PROVE  Var(v) \notin Elems(open)
  <2>1. Var(v)[1] = "var"
    BY NameTypes
  <2>2. QED
    BY <1>3, <2>1 DEF NamesOK, Elems
<1>4. QED
  BY <1>1, <1>2, <1>3

\* while the generator writes nothing has run yet
LEMMA NothingRuns ==
  ASSUME TypeOK, PhaseOK, phase = "gen", phase' = "gen", UNCHANGED <<run, retty>>,
         open' \in Seq(Names), dom' \subseteq Vars,
         labelCount' \in Nat, labelCountBlock' \in Nat, varCount' \in Nat,
         loopStartStack' \in Seq(Nat), loopEndStack' \in Seq(Nat),
         Len(visits') >= 2 => code' # <<>>,
         visits' # <<>> /\ visits'[1].stage = "done" => Len(code') >= 2
  PROVE  TypeOK' /\ PhaseOK' /\ RegsOK' /\ ScopesLive'
<1>1. /\ ip' = 1 /\ stack' = <<>> /\ heap' = EmptyHeap /\ DOMAIN reg' = {} /\ retty' = retty
  BY DEF PhaseOK, run
<1>2. stack' \in Seq(Names) /\ heap'.lst \in Seq(Nat) /\ DOMAIN heap'.live \subseteq Blocks
  BY DEF TypeOK, run
<1>3. TypeOK'
  BY <1>1, <1>2 DEF TypeOK
<1>4. PhaseOK'
  BY <1>1 DEF PhaseOK
<1>5. RegsOK' /\ ScopesLive'
  BY <1>1 DEF RegsOK, ScopesLive
<1>6. QED
  BY <1>3, <1>4, <1>5

LEMMA AppendIndex ==
  ASSUME NEW S, NEW s \in Seq(S), NEW x \in S
  PROVE  /\ Len(Append(s, x)) = Len(s) + 1 /\ Append(s, x)[Len(s) + 1] = x
         /\ \A m \in 1 .. Len(s) : Append(s, x)[m] = s[m]
OBVIOUS

\* the visits that are left know their loops, if the stacks of labels are as long as
\* there are loops around the last one
LEMMA LoopsRest ==
  ASSUME LoopsOK, visits \in Seq(Visits), visits' \in Seq(Visits),
         visits' # <<>>, Len(visits') <= Len(visits),
         \A p \in 1 .. Len(visits') : Like(visits'[p], visits[p]),
         Elems(code) \subseteq Elems(code'),
         Len(loopStartStack') = visits[Len(visits')].nest,
         Len(loopEndStack') = Len(loopStartStack'),
         \A m \in 1 .. Len(loopStartStack') :
           loopStartStack'[m] = loopStartStack[m] /\ loopEndStack'[m] = loopEndStack[m]
  PROVE  LoopsOK'
<1> DEFINE k == Len(visits')
           n == Len(visits)
<1>1. n \in Nat /\ k \in 1 .. n /\ n >= 1 /\ visits # <<>>
  BY EmptySeq
<1>2. \A p \in 1 .. n : visits[p].nest \in Nat
  <2>1. \A p \in 1 .. n : visits[p] \in Visits
    OBVIOUS
  <2>2. QED
    BY <2>1 DEF Visits
<1>3. \A p \in 1 .. k : /\ p \in 1 .. n /\ visits'[p].nest = visits[p].nest
                        /\ visits'[p].kind = "loop" <=> visits[p].kind = "loop"
  BY <1>1 DEF Like
<1>4. Len(loopStartStack) = visits[n].nest
  BY <1>1 DEF LoopsOK, Top
<1>5. visits[k].nest <= visits[n].nest
  <2>1. CASE k = n
    BY <1>1, <1>2, <2>1
  <2>2. CASE k < n
    BY <1>1, <2>2 DEF LoopsOK
  <2>3. QED
    BY <1>1, <2>1, <2>2
<1>6. ASSUME NEW p \in 1 .. k, visits[p].kind = "loop" PROVE LoopOK(visits[p])'
  <2>1. LoopOK(visits[p]) /\ Like(visits'[p], visits[p])
    BY <1>3, <1>6 DEF LoopsOK
  <2>2. visits[p].nest <= visits[k].nest
    <3>1. CASE p = k
      BY <1>2, <1>3, <3>1
    <3>2. CASE p < k
      BY <1>1, <3>2 DEF LoopsOK
    <3>3. QED
      BY <1>1, <3>1, <3>2
  <2>3. visits[p].nest \in 1 .. Len(loopStartStack')
    BY <1>1, <1>2, <2>1, <2>2 DEF LoopOK
  <2>4. /\ loopStartStack'[visits'[p].nest] = visits'[p].label
        /\ loopEndStack'[visits'[p].nest] = visits'[p].label + 2
    BY <2>1, <2>3 DEF LoopOK, Like
  <2>5. \E x \in Elems(code') :
          LabelAt(x, visits'[p].label, Place("start", visits'[p].begin), visits'[p].out)
    BY <2>1 DEF LoopOK, Like
  <2>6. QED
    BY <2>1, <2>3, <2>4, <2>5 DEF LoopOK, Like, LabelAt
<1>7. ASSUME NEW m \in 1 .. Len(loopStartStack')
      PROVE  \E p \in 1 .. k : visits'[p].kind = "loop" /\ visits'[p].nest = m
  <2>1. m \in 1 .. Len(loopStartStack)
    BY <1>1, <1>2, <1>4, <1>5
  <2>2. PICK p \in 1 .. n : visits[p].kind = "loop" /\ visits[p].nest = m
    BY <2>1 DEF LoopsOK
  <2>3. p <= k
    <3>1. CASE p > k
      <4>1. visits[k].nest < visits[p].nest
        BY <1>1, <2>2, <3>1 DEF LoopsOK
      <4>2. QED
        BY <1>1, <1>2, <2>2, <4>1
    <3>2. QED
      BY <1>1, <3>1
  <2>4. QED
    BY <1>1, <1>3, <2>2, <2>3
<1>8. visits'[1].nest = 0
  BY <1>1, <1>3 DEF LoopsOK
<1>9. \A p \in 2 .. k :
        visits'[p].nest = visits'[p - 1].nest + (IF visits'[p].kind = "loop" THEN 1 ELSE 0)
  BY <1>1, <1>3 DEF LoopsOK
<1>10. \A q \in 1 .. k : \A p \in 1 .. (q - 1) :
         /\ visits'[p].nest <= visits'[q].nest
         /\ visits'[q].kind = "loop" => visits'[p].nest < visits'[q].nest
  <2>1. \A q \in 1 .. k : \A p \in 1 .. (q - 1) : p \in 1 .. k
    BY <1>1
  <2>2. QED
    BY <1>3, <2>1 DEF LoopsOK
<1>11. Len(loopStartStack') = Top'.nest
  BY <1>1, <1>3 DEF Top
<1>12. QED
  BY <1>3, <1>6, <1>7, <1>8, <1>9, <1>10, <1>11 DEF LoopsOK

LEMMA LoopsPush ==
  ASSUME LoopsOK, visits \in Seq(Visits), visits # <<>>, NEW v \in Visits,
         visits' = Append(visits, v), Elems(code) \subseteq Elems(code'),
         loopStartStack \in Seq(Nat), loopEndStack \in Seq(Nat),
         \/ v.kind # "loop" /\ v.nest = Top.nest /\ UNCHANGED loops
         \/ /\ v.kind = "loop" /\ v.nest = Top.nest + 1
            /\ loopStartStack' = Append(loopStartStack, v.label)
            /\ loopEndStack' = Append(loopEndStack, v.label + 2)
            /\ \E x \in Elems(code') : LabelAt(x, v.label, Place("start", v.begin), v.out)
  PROVE  LoopsOK'
<1> DEFINE n == Len(visits)
           d == IF v.kind = "loop" THEN 1 ELSE 0
<1>1. n \in Nat /\ n >= 1 /\ Len(visits') = n + 1 /\ visits' # <<>>
  BY EmptySeq
<1>2. visits'[n + 1] = v /\ \A p \in 1 .. n : visits'[p] = visits[p]
  OBVIOUS
<1>3. v.nest \in Nat /\ \A p \in 1 .. n : visits[p].nest \in Nat
  <2>1. \A p \in 1 .. n : visits[p] \in Visits
    OBVIOUS
  <2>2. QED
    BY <2>1 DEF Visits
<1>4. Len(loopStartStack) = visits[n].nest /\ Top = visits[n]
  BY <1>1 DEF LoopsOK, Top
<1>5. v.nest = visits[n].nest + d /\ d \in {0, 1}
  BY <1>3, <1>4, <1>1
<1>6. /\ Len(loopStartStack') = Len(loopStartStack) + d
      /\ Len(loopEndStack') = Len(loopStartStack) + d
      /\ \A m \in 1 .. Len(loopStartStack) :
           loopStartStack'[m] = loopStartStack[m] /\ loopEndStack'[m] = loopEndStack[m]
      /\ v.kind = "loop" => /\ loopStartStack'[Len(loopStartStack) + 1] = v.label
                            /\ loopEndStack'[Len(loopStartStack) + 1] = v.label + 2
  <2>1. Len(loopEndStack) = Len(loopStartStack) /\ v.label \in Nat
    BY DEF LoopsOK, Visits
  <2>2. CASE v.kind = "loop"
    <3>1. v.label + 2 \in Nat
      BY <2>1
    <3>2. QED
      <4>1. /\ Len(loopStartStack') = Len(loopStartStack) + 1
            /\ loopStartStack'[Len(loopStartStack) + 1] = v.label
            /\ \A m \in 1 .. Len(loopStartStack) : loopStartStack'[m] = loopStartStack[m]
        <5>1. loopStartStack' = Append(loopStartStack, v.label) /\ v.label \in Nat
          BY <2>1, <2>2
        <5>2. QED
          BY <5>1, AppendIndex
      <4>2. /\ Len(loopEndStack') = Len(loopEndStack) + 1
            /\ loopEndStack'[Len(loopEndStack) + 1] = v.label + 2
            /\ \A m \in 1 .. Len(loopEndStack) : loopEndStack'[m] = loopEndStack[m]
        <5>1. loopEndStack' = Append(loopEndStack, v.label + 2)
          BY <2>2
        <5>2. QED
          BY <3>1, <5>1, AppendIndex
      <4>3. QED
        BY <2>1, <2>2, <4>1, <4>2
  <2>3. CASE v.kind # "loop"
    BY <2>1, <2>3 DEF loops
  <2>4. QED
    BY <2>2, <2>3
<1>7. ASSUME NEW p \in 1 .. n, visits[p].kind = "loop" PROVE LoopOK(visits[p])'
  <2>1. LoopOK(visits[p])
    BY <1>7 DEF LoopsOK
  <2>2. visits[p].nest \in 1 .. Len(loopStartStack')
    BY <1>3, <1>5, <1>6, <2>1 DEF LoopOK
  <2>3. QED
    BY <1>2, <1>6, <2>1, <2>2 DEF LoopOK, LabelAt
<1>8. ASSUME v.kind = "loop" PROVE LoopOK(v)'
  BY <1>3, <1>4, <1>5, <1>6, <1>8 DEF LoopOK
<1>9. \A p \in 1 .. n + 1 : visits'[p].kind = "loop" => LoopOK(visits[p])'
  <2>1. ASSUME NEW p \in 1 .. n + 1, visits'[p].kind = "loop" PROVE LoopOK(visits[p])'
    <3>1. CASE p = n + 1
      <4>1. visits'[p] = v
        BY <1>2, <3>1
      <4>2. QED
        BY <1>8, <2>1, <4>1 DEF LoopOK
    <3>2. CASE p \in 1 .. n
      BY <1>2, <1>7, <2>1, <3>2
    <3>3. QED
      BY <1>1, <3>1, <3>2
  <2>2. QED
    BY <2>1
<1>10. ASSUME NEW m \in 1 .. Len(loopStartStack')
       PROVE  \E p \in 1 .. n + 1 : visits'[p].kind = "loop" /\ visits'[p].nest = m
  <2>1. CASE m \in 1 .. Len(loopStartStack)
    <3>1. PICK p \in 1 .. n : visits[p].kind = "loop" /\ visits[p].nest = m
      BY <2>1 DEF LoopsOK
    <3>2. p \in 1 .. n + 1
      BY <1>1
    <3>3. QED
      BY <1>2, <3>1, <3>2
  <2>2. CASE m = Len(loopStartStack) + 1 /\ v.kind = "loop"
    <3>1. v.nest = m /\ n + 1 \in 1 .. n + 1
      BY <1>1, <1>4, <1>5, <2>2
    <3>2. QED
      BY <1>2, <2>2, <3>1
  <2>3. QED
    BY <1>3, <1>4, <1>5, <1>6, <2>1, <2>2, SMTT(30)
<1>11. visits'[1].nest = 0
  BY <1>1, <1>2 DEF LoopsOK
<1>12. \A p \in 2 .. n + 1 :
         visits'[p].nest = visits'[p - 1].nest + (IF visits'[p].kind = "loop" THEN 1 ELSE 0)
  <2>1. ASSUME NEW p \in 2 .. n + 1
        PROVE  visits'[p].nest = visits'[p - 1].nest + (IF visits'[p].kind = "loop" THEN 1 ELSE 0)
    <3>1. CASE p = n + 1
      <4>1. visits'[p] = v /\ visits'[p - 1] = visits[n]
        BY <1>1, <1>2, <3>1
      <4>2. QED
        BY <1>5, <4>1
    <3>2. CASE p \in 2 .. n
      <4>1. visits'[p] = visits[p] /\ visits'[p - 1] = visits[p - 1]
        BY <1>1, <1>2, <3>2
      <4>2. QED
        BY <3>2, <4>1 DEF LoopsOK
    <3>3. QED
      BY <1>1, <3>1, <3>2
  <2>2. QED
    BY <2>1
<1>13. ASSUME NEW q \in 1 .. n + 1, NEW p \in 1 .. (q - 1)
       PROVE  /\ visits'[p].nest <= visits'[q].nest
              /\ visits'[q].kind = "loop" => visits'[p].nest < visits'[q].nest
  <2>1. CASE q = n + 1
    <3>1. p \in 1 .. n /\ n \in 1 .. n
      BY <1>1, <2>1
    <3>2. visits'[p] = visits[p] /\ visits'[q] = v
      BY <1>2, <2>1, <3>1
    <3>3. visits[n].nest \in Nat /\ visits[p].nest \in Nat
      BY <1>3, <3>1
    <3>4. visits[p].nest <= visits[n].nest
      <4>1. CASE p = n
        BY <3>3, <4>1
      <4>2. CASE p \in 1 .. (n - 1)
        BY <3>1, <4>2 DEF LoopsOK
      <4>3. QED
        BY <1>1, <3>1, <4>1, <4>2
    <3>5. QED
      BY <1>5, <3>2, <3>3, <3>4, SMTT(30)
  <2>2. CASE q \in 1 .. n
    <3>1. p \in 1 .. n /\ visits'[p] = visits[p] /\ visits'[q] = visits[q]
      BY <1>1, <1>2, <2>2
    <3>2. QED
      BY <2>2, <3>1 DEF LoopsOK
  <2>3. QED
    BY <1>1, <2>1, <2>2
<1>14. Len(loopStartStack') = Top'.nest
  <2>1. Top' = v
    BY <1>1, <1>2 DEF Top
  <2>2. QED
    BY <1>4, <1>5, <1>6, <2>1
<1>15. QED
  BY <1>1, <1>6, <1>9, <1>10, <1>11, <1>12, <1>13, <1>14 DEF LoopsOK

-------------------------------------------------------------------------------
(***************************************************************************)
(* Steps of the generator.                                                 *)
(***************************************************************************)
\* what the parts of the invariant need of the code that is written in a step
Written(is) ==
  /\ Sound(is) /\ Once(is) /\ Piece(is, open, open') /\ code' = code \o is
  /\ LabelsNew(is)
  /\ \A p \in 1 .. Len(visits) : \A t \in Pending(visits[p]) : Kept(is, p, t)
  /\ \A x \in Elems(is) : x.op \in Branches =>
       \A k \in 1 .. Len(x.to) :
         \/ Leads(x.to[k], x.meant[k], x.open)
         \/ LeadsNow(is, x.to[k], x.meant[k], x.open)
  /\ \A r \in Elems(open') :
       \/ r \in Elems(open)
       \/ r[1] = "tmp" /\ r[2] \in Nat /\ r[2] < varCount'
       \/ r[1] = "block" /\ r[2] \in Nat /\ r[2] < labelCountBlock'
       \/ r[1] = "var" /\ \E x \in Elems(is) : x.op = "alloca" /\ x.reg = r

\* the counters, and the other variables of the generator
Counted ==
  /\ phase = "gen" /\ phase' = "gen" /\ UNCHANGED <<run, retty>>
  /\ open' \in Seq(Names) /\ dom' \subseteq Vars
  /\ labelCount' \in Nat /\ labelCountBlock' \in Nat /\ varCount' \in Nat
  /\ labelCount <= labelCount' /\ labelCountBlock <= labelCountBlock' /\ varCount <= varCount'
  /\ loopStartStack' \in Seq(Nat) /\ loopEndStack' \in Seq(Nat)

LEMMA GenStep ==
  ASSUME TypeOK, Generated, NEW is, Written(is), Counted, VisitsOK', LoopsOK',
         visits # <<>>,
         visits' # <<>> /\ visits'[1].stage = "done" => Len(visits) >= 2
  PROVE  IInv'
<1>1. CodeOK' /\ Elems(code') = Elems(code) \union Elems(is)
  BY CodeExtended DEF Generated, Written
<1>2. visits \in Seq(Visits) /\ visits' \in Seq(Visits)
  BY DEF Generated, VisitsOK
<1>3. labelCount \in Nat /\ labelCountBlock \in Nat /\ varCount \in Nat
  BY DEF TypeOK
<1>4. LabelsOK' /\ BranchesOK'
  BY <1>2, <1>3, LinksKept DEF Generated, Written, Counted
<1>5. NamesOK'
  BY <1>1, <1>3, NamesKept DEF Generated, Written, Counted
<1>6. Len(code') >= 1 /\ (code # <<>> => Len(code') >= 2)
  <2>1. is \in Seq(Instrs) /\ is # <<>> /\ code \in Seq(Instrs)
    BY DEF Written, Sound, Piece, Generated, CodeOK
  <2>2. Len(code') = Len(code) + Len(is)
    BY <2>1, ConcatProperties DEF Written
  <2>3. Len(is) >= 1 /\ (code # <<>> => Len(code) >= 1) /\ Len(code) \in Nat
    BY <2>1, EmptySeq
  <2>4. QED
    BY <2>1, <2>2, <2>3
<1>7. code' # <<>>
  BY <1>6
<1>8. visits' # <<>> /\ visits'[1].stage = "done" => Len(code') >= 2
  BY <1>6 DEF Generated, PhaseOK
<1>9. TypeOK' /\ PhaseOK' /\ RegsOK' /\ ScopesLive'
  BY <1>7, <1>8, NothingRuns DEF Generated, Counted
<1>10. QED
  BY <1>1, <1>4, <1>5, <1>9 DEF IInv, Generated

\* what is known about the visitors where a step begins
LEMMA TopVisit ==
  ASSUME TypeOK, Generated, visits # <<>>
  PROVE  /\ visits \in Seq(Visits) /\ Len(visits) >= 1 /\ Len(visits) \in 1 .. Len(visits)
         /\ Top \in Visits /\ Top = visits[Len(visits)]
         /\ Top.kind = "func" <=> Len(visits) = 1
         /\ Top.kind # "func" => Len(visits) >= 2
         /\ open \in Seq(Names)
         /\ \A p \in 1 .. Len(visits) :
              /\ visits[p] \in Visits
              /\ visits[p].in \in Seq(Names) /\ visits[p].out \in Seq(Names)
              /\ Begins(visits[p].in, open) /\ Begins(visits[p].out, visits[p].in)
<1>1. /\ visits \in Seq(Visits) /\ Len(visits) >= 1 /\ Len(visits) \in 1 .. Len(visits)
      /\ open \in Seq(Names) /\ \A p \in 1 .. Len(visits) : VisitOK(p)
  BY EmptySeq DEF Generated, VisitsOK, TypeOK
<1>2. Top = visits[Len(visits)] /\ Top \in Visits
  BY <1>1 DEF Top
<1>3. /\ Top.kind = "func" <=> Len(visits) = 1
      /\ Top.kind # "func" => Len(visits) >= 2
  <2>1. Top.kind = "func" <=> Len(visits) = 1
    <3>1. VisitOK(Len(visits))
      BY <1>1
    <3>2. QED
      BY <1>2, <3>1, Zenon DEF VisitOK
  <2>2. Len(visits) # 1 => Len(visits) >= 2
    <3>1. Len(visits) \in Nat /\ Len(visits) >= 1
      BY <1>1, LenProperties
    <3>2. \A n \in Nat : n >= 1 /\ n # 1 => n >= 2
      OBVIOUS
    <3>3. QED
      BY <3>1, <3>2, Zenon
  <2>3. QED
    BY <2>1, <2>2
<1>4. \A p \in 1 .. Len(visits) :
        /\ visits[p] \in Visits
        /\ visits[p].in \in Seq(Names) /\ visits[p].out \in Seq(Names)
  <2>1. \A p \in 1 .. Len(visits) : visits[p] \in Visits
    BY <1>1
  <2>2. QED
    BY <2>1 DEF Visits
<1>5. \A p \in 1 .. Len(visits) :
        Begins(visits[p].in, open) /\ Begins(visits[p].out, visits[p].in)
  BY <1>1 DEF VisitOK
<1>6. QED
  BY <1>1, <1>2, <1>3, <1>4, <1>5

\* a statement that is visited as a part of another
LEMMA StmtStep ==
  ASSUME TypeOK, Generated, InStmt, NEW is, Counted, UNCHANGED loops,
         visits' = Returned(visits), code' = code \o is,
         Sound(is), Once(is), Piece(is, open, open'), Begins(open, open'),
         \A x \in Elems(is) : x.op = "label" =>
           x.to[1] >= labelCount /\ x.to[1] < labelCount',
         \A x \in Elems(is) : x.op \in Branches =>
           \A k \in 1 .. Len(x.to) :
             \/ Leads(x.to[k], x.meant[k], x.open)
             \/ \E y \in Elems(is) : LabelAt(y, x.to[k], x.meant[k], x.open),
         \A r \in Elems(open') :
           \/ r \in Elems(open)
           \/ r[1] = "tmp" /\ r[2] \in Nat /\ r[2] < varCount'
           \/ r[1] = "var" /\ \E x \in Elems(is) : x.op = "alloca" /\ x.reg = r
  PROVE  IInv'
<1>1. /\ visits # <<>> /\ Top.kind # "func"
  BY DEF InStmt
<1>2. /\ visits \in Seq(Visits) /\ Len(visits) \in 1 .. Len(visits)
      /\ Len(visits) >= 2 /\ open \in Seq(Names)
      /\ \A p \in 1 .. Len(visits) : visits[p].in \in Seq(Names) /\ Begins(visits[p].in, open)
  <2>1. /\ visits \in Seq(Visits) /\ Len(visits) \in 1 .. Len(visits)
        /\ open \in Seq(Names)
        /\ \A p \in 1 .. Len(visits) : visits[p].in \in Seq(Names) /\ Begins(visits[p].in, open)
    BY <1>1, TopVisit
  <2>2. Len(visits) >= 2
    BY <1>1, TopVisit
  <2>3. QED
    BY <2>1, <2>2
<1>3. /\ visits' \in Seq(Visits) /\ Len(visits') = Len(visits)
      /\ \A p \in 1 .. Len(visits) : Like(visits'[p], visits[p]) /\ visits'[p].kind = visits[p].kind
  BY <1>2, ReturnedVisits
<1>4. \A p \in 1 .. Len(visits) : /\ Pending(visits'[p]) = Pending(visits[p])
                                  /\ visits'[p].in = visits[p].in
  BY <1>3, LikePending DEF Like
<1>5. VisitsOK'
  <2>1. open' \in Seq(Names)
    BY DEF Counted
  <2>2. \A p \in 1 .. Len(visits) : Begins(visits[p].in, open')
    BY <1>2, <2>1, BeginsTransitive
  <2>3. QED
    BY <1>2, <1>3, <2>1, <2>2, VisitsSame DEF Generated
<1>6. Elems(code) \subseteq Elems(code')
  BY ConcatElems DEF Generated, CodeOK, Sound
<1>7. LoopsOK'
  <2>1. Len(loopStartStack) = visits[Len(visits)].nest /\ Len(loopEndStack) = Len(loopStartStack)
    BY <1>1 DEF Generated, LoopsOK, Top
  <2>2. visits' # <<>>
    BY <1>2, <1>3, EmptySeq
  <2>3. LoopsOK /\ loopStartStack' = loopStartStack /\ loopEndStack' = loopEndStack
    BY DEF Generated, loops
  <2>4. QED
    BY <1>2, <1>3, <1>6, <2>1, <2>2, <2>3, LoopsRest
<1>8. LabelsNew(is)
  <2>1. ASSUME NEW p \in 1 .. Len(visits'), NEW t \in Pending(visits'[p])
        PROVE  /\ t[1] < labelCount' /\ t \in Pending(visits[p]) /\ p \in 1 .. Len(visits)
               /\ \A x \in Elems(is) : x.op = "label" => x.to # <<t[1]>>
    <3>1. p \in 1 .. Len(visits) /\ t \in Pending(visits[p])
      BY <1>3, <1>4, <2>1
    <3>2. t[1] \in Nat /\ t[1] < labelCount
      BY <1>2, <3>1, PendingType, ElementOfSeq DEF Generated, LabelsOK
    <3>3. labelCount \in Nat /\ labelCount' \in Nat /\ labelCount <= labelCount'
      BY DEF TypeOK, Counted
    <3>4. ASSUME NEW x \in Elems(is), x.op = "label" PROVE x.to # <<t[1]>>
      <4>1. x.to[1] >= labelCount /\ x.to[1] < labelCount'
        BY <3>4
      <4>2. x.to[1] \in Nat
        BY <3>4, LabelType, ElemsType DEF Sound
      <4>3. x.to[1] # t[1]
        BY <3>2, <3>3, <4>1, <4>2
      <4>4. QED
        BY <4>3
    <3>5. QED
      BY <3>1, <3>2, <3>3, <3>4
  <2>2. QED
    BY <2>1 DEF LabelsNew
<1>9. ASSUME NEW p \in 1 .. Len(visits), NEW t \in Pending(visits[p]) PROVE Kept(is, p, t)
  <2>1. p \in 1 .. Len(visits') /\ t \in Pending(visits'[p]) /\ Begins(visits'[p].in, visits[p].in)
    BY <1>2, <1>3, <1>4, <1>9, BeginsReflexive
  <2>2. QED
    BY <2>1 DEF Kept
<1>10. Written(is)
  <2>1. \A x \in Elems(is) : x.op \in Branches =>
          \A k \in 1 .. Len(x.to) :
            \/ Leads(x.to[k], x.meant[k], x.open)
            \/ LeadsNow(is, x.to[k], x.meant[k], x.open)
    BY DEF LeadsNow
  <2>2. QED
    BY <1>8, <1>9, <2>1 DEF Written
<1>11. QED
  BY <1>1, <1>2, <1>5, <1>7, <1>10, GenStep


\* a statement without branches
LEMMA PlainStmt ==
  ASSUME TypeOK, Generated, InStmt, NEW is, Counted, UNCHANGED loops,
         visits' = Returned(visits), code' = code \o is,
         Plain(is), Piece(is, open, open'), Begins(open, open'),
         \A r \in Elems(open') :
           \/ r \in Elems(open)
           \/ r[1] = "tmp" /\ r[2] \in Nat /\ r[2] < varCount'
           \/ r[1] = "var" /\ \E x \in Elems(is) : x.op = "alloca" /\ x.reg = r
  PROVE  IInv'
<1>1. Sound(is) /\ Once(is)
  BY PlainLabs DEF Plain
<1>2. \A x \in Elems(is) : x.op # "label" /\ x.op \notin Branches
  BY DEF Plain
<1>3. QED
  BY <1>1, <1>2, StmtStep

\* the types of the generator's variables
LEMMA GenTypes ==
  ASSUME TypeOK, Generated
  PROVE  /\ open \in Seq(Names) /\ dom \subseteq Vars
         /\ labelCount \in Nat /\ labelCountBlock \in Nat /\ varCount \in Nat
         /\ varCount + 1 \in Nat /\ varCount + 2 \in Nat /\ varCount + 3 \in Nat
         /\ labelCount + 1 \in Nat /\ labelCount + 2 \in Nat /\ labelCount + 3 \in Nat
         /\ labelCountBlock + 1 \in Nat
         /\ loopStartStack \in Seq(Nat) /\ loopEndStack \in Seq(Nat)
         /\ retty \in {"void", "scalar", "heap"}
         /\ Begins(open, open)
         /\ \A k \in Nat : k >= varCount => Tmp(k) \notin Elems(open)
         /\ Tmp(varCount) \notin Elems(open) /\ Tmp(varCount + 1) \notin Elems(open)
         /\ Tmp(varCount + 2) \notin Elems(open)
         /\ Block(labelCountBlock) \notin Elems(open)
<1>1. /\ open \in Seq(Names) /\ dom \subseteq Vars
      /\ labelCount \in Nat /\ labelCountBlock \in Nat /\ varCount \in Nat
      /\ loopStartStack \in Seq(Nat) /\ loopEndStack \in Seq(Nat)
  BY DEF TypeOK
<1>2. /\ varCount + 1 \in Nat /\ varCount + 2 \in Nat /\ varCount + 3 \in Nat
      /\ labelCount + 1 \in Nat /\ labelCount + 2 \in Nat /\ labelCount + 3 \in Nat
      /\ labelCountBlock + 1 \in Nat
  BY <1>1
<1>3. retty \in {"void", "scalar", "heap"} /\ NamesOK
  BY DEF Generated, PhaseOK
<1>4. Begins(open, open)
  BY <1>1, BeginsReflexive
<1>5. /\ \A k \in Nat : k >= varCount => Tmp(k) \notin Elems(open)
      /\ Block(labelCountBlock) \notin Elems(open)
  BY <1>1, <1>3, NamesFresh
<1>6. varCount >= varCount /\ varCount + 1 >= varCount /\ varCount + 2 >= varCount
  BY <1>1
<1>7. /\ Tmp(varCount) \notin Elems(open) /\ Tmp(varCount + 1) \notin Elems(open)
      /\ Tmp(varCount + 2) \notin Elems(open)
  BY <1>1, <1>2, <1>5, <1>6
<1>8. QED
  BY <1>1, <1>2, <1>3, <1>4, <1>5, <1>7

LEMMA StepVarDecl ==
  ASSUME IInv, NEW v \in Vars, VarDecl(v)
  PROVE  IInv'
<1> DEFINE x == Do("alloca", Var(v), open)
<1>1. TypeOK /\ Generated
  BY DEF IInv
<1>2. /\ InStmt /\ phase = "gen" /\ code' = code \o <<x>> /\ visits' = Returned(visits)
      /\ open' = Append(open, Var(v)) /\ dom' = dom \union {v}
      /\ UNCHANGED <<phase, retty, counters, loops, run>>
      /\ \A i \in 1 .. Len(code) : code[i].op = "alloca" => code[i].reg # Var(v)
  BY DEF VarDecl, Stmt, Write, InStmt
<1>3. open \in Seq(Names) /\ Var(v) \in Names /\ Var(v)[1] = "var" /\ Var(v) \notin Elems(open)
  <2>1. open \in Seq(Names) /\ varCount \in Nat /\ labelCountBlock \in Nat
    BY <1>1, GenTypes
  <2>2. Var(v) \notin Elems(open)
    BY <1>1, <1>2, <2>1, NamesFresh DEF Generated
  <2>3. QED
    BY <2>1, <2>2, NameTypes
<1>4. Plain(<<x>>)
  BY <1>3, PlainDo, NameTypes DEF Ops, Branches
<1>5. Piece(<<x>>, open, open')
  <2>1. Flow(x, open')
    BY <1>2, <1>3, FlowAlloc
  <2>2. x.open = open
    BY DEF Do, Instr
  <2>3. QED
    BY <2>1, <2>2, Piece1
<1>6. /\ open' \in Seq(Names) /\ Begins(open, open')
      /\ Elems(open') = Elems(open) \union {Var(v)}
  BY <1>2, <1>3, AppendElems, BeginsAppend, BeginsReflexive
<1>7. \E y \in Elems(<<x>>) : y.op = "alloca" /\ y.reg = Var(v)
  <2>1. x \in Elems(<<x>>)
    BY DEF Elems
  <2>2. QED
    BY <2>1 DEF Do, Instr
<1>8. Counted
  <2>1. dom' \subseteq Vars
    BY <1>1, <1>2, GenTypes
  <2>2. labelCount' = labelCount /\ labelCountBlock' = labelCountBlock /\ varCount' = varCount
    BY <1>2 DEF counters
  <2>3. loopStartStack' = loopStartStack /\ loopEndStack' = loopEndStack
    BY <1>2 DEF loops
  <2>4. labelCount \in Nat /\ labelCountBlock \in Nat /\ varCount \in Nat
        /\ loopStartStack \in Seq(Nat) /\ loopEndStack \in Seq(Nat)
    BY <1>1, GenTypes
  <2>5. QED
    BY <1>2, <1>6, <2>1, <2>2, <2>3, <2>4 DEF Counted
<1>9. \A r \in Elems(open') :
        \/ r \in Elems(open)
        \/ r[1] = "var" /\ \E y \in Elems(<<x>>) : y.op = "alloca" /\ y.reg = r
  BY <1>3, <1>6, <1>7
<1>10. UNCHANGED loops
  BY <1>2
<1> HIDE DEF x
<1>11. QED
  BY <1>1, <1>2, <1>4, <1>5, <1>6, <1>8, <1>9, <1>10, PlainStmt

LEMMA StepExprStmt ==
  ASSUME IInv, NEW e \in Exprs, ExprStmt(e)
  PROVE  IInv'
<1> DEFINE is == Eval(e, varCount, open)
<1>1. TypeOK /\ Generated
  BY DEF IInv
<1>2. /\ InStmt /\ phase = "gen" /\ code' = code \o is /\ visits' = Returned(visits)
      /\ open' = open \o Opened(e, varCount) /\ varCount' = varCount + 2
      /\ UNCHANGED <<phase, retty, labelCount, labelCountBlock, loops, dom, run>>
  BY DEF ExprStmt, Stmt, Write, InStmt
<1>3. e \in {"const", "array", "string", "comp"}
  BY ControlAssumption
<1>4. /\ open \in Seq(Names) /\ varCount \in Nat /\ varCount + 1 \in Nat
      /\ Tmp(varCount) \notin Elems(open) /\ Tmp(varCount + 1) \notin Elems(open)
  BY <1>1, GenTypes
<1>5. /\ Plain(is) /\ Piece(is, open, open') /\ open' \in Seq(Names) /\ Begins(open, open')
      /\ Elems(open') \subseteq Elems(open) \union {Tmp(varCount), Tmp(varCount + 1)}
  BY <1>2, <1>3, <1>4, EvalPiece
<1>6. Counted
  <2>1. loopStartStack' = loopStartStack /\ loopEndStack' = loopEndStack
    BY <1>2 DEF loops
  <2>2. labelCount \in Nat /\ labelCountBlock \in Nat /\ varCount' \in Nat
        /\ loopStartStack \in Seq(Nat) /\ loopEndStack \in Seq(Nat) /\ dom \subseteq Vars
    BY <1>1, <1>2, GenTypes
  <2>3. varCount <= varCount'
    BY <1>2, <1>4
  <2>4. QED
    BY <1>2, <1>5, <2>1, <2>2, <2>3 DEF Counted
<1>7. \A r \in Elems(open') : r \in Elems(open) \/ (r[1] = "tmp" /\ r[2] \in Nat /\ r[2] < varCount')
  <2>1. /\ Tmp(varCount)[1] = "tmp" /\ Tmp(varCount)[2] = varCount
        /\ Tmp(varCount + 1)[1] = "tmp" /\ Tmp(varCount + 1)[2] = varCount + 1
    BY <1>4, NameTypes
  <2>2. varCount < varCount' /\ varCount + 1 < varCount'
    BY <1>2, <1>4
  <2>3. ASSUME NEW r \in {Tmp(varCount), Tmp(varCount + 1)}
        PROVE  r[1] = "tmp" /\ r[2] \in Nat /\ r[2] < varCount'
    BY <1>4, <2>1, <2>2
  <2>4. QED
    BY <1>5, <2>3, Zenon
<1>8. UNCHANGED loops
  BY <1>2
<1> HIDE DEF is
<1>9. QED
  BY <1>1, <1>2, <1>5, <1>6, <1>7, <1>8, PlainStmt

LEMMA ReturnPiece ==
  ASSUME varCount \in Nat, retty \in {"void", "scalar", "heap"}, NEW o \in Seq(Names),
         Tmp(varCount + 1) \notin Elems(o)
  PROVE  Plain(ReturnCode(o)) /\ Piece(ReturnCode(o), o, o)
<1>1. Tmp(varCount + 1) \in Names /\ Tmp(varCount + 1) \in Regs /\ None \in Regs
  <2>1. varCount + 1 \in Nat
    OBVIOUS
  <2>2. QED
    BY <2>1, NameTypes
<1>2. CASE retty \in {"void", "scalar"}
  <2> DEFINE x == Do("ret", None, o)
  <2>1. ReturnCode(o) = <<x>>
    BY <1>2 DEF ReturnCode
  <2>2. Plain(<<x>>)
    BY <1>1, PlainDo DEF Ops, Branches
  <2>3. x.op = "ret" /\ x.open = o
    BY DEF Do, Instr
  <2>4. Piece(<<x>>, o, o)
    BY <2>3, FlowBranch, Piece1
  <2>5. QED
    BY <2>1, <2>2, <2>4
<1>3. CASE retty = "heap"
  <2> DEFINE x == Do("heap", Tmp(varCount + 1), o)
             y == Do("ret", Tmp(varCount + 1), o)
  <2>1. ReturnCode(o) = <<x, y>>
    BY <1>3 DEF ReturnCode
  <2>2. Plain(<<x>>)
    BY <1>1, PlainDo DEF Ops, Branches
  <2>3. Plain(<<y>>)
    BY <1>1, PlainDo DEF Ops, Branches
  <2>4. y.op = "ret" /\ y.open = o /\ x.open = o
    BY DEF Do, Instr
  <2>5. Flow(x, o)
    BY <1>1, FlowKeep
  <2>6. Flow(y, o)
    BY <2>4, FlowBranch
  <2> HIDE DEF x, y
  <2>7. Piece(<<x, y>>, o, o)
    BY <2>4, <2>5, <2>6, Piece2
  <2>8. QED
    BY <2>1, <2>2, <2>3, <2>7, Plain2
<1>4. QED
  BY <1>2, <1>3

LEMMA StepReturn ==
  ASSUME IInv, Return
  PROVE  IInv'
<1> DEFINE k == varCount
           value == IF retty = "void" THEN <<>> ELSE Eval("const", k, open)
           o == IF retty = "void" THEN open ELSE Append(open, Tmp(k))
           is == value \o ReturnCode(o)
<1>1. TypeOK /\ Generated
  BY DEF IInv
<1>2. /\ InStmt /\ phase = "gen" /\ code' = code \o is /\ visits' = Returned(visits)
      /\ open' = o /\ varCount' = varCount + 2
      /\ UNCHANGED <<phase, retty, labelCount, labelCountBlock, loops, dom, run>>
  BY DEF Return, Stmt, Write, InStmt
<1>3. /\ open \in Seq(Names) /\ k \in Nat /\ k + 1 \in Nat /\ retty \in {"void", "scalar", "heap"}
      /\ Tmp(k) \notin Elems(open) /\ Tmp(k + 1) \notin Elems(open)
  BY <1>1, GenTypes
<1>4. /\ Tmp(k) \in Names /\ Tmp(k)[1] = "tmp" /\ Tmp(k)[2] = k
      /\ Tmp(k + 1)[2] = k + 1 /\ Tmp(k + 1) # Tmp(k)
  <2>1. Tmp(k) \in Names /\ Tmp(k)[1] = "tmp" /\ Tmp(k)[2] = k /\ Tmp(k + 1)[2] = k + 1
    BY <1>3, NameTypes
  <2>2. k + 1 # k
    BY <1>3
  <2>3. QED
    BY <2>1, <2>2
<1>5. /\ o \in Seq(Names) /\ Begins(open, o) /\ Elems(o) \subseteq Elems(open) \union {Tmp(k)}
  <2>1. CASE retty = "void"
    BY <1>3, <2>1, BeginsReflexive
  <2>2. CASE retty # "void"
    BY <1>3, <1>4, <2>2, AppendElems, BeginsAppend, BeginsReflexive
  <2>3. QED
    BY <2>1, <2>2
<1>6. Plain(ReturnCode(o)) /\ Piece(ReturnCode(o), o, o)
  <2>1. Tmp(k + 1) \notin Elems(o)
    BY <1>3, <1>4, <1>5
  <2>2. QED
    BY <1>3, <1>5, <2>1, ReturnPiece
<1>7. Plain(is) /\ Piece(is, open, o)
  <2>1. CASE retty = "void"
    <3>1. ReturnCode(o) \in Seq(Instrs)
      BY <1>6 DEF Plain, Sound
    <3>2. is = ReturnCode(o) /\ o = open
      BY <2>1, <3>1, ConcatEmptySeq
    <3>3. QED
      BY <1>6, <3>2
  <2>2. CASE retty # "void"
    <3>1. Plain(Eval("const", k, open)) /\ Piece(Eval("const", k, open), open, open \o Opened("const", k))
      BY <1>3, EvalPiece
    <3>2. open \o Opened("const", k) = o
      <4>1. Opened("const", k) = <<Tmp(k)>>
        BY DEF Opened, Result
      <4>2. QED
        BY <1>3, <1>4, <2>2, <4>1, ConcatOne
    <3>3. is = Eval("const", k, open) \o ReturnCode(o)
      BY <2>2
    <3>4. Eval("const", k, open) \in Seq(Instrs) /\ ReturnCode(o) \in Seq(Instrs)
      BY <1>6, <3>1 DEF Plain, Sound
    <3> HIDE DEF is, o, value
    <3>5. QED
      BY <1>6, <3>1, <3>2, <3>3, <3>4, PlainConcat, PieceConcat
  <2>3. QED
    BY <2>1, <2>2
<1>8. Counted
  <2>1. loopStartStack' = loopStartStack /\ loopEndStack' = loopEndStack
    BY <1>2 DEF loops
  <2>2. labelCount \in Nat /\ labelCountBlock \in Nat /\ varCount' \in Nat
        /\ loopStartStack \in Seq(Nat) /\ loopEndStack \in Seq(Nat) /\ dom \subseteq Vars
    BY <1>1, <1>2, GenTypes
  <2>3. varCount <= varCount'
    BY <1>2, <1>3
  <2>4. QED
    BY <1>2, <1>5, <2>1, <2>2, <2>3 DEF Counted
<1>9. \A r \in Elems(o) : r \in Elems(open) \/ (r[1] = "tmp" /\ r[2] \in Nat /\ r[2] < varCount')
  <2>1. k < varCount'
    BY <1>2, <1>3
  <2>2. QED
    BY <1>3, <1>4, <1>5, <2>1
<1>10. UNCHANGED loops
  BY <1>2
<1> HIDE DEF is, o, value
<1>11. QED
  BY <1>1, <1>2, <1>5, <1>7, <1>8, <1>9, <1>10, PlainStmt

\* what follows the value that is assigned to a variable, unless it is copied in a loop
LEMMA StorePiece ==
  ASSUME NEW v \in Vars, NEW src \in Names, NEW o \in Seq(Names),
         NEW is \in {<< Do("use", Var(v), o) >>, << Do("use", Var(v), o), Do("free", src, o) >>}
  PROVE  Plain(is) /\ Piece(is, o, o)
<1> DEFINE x == Do("use", Var(v), o)
           y == Do("free", src, o)
<1>1. Var(v) \in Regs /\ src \in Regs
  BY NameTypes
<1>2. Plain(<<x>>)
  BY <1>1, PlainDo DEF Ops, Branches
<1>3. Plain(<<y>>)
  BY <1>1, PlainDo DEF Ops, Branches
<1>4. Flow(x, o)
  BY <1>1, FlowKeep
<1>5. Flow(y, o)
  BY <1>1, FlowKeep
<1>6. x.open = o /\ y.open = o
  BY DEF Do, Instr
<1> HIDE DEF x, y
<1>7. Piece(<<x>>, o, o) /\ Piece(<<x, y>>, o, o)
  BY <1>4, <1>5, <1>6, Piece1, Piece2
<1>8. Plain(<<x, y>>)
  BY <1>2, <1>3, Plain2
<1>9. is = <<x>> \/ is = <<x, y>>
  BY DEF x, y
<1>10. QED
  BY <1>2, <1>7, <1>8, <1>9

\* the labels and the branches of a loop that copies are its own
LEMMA CopyStmt ==
  ASSUME NEW ev, Plain(ev), NEW cl, Sound(cl), Closed(cl), Once(cl),
         NEW l \in Nat, Labs(cl) = {<<l>>, <<l + 1>>, <<l + 2>>}
  PROVE  /\ Sound(ev \o cl) /\ Once(ev \o cl)
         /\ \A x \in Elems(ev \o cl) : x.op = "label" => x.to[1] >= l /\ x.to[1] < l + 3
         /\ \A x \in Elems(ev \o cl) : x.op \in Branches =>
              \A k \in 1 .. Len(x.to) :
                \E y \in Elems(ev \o cl) : LabelAt(y, x.to[k], x.meant[k], x.open)
<1>1. Sound(ev) /\ ev \in Seq(Instrs) /\ cl \in Seq(Instrs)
  BY DEF Plain, Sound
<1>2. Sound(ev \o cl) /\ Elems(ev \o cl) = Elems(ev) \union Elems(cl)
  BY <1>1, SoundConcat
<1>3. Labs(ev) = {} /\ Once(ev)
  BY PlainLabs
<1>4. Once(ev \o cl)
  BY <1>1, <1>3, OnceConcat
<1>5. ASSUME NEW x \in Elems(ev \o cl), x.op = "label"
      PROVE  x.to[1] >= l /\ x.to[1] < l + 3
  <2>1. x \in Elems(cl)
    BY <1>2, <1>5 DEF Plain
  <2>2. x.to \in Labs(cl)
    BY <1>5, <2>1 DEF Labs
  <2>3. x.to[1] \in {l, l + 1, l + 2}
    BY <2>2
  <2>4. QED
    BY <2>3
<1>6. ASSUME NEW x \in Elems(ev \o cl), x.op \in Branches, NEW k \in 1 .. Len(x.to)
      PROVE  \E y \in Elems(ev \o cl) : LabelAt(y, x.to[k], x.meant[k], x.open)
  <2>1. x \in Elems(cl)
    BY <1>2, <1>6 DEF Plain
  <2>2. \E y \in Elems(cl) : LabelAt(y, x.to[k], x.meant[k], x.open)
    BY <1>6, <2>1 DEF Closed
  <2>3. QED
    BY <1>2, <2>2
<1>7. QED
  BY <1>2, <1>4, <1>5, <1>6

LEMMA StepAssign ==
  ASSUME IInv, NEW v \in Vars, NEW e \in Exprs, Assign(v, e)
  PROVE  IInv'
<1> DEFINE k == varCount
           o == open \o Opened(e, k)
           src == Result(e, k)
           ev == Eval(e, k, open)
           loop == e \in {"array", "string"}
           use == << Do("use", Var(v), o) >>
           free == << Do("use", Var(v), o), Do("free", src, o) >>
           cl == CopyLoop(v, src, Len(code) + 1, labelCount, Block(labelCountBlock), k + 2, o)
           st == CASE e = "const" -> use [] e = "comp" -> free [] loop -> cl
           is == ev \o st
<1>1. TypeOK /\ Generated
  BY DEF IInv
<1>2. /\ InStmt /\ phase = "gen" /\ code' = code \o is /\ visits' = Returned(visits)
      /\ open' = IF loop THEN Append(o, Tmp(k + 2)) ELSE o
      /\ varCount' = varCount + 3
      /\ labelCount' = IF loop THEN labelCount + 3 ELSE labelCount
      /\ labelCountBlock' = IF loop THEN labelCountBlock + 1 ELSE labelCountBlock
      /\ UNCHANGED <<phase, retty, loops, dom, run>>
  BY DEF Assign, Stmt, Write, InStmt
<1>3. e \in {"const", "array", "string", "comp"}
  BY ControlAssumption
<1>4. /\ open \in Seq(Names) /\ k \in Nat /\ k + 1 \in Nat /\ k + 2 \in Nat
      /\ Tmp(k) \notin Elems(open) /\ Tmp(k + 1) \notin Elems(open)
      /\ Tmp(k + 2) \notin Elems(open) /\ Block(labelCountBlock) \notin Elems(open)
      /\ labelCount \in Nat /\ labelCountBlock \in Nat
  BY <1>1, GenTypes
<1>5. /\ Tmp(k) \in Names /\ Tmp(k)[1] = "tmp" /\ Tmp(k)[2] = k
      /\ Tmp(k + 1) \in Names /\ Tmp(k + 1)[1] = "tmp" /\ Tmp(k + 1)[2] = k + 1
      /\ Tmp(k + 2) \in Names /\ Tmp(k + 2)[1] = "tmp" /\ Tmp(k + 2)[2] = k + 2
      /\ Block(labelCountBlock) \in Names /\ Block(labelCountBlock)[1] = "block"
  BY <1>4, NameTypes
<1>6. /\ Plain(ev) /\ Piece(ev, open, o) /\ o \in Seq(Names) /\ Begins(open, o)
      /\ Elems(o) \subseteq Elems(open) \union {Tmp(k), Tmp(k + 1)} /\ src \in Names
  BY <1>3, <1>4, EvalPiece
<1>7. k # k + 2 /\ k + 1 # k + 2 /\ k < k + 3 /\ k + 1 < k + 3 /\ k + 2 < k + 3 /\ k <= k + 3
  BY <1>4
<1>8. Tmp(k + 2) \notin Elems(o) /\ Block(labelCountBlock) \notin Elems(o)
  <2>1. Tmp(k + 2) # Tmp(k) /\ Tmp(k + 2) # Tmp(k + 1)
    BY <1>5, <1>7
  <2>2. Block(labelCountBlock) # Tmp(k) /\ Block(labelCountBlock) # Tmp(k + 1)
    BY <1>5
  <2>3. QED
    BY <1>4, <1>6, <2>1, <2>2
<1>9. /\ open' \in Seq(Names) /\ Begins(open, open')
      /\ Elems(open') \subseteq Elems(open) \union {Tmp(k), Tmp(k + 1), Tmp(k + 2)}
  <2>1. CASE loop
    <3>1. open' = Append(o, Tmp(k + 2))
      BY <1>2, <2>1
    <3> HIDE DEF o
    <3>2. open' \in Seq(Names) /\ Elems(open') = Elems(o) \union {Tmp(k + 2)} /\ Begins(open, open')
      BY <1>4, <1>5, <1>6, <3>1, AppendElems, BeginsAppend
    <3>3. QED
      BY <1>6, <3>2
  <2>2. CASE ~loop
    BY <1>2, <1>6, <2>2
  <2>3. QED
    BY <2>1, <2>2
<1>10. Counted
  <2>1. loopStartStack' = loopStartStack /\ loopEndStack' = loopEndStack
    BY <1>2 DEF loops
  <2>2. /\ varCount' \in Nat /\ labelCount + 3 \in Nat /\ labelCountBlock + 1 \in Nat
        /\ loopStartStack \in Seq(Nat) /\ loopEndStack \in Seq(Nat) /\ dom \subseteq Vars
    BY <1>1, <1>2, GenTypes
  <2>3. /\ varCount <= varCount' /\ labelCount <= labelCount + 3 /\ labelCount <= labelCount
        /\ labelCountBlock <= labelCountBlock + 1 /\ labelCountBlock <= labelCountBlock
    BY <1>2, <1>4
  <2>4. /\ labelCount' \in Nat /\ labelCount <= labelCount'
        /\ labelCountBlock' \in Nat /\ labelCountBlock <= labelCountBlock'
    BY <1>2, <1>4, <2>2, <2>3
  <2>5. QED
    BY <1>2, <1>9, <2>1, <2>2, <2>3, <2>4 DEF Counted
<1>11. \A r \in Elems(open') : r \in Elems(open) \/ (r[1] = "tmp" /\ r[2] \in Nat /\ r[2] < varCount')
  <2>1. ASSUME NEW r \in {Tmp(k), Tmp(k + 1), Tmp(k + 2)}
        PROVE  r[1] = "tmp" /\ r[2] \in Nat /\ r[2] < varCount'
    BY <1>2, <1>4, <1>5, <1>7
  <2>2. QED
    BY <1>9, <2>1, Zenon
<1>12. UNCHANGED loops
  BY <1>2
<1>13. CASE ~loop
  <2>1. st = use \/ st = free
    BY <1>3, <1>13
  <2>2. Plain(st) /\ Piece(st, o, o)
    <3> HIDE DEF st, o, src
    <3>1. QED
      BY <1>6, <2>1, StorePiece
  <2>3. open' = o
    BY <1>2, <1>13
  <2>4. ev \in Seq(Instrs) /\ st \in Seq(Instrs)
    BY <1>6, <2>2 DEF Plain, Sound
  <2> HIDE DEF ev, st, o
  <2>5. Plain(is) /\ Piece(is, open, open')
    BY <1>6, <2>2, <2>3, <2>4, PlainConcat, PieceConcat
  <2> HIDE DEF is
  <2>6. QED
    BY <1>1, <1>2, <1>9, <1>10, <1>11, <1>12, <2>5, PlainStmt
<1>14. CASE loop
  <2>1. st = cl /\ labelCount' = labelCount + 3 /\ open' = Append(o, Tmp(k + 2))
    BY <1>2, <1>3, <1>14
  <2>2. Len(code) + 1 \in Nat
    BY <1>1, LenProperties DEF Generated, CodeOK
  <2> HIDE DEF o, src, k
  <2>3. /\ Sound(cl) /\ Once(cl) /\ Closed(cl) /\ Piece(cl, o, Append(o, Tmp(k + 2)))
        /\ Labs(cl) = {<<labelCount>>, <<labelCount + 1>>, <<labelCount + 2>>}
    BY <1>4, <1>5, <1>6, <1>8, <2>2, CopyLoopPiece, SMTT(30)
  <2> HIDE DEF ev, cl, st
  <2>4. /\ Sound(is) /\ Once(is)
        /\ \A x \in Elems(is) : x.op = "label" => x.to[1] >= labelCount /\ x.to[1] < labelCount'
        /\ \A x \in Elems(is) : x.op \in Branches =>
              \A j \in 1 .. Len(x.to) :
                \E y \in Elems(is) : LabelAt(y, x.to[j], x.meant[j], x.open)
    BY <1>4, <1>6, <2>1, <2>3, CopyStmt
  <2>5. ev \in Seq(Instrs) /\ st \in Seq(Instrs)
    BY <1>6, <2>1, <2>3 DEF Plain, Sound
  <2>6. Piece(is, open, open')
    BY <1>6, <2>1, <2>3, <2>5, PieceConcat
  <2> HIDE DEF is
  <2>7. QED
    BY <1>1, <1>2, <1>9, <1>10, <1>11, <1>12, <2>4, <2>6, StmtStep
<1>15. QED
  BY <1>13, <1>14

\* the loop that a break or next statement is meant for, is the one of which it takes
\* the labels
LEMMA MeantLoop ==
  ASSUME TypeOK, Generated, visits # <<>>, loopEndStack # <<>>, NEW n \in Int
  PROVE  \E p \in 1 .. Len(visits) :
           LET v == visits[p]
               m == Len(loopEndStack) - Reduced(n)
           IN  /\ v.kind = "loop" /\ LoopOK(v)
               /\ loopStartStack[m] = v.label /\ loopEndStack[m] = v.label + 2
               /\ \A to \in {"start", "end"} : Meant(to, n) = Place(to, v.begin)
<1> DEFINE len == Len(loopEndStack)
           m == len - Reduced(n)
           nest == IF n \in 0 .. (Top.nest - 1) THEN Top.nest - n ELSE 1
           p == CHOOSE p \in 1 .. Len(visits) : visits[p].kind = "loop" /\ visits[p].nest = nest
<1>1. len \in Nat /\ len >= 1 /\ len = Len(loopStartStack) /\ Top.nest = len
  BY EmptySeq DEF TypeOK, Generated, LoopsOK
<1>2. m \in 1 .. len /\ nest = m
  <2>1. CASE n \in 0 .. (len - 1)
    BY <1>1, <2>1 DEF Reduced
  <2>2. CASE n \notin 0 .. (len - 1)
    <3>1. n < 0 \/ n >= len
      BY <1>1, <2>2
    <3>2. Reduced(n) = len - 1
      BY <3>1 DEF Reduced
    <3>3. nest = 1
      BY <1>1, <2>2
    <3>4. QED
      BY <1>1, <3>2, <3>3
  <2>3. QED
    BY <2>1, <2>2
<1>3. \E q \in 1 .. Len(visits) : visits[q].kind = "loop" /\ visits[q].nest = nest
  BY <1>1, <1>2 DEF Generated, LoopsOK
<1>4. p \in 1 .. Len(visits) /\ visits[p].kind = "loop" /\ visits[p].nest = m
  BY <1>2, <1>3
<1>5. LoopOK(visits[p])
  BY <1>4 DEF Generated, LoopsOK
<1>6. loopStartStack[m] = visits[p].label /\ loopEndStack[m] = visits[p].label + 2
  BY <1>4, <1>5 DEF LoopOK
<1>7. \A to \in {"start", "end"} : Meant(to, n) = Place(to, visits[p].begin)
  BY DEF Meant
<1> HIDE DEF p, m
<1>8. QED
  BY <1>4, <1>5, <1>6, <1>7 DEF m

\* a break or next statement
LEMMA JumpStmt ==
  ASSUME TypeOK, Generated, InStmt, NEW op \in {"br", "next"}, NEW l \in Nat, NEW pl \in Places,
         Leads(l, pl, open), code' = code \o << Branch(op, <<l>>, <<pl>>, open) >>,
         visits' = Returned(visits),
         UNCHANGED <<phase, retty, counters, loops, open, dom, run>>
  PROVE  IInv'
<1> DEFINE x == Branch(op, <<l>>, <<pl>>, open)
<1>1. /\ open \in Seq(Names) /\ dom \subseteq Vars
      /\ labelCount \in Nat /\ labelCountBlock \in Nat /\ varCount \in Nat
      /\ loopStartStack \in Seq(Nat) /\ loopEndStack \in Seq(Nat)
  BY GenTypes
<1>2. /\ <<l>> \in Seq(Nat) /\ Len(<<l>>) = 1 /\ <<pl>> \in Seq(Places) /\ Len(<<pl>>) = 1
  BY Tuple1
<1>3. /\ x \in Instrs
      /\ x.op = op /\ x.to = <<l>> /\ x.meant = <<pl>> /\ x.open = open
  <2>1. op \in Ops
    BY DEF Ops
  <2>2. x.op = op /\ x.to = <<l>> /\ x.meant = <<pl>> /\ x.open = open
    BY DEF Branch, Instr
  <2>3. None \in Regs
    BY NameTypes
  <2>4. x \in Instrs
    BY <1>1, <1>2, <2>1, <2>3 DEF Branch, Instr, Instrs
  <2>5. QED
    BY <2>2, <2>4
<1> HIDE DEF x
<1>4. InstrOK(x)
  BY <1>2, <1>3 DEF InstrOK
<1>5. <<x>> \in Seq(Instrs) /\ Elems(<<x>>) = {x}
  BY <1>3, Tuple1
<1>6. Sound(<<x>>)
  BY <1>4, <1>5 DEF Sound
<1>7. Once(<<x>>)
  BY <1>5 DEF Once
<1>8. Piece(<<x>>, open, open')
  <2>1. Flow(x, open')
    BY <1>3, FlowBranch DEF Branches
  <2>2. QED
    BY <1>3, <2>1, Piece1
<1>9. open' = open /\ open' \in Seq(Names) /\ Begins(open, open')
  BY <1>1, BeginsReflexive
<1>10. Counted
  <2>1. /\ labelCount' = labelCount /\ labelCountBlock' = labelCountBlock /\ varCount' = varCount
        /\ loopStartStack' = loopStartStack /\ loopEndStack' = loopEndStack
    BY DEF counters, loops
  <2>2. phase = "gen"
    BY DEF InStmt
  <2>3. labelCount <= labelCount' /\ labelCountBlock <= labelCountBlock' /\ varCount <= varCount'
    BY <1>1, <2>1
  <2>4. QED
    BY <1>1, <1>9, <2>1, <2>2, <2>3 DEF Counted
<1>11. \A y \in Elems(<<x>>) : y.op # "label"
  BY <1>3, <1>5
<1>12. \A y \in Elems(<<x>>) : \A k \in 1 .. Len(y.to) : Leads(y.to[k], y.meant[k], y.open)
  <2>1. SUFFICES ASSUME NEW k \in 1 .. 1 PROVE Leads(x.to[k], x.meant[k], x.open)
    BY <1>2, <1>3, <1>5
  <2>2. x.to[k] = l /\ x.meant[k] = pl /\ x.open = open
    BY <1>3
  <2>3. QED
    BY <2>2
<1>13. code' = code \o <<x>> /\ UNCHANGED loops
  BY DEF x
<1>14. QED
  BY <1>6, <1>7, <1>8, <1>9, <1>10, <1>11, <1>12, <1>13, StmtStep

LEMMA StepLoopJump ==
  ASSUME IInv, NEW n \in Depths, LoopBreak(n) \/ LoopNext(n)
  PROVE  IInv'
<1>1. TypeOK /\ Generated
  BY DEF IInv
<1>2. visits # <<>> /\ n \in Int
  BY ControlAssumption DEF LoopBreak, LoopNext, InStmt
<1>3. loopEndStack # <<>>
  <2>1. Len(loopEndStack) = Len(loopStartStack)
    BY <1>1 DEF Generated, LoopsOK
  <2>2. loopEndStack = <<>> => loopStartStack = <<>>
    BY <1>1, <2>1, EmptySeq DEF TypeOK
  <2>3. QED
    BY <2>2 DEF LoopBreak, LoopNext
<1> DEFINE m == Len(loopEndStack) - Reduced(n)
<1>4. PICK p \in 1 .. Len(visits) :
        /\ visits[p].kind = "loop" /\ LoopOK(visits[p])
        /\ loopStartStack[m] = visits[p].label /\ loopEndStack[m] = visits[p].label + 2
        /\ \A to \in {"start", "end"} : Meant(to, n) = Place(to, visits[p].begin)
  BY <1>1, <1>2, <1>3, MeantLoop
<1> DEFINE v == visits[p]
<1>5. /\ v \in Visits /\ v.in \in Seq(Names) /\ v.out \in Seq(Names) /\ open \in Seq(Names)
      /\ Begins(v.in, open) /\ Begins(v.out, v.in)
  BY <1>1, <1>2, TopVisit
<1>6. v.label \in Nat /\ v.label + 2 \in Nat /\ v.begin \in Nat
  BY <1>5 DEF Visits
<1>7. Place("end", v.begin) \in Places /\ Place("start", v.begin) \in Places
  BY <1>6, PlaceType
<1>8. Leads(v.label + 2, Place("end", v.begin), open)
  <2>1. <<v.label + 2, Place("end", v.begin)>> \in Pending(v)
    BY <1>4 DEF Pending
  <2>2. QED
    BY <1>5, <2>1 DEF Leads
<1>9. Leads(v.label, Place("start", v.begin), open)
  <2>1. PICK x \in Elems(code) : LabelAt(x, v.label, Place("start", v.begin), v.out)
    BY <1>4 DEF LoopOK
  <2>2. x.open \in Seq(Names)
    <3>1. x \in Instrs
      BY <1>1, ElemsType DEF Generated, CodeOK
    <3>2. QED
      BY <3>1 DEF Instrs
  <2>3. Begins(v.out, open)
    BY <1>5, BeginsTransitive
  <2>4. Begins(x.open, open)
    BY <1>5, <2>1, <2>2, <2>3, BeginsTransitive DEF LabelAt
  <2>5. QED
    BY <2>1, <2>4 DEF Leads, LabelAt
<1>10. CASE LoopBreak(n)
  <2>1. /\ InStmt /\ visits' = Returned(visits)
        /\ code' = code \o << Branch("br", <<loopEndStack[m]>>, << Meant("end", n) >>, open) >>
        /\ UNCHANGED <<phase, retty, counters, loops, open, dom, run>>
    BY <1>10 DEF LoopBreak, Stmt, Write
  <2>2. code' = code \o << Branch("br", <<v.label + 2>>, << Place("end", v.begin) >>, open) >>
    BY <1>4, <2>1
  <2> HIDE DEF m, v
  <2>3. QED
    BY <1>1, <1>6, <1>7, <1>8, <2>1, <2>2, JumpStmt
<1>11. CASE LoopNext(n)
  <2>1. /\ InStmt /\ visits' = Returned(visits)
        /\ code' = code \o << [Branch("br", <<loopStartStack[Len(loopStartStack) - Reduced(n)]>>,
                                      << Meant("start", n) >>, open) EXCEPT !.op = "next"] >>
        /\ UNCHANGED <<phase, retty, counters, loops, open, dom, run>>
    BY <1>11 DEF LoopNext, Stmt, Write
  <2>2. Len(loopStartStack) = Len(loopEndStack)
    BY <1>1 DEF Generated, LoopsOK
  <2>3. code' = code \o << [Branch("br", <<v.label>>, << Place("start", v.begin) >>, open)
                              EXCEPT !.op = "next"] >>
    BY <1>4, <2>1, <2>2
  <2>4. [Branch("br", <<v.label>>, << Place("start", v.begin) >>, open) EXCEPT !.op = "next"]
          = Branch("next", <<v.label>>, << Place("start", v.begin) >>, open)
    BY DEF Branch, Instr
  <2>5. code' = code \o << Branch("next", <<v.label>>, << Place("start", v.begin) >>, open) >>
    BY <2>3, <2>4
  <2> HIDE DEF m, v
  <2>6. QED
    BY <1>1, <1>6, <1>7, <1>9, <2>1, <2>5, JumpStmt
<1>12. QED
  BY <1>10, <1>11

\* what has been generated stays as it is
LEMMA GenUnchanged ==
  ASSUME Generated, UNCHANGED gen, PhaseOK'
  PROVE  Generated'
<1>1. /\ code' = code /\ visits' = visits /\ open' = open /\ labelCount' = labelCount
      /\ labelCountBlock' = labelCountBlock /\ varCount' = varCount
      /\ loopStartStack' = loopStartStack /\ loopEndStack' = loopEndStack
  BY DEF gen, counters, loops
<1>2. CodeOK'
  BY <1>1 DEF Generated, CodeOK
<1>3. LabelsOK'
  BY <1>1 DEF Generated, LabelsOK
<1>4. BranchesOK'
  BY <1>1 DEF Generated, BranchesOK, Leads
<1>5. VisitsOK'
  BY <1>1 DEF Generated, VisitsOK, VisitOK
<1>6. LoopsOK'
  BY <1>1 DEF Generated, LoopsOK, LoopOK, Top
<1>7. NamesOK'
  BY <1>1 DEF Generated, NamesOK
<1>8. QED
  BY <1>2, <1>3, <1>4, <1>5, <1>6, <1>7 DEF Generated

LEMMA StepLoopJumpError ==
  ASSUME IInv, LoopJumpError
  PROVE  IInv'
<1>1. phase = "gen" /\ phase' = "error" /\ UNCHANGED <<gen, run>>
  BY DEF LoopJumpError, InStmt
<1>2. PhaseOK'
  BY <1>1 DEF IInv, Generated, PhaseOK, gen, run
<1>3. Generated'
  BY <1>1, <1>2, GenUnchanged DEF IInv
<1>4. TypeOK' /\ RegsOK'
  BY <1>1 DEF IInv, TypeOK, RegsOK, gen, run, counters, loops
<1>5. ScopesLive'
  BY <1>1 DEF ScopesLive
<1>6. QED
  BY <1>3, <1>4, <1>5 DEF IInv

-------------------------------------------------------------------------------
(***************************************************************************)
(* Steps that begin or end a visit.                                        *)
(***************************************************************************)
LEMMA EnterStep ==
  ASSUME TypeOK, Generated, visits # <<>>, Top.stage = "body", Counted,
         NEW v \in Visits, visits' = Append(visits, v), v.kind # "func",
         v.out = open, v.in = open', Begins(open, open'),
         v.kind \in {"stmts", "loop"} => Len(v.out) < Len(v.in) /\ v.in[Len(v.out) + 1] = v.block,
         NEW is, code' = code \o is, Sound(is), Once(is), Piece(is, open, open'),
         \A x \in Elems(is) : x.op = "label" =>
           x.to[1] >= labelCount /\ x.to[1] < labelCount',
         \A t \in Pending(v) :
           /\ t[1] >= labelCount /\ t[1] < labelCount'
           /\ \A x \in Elems(is) : x.op = "label" => x.to # <<t[1]>>,
         \A x \in Elems(is) : x.op \in Branches =>
           \A k \in 1 .. Len(x.to) :
             \/ \E y \in Elems(is) : LabelAt(y, x.to[k], x.meant[k], x.open)
             \/ <<x.to[k], x.meant[k]>> \in Pending(v) /\ Begins(v.in, x.open),
         \/ v.kind # "loop" /\ v.nest = Top.nest /\ UNCHANGED loops
         \/ /\ v.kind = "loop" /\ v.nest = Top.nest + 1
            /\ loopStartStack' = Append(loopStartStack, v.label)
            /\ loopEndStack' = Append(loopEndStack, v.label + 2)
            /\ \E x \in Elems(is) : LabelAt(x, v.label, Place("start", v.begin), v.out),
         \A r \in Elems(open') :
           \/ r \in Elems(open)
           \/ r[1] = "tmp" /\ r[2] \in Nat /\ r[2] < varCount'
           \/ r[1] = "block" /\ r[2] \in Nat /\ r[2] < labelCountBlock'
  PROVE  IInv'
<1> DEFINE n == Len(visits)
<1>1. /\ open \in Seq(Names) /\ open' \in Seq(Names) /\ labelCount \in Nat
      /\ labelCount' \in Nat /\ labelCount <= labelCount'
      /\ loopStartStack \in Seq(Nat) /\ loopEndStack \in Seq(Nat)
  BY GenTypes DEF Counted
<1>2. /\ visits \in Seq(Visits) /\ n \in Nat /\ n \in 1 .. n /\ Top = visits[n]
      /\ Top.kind = "func" <=> n = 1
      /\ \A p \in 1 .. n : visits[p] \in Visits /\ visits[p].in \in Seq(Names)
  BY TopVisit
<1>3. /\ visits' \in Seq(Visits) /\ Len(visits') = n + 1 /\ visits'[n + 1] = v
      /\ \A p \in 1 .. n : visits'[p] = visits[p] /\ p \in 1 .. n + 1
      /\ n + 1 \in 1 .. n + 1
  BY <1>2
<1>4. Elems(code') = Elems(code) \union Elems(is)
  BY ConcatElems DEF Generated, CodeOK, Sound
<1>5. VisitsOK'
  <2>1. VisitsOK /\ LabelsOK
    BY DEF Generated
  <2>2. Begins(open', open')
    BY <1>1, BeginsReflexive
  <2>3. \A t \in Pending(v) : t[1] >= labelCount
    OBVIOUS
  <2>4. QED
    BY <1>1, <2>1, <2>2, <2>3, VisitsPush
<1>6. LoopsOK'
  <2>1. LoopsOK /\ visits \in Seq(Visits)
    BY <1>2 DEF Generated
  <2>2. Elems(code) \subseteq Elems(code')
    BY <1>4
  <2>3. \/ v.kind # "loop" /\ v.nest = Top.nest /\ UNCHANGED loops
        \/ /\ v.kind = "loop" /\ v.nest = Top.nest + 1
           /\ loopStartStack' = Append(loopStartStack, v.label)
           /\ loopEndStack' = Append(loopEndStack, v.label + 2)
           /\ \E x \in Elems(code') : LabelAt(x, v.label, Place("start", v.begin), v.out)
    BY <1>4
  <2>4. QED
    BY <1>1, <2>1, <2>2, <2>3, LoopsPush
<1>7. LabelsNew(is)
  <2>1. ASSUME NEW p \in 1 .. n + 1, NEW t \in Pending(visits'[p])
        PROVE  /\ t[1] < labelCount'
               /\ t[1] >= labelCount \/ \E q \in 1 .. Len(visits) : t \in Pending(visits[q])
               /\ \A x \in Elems(is) : x.op = "label" => x.to # <<t[1]>>
    <3>1. CASE p = n + 1
      <4>1. t \in Pending(v)
        BY <1>3, <2>1, <3>1
      <4>2. QED
        BY <4>1
    <3>2. CASE p \in 1 .. n
      <4>1. t \in Pending(visits[p])
        BY <1>3, <2>1, <3>2
      <4>2. t[1] \in Nat /\ t[1] < labelCount
        BY <1>2, <3>2, <4>1, PendingType DEF Generated, LabelsOK
      <4>3. ASSUME NEW x \in Elems(is), x.op = "label" PROVE x.to # <<t[1]>>
        <5>1. x.to[1] >= labelCount
          BY <4>3
        <5>2. x.to[1] \in Nat
          BY <4>3, LabelType, ElemsType DEF Sound
        <5>3. x.to[1] # t[1]
          BY <1>1, <4>2, <5>1, <5>2
        <5>4. QED
          BY <5>3
      <4>4. t[1] < labelCount'
        BY <1>1, <4>2
      <4>5. QED
        BY <3>2, <4>1, <4>3, <4>4
    <3>3. QED
      BY <1>2, <3>1, <3>2
  <2>2. QED
    BY <1>3, <2>1 DEF LabelsNew
<1>8. ASSUME NEW p \in 1 .. Len(visits), NEW t \in Pending(visits[p]) PROVE Kept(is, p, t)
  <2>1. p \in 1 .. Len(visits') /\ t \in Pending(visits'[p]) /\ Begins(visits'[p].in, visits[p].in)
    BY <1>2, <1>3, <1>8, BeginsReflexive
  <2>2. QED
    BY <2>1 DEF Kept
<1>9. Written(is)
  <2>1. ASSUME NEW x \in Elems(is), x.op \in Branches, NEW k \in 1 .. Len(x.to)
        PROVE  LeadsNow(is, x.to[k], x.meant[k], x.open)
    <3>1. \/ \E y \in Elems(is) : LabelAt(y, x.to[k], x.meant[k], x.open)
          \/ <<x.to[k], x.meant[k]>> \in Pending(visits'[n + 1]) /\ Begins(visits'[n + 1].in, x.open)
      BY <1>3, <2>1
    <3>2. n + 1 \in 1 .. Len(visits')
      BY <1>3
    <3>3. QED
      BY <3>1, <3>2 DEF LeadsNow
  <2>2. QED
    BY <1>7, <1>8, <2>1 DEF Written
<1>10. visits' # <<>> /\ visits'[1].stage = "done" => Len(visits) >= 2
  <2>1. 1 \in 1 .. n
    BY <1>2
  <2>2. visits'[1] = visits[1]
    BY <1>3, <2>1
  <2>3. n = 1 => Top = visits[1]
    BY <1>2
  <2>4. n = 1 \/ n >= 2
    <3>1. \A m \in Nat : m \in 1 .. m => m = 1 \/ m >= 2
      OBVIOUS
    <3>2. QED
      BY <1>2, <3>1, Zenon
  <2>5. QED
    BY <2>2, <2>3, <2>4
<1>11. QED
  BY <1>5, <1>6, <1>9, <1>10, GenStep

\* the visits that are left when the last one ends, and what is in scope then
LEMMA OuterVisits ==
  ASSUME TypeOK, Generated, visits # <<>>, Top.kind # "func"
  PROVE  LET n == Len(visits)
         IN  /\ n \in Nat /\ n >= 2 /\ n - 1 \in 1 .. n /\ visits \in Seq(Visits)
             /\ Top = visits[n] /\ Top \in Visits
             /\ Top.in \in Seq(Names) /\ Top.out \in Seq(Names) /\ open \in Seq(Names)
             /\ Begins(Top.out, Top.in) /\ Begins(Top.in, open) /\ Begins(Top.out, open)
             /\ Returned(Outer) \in Seq(Visits) /\ Len(Returned(Outer)) = n - 1
             /\ \A p \in 1 .. (n - 1) :
                  /\ p \in 1 .. n /\ visits[p] \in Visits
                  /\ visits[p].in \in Seq(Names) /\ Begins(visits[p].in, Top.out)
                  /\ Like(Returned(Outer)[p], visits[p])
                  /\ Pending(Returned(Outer)[p]) = Pending(visits[p])
                  /\ Returned(Outer)[p].in = visits[p].in
                  /\ \A s \in Pending(visits[p]) : \A t \in Pending(Top) : s[1] # t[1]
             /\ Len(loopStartStack) = Top.nest /\ Len(loopEndStack) = Len(loopStartStack)
             /\ Top.nest = visits[n - 1].nest + (IF Top.kind = "loop" THEN 1 ELSE 0)
             /\ visits[n - 1].nest \in Nat
<1> DEFINE n == Len(visits)
           vs == SubSeq(visits, 1, n - 1)
<1>1. /\ visits \in Seq(Visits) /\ Top = visits[n] /\ n >= 2 /\ n \in 1 .. n
      /\ Top \in Visits /\ open \in Seq(Names)
      /\ \A p \in 1 .. n : /\ visits[p] \in Visits
                           /\ visits[p].in \in Seq(Names) /\ visits[p].out \in Seq(Names)
                           /\ Begins(visits[p].in, open) /\ Begins(visits[p].out, visits[p].in)
  BY TopVisit
<1>2. n \in Nat /\ n - 1 \in 1 .. n /\ \A p \in 1 .. (n - 1) : p \in 1 .. n
  <2>1. n \in Nat
    BY <1>1, LenProperties
  <2>2. QED
    BY <1>1, <2>1
<1>3. Outer \in Seq(Visits) /\ Len(Outer) = n - 1 /\ \A p \in 1 .. (n - 1) : Outer[p] = visits[p]
  BY <1>1, TakeBegins DEF Outer
<1>4. /\ Returned(Outer) \in Seq(Visits) /\ Len(Returned(Outer)) = n - 1
      /\ \A p \in 1 .. (n - 1) : /\ Like(Returned(Outer)[p], visits[p])
                                 /\ Returned(Outer)[p].kind = visits[p].kind
  <2>1. /\ Returned(Outer) \in Seq(Visits) /\ Len(Returned(Outer)) = Len(Outer)
        /\ \A p \in 1 .. Len(Outer) : /\ Like(Returned(Outer)[p], Outer[p])
                                      /\ Returned(Outer)[p].kind = Outer[p].kind
    BY <1>3, ReturnedVisits
  <2>2. QED
    BY <1>3, <2>1
<1>5. /\ Top.in \in Seq(Names) /\ Top.out \in Seq(Names)
      /\ Begins(Top.out, Top.in) /\ Begins(Top.in, open) /\ Begins(Top.out, open)
  <2>1. /\ Top.in \in Seq(Names) /\ Top.out \in Seq(Names)
        /\ Begins(Top.out, Top.in) /\ Begins(Top.in, open)
    BY <1>1
  <2>2. QED
    BY <1>1, <2>1, BeginsTransitive
<1>6. \A p \in 1 .. (n - 1) : Begins(visits[p].in, Top.out)
  <2>1. VisitOK(n)
    BY <1>1 DEF Generated, VisitsOK
  <2>2. QED
    BY <1>1, <2>1 DEF VisitOK
<1>7. \A p \in 1 .. (n - 1) : \A s \in Pending(visits[p]) : \A t \in Pending(Top) : s[1] # t[1]
  <2>1. VisitOK(n)
    BY <1>1 DEF Generated, VisitsOK
  <2>2. \A p \in 1 .. (n - 1) : p # n
    BY <1>2
  <2>3. QED
    BY <1>1, <1>2, <2>1, <2>2 DEF VisitOK
<1>8. \A p \in 1 .. (n - 1) : /\ Pending(Returned(Outer)[p]) = Pending(visits[p])
                              /\ Returned(Outer)[p].in = visits[p].in
  BY <1>4, LikePending DEF Like
<1>9. /\ Len(loopStartStack) = Top.nest /\ Len(loopEndStack) = Len(loopStartStack)
  BY DEF Generated, LoopsOK
<1>10. Top.nest = visits[n - 1].nest + (IF Top.kind = "loop" THEN 1 ELSE 0)
  <2>1. n \in 2 .. n
    BY <1>1, <1>2
  <2>2. QED
    BY <1>1, <2>1 DEF Generated, LoopsOK
<1>11. visits[n - 1].nest \in Nat
  BY <1>1, <1>2 DEF Visits
<1>12. QED
  BY <1>1, <1>2, <1>4, <1>5, <1>6, <1>7, <1>8, <1>9, <1>10, <1>11

LEMMA LeaveStep ==
  ASSUME TypeOK, Generated, visits # <<>>, Top.kind # "func", Counted,
         visits' = Returned(Outer), Begins(Top.out, open'),
         NEW is, code' = code \o is, Sound(is), Once(is), Piece(is, open, open'),
         \A x \in Elems(is) : x.op = "label" => \E t \in Pending(Top) : t[1] = x.to[1],
         \A t \in Pending(Top) : \E x \in Elems(is) : LabelAt(x, t[1], t[2], Top.in),
         \A x \in Elems(is) : x.op \in Branches =>
           \A k \in 1 .. Len(x.to) :
             \/ Leads(x.to[k], x.meant[k], x.open)
             \/ \E y \in Elems(is) : LabelAt(y, x.to[k], x.meant[k], x.open),
         Elems(open') \subseteq Elems(open),
         \/ Top.kind # "loop" /\ UNCHANGED loops
         \/ /\ Top.kind = "loop"
            /\ loopStartStack' = SubSeq(loopStartStack, 1, Len(loopStartStack) - 1)
            /\ loopEndStack' = SubSeq(loopEndStack, 1, Len(loopEndStack) - 1)
  PROVE  IInv'
<1> DEFINE n == Len(visits)
<1>1. /\ n \in Nat /\ n >= 2 /\ n - 1 \in 1 .. n /\ visits \in Seq(Visits)
      /\ Top = visits[n] /\ Top \in Visits
      /\ Top.in \in Seq(Names) /\ Top.out \in Seq(Names) /\ open \in Seq(Names)
      /\ visits' \in Seq(Visits) /\ Len(visits') = n - 1
      /\ Len(loopStartStack) = Top.nest /\ Len(loopEndStack) = Len(loopStartStack)
      /\ Top.nest = visits[n - 1].nest + (IF Top.kind = "loop" THEN 1 ELSE 0)
      /\ visits[n - 1].nest \in Nat
  BY OuterVisits
<1>2. \A p \in 1 .. (n - 1) :
        /\ p \in 1 .. n /\ visits[p] \in Visits
        /\ visits[p].in \in Seq(Names) /\ Begins(visits[p].in, Top.out)
        /\ Like(visits'[p], visits[p]) /\ Pending(visits'[p]) = Pending(visits[p])
        /\ visits'[p].in = visits[p].in
        /\ \A s \in Pending(visits[p]) : \A t \in Pending(Top) : s[1] # t[1]
  BY OuterVisits
<1>3. /\ open' \in Seq(Names) /\ labelCount \in Nat /\ labelCount' \in Nat
      /\ labelCount <= labelCount'
      /\ loopStartStack \in Seq(Nat) /\ loopEndStack \in Seq(Nat)
  BY GenTypes DEF Counted
<1>4. Elems(code') = Elems(code) \union Elems(is)
  BY ConcatElems DEF Generated, CodeOK, Sound
<1>5. VisitsOK'
  <2>1. \A p \in 1 .. (n - 1) : Begins(visits[p].in, open')
    BY <1>1, <1>2, <1>3, BeginsTransitive
  <2>2. n - 1 <= n
    BY <1>1
  <2>3. VisitsOK
    BY DEF Generated
  <2>4. QED
    BY <1>1, <1>2, <1>3, <2>1, <2>2, <2>3, VisitsSame
<1>6. visits' # <<>>
  BY <1>1, EmptySeq
<1>7. LoopsOK'
  <2>1. /\ Len(loopStartStack') = visits[n - 1].nest /\ Len(loopEndStack') = Len(loopStartStack')
        /\ \A m \in 1 .. Len(loopStartStack') :
             loopStartStack'[m] = loopStartStack[m] /\ loopEndStack'[m] = loopEndStack[m]
    <3>1. CASE Top.kind # "loop"
      <4>1. loopStartStack' = loopStartStack /\ loopEndStack' = loopEndStack
        BY <3>1 DEF loops
      <4>2. Top.nest = visits[n - 1].nest
        BY <1>1, <3>1
      <4>3. QED
        BY <1>1, <4>1, <4>2
    <3>2. CASE Top.kind = "loop"
      <4>1. Top.nest - 1 = visits[n - 1].nest /\ Top.nest >= 1
        BY <1>1, <3>2
      <4>2. loopStartStack # <<>> /\ loopEndStack # <<>>
        BY <1>1, <4>1
      <4>3. /\ Len(loopStartStack') = Len(loopStartStack) - 1
            /\ \A m \in 1 .. Len(loopStartStack') : loopStartStack'[m] = loopStartStack[m]
        BY <1>3, <3>2, <4>2, TakeBegins
      <4>4. /\ Len(loopEndStack') = Len(loopEndStack) - 1
            /\ \A m \in 1 .. Len(loopEndStack') : loopEndStack'[m] = loopEndStack[m]
        BY <1>3, <3>2, <4>2, TakeBegins
      <4>5. QED
        BY <1>1, <4>1, <4>3, <4>4
    <3>3. QED
      BY <3>1, <3>2
  <2>2. LoopsOK /\ Elems(code) \subseteq Elems(code') /\ Len(visits') <= Len(visits)
    BY <1>1, <1>4 DEF Generated
  <2>3. \A p \in 1 .. Len(visits') : Like(visits'[p], visits[p])
    BY <1>1, <1>2
  <2>4. Len(loopStartStack') = visits[Len(visits')].nest
    BY <1>1, <2>1
  <2>5. QED
    BY <1>1, <1>6, <2>1, <2>2, <2>3, <2>4, LoopsRest
<1>8. \A p \in 1 .. n : \A t \in Pending(visits[p]) : t[1] \in Nat /\ t[1] < labelCount
  <2>1. \A p \in 1 .. n : visits[p] \in Visits
    BY <1>1
  <2>2. QED
    BY <2>1, PendingType DEF Generated, LabelsOK
<1>9. LabelsNew(is)
  <2>1. ASSUME NEW x \in Elems(is), x.op = "label"
        PROVE  /\ x.to[1] < labelCount'
               /\ \E p \in 1 .. Len(visits) : \E t \in Pending(visits[p]) : t[1] = x.to[1]
    <3>1. PICK t \in Pending(Top) : t[1] = x.to[1]
      BY <2>1
    <3>2. n \in 1 .. n /\ t \in Pending(visits[n])
      BY <1>1, <3>1
    <3>3. t[1] \in Nat /\ t[1] < labelCount
      BY <1>8, <3>2
    <3>4. t[1] < labelCount'
      BY <1>3, <3>3
    <3>5. QED
      BY <3>1, <3>2, <3>4
  <2>2. ASSUME NEW p \in 1 .. Len(visits'), NEW t \in Pending(visits'[p])
        PROVE  /\ t[1] < labelCount'
               /\ \E q \in 1 .. Len(visits) : t \in Pending(visits[q])
               /\ \A x \in Elems(is) : x.op = "label" => x.to # <<t[1]>>
    <3>1. p \in 1 .. (n - 1) /\ p \in 1 .. n /\ t \in Pending(visits[p])
      BY <1>1, <1>2, <2>2
    <3>2. t[1] \in Nat /\ t[1] < labelCount
      BY <1>8, <3>1
    <3>3. t[1] < labelCount'
      BY <1>3, <3>2
    <3>4. ASSUME NEW x \in Elems(is), x.op = "label" PROVE x.to # <<t[1]>>
      <4>1. PICK s \in Pending(Top) : s[1] = x.to[1]
        BY <3>4
      <4>2. t[1] # s[1]
        BY <1>2, <3>1, <4>1
      <4>3. QED
        BY <4>1, <4>2
    <3>5. QED
      BY <3>1, <3>3, <3>4
  <2>3. QED
    BY <2>1, <2>2 DEF LabelsNew
<1>10. ASSUME NEW p \in 1 .. Len(visits), NEW t \in Pending(visits[p]) PROVE Kept(is, p, t)
  <2>1. CASE p = n
    <3>1. t \in Pending(Top) /\ visits[p] = Top
      BY <1>1, <1>10, <2>1
    <3>2. \E x \in Elems(is) : LabelAt(x, t[1], t[2], visits[p].in)
      BY <3>1
    <3>3. QED
      BY <3>2 DEF Kept
  <2>2. CASE p \in 1 .. (n - 1)
    <3>1. p \in 1 .. Len(visits') /\ t \in Pending(visits'[p]) /\ Begins(visits'[p].in, visits[p].in)
      BY <1>1, <1>2, <1>10, <2>2, BeginsReflexive
    <3>2. QED
      BY <3>1 DEF Kept
  <2>3. QED
    BY <1>1, <1>10, <2>1, <2>2
<1>11. Written(is)
  <2>1. \A x \in Elems(is) : x.op \in Branches =>
          \A k \in 1 .. Len(x.to) :
            \/ Leads(x.to[k], x.meant[k], x.open)
            \/ LeadsNow(is, x.to[k], x.meant[k], x.open)
    BY DEF LeadsNow
  <2>2. QED
    BY <1>9, <1>10, <2>1 DEF Written
<1>12. QED
  BY <1>1, <1>5, <1>7, <1>11, GenStep

\* a branch and a label
LEMMA BranchLabel ==
  ASSUME NEW x \in Instrs, InstrOK(x), x.op \in Branches,
         NEW y \in Instrs, InstrOK(y), y.op = "label", y.open \in Seq(Names)
  PROVE  /\ Sound(<<x, y>>) /\ Once(<<x, y>>) /\ Piece(<<x, y>>, x.open, y.open)
         /\ Elems(<<x, y>>) = {x, y}
<1>1. <<x, y>> \in Seq(Instrs) /\ Elems(<<x, y>>) = {x, y}
  BY Tuple2
<1>2. Sound(<<x, y>>)
  BY <1>1 DEF Sound
<1>3. Once(<<x, y>>)
  <2>1. 1 .. 2 = {1, 2}
    OBVIOUS
  <2>2. x.op # "label"
    BY DEF Branches
  <2>3. QED
    BY <2>1, <2>2 DEF Once
<1>4. Piece(<<x, y>>, x.open, y.open)
  <2>1. Flow(x, y.open)
    BY FlowBranch
  <2>2. Flow(y, y.open)
    BY FlowLabel, BeginsReflexive
  <2>3. QED
    BY <2>1, <2>2, Piece2
<1>5. QED
  BY <1>1, <1>2, <1>3, <1>4

LEMMA BeginsElems ==
  ASSUME NEW s \in Seq(Names), NEW t \in Seq(Names), Begins(s, t)
  PROVE  Elems(s) \subseteq Elems(t)
<1>1. \A i \in 1 .. Len(s) : i \in 1 .. Len(t) /\ t[i] = s[i]
  BY DEF Begins
<1>2. QED
  BY <1>1 DEF Elems

LEMMA VisitType ==
  ASSUME TypeOK, Generated, visits # <<>>, NEW kind \in Kinds, NEW block \in Regs,
         NEW in \in Seq(Names), NEW v, v = Visit(kind, block, in)
  PROVE  /\ v \in Visits /\ v.kind = kind /\ v.begin = Len(code) + 1 /\ v.begin \in Nat
         /\ v.label = labelCount /\ v.block = block /\ v.out = open /\ v.in = in
         /\ kind = "loop" => v.nest = Top.nest + 1
         /\ kind # "loop" => v.nest = Top.nest
<1>1. /\ v.kind = kind /\ v.begin = Len(code) + 1 /\ v.stage = "body" /\ v.dom = dom
      /\ v.label = labelCount /\ v.block = block /\ v.out = open /\ v.in = in
      /\ v.nest = Top.nest + (IF kind = "loop" THEN 1 ELSE 0)
  BY DEF Visit
<1>2. Len(code) + 1 \in Nat
  BY LenProperties DEF Generated, CodeOK
<1>3. Top.nest \in Nat
  <2>1. Top \in Visits
    BY TopVisit
  <2>2. QED
    BY <2>1 DEF Visits
<1>4. /\ v.nest \in Nat
      /\ kind = "loop" => v.nest = Top.nest + 1
      /\ kind # "loop" => v.nest = Top.nest
  BY <1>1, <1>3
<1>5. open \in Seq(Names) /\ labelCount \in Nat /\ dom \in SUBSET Vars
  BY GenTypes
<1>6. v \in Visits
  BY <1>1, <1>2, <1>4, <1>5 DEF Visit, Visits
<1>7. QED
  BY <1>1, <1>2, <1>4, <1>6

LEMMA StepEnterStmts ==
  ASSUME IInv, EnterStmts
  PROVE  IInv'
<1> DEFINE block == Block(labelCountBlock)
           x == Do("save", block, open)
           v == Visit("stmts", block, Append(open, block))
<1>1. TypeOK /\ Generated
  BY DEF IInv
<1>2. /\ phase = "gen" /\ visits # <<>> /\ Top.stage = "body"
      /\ code' = code \o <<x>> /\ visits' = Append(visits, v) /\ open' = Append(open, block)
      /\ labelCountBlock' = labelCountBlock + 1
      /\ UNCHANGED <<phase, retty, labelCount, varCount, loops, dom, run>>
  BY DEF EnterStmts, Enter, Write, Nested, InStmt
<1>3. /\ open \in Seq(Names) /\ labelCountBlock \in Nat /\ labelCountBlock + 1 \in Nat
      /\ block \notin Elems(open)
  BY <1>1, GenTypes
<1>4. block \in Names /\ block \in Regs /\ block[1] = "block" /\ block[2] = labelCountBlock
  BY <1>3, NameTypes
<1> HIDE DEF block
<1>5. /\ open' \in Seq(Names) /\ Begins(open, open') /\ Elems(open') = Elems(open) \union {block}
      /\ Len(open) < Len(open') /\ open'[Len(open) + 1] = block
  <2>1. /\ open' \in Seq(Names) /\ Begins(open, open')
        /\ Elems(open') = Elems(open) \union {block}
    BY <1>2, <1>3, <1>4, AppendElems, BeginsAppend, BeginsReflexive
  <2>2. Len(open) < Len(open') /\ open'[Len(open) + 1] = block
    BY <1>2, <1>3, <1>4
  <2>3. QED
    BY <2>1, <2>2
<1>6. /\ v \in Visits /\ v.kind = "stmts" /\ v.block = block /\ v.out = open /\ v.in = open'
      /\ v.nest = Top.nest
  <2>1. Append(open, block) \in Seq(Names) /\ "stmts" \in Kinds
    BY <1>2, <1>5 DEF Kinds
  <2>2. v = Visit("stmts", block, Append(open, block))
    OBVIOUS
  <2> HIDE DEF v
  <2>3. /\ v \in Visits /\ v.kind = "stmts" /\ v.block = block /\ v.out = open
        /\ v.in = Append(open, block) /\ v.nest = Top.nest
    <3>1. visits # <<>> /\ block \in Regs /\ "stmts" # "loop"
      BY <1>2, <1>4
    <3> DEFINE in == Append(open, block)
    <3>2. in \in Seq(Names) /\ v = Visit("stmts", block, in)
      BY <2>1, <2>2
    <3> HIDE DEF in
    <3>3. /\ v \in Visits /\ v.kind = "stmts" /\ v.block = block /\ v.out = open
          /\ v.in = in /\ v.nest = Top.nest
      BY <1>1, <2>1, <3>1, <3>2, VisitType
    <3>4. QED
      BY <3>3 DEF in
  <2>4. QED
    BY <1>2, <2>3
<1>7. Pending(v) = {}
  BY <1>6 DEF Pending
<1>8. Plain(<<x>>)
  BY <1>3, <1>4, PlainDo DEF Ops, Branches
<1>9. Piece(<<x>>, open, open')
  <2>1. Flow(x, open')
    BY <1>2, <1>3, <1>4, FlowAlloc
  <2>2. x.open = open
    BY DEF Do, Instr
  <2>3. QED
    BY <2>1, <2>2, Piece1
<1>10. Sound(<<x>>) /\ Once(<<x>>) /\ \A y \in Elems(<<x>>) : y.op # "label" /\ y.op \notin Branches
  BY <1>8, PlainLabs DEF Plain
<1>11. Counted
  <2>1. loopStartStack' = loopStartStack /\ loopEndStack' = loopEndStack
    BY <1>2 DEF loops
  <2>2. labelCount \in Nat /\ varCount \in Nat
        /\ loopStartStack \in Seq(Nat) /\ loopEndStack \in Seq(Nat) /\ dom \subseteq Vars
    BY <1>1, GenTypes
  <2>3. labelCountBlock <= labelCountBlock'
    BY <1>2, <1>3
  <2>4. QED
    BY <1>2, <1>3, <1>5, <2>1, <2>2, <2>3 DEF Counted
<1>12. \A r \in Elems(open') :
         r \in Elems(open) \/ (r[1] = "block" /\ r[2] \in Nat /\ r[2] < labelCountBlock')
  <2>1. labelCountBlock < labelCountBlock'
    BY <1>2, <1>3
  <2>2. QED
    BY <1>3, <1>4, <1>5, <2>1
<1>13. UNCHANGED loops
  BY <1>2
<1> HIDE DEF x, v
<1>14. QED
  BY <1>1, <1>2, <1>5, <1>6, <1>7, <1>9, <1>10, <1>11, <1>12, <1>13, EnterStep

LEMMA StepLeaveStmts ==
  ASSUME IInv, LeaveStmts
  PROVE  IInv'
<1> DEFINE x == Do("restore", Top.block, open)
           n == Len(visits)
<1>1. TypeOK /\ Generated
  BY DEF IInv
<1>2. /\ phase = "gen" /\ visits # <<>> /\ Top.kind = "stmts"
      /\ code' = code \o <<x>> /\ visits' = Returned(Outer) /\ open' = Top.out
      /\ UNCHANGED <<phase, retty, counters, loops, dom, run>>
  BY DEF LeaveStmts, Write
<1>3. /\ Top.in \in Seq(Names) /\ Top.out \in Seq(Names) /\ open \in Seq(Names)
      /\ Begins(Top.out, Top.in) /\ Begins(Top.in, open) /\ Begins(Top.out, open)
      /\ Top = visits[n] /\ n \in 1 .. n
  <2>1. Top.kind # "func"
    BY <1>2
  <2>2. QED
    BY <1>1, <1>2, <2>1, OuterVisits, TopVisit
<1>4. /\ Len(Top.out) < Len(Top.in) /\ Top.in[Len(Top.out) + 1] = Top.block
  <2>1. VisitOK(n)
    BY <1>1, <1>3 DEF Generated, VisitsOK
  <2>2. QED
    BY <1>2, <1>3, <2>1 DEF VisitOK
<1>5. Len(Top.out) + 1 \in 1 .. Len(open) /\ open[Len(Top.out) + 1] = Top.block
  BY <1>3, <1>4 DEF Begins
<1>6. Top.block \in Names /\ Top.block \in Regs
  BY <1>3, <1>5, NameTypes
<1>7. Plain(<<x>>)
  BY <1>3, <1>6, PlainDo DEF Ops, Branches
<1>8. Piece(<<x>>, open, open')
  <2>1. Len(Top.out) <= Len(Top.out) + 1
    BY <1>3
  <2>2. Flow(x, open')
    BY <1>2, <1>3, <1>5, <1>6, <2>1, FlowRestore
  <2>3. x.open = open
    BY DEF Do, Instr
  <2>4. QED
    BY <2>2, <2>3, Piece1
<1>9. Sound(<<x>>) /\ Once(<<x>>) /\ \A y \in Elems(<<x>>) : y.op # "label" /\ y.op \notin Branches
  BY <1>7, PlainLabs DEF Plain
<1>10. Pending(Top) = {}
  BY <1>2 DEF Pending
<1>11. Counted
  <2>1. /\ labelCount' = labelCount /\ labelCountBlock' = labelCountBlock /\ varCount' = varCount
        /\ loopStartStack' = loopStartStack /\ loopEndStack' = loopEndStack
    BY <1>2 DEF counters, loops
  <2>2. /\ labelCount \in Nat /\ labelCountBlock \in Nat /\ varCount \in Nat
        /\ loopStartStack \in Seq(Nat) /\ loopEndStack \in Seq(Nat) /\ dom \subseteq Vars
    BY <1>1, GenTypes
  <2>3. labelCount <= labelCount' /\ labelCountBlock <= labelCountBlock' /\ varCount <= varCount'
    BY <2>1, <2>2
  <2>4. QED
    BY <1>2, <1>3, <2>1, <2>2, <2>3 DEF Counted
<1>12. Begins(Top.out, open') /\ Elems(open') \subseteq Elems(open)
  BY <1>2, <1>3, BeginsReflexive, BeginsElems
<1>13. UNCHANGED loops /\ Top.kind # "func" /\ Top.kind # "loop"
  BY <1>2
<1> HIDE DEF x
<1>14. QED
  BY <1>1, <1>2, <1>8, <1>9, <1>10, <1>11, <1>12, <1>13, LeaveStep

LEMMA StepEnterLoop ==
  ASSUME IInv, EnterLoop
  PROVE  IInv'
<1> DEFINE block == Block(labelCountBlock)
           tmp == Tmp(varCount)
           ob == Append(open, block)
           in == open \o <<block, tmp>>
           v == Visit("loop", block, in)
           test == Eval("const", varCount, ob)
           is == LoopHead(v, test)
           l == labelCount
<1>1. TypeOK /\ Generated
  BY DEF IInv
<1>2. /\ phase = "gen" /\ visits # <<>> /\ Top.stage = "body"
      /\ code' = code \o is /\ visits' = Append(visits, v) /\ open' = v.in
      /\ labelCount' = labelCount + 3 /\ labelCountBlock' = labelCountBlock + 1
      /\ varCount' = varCount + 1
      /\ loopStartStack' = Append(loopStartStack, labelCount)
      /\ loopEndStack' = Append(loopEndStack, labelCount + 2)
      /\ UNCHANGED <<phase, retty, dom, run>>
  BY DEF EnterLoop, Enter, Write, Nested, InStmt
<1>3. /\ open \in Seq(Names) /\ labelCountBlock \in Nat /\ labelCountBlock + 1 \in Nat
      /\ varCount \in Nat /\ varCount + 1 \in Nat
      /\ labelCount \in Nat /\ labelCount + 2 \in Nat /\ labelCount + 3 \in Nat
      /\ loopStartStack \in Seq(Nat) /\ loopEndStack \in Seq(Nat) /\ dom \subseteq Vars
      /\ block \notin Elems(open) /\ tmp \notin Elems(open) /\ Tmp(varCount + 1) \notin Elems(open)
      /\ Begins(open, open)
  BY <1>1, GenTypes
<1>4. /\ block \in Names /\ block \in Regs /\ block[1] = "block" /\ block[2] = labelCountBlock
      /\ tmp \in Names /\ tmp[1] = "tmp" /\ tmp[2] = varCount
      /\ Tmp(varCount + 1)[1] = "tmp"
  BY <1>3, NameTypes
<1>5. /\ ob \in Seq(Names) /\ Begins(open, ob) /\ Elems(ob) = Elems(open) \union {block}
      /\ Len(ob) = Len(open) + 1 /\ ob[Len(open) + 1] = block
  <2>1. /\ ob \in Seq(Names) /\ Begins(open, ob) /\ Elems(ob) = Elems(open) \union {block}
    BY <1>3, <1>4, AppendElems, BeginsAppend
  <2>2. Len(ob) = Len(open) + 1 /\ ob[Len(open) + 1] = block
    BY <1>3, <1>4, AppendIndex
  <2>3. QED
    BY <2>1, <2>2
<1>6. in = Append(ob, tmp) /\ in = ob \o <<tmp>>
  <2>1. in = Append(ob, tmp)
    BY <1>3, <1>4
  <2>2. ob \o <<tmp>> = Append(ob, tmp)
    BY <1>4, <1>5, ConcatOne
  <2>3. QED
    BY <2>1, <2>2
<1>7. tmp \notin Elems(ob) /\ Tmp(varCount + 1) \notin Elems(ob)
  BY <1>3, <1>4, <1>5
<1>8. Plain(test) /\ Piece(test, ob, in)
  <2>1. Plain(test) /\ Piece(test, ob, ob \o Opened("const", varCount))
    BY <1>3, <1>5, <1>7, EvalPiece
  <2>2. Opened("const", varCount) = <<tmp>>
    BY DEF Opened, Result
  <2>3. QED
    BY <1>6, <2>1, <2>2
<1> HIDE DEF block, tmp, in, test
<1>9. /\ in \in Seq(Names) /\ Begins(open, in) /\ Elems(in) = Elems(open) \union {block, tmp}
      /\ Len(open) < Len(in) /\ in[Len(open) + 1] = block
  <2>1. /\ in \in Seq(Names) /\ Elems(in) = Elems(ob) \union {tmp} /\ Begins(open, in)
    <3> HIDE DEF ob
    <3>1. in = Append(ob, tmp) /\ ob \in Seq(Names) /\ tmp \in Names
      BY <1>4, <1>5, <1>6
    <3>2. in \in Seq(Names) /\ Elems(in) = Elems(ob) \union {tmp}
      BY <3>1, AppendElems
    <3>3. Begins(open, ob) /\ open \in Seq(Names)
      BY <1>3, <1>5
    <3>4. Begins(open, in)
      BY <3>1, <3>3, BeginsAppend
    <3>5. QED
      BY <3>2, <3>4
  <2>2. Len(in) = Len(ob) + 1 /\ \A m \in 1 .. Len(ob) : in[m] = ob[m]
    BY <1>4, <1>5, <1>6, AppendIndex
  <2>3. Len(open) \in Nat
    BY <1>3
  <2>4. Len(open) < Len(in) /\ in[Len(open) + 1] = block
    BY <1>5, <2>2, <2>3
  <2>5. QED
    BY <1>5, <2>1, <2>4
<1>10. v = Visit("loop", block, in)
  OBVIOUS
<1> HIDE DEF v
<1>11. /\ v \in Visits /\ v.kind = "loop" /\ v.begin \in Nat /\ v.label = l
       /\ v.block = block /\ v.out = open /\ v.in = in /\ v.nest = Top.nest + 1
  <2>1. visits # <<>> /\ "loop" \in Kinds
    BY <1>2 DEF Kinds
  <2>2. QED
    BY <1>1, <1>4, <1>9, <1>10, <2>1, VisitType
<1>12. Pending(v) = {<<l + 2, Place("end", v.begin)>>}
  BY <1>11 DEF Pending
<1>13. HeadType(v) /\ HeadOK(v)
  BY <1>3, <1>4, <1>9, <1>11 DEF HeadType, HeadOK
<1>14. /\ Sound(is) /\ Once(is) /\ Piece(is, open, open')
       /\ Elems(is) = Elems(test) \union
            {StartBranch(v), StartLabel(v), Do("save", block, open), LoopTest(v), BeginLabel(v)}
       /\ Labs(is) = {<<l>>, <<l + 1>>}
  <2>1. Piece(test, Append(v.out, v.block), v.in)
    BY <1>8, <1>11
  <2>2. QED
    BY <1>2, <1>8, <1>11, <1>13, <2>1, LoopHeadPiece
<1> HIDE DEF is
<1>15. ASSUME NEW x \in Elems(is), x.op = "label"
       PROVE  x.to[1] >= l /\ x.to[1] < labelCount' /\ x.to # <<l + 2>>
  <2>1. x.to \in {<<l>>, <<l + 1>>}
    BY <1>14, <1>15 DEF Labs
  <2>2. x.to[1] \in {l, l + 1}
    BY <2>1
  <2>3. x.to[1] >= l /\ x.to[1] < labelCount' /\ x.to[1] # l + 2
    <3>1. labelCount \in Nat /\ labelCount' = labelCount + 3
      BY <1>2, <1>3
    <3>2. QED
      BY <2>2, <3>1
  <2>4. QED
    BY <2>3
<1>16. \A t \in Pending(v) :
         /\ t[1] >= labelCount /\ t[1] < labelCount'
         /\ \A x \in Elems(is) : x.op = "label" => x.to # <<t[1]>>
  <2>1. l + 2 >= labelCount /\ l + 2 < labelCount'
    BY <1>2, <1>3
  <2>2. QED
    BY <1>12, <1>15, <2>1
<1>17. ASSUME NEW x \in Elems(is), x.op \in Branches, NEW k \in 1 .. Len(x.to)
       PROVE  \/ \E y \in Elems(is) : LabelAt(y, x.to[k], x.meant[k], x.open)
              \/ <<x.to[k], x.meant[k]>> \in Pending(v) /\ Begins(v.in, x.open)
  <2>1. x = StartBranch(v) \/ x = LoopTest(v)
    <3>1. x \notin Elems(test)
      BY <1>8, <1>17 DEF Plain
    <3>2. /\ StartLabel(v).op \notin Branches /\ BeginLabel(v).op \notin Branches
          /\ Do("save", block, open).op \notin Branches
      <4>1. Do("save", block, open).op = "save"
        BY DEF Do, Instr
      <4>2. QED
        BY <1>13, <4>1, LoopBranches DEF Branches
    <3>3. QED
      BY <1>14, <1>17, <3>1, <3>2
  <2>2. StartLabel(v) \in Elems(is) /\ BeginLabel(v) \in Elems(is)
    BY <1>14
  <2>3. Begins(v.out, v.out) /\ Begins(v.in, v.in)
    BY <1>3, <1>9, <1>11, BeginsReflexive
  <2>4. CASE x = StartBranch(v)
    <3>1. /\ x.to = <<v.label>> /\ x.meant = <<Place("start", v.begin)>> /\ x.open = v.out
          /\ StartLabel(v).op = "label" /\ StartLabel(v).to = <<v.label>>
          /\ StartLabel(v).meant = <<Place("start", v.begin)>> /\ StartLabel(v).open = v.out
      BY <1>13, <2>4, LoopBranches
    <3>2. k = 1
      BY <3>1
    <3>3. LabelAt(StartLabel(v), x.to[k], x.meant[k], x.open)
      BY <2>3, <3>1, <3>2 DEF LabelAt
    <3>4. QED
      BY <2>2, <3>3
  <2>5. CASE x = LoopTest(v)
    <3>1. /\ x.to = <<v.label + 1, v.label + 2>> /\ x.open = v.in
          /\ x.meant = <<Place("begin", v.begin), Place("end", v.begin)>>
          /\ BeginLabel(v).op = "label" /\ BeginLabel(v).to = <<v.label + 1>>
          /\ BeginLabel(v).meant = <<Place("begin", v.begin)>> /\ BeginLabel(v).open = v.in
      BY <1>13, <2>5, LoopBranches
    <3>2. k = 1 \/ k = 2
      BY <3>1
    <3>3. CASE k = 1
      <4>1. LabelAt(BeginLabel(v), x.to[k], x.meant[k], x.open)
        BY <2>3, <3>1, <3>3 DEF LabelAt
      <4>2. QED
        BY <2>2, <4>1
    <3>4. CASE k = 2
      <4>1. x.to[k] = l + 2 /\ x.meant[k] = Place("end", v.begin)
        BY <1>11, <3>1, <3>4
      <4>2. QED
        BY <1>12, <2>3, <3>1, <4>1
    <3>5. QED
      BY <3>2, <3>3, <3>4
  <2>6. QED
    BY <2>1, <2>4, <2>5
<1>18. \E x \in Elems(is) : LabelAt(x, v.label, Place("start", v.begin), v.out)
  <2>1. StartLabel(v) \in Elems(is) /\ Begins(v.out, v.out)
    BY <1>3, <1>11, <1>14
  <2>2. LabelAt(StartLabel(v), v.label, Place("start", v.begin), v.out)
    BY <1>13, <2>1, LoopBranches DEF LabelAt
  <2>3. QED
    BY <2>1, <2>2
<1>19. Counted
  <2>1. loopStartStack' \in Seq(Nat) /\ loopEndStack' \in Seq(Nat)
    BY <1>2, <1>3, AppendElems
  <2>2. /\ labelCountBlock <= labelCountBlock' /\ labelCount <= labelCount'
        /\ varCount <= varCount'
    BY <1>2, <1>3
  <2>3. QED
    BY <1>2, <1>3, <1>9, <1>11, <2>1, <2>2 DEF Counted
<1>20. \A r \in Elems(open') :
         \/ r \in Elems(open)
         \/ r[1] = "tmp" /\ r[2] \in Nat /\ r[2] < varCount'
         \/ r[1] = "block" /\ r[2] \in Nat /\ r[2] < labelCountBlock'
  <2>1. labelCountBlock < labelCountBlock' /\ varCount < varCount'
    BY <1>2, <1>3
  <2>2. Elems(open') = Elems(open) \union {block, tmp}
    BY <1>2, <1>9, <1>11
  <2>3. QED
    BY <1>3, <1>4, <2>1, <2>2
<1>21. /\ loopStartStack' = Append(loopStartStack, v.label)
       /\ loopEndStack' = Append(loopEndStack, v.label + 2)
  BY <1>2, <1>11
<1>22. /\ v.in = open' /\ Begins(open, open') /\ v.kind # "func"
       /\ Len(v.out) < Len(v.in) /\ v.in[Len(v.out) + 1] = v.block
  BY <1>2, <1>9, <1>11
<1>23. QED
  BY <1>1, <1>2, <1>11, <1>14, <1>15, <1>16, <1>17, <1>18, <1>19, <1>20, <1>21, <1>22, EnterStep

LEMMA StepLeaveLoop ==
  ASSUME IInv, LeaveLoop
  PROVE  IInv'
<1> DEFINE v == Top
           n == Len(visits)
           is == LoopTail(v, open)
<1>1. TypeOK /\ Generated
  BY DEF IInv
<1>2. /\ phase = "gen" /\ visits # <<>> /\ v.kind = "loop"
      /\ code' = code \o is /\ visits' = Returned(Outer) /\ open' = v.out /\ dom' = v.dom
      /\ loopStartStack' = SubSeq(loopStartStack, 1, Len(loopStartStack) - 1)
      /\ loopEndStack' = SubSeq(loopEndStack, 1, Len(loopEndStack) - 1)
      /\ UNCHANGED <<phase, retty, counters, run>>
  BY DEF LeaveLoop, Write
<1>3. /\ v \in Visits /\ v.in \in Seq(Names) /\ v.out \in Seq(Names) /\ open \in Seq(Names)
      /\ Begins(v.out, v.in) /\ Begins(v.in, open) /\ Begins(v.out, open)
      /\ v = visits[n] /\ n \in 1 .. n
      /\ Len(loopStartStack) = v.nest /\ Len(loopEndStack) = Len(loopStartStack)
  <2>1. Top.kind # "func"
    BY <1>2
  <2>2. QED
    BY <1>1, <1>2, <2>1, OuterVisits, TopVisit
<1>4. /\ Len(v.out) < Len(v.in) /\ v.in[Len(v.out) + 1] = v.block /\ LoopOK(v)
  <2>1. VisitOK(n) /\ LoopOK(v)
    BY <1>1, <1>2, <1>3 DEF Generated, VisitsOK, LoopsOK
  <2>2. QED
    BY <1>2, <1>3, <2>1 DEF VisitOK
<1> HIDE DEF v
<1>5. v.block \in Names
  <2>1. Len(v.out) + 1 \in 1 .. Len(v.in)
    BY <1>3, <1>4
  <2>2. QED
    BY <1>3, <1>4, <2>1
<1>6. HeadType(v)
  BY <1>3, <1>5 DEF HeadType, Visits
<1>7. /\ Sound(is) /\ Once(is) /\ Piece(is, open, v.out)
      /\ Elems(is) = {Do("restore", v.block, open), StartBranch(v), EndLabel(v),
                      Do("restore", v.block, v.in)}
      /\ Labs(is) = {<<v.label + 2>>}
  BY <1>3, <1>4, <1>6, LoopTailPiece
<1>8. Pending(v) = {<<v.label + 2, Place("end", v.begin)>>}
  BY <1>2 DEF Pending
<1>9. /\ StartBranch(v).to = <<v.label>> /\ StartBranch(v).meant = <<Place("start", v.begin)>>
      /\ StartBranch(v).open = v.out
      /\ EndLabel(v).op = "label" /\ EndLabel(v).to = <<v.label + 2>>
      /\ EndLabel(v).meant = <<Place("end", v.begin)>> /\ EndLabel(v).open = v.in
  BY <1>6, LoopBranches
<1> HIDE DEF is
<1>10. \A x \in Elems(is) : x.op = "label" => \E t \in Pending(v) : t[1] = x.to[1]
  <2>1. \A x \in Elems(is) : x.op = "label" => x.to = <<v.label + 2>>
    BY <1>7 DEF Labs
  <2>2. QED
    BY <1>8, <2>1
<1>11. \A t \in Pending(v) : \E x \in Elems(is) : LabelAt(x, t[1], t[2], v.in)
  <2>1. EndLabel(v) \in Elems(is) /\ Begins(v.in, v.in)
    BY <1>3, <1>7, BeginsReflexive
  <2>2. LabelAt(EndLabel(v), v.label + 2, Place("end", v.begin), v.in)
    BY <1>9, <2>1 DEF LabelAt
  <2>3. QED
    BY <1>8, <2>1, <2>2
<1>12. ASSUME NEW x \in Elems(is), x.op \in Branches, NEW k \in 1 .. Len(x.to)
       PROVE  Leads(x.to[k], x.meant[k], x.open)
  <2>1. x = StartBranch(v)
    <3>1. Do("restore", v.block, open).op = "restore" /\ Do("restore", v.block, v.in).op = "restore"
      BY DEF Do, Instr
    <3>2. x \in {Do("restore", v.block, open), StartBranch(v), EndLabel(v),
                  Do("restore", v.block, v.in)}
      BY <1>7, <1>12
    <3>3. x.op # "restore" /\ x.op # "label"
      BY <1>12 DEF Branches
    <3>4. QED
      BY <1>9, <3>1, <3>2, <3>3
  <2>2. k = 1 /\ x.to[k] = v.label /\ x.meant[k] = Place("start", v.begin) /\ x.open = v.out
    <3>1. /\ x.to = <<v.label>> /\ x.meant = <<Place("start", v.begin)>> /\ x.open = v.out
          /\ k \in 1 .. Len(x.to)
      BY <1>9, <1>12, <2>1
    <3>2. k = 1
      BY <3>1
    <3>3. QED
      BY <3>1, <3>2
  <2>3. \E y \in Elems(code) : LabelAt(y, v.label, Place("start", v.begin), v.out)
    BY <1>4 DEF LoopOK
  <2>4. QED
    BY <2>2, <2>3 DEF Leads
<1>13. loopStartStack \in Seq(Nat) /\ loopEndStack \in Seq(Nat)
  BY <1>1, GenTypes
<1>14. loopStartStack' \in Seq(Nat) /\ loopEndStack' \in Seq(Nat)
  <2>1. Len(loopStartStack) >= 1 /\ Len(loopEndStack) >= 1
    BY <1>3, <1>4 DEF LoopOK
  <2>2. loopStartStack # <<>> /\ loopEndStack # <<>>
    BY <2>1
  <2>3. QED
    BY <1>2, <1>13, <2>2, TakeBegins
<1>15. Counted
  <2>1. /\ labelCount' = labelCount /\ labelCountBlock' = labelCountBlock /\ varCount' = varCount
    BY <1>2 DEF counters
  <2>2. labelCount \in Nat /\ labelCountBlock \in Nat /\ varCount \in Nat
    BY <1>1, GenTypes
  <2>3. labelCount <= labelCount' /\ labelCountBlock <= labelCountBlock' /\ varCount <= varCount'
    BY <2>1, <2>2
  <2>4. dom' \subseteq Vars
    BY <1>2, <1>3 DEF Visits
  <2>5. QED
    BY <1>2, <1>3, <1>14, <2>1, <2>2, <2>3, <2>4 DEF Counted
<1>16. Begins(v.out, open') /\ Elems(open') \subseteq Elems(open)
  BY <1>2, <1>3, BeginsReflexive, BeginsElems
<1>17. v = Top /\ v.kind # "func"
  BY <1>2 DEF v
<1>18. Piece(is, open, open')
  BY <1>2, <1>7
<1>19. QED
  BY <1>1, <1>2, <1>7, <1>10, <1>11, <1>12, <1>15, <1>16, <1>17, <1>18, LeaveStep

LEMMA TestType ==
  ASSUME NEW l \in Nat, NEW m \in Nat, NEW pl \in Places, NEW pm \in Places,
         NEW o \in Seq(Names), NEW x, x = Branch("cbr", <<l, m>>, <<pl, pm>>, o)
  PROVE  /\ x \in Instrs /\ InstrOK(x)
         /\ x.op = "cbr" /\ x.to = <<l, m>> /\ x.meant = <<pl, pm>> /\ x.open = o
<1>1. /\ <<l, m>> \in Seq(Nat) /\ Len(<<l, m>>) = 2
      /\ <<pl, pm>> \in Seq(Places) /\ Len(<<pl, pm>>) = 2
  BY Tuple2
<1>2. "cbr" \in Ops /\ None \in Regs
  BY NameTypes DEF Ops
<1>3. x.op = "cbr" /\ x.to = <<l, m>> /\ x.meant = <<pl, pm>> /\ x.open = o
  BY DEF Branch, Instr
<1>4. x \in Instrs
  BY <1>1, <1>2 DEF Branch, Instr, Instrs
<1>5. InstrOK(x)
  BY <1>1, <1>3 DEF InstrOK
<1>6. QED
  BY <1>3, <1>4, <1>5

LEMMA StepEnterCond ==
  ASSUME IInv, NEW else \in BOOLEAN, EnterCond(else)
  PROVE  IInv'
<1> DEFINE tmp == Tmp(varCount)
           in == Append(open, tmp)
           kind == IF else THEN "ifelse" ELSE "if"
           v == Visit(kind, None, in)
           test == Eval("const", varCount, open)
           pi == Place("if", v.begin)
           pe == Place(IF else THEN "else" ELSE "end", v.begin)
           x == Branch("cbr", <<v.label, v.label + 1>>, <<pi, pe>>, v.in)
           y == Branch("label", <<v.label>>, <<pi>>, v.in)
           is == test \o <<x, y>>
<1>1. TypeOK /\ Generated
  BY DEF IInv
<1>2. /\ phase = "gen" /\ visits # <<>> /\ Top.stage = "body"
      /\ code' = code \o is /\ visits' = Append(visits, v) /\ open' = v.in
      /\ labelCount' = labelCount + (IF else THEN 3 ELSE 2) /\ varCount' = varCount + 1
      /\ UNCHANGED <<phase, retty, labelCountBlock, loops, dom, run>>
  BY DEF EnterCond, Enter, Write, Nested, InStmt, CondHead
<1>3. /\ open \in Seq(Names) /\ labelCountBlock \in Nat
      /\ varCount \in Nat /\ varCount + 1 \in Nat
      /\ labelCount \in Nat /\ labelCount + 1 \in Nat
      /\ labelCount + 2 \in Nat /\ labelCount + 3 \in Nat
      /\ loopStartStack \in Seq(Nat) /\ loopEndStack \in Seq(Nat) /\ dom \subseteq Vars
      /\ tmp \notin Elems(open) /\ Tmp(varCount + 1) \notin Elems(open)
      /\ Begins(open, open)
  BY <1>1, GenTypes
<1>4. tmp \in Names /\ tmp[1] = "tmp" /\ tmp[2] = varCount /\ None \in Regs
  BY <1>3, NameTypes
<1>5. in \in Seq(Names) /\ Begins(open, in) /\ Elems(in) = Elems(open) \union {tmp}
  BY <1>3, <1>4, AppendElems, BeginsAppend
<1>6. Plain(test) /\ Piece(test, open, in)
  <2>1. Plain(test) /\ Piece(test, open, open \o Opened("const", varCount))
    BY <1>3, EvalPiece
  <2>2. Opened("const", varCount) = <<tmp>>
    BY DEF Opened, Result
  <2>3. open \o <<tmp>> = in
    BY <1>3, <1>4, ConcatOne
  <2>4. QED
    BY <2>1, <2>2, <2>3
<1> HIDE DEF tmp, in, test
<1>7. kind \in {"if", "ifelse"} /\ kind \in Kinds /\ kind # "loop" /\ kind # "func" /\ kind # "stmts"
  BY DEF Kinds
<1>8. v = Visit(kind, None, in)
  OBVIOUS
<1> HIDE DEF v
<1>9. /\ v \in Visits /\ v.kind = kind /\ v.begin \in Nat /\ v.label = labelCount
      /\ v.out = open /\ v.in = in /\ v.nest = Top.nest
  <2> HIDE DEF kind
  <2>1. visits # <<>>
    BY <1>2
  <2>2. QED
    BY <1>1, <1>4, <1>5, <1>7, <1>8, <2>1, VisitType
<1>10. pi \in Places /\ pe \in Places
  BY <1>9, PlaceType
<1>11. /\ x \in Instrs /\ InstrOK(x) /\ x.op = "cbr" /\ x.open = in
       /\ x.to = <<labelCount, labelCount + 1>> /\ x.meant = <<pi, pe>>
  <2>1. x = Branch("cbr", <<labelCount, labelCount + 1>>, <<pi, pe>>, in)
    BY <1>9
  <2> HIDE DEF x, pi, pe
  <2>2. QED
    BY <1>3, <1>5, <1>10, <2>1, TestType
<1>12. /\ y \in Instrs /\ InstrOK(y) /\ y.op = "label" /\ y.open = in
       /\ y.to = <<labelCount>> /\ y.meant = <<pi>>
  <2> HIDE DEF pi
  <2>1. /\ <<labelCount>> \in Seq(Nat) /\ Len(<<labelCount>>) = 1
        /\ <<pi>> \in Seq(Places) /\ Len(<<pi>>) = 1
    BY <1>3, <1>5, <1>10, Tuple1
  <2>2. "label" \in Ops /\ None \in Regs /\ in \in Seq(Names)
    BY <1>3, <1>5, <1>10, NameTypes DEF Ops
  <2>3. y.op = "label" /\ y.to = <<labelCount>> /\ y.meant = <<pi>> /\ y.open = in
    BY <1>9 DEF Branch, Instr
  <2>4. y \in Instrs
    BY <1>9, <2>1, <2>2 DEF Branch, Instr, Instrs
  <2>5. InstrOK(y)
    <3> HIDE DEF y
    <3>1. QED
      BY <2>1, <2>3 DEF InstrOK
  <2>6. QED
    BY <2>3, <2>4, <2>5
<1> HIDE DEF x, y
<1>13. /\ Sound(<<x, y>>) /\ Once(<<x, y>>) /\ Piece(<<x, y>>, in, in)
       /\ Elems(<<x, y>>) = {x, y}
  <2>1. x.op \in Branches
    BY <1>11 DEF Branches
  <2>2. QED
    BY <1>5, <1>11, <1>12, <2>1, BranchLabel
<1>14. /\ Sound(test) /\ test \in Seq(Instrs) /\ <<x, y>> \in Seq(Instrs)
       /\ Labs(test) = {} /\ Once(test)
  BY <1>6, <1>13, PlainLabs DEF Plain, Sound
<1>15. Sound(is) /\ Elems(is) = Elems(test) \union {x, y}
  BY <1>13, <1>14, SoundConcat
<1>16. Once(is)
  BY <1>13, <1>14, OnceConcat
<1>17. Piece(is, open, open')
  <2>1. Piece(is, open, in)
    BY <1>6, <1>13, <1>14, PieceConcat
  <2>2. QED
    BY <1>2, <1>9, <2>1
<1> HIDE DEF is
<1>18. \A z \in Elems(is) : z.op = "label" => z = y
  BY <1>6, <1>11, <1>15 DEF Plain
<1>19. \A z \in Elems(is) : z.op \in Branches => z = x
  BY <1>6, <1>12, <1>15 DEF Plain, Branches
<1>20. Pending(v) \subseteq {<<labelCount + 1, pe>>, <<labelCount + 2, Place("end", v.begin)>>}
       /\ <<labelCount + 1, pe>> \in Pending(v)
       /\ (~else => Pending(v) = {<<labelCount + 1, pe>>})
  <2>1. CASE else
    BY <1>9, <2>1 DEF Pending
  <2>2. CASE ~else
    BY <1>9, <2>2 DEF Pending
  <2>3. QED
    BY <2>1, <2>2
<1>21. /\ labelCount < labelCount' /\ labelCount + 1 < labelCount' /\ labelCount <= labelCount'
       /\ labelCount' \in Nat /\ (else => labelCount + 2 < labelCount')
       /\ labelCount >= labelCount /\ labelCount + 1 >= labelCount /\ labelCount + 2 >= labelCount
       /\ labelCount # labelCount + 1 /\ labelCount # labelCount + 2
  <2>1. CASE else
    BY <1>2, <1>3, <2>1
  <2>2. CASE ~else
    BY <1>2, <1>3, <2>2
  <2>3. QED
    BY <2>1, <2>2
<1>22. \A z \in Elems(is) : z.op = "label" => z.to[1] >= labelCount /\ z.to[1] < labelCount'
  BY <1>12, <1>18, <1>21
<1>23. ASSUME NEW t \in Pending(v)
       PROVE  /\ t[1] >= labelCount /\ t[1] < labelCount'
              /\ \A z \in Elems(is) : z.op = "label" => z.to # <<t[1]>>
  <2>1. t[1] = labelCount + 1 \/ (t[1] = labelCount + 2 /\ else)
    BY <1>20
  <2>2. t[1] >= labelCount /\ t[1] < labelCount' /\ t[1] # labelCount
    BY <1>21, <2>1
  <2>3. y.to # <<t[1]>>
    BY <1>12, <2>2
  <2>4. QED
    BY <1>18, <2>2, <2>3
<1>24. ASSUME NEW z \in Elems(is), z.op \in Branches, NEW k \in 1 .. Len(z.to)
       PROVE  \/ \E w \in Elems(is) : LabelAt(w, z.to[k], z.meant[k], z.open)
              \/ <<z.to[k], z.meant[k]>> \in Pending(v) /\ Begins(v.in, z.open)
  <2>1. z = x
    BY <1>19, <1>24
  <2>2. k = 1 \/ k = 2
    <3>1. k \in 1 .. Len(z.to) /\ z.to = <<labelCount, labelCount + 1>>
      BY <1>11, <1>24, <2>1
    <3>2. QED
      BY <3>1
  <2>3. Begins(in, in)
    BY <1>5, BeginsReflexive
  <2>4. CASE k = 1
    <3>1. z.to[k] = labelCount /\ z.meant[k] = pi /\ z.open = in
      BY <1>11, <2>1, <2>4
    <3>2. LabelAt(y, z.to[k], z.meant[k], z.open)
      BY <1>12, <2>3, <3>1 DEF LabelAt
    <3>3. QED
      BY <1>15, <3>2
  <2>5. CASE k = 2
    <3>1. z.to[k] = labelCount + 1 /\ z.meant[k] = pe /\ z.open = in
      BY <1>11, <2>1, <2>5
    <3>2. QED
      BY <1>9, <1>20, <2>3, <3>1
  <2>6. QED
    BY <2>2, <2>4, <2>5
<1>25. Counted
  <2>1. loopStartStack' = loopStartStack /\ loopEndStack' = loopEndStack
    BY <1>2 DEF loops
  <2>2. varCount' \in Nat /\ varCount <= varCount' /\ labelCountBlock <= labelCountBlock'
    BY <1>2, <1>3
  <2>3. QED
    BY <1>2, <1>3, <1>5, <1>9, <1>21, <2>1, <2>2 DEF Counted
<1>26. \A r \in Elems(open') : r \in Elems(open) \/ (r[1] = "tmp" /\ r[2] \in Nat /\ r[2] < varCount')
  <2>1. varCount < varCount' /\ Elems(open') = Elems(open) \union {tmp}
    BY <1>2, <1>3, <1>5, <1>9
  <2>2. QED
    BY <1>3, <1>4, <2>1
<1>27. /\ v.in = open' /\ Begins(open, open')
       /\ v.kind # "func" /\ v.kind # "loop" /\ v.kind \notin {"stmts", "loop"} /\ UNCHANGED loops
  BY <1>2, <1>5, <1>7, <1>9
<1> HIDE DEF kind, pi, pe
<1>28. QED
  BY <1>1, <1>2, <1>9, <1>15, <1>16, <1>17, <1>22, <1>23, <1>24, <1>25, <1>26, <1>27, EnterStep

LEMMA StepLeaveCond ==
  ASSUME IInv, LeaveCond
  PROVE  IInv'
<1> DEFINE v == Top
           end == v.label + (IF v.kind = "else" THEN 2 ELSE 1)
           pl == Place("end", v.begin)
           x == Branch("br", <<end>>, <<pl>>, open)
           y == Branch("label", <<end>>, <<pl>>, v.in)
           is == <<x, y>>
<1>1. TypeOK /\ Generated
  BY DEF IInv
<1>2. /\ phase = "gen" /\ visits # <<>> /\ v.kind \in {"if", "else"}
      /\ code' = code \o is /\ visits' = Returned(Outer) /\ open' = v.in /\ dom' = v.dom
      /\ UNCHANGED <<phase, retty, counters, loops, run>>
  BY DEF LeaveCond, Write
<1>3. /\ v \in Visits /\ v.in \in Seq(Names) /\ v.out \in Seq(Names) /\ open \in Seq(Names)
      /\ Begins(v.out, v.in) /\ Begins(v.in, open)
  <2>1. Top.kind # "func"
    BY <1>2
  <2>2. QED
    BY <1>1, <1>2, <2>1, OuterVisits
<1>4. v = Top /\ v.kind # "func" /\ v.kind # "loop"
  BY <1>2
<1> HIDE DEF v
<1>5. v.begin \in Nat /\ v.dom \subseteq Vars /\ v.label \in Nat
  BY <1>3 DEF Visits
<1>6. end \in Nat /\ pl \in Places
  BY <1>5, PlaceType
<1>7. Pending(v) = {<<end, pl>>}
  BY <1>2 DEF Pending
<1> HIDE DEF end, pl
<1>8. /\ x \in Instrs /\ InstrOK(x) /\ x.op = "br" /\ x.to = <<end>>
      /\ x.meant = <<pl>> /\ x.open = open
  <2>1. /\ <<end>> \in Seq(Nat) /\ Len(<<end>>) = 1
        /\ <<pl>> \in Seq(Places) /\ Len(<<pl>>) = 1
    BY <1>3, <1>6, Tuple1
  <2>2. "br" \in Ops /\ None \in Regs /\ open \in Seq(Names)
    BY <1>3, <1>6, NameTypes DEF Ops
  <2>3. x.op = "br" /\ x.to = <<end>> /\ x.meant = <<pl>> /\ x.open = open
    BY DEF Branch, Instr
  <2>4. x \in Instrs
    BY <2>1, <2>2 DEF Branch, Instr, Instrs
  <2>5. InstrOK(x)
    <3> HIDE DEF x
    <3>1. QED
      BY <2>1, <2>3 DEF InstrOK
  <2>6. QED
    BY <2>3, <2>4, <2>5
<1>9. /\ y \in Instrs /\ InstrOK(y) /\ y.op = "label" /\ y.to = <<end>>
      /\ y.meant = <<pl>> /\ y.open = v.in
  <2>1. /\ <<end>> \in Seq(Nat) /\ Len(<<end>>) = 1
        /\ <<pl>> \in Seq(Places) /\ Len(<<pl>>) = 1
    BY <1>3, <1>6, Tuple1
  <2>2. "label" \in Ops /\ None \in Regs /\ v.in \in Seq(Names)
    BY <1>3, <1>6, NameTypes DEF Ops
  <2>3. y.op = "label" /\ y.to = <<end>> /\ y.meant = <<pl>> /\ y.open = v.in
    BY DEF Branch, Instr
  <2>4. y \in Instrs
    BY <2>1, <2>2 DEF Branch, Instr, Instrs
  <2>5. InstrOK(y)
    <3> HIDE DEF y
    <3>1. QED
      BY <2>1, <2>3 DEF InstrOK
  <2>6. QED
    BY <2>3, <2>4, <2>5
<1> HIDE DEF x, y
<1>10. /\ Sound(is) /\ Once(is) /\ Piece(is, open, open') /\ Elems(is) = {x, y}
  <2>1. x.op \in Branches
    BY <1>8 DEF Branches
  <2>2. QED
    BY <1>2, <1>3, <1>8, <1>9, <2>1, BranchLabel
<1> HIDE DEF is
<1>11. \A z \in Elems(is) : z.op = "label" => \E t \in Pending(v) : t[1] = z.to[1]
  <2>1. \A z \in Elems(is) : z.op = "label" => z.to = <<end>>
    BY <1>8, <1>9, <1>10
  <2>2. QED
    BY <1>7, <2>1
<1>12. \A t \in Pending(v) : \E z \in Elems(is) : LabelAt(z, t[1], t[2], v.in)
  <2>1. LabelAt(y, end, pl, v.in)
    BY <1>3, <1>9, BeginsReflexive DEF LabelAt
  <2>2. QED
    BY <1>7, <1>10, <2>1
<1>13. ASSUME NEW z \in Elems(is), z.op \in Branches, NEW k \in 1 .. Len(z.to)
       PROVE  \E w \in Elems(is) : LabelAt(w, z.to[k], z.meant[k], z.open)
  <2>1. z = x
    BY <1>9, <1>10, <1>13 DEF Branches
  <2>2. k = 1 /\ z.to[k] = end /\ z.meant[k] = pl /\ z.open = open
    <3>1. z.to = <<end>> /\ z.meant = <<pl>> /\ z.open = open /\ k \in 1 .. Len(z.to)
      BY <1>8, <1>13, <2>1
    <3>2. k = 1
      BY <3>1
    <3>3. QED
      BY <3>1, <3>2
  <2>3. LabelAt(y, end, pl, open)
    BY <1>3, <1>9 DEF LabelAt
  <2>4. QED
    BY <1>10, <2>2, <2>3
<1>14. Counted
  <2>1. /\ labelCount' = labelCount /\ labelCountBlock' = labelCountBlock /\ varCount' = varCount
        /\ loopStartStack' = loopStartStack /\ loopEndStack' = loopEndStack
    BY <1>2 DEF counters, loops
  <2>2. /\ labelCount \in Nat /\ labelCountBlock \in Nat /\ varCount \in Nat
        /\ loopStartStack \in Seq(Nat) /\ loopEndStack \in Seq(Nat)
    BY <1>1, GenTypes
  <2>3. labelCount <= labelCount' /\ labelCountBlock <= labelCountBlock' /\ varCount <= varCount'
    BY <2>1, <2>2
  <2>4. QED
    BY <1>2, <1>3, <1>5, <2>1, <2>2, <2>3 DEF Counted
<1>15. Begins(v.out, open') /\ Elems(open') \subseteq Elems(open) /\ UNCHANGED loops
  BY <1>2, <1>3, BeginsElems
<1>16. QED
  BY <1>1, <1>2, <1>4, <1>10, <1>11, <1>12, <1>13, <1>14, <1>15, LeaveStep

LEMMA StepEnterElse ==
  ASSUME IInv, EnterElse
  PROVE  IInv'
<1> DEFINE v == Top
           n == Len(visits)
           w == [v EXCEPT !.kind = "else", !.stage = "body"]
           end == v.label + 2
           els == v.label + 1
           pn == Place("end", v.begin)
           pe == Place("else", v.begin)
           x == Branch("br", <<end>>, <<pn>>, open)
           y == Branch("label", <<els>>, <<pe>>, v.in)
           is == <<x, y>>
<1>1. TypeOK /\ Generated
  BY DEF IInv
<1>2. /\ phase = "gen" /\ visits # <<>> /\ v.kind = "ifelse"
      /\ code' = code \o is /\ visits' = Append(Outer, w) /\ open' = v.in /\ dom' = v.dom
      /\ UNCHANGED <<phase, retty, counters, loops, run>>
  BY DEF EnterElse, Write
<1>3. /\ n \in Nat /\ n >= 2 /\ n - 1 \in 1 .. n /\ visits \in Seq(Visits)
      /\ v = visits[n] /\ v \in Visits
      /\ v.in \in Seq(Names) /\ v.out \in Seq(Names) /\ open \in Seq(Names)
      /\ Begins(v.out, v.in) /\ Begins(v.in, open)
      /\ Len(loopStartStack) = v.nest /\ Len(loopEndStack) = Len(loopStartStack)
  <2>1. Top.kind # "func"
    BY <1>2
  <2>2. QED
    BY <1>1, <1>2, <2>1, OuterVisits
<1>4. \A p \in 1 .. (n - 1) :
        /\ p \in 1 .. n /\ visits[p] \in Visits
        /\ visits[p].in \in Seq(Names) /\ Begins(visits[p].in, v.out)
        /\ \A s \in Pending(visits[p]) : \A t \in Pending(v) : s[1] # t[1]
  <2>1. Top.kind # "func"
    BY <1>2
  <2>2. QED
    BY <1>1, <1>2, <2>1, OuterVisits
<1>5. w \in Visits /\ Like(w, v) /\ w.kind = "else" /\ w.in = v.in /\ w.stage = "body"
      /\ w.label = v.label /\ w.begin = v.begin
  BY <1>2, <1>3 DEF Visits, Like, Kinds
<1>6. Outer \in Seq(Visits) /\ Len(Outer) = n - 1 /\ \A p \in 1 .. (n - 1) : Outer[p] = visits[p]
  BY <1>2, <1>3, TakeBegins DEF Outer
<1> HIDE DEF v, w
<1>7. /\ visits' \in Seq(Visits) /\ Len(visits') = n /\ visits'[n] = w /\ visits' # <<>>
      /\ \A p \in 1 .. (n - 1) : visits'[p] = visits[p]
  <2>1. /\ Len(Append(Outer, w)) = (n - 1) + 1 /\ Append(Outer, w)[(n - 1) + 1] = w
        /\ \A p \in 1 .. (n - 1) : Append(Outer, w)[p] = Outer[p]
    BY <1>5, <1>6, AppendIndex
  <2>2. (n - 1) + 1 = n
    BY <1>3
  <2>3. Append(Outer, w) \in Seq(Visits)
    BY <1>5, <1>6, AppendElems
  <2>4. Len(visits') = n /\ n # 0
    BY <1>2, <1>3, <2>1, <2>2
  <2>5. QED
    BY <1>2, <1>6, <2>1, <2>2, <2>3, <2>4
<1>8. \A p \in 1 .. n : p = n \/ p \in 1 .. (n - 1)
  BY <1>3
<1>9. \A p \in 1 .. n : Like(visits'[p], visits[p])
  <2>1. \A p \in 1 .. (n - 1) : Like(visits[p], visits[p])
    BY DEF Like
  <2>2. QED
    BY <1>3, <1>5, <1>7, <1>8, <2>1
<1>10. v.begin \in Nat /\ v.dom \subseteq Vars /\ v.label \in Nat
  BY <1>3 DEF Visits
<1>11. end \in Nat /\ els \in Nat /\ end # els /\ pn \in Places /\ pe \in Places
  BY <1>10, PlaceType
<1>12. Pending(v) = {<<els, pe>>, <<end, pn>>} /\ Pending(w) = {<<end, pn>>}
  BY <1>2, <1>5 DEF Pending
<1> HIDE DEF end, els, pn, pe
<1>13. /\ x \in Instrs /\ InstrOK(x) /\ x.op = "br" /\ x.to = <<end>>
       /\ x.meant = <<pn>> /\ x.open = open
  <2>1. /\ <<end>> \in Seq(Nat) /\ Len(<<end>>) = 1
        /\ <<pn>> \in Seq(Places) /\ Len(<<pn>>) = 1
    BY <1>11, Tuple1
  <2>2. "br" \in Ops /\ None \in Regs /\ open \in Seq(Names)
    BY <1>3, NameTypes DEF Ops
  <2>3. x.op = "br" /\ x.to = <<end>> /\ x.meant = <<pn>> /\ x.open = open
    BY DEF Branch, Instr
  <2>4. x \in Instrs
    BY <2>1, <2>2 DEF Branch, Instr, Instrs
  <2>5. InstrOK(x)
    <3> HIDE DEF x
    <3>1. QED
      BY <2>1, <2>3 DEF InstrOK
  <2>6. QED
    BY <2>3, <2>4, <2>5
<1>14. /\ y \in Instrs /\ InstrOK(y) /\ y.op = "label" /\ y.to = <<els>>
       /\ y.meant = <<pe>> /\ y.open = v.in
  <2>1. /\ <<els>> \in Seq(Nat) /\ Len(<<els>>) = 1
        /\ <<pe>> \in Seq(Places) /\ Len(<<pe>>) = 1
    BY <1>11, Tuple1
  <2>2. "label" \in Ops /\ None \in Regs /\ v.in \in Seq(Names)
    BY <1>3, NameTypes DEF Ops
  <2>3. y.op = "label" /\ y.to = <<els>> /\ y.meant = <<pe>> /\ y.open = v.in
    BY DEF Branch, Instr
  <2>4. y \in Instrs
    BY <2>1, <2>2 DEF Branch, Instr, Instrs
  <2>5. InstrOK(y)
    <3> HIDE DEF y
    <3>1. QED
      BY <2>1, <2>3 DEF InstrOK
  <2>6. QED
    BY <2>3, <2>4, <2>5
<1> HIDE DEF x, y
<1>15. /\ Sound(is) /\ Once(is) /\ Piece(is, open, open') /\ Elems(is) = {x, y}
  <2>1. x.op \in Branches
    BY <1>13 DEF Branches
  <2>2. QED
    BY <1>2, <1>3, <1>13, <1>14, <2>1, BranchLabel
<1> HIDE DEF is
<1>16. /\ open' \in Seq(Names) /\ labelCount \in Nat /\ labelCount' = labelCount
       /\ labelCountBlock' = labelCountBlock /\ varCount' = varCount
       /\ loopStartStack' = loopStartStack /\ loopEndStack' = loopEndStack
  BY <1>1, <1>2, <1>3, GenTypes DEF counters, loops
<1>17. VisitsOK'
  <2>1. \A p \in 1 .. n : Begins(visits[p].in, open')
    <3>1. \A p \in 1 .. (n - 1) : Begins(visits[p].in, v.in)
      BY <1>3, <1>4, BeginsTransitive
    <3>2. Begins(v.in, v.in)
      BY <1>3, BeginsReflexive
    <3>3. QED
      BY <1>2, <1>3, <1>8, <3>1, <3>2
  <2>2. n <= n /\ VisitsOK
    BY <1>1, <1>3 DEF Generated
  <2>3. QED
    BY <1>7, <1>9, <1>16, <2>1, <2>2, VisitsSame
<1>18. LoopsOK'
  <2>1. Elems(code) \subseteq Elems(code')
    BY <1>1, <1>2, <1>15, ConcatElems DEF Generated, CodeOK, Sound
  <2>2. LoopsOK /\ n <= n
    BY <1>1, <1>3 DEF Generated
  <2>3. Len(loopStartStack') = visits[n].nest /\ Len(loopEndStack') = Len(loopStartStack')
    BY <1>3, <1>16
  <2>4. QED
    BY <1>3, <1>7, <1>9, <1>16, <2>1, <2>2, <2>3, LoopsRest
<1>19. \A p \in 1 .. n : \A t \in Pending(visits[p]) : t[1] \in Nat /\ t[1] < labelCount
  <2>1. \A p \in 1 .. n : visits[p] \in Visits
    BY <1>3
  <2>2. QED
    BY <1>1, <2>1, PendingType DEF Generated, LabelsOK
<1>20. n \in 1 .. n
  BY <1>3
<1>21. LabelsNew(is)
  <2>1. /\ y.to[1] < labelCount'
        /\ \E p \in 1 .. Len(visits) : \E t \in Pending(visits[p]) : t[1] = y.to[1]
    <3>1. <<els, pe>> \in Pending(visits[n]) /\ <<els, pe>>[1] = els /\ y.to[1] = els
      BY <1>3, <1>12, <1>14
    <3>2. els < labelCount'
      BY <1>16, <1>19, <1>20, <3>1
    <3>3. QED
      BY <1>20, <3>1, <3>2
  <2>2. ASSUME NEW p \in 1 .. Len(visits'), NEW t \in Pending(visits'[p])
        PROVE  /\ t[1] < labelCount'
               /\ \E q \in 1 .. Len(visits) : t \in Pending(visits[q])
               /\ y.to # <<t[1]>>
    <3>1. CASE p = n
      <4>1. t = <<end, pn>> /\ t \in Pending(visits[n]) /\ t[1] = end
        BY <1>3, <1>7, <1>12, <2>2, <3>1
      <4>2. t[1] < labelCount'
        BY <1>16, <1>19, <1>20, <4>1
      <4>3. y.to # <<t[1]>>
        BY <1>11, <1>14, <4>1
      <4>4. QED
        BY <1>20, <4>1, <4>2, <4>3
    <3>2. CASE p \in 1 .. (n - 1)
      <4>1. t \in Pending(visits[p]) /\ p \in 1 .. n
        BY <1>4, <1>7, <2>2, <3>2
      <4>2. t[1] < labelCount'
        BY <1>16, <1>19, <4>1
      <4>3. <<els, pe>> \in Pending(v) /\ <<els, pe>>[1] = els
        BY <1>12
      <4>4. t[1] # els
        BY <1>4, <3>2, <4>1, <4>3
      <4>5. y.to # <<t[1]>>
        BY <1>14, <4>4
      <4>6. QED
        BY <4>1, <4>2, <4>5
    <3>3. QED
      BY <1>7, <1>8, <2>2, <3>1, <3>2
  <2>3. \A z \in Elems(is) : z.op = "label" => z = y
    BY <1>13, <1>15
  <2>4. QED
    BY <2>1, <2>2, <2>3 DEF LabelsNew
<1>22. ASSUME NEW p \in 1 .. Len(visits), NEW t \in Pending(visits[p]) PROVE Kept(is, p, t)
  <2>1. CASE p = n /\ t = <<els, pe>>
    <3>1. visits[p].in = v.in /\ t[1] = els /\ t[2] = pe
      BY <1>3, <2>1
    <3>2. LabelAt(y, t[1], t[2], visits[p].in)
      BY <1>3, <1>14, <3>1, BeginsReflexive DEF LabelAt
    <3>3. QED
      BY <1>15, <3>2 DEF Kept
  <2>2. CASE p = n /\ t = <<end, pn>>
    <3>1. t \in Pending(visits'[n]) /\ Begins(visits'[n].in, visits[p].in) /\ n \in 1 .. Len(visits')
      BY <1>3, <1>5, <1>7, <1>12, <1>20, <2>2, BeginsReflexive
    <3>2. QED
      BY <3>1 DEF Kept
  <2>3. CASE p \in 1 .. (n - 1)
    <3>1. p \in 1 .. Len(visits') /\ t \in Pending(visits'[p]) /\ Begins(visits'[p].in, visits[p].in)
      BY <1>4, <1>7, <1>22, <2>3, BeginsReflexive
    <3>2. QED
      BY <3>1 DEF Kept
  <2>4. p = n => t = <<els, pe>> \/ t = <<end, pn>>
    BY <1>3, <1>12, <1>22
  <2>5. QED
    BY <1>8, <1>22, <2>1, <2>2, <2>3, <2>4
<1>23. ASSUME NEW z \in Elems(is), z.op \in Branches, NEW k \in 1 .. Len(z.to)
       PROVE  LeadsNow(is, z.to[k], z.meant[k], z.open)
  <2>1. z = x
    BY <1>14, <1>15, <1>23 DEF Branches
  <2>2. z.to[k] = end /\ z.meant[k] = pn /\ z.open = open
    <3>1. z.to = <<end>> /\ z.meant = <<pn>> /\ z.open = open /\ k \in 1 .. Len(z.to)
      BY <1>13, <1>23, <2>1
    <3>2. k = 1
      BY <3>1
    <3>3. QED
      BY <3>1, <3>2
  <2>3. <<end, pn>> \in Pending(visits'[n]) /\ Begins(visits'[n].in, open) /\ n \in 1 .. Len(visits')
    BY <1>3, <1>5, <1>7, <1>12, <1>20
  <2>4. QED
    BY <2>2, <2>3 DEF LeadsNow
<1>24. Written(is)
  <2>1. \A r \in Elems(open') : r \in Elems(open)
    BY <1>2, <1>3, BeginsElems
  <2>2. QED
    BY <1>2, <1>15, <1>21, <1>22, <1>23, <2>1 DEF Written
<1>25. Counted
  <2>1. /\ labelCount \in Nat /\ labelCountBlock \in Nat /\ varCount \in Nat
        /\ loopStartStack \in Seq(Nat) /\ loopEndStack \in Seq(Nat)
    BY <1>1, GenTypes
  <2>2. labelCount <= labelCount' /\ labelCountBlock <= labelCountBlock' /\ varCount <= varCount'
    BY <1>16, <2>1
  <2>3. QED
    BY <1>2, <1>10, <1>16, <2>1, <2>2 DEF Counted
<1>26. n >= 2
  BY <1>3
<1>27. QED
  BY <1>1, <1>2, <1>17, <1>18, <1>24, <1>25, <1>26, GenStep

LEMMA InitIInv == Init => IInv
<1> SUFFICES ASSUME Init PROVE IInv
  OBVIOUS
<1>1. TypeOK
  BY DEF Init, TypeOK, EmptyHeap
<1>2. CodeOK
  BY DEF Init, CodeOK, Elems
<1>3. LabelsOK
  BY DEF Init, LabelsOK, Once, Elems
<1>4. BranchesOK
  BY DEF Init, BranchesOK, Elems
<1>5. VisitsOK
  BY DEF Init, VisitsOK
<1>6. LoopsOK
  BY DEF Init, LoopsOK
<1>7. NamesOK
  BY DEF Init, NamesOK, Elems
<1>8. PhaseOK
  BY DEF Init, PhaseOK
<1>9. RegsOK /\ ScopesLive
  BY DEF Init, RegsOK, ScopesLive
<1>10. QED
  BY <1>1, <1>2, <1>3, <1>4, <1>5, <1>6, <1>7, <1>8, <1>9 DEF IInv, Generated

\* the copies of the arguments at the beginning of the code
Copied(args) == [i \in 1 .. Len(args) |-> Var(args[i])]
Copies(args) == [i \in 1 .. Len(args) |-> Do("alloca", Copied(args)[i], SubSeq(Copied(args), 1, i - 1))]

LEMMA CopiesPiece ==
  ASSUME NEW args \in Seq(Vars), NEW names, NEW s, names = Copied(args), s = Copies(args),
         \A i, j \in 1 .. Len(args) : args[i] = args[j] => i = j
  PROVE  /\ names \in Seq(Names) /\ Len(names) = Len(args) /\ Plain(s)
         /\ (s = <<>> /\ names = <<>>) \/ Piece(s, <<>>, names)
         /\ \A i \in 1 .. Len(args) : names[i] = Var(args[i])
         /\ \A r \in Elems(names) : r[1] = "var" /\ \E x \in Elems(s) : x.op = "alloca" /\ x.reg = r
<1> DEFINE n == Len(args)
           pre(i) == SubSeq(names, 1, i - 1)
<1>1. n \in Nat
  OBVIOUS
<1>2. /\ names \in Seq(Names) /\ Len(names) = n
      /\ \A i \in 1 .. n : names[i] = Var(args[i]) /\ names[i] \in Names /\ names[i] \in Regs
  <2>1. \A i \in 1 .. n : Var(args[i]) \in Names /\ Var(args[i]) \in Regs
    BY NameTypes
  <2>2. QED
    BY <1>1, <2>1 DEF Copied
<1>3. \A i \in 1 .. n + 1 : pre(i) \in Seq(Names) /\ Len(pre(i)) = i - 1
                          /\ \A j \in 1 .. (i - 1) : pre(i)[j] = names[j]
  BY <1>1, <1>2
<1>4. \A i, j \in 1 .. n : names[i] = names[j] => i = j
  BY <1>2, NameTypes
<1>5. \A i \in 1 .. n : names[i] \notin Elems(pre(i))
  <2>1. SUFFICES ASSUME NEW i \in 1 .. n, NEW j \in 1 .. (i - 1), names[i] = pre(i)[j] PROVE FALSE
    BY <1>1, <1>3 DEF Elems
  <2>2. i \in 1 .. n + 1 /\ j \in 1 .. n /\ j # i
    BY <1>1
  <2>3. names[i] = names[j]
    BY <1>3, <2>1, <2>2
  <2>4. QED
    BY <1>4, <2>2, <2>3
<1>6. \A i \in 1 .. n : Append(pre(i), names[i]) = pre(i + 1)
  <2>1. SUFFICES ASSUME NEW i \in 1 .. n PROVE Append(pre(i), names[i]) = pre(i + 1)
    OBVIOUS
  <2>2. i \in 1 .. n + 1 /\ i + 1 \in 1 .. n + 1 /\ i \in Nat
    BY <1>1
  <2>3. /\ pre(i) \in Seq(Names) /\ Len(pre(i)) = i - 1
        /\ pre(i + 1) \in Seq(Names) /\ Len(pre(i + 1)) = (i + 1) - 1
        /\ \A j \in 1 .. (i - 1) : pre(i)[j] = names[j]
        /\ \A j \in 1 .. ((i + 1) - 1) : pre(i + 1)[j] = names[j]
    BY <1>3, <2>2
  <2> HIDE DEF pre
  <2>4. names[i] \in Names
    BY <1>2
  <2>5. \A j \in 1 .. i : Append(pre(i), names[i])[j] = names[j]
    BY <2>2, <2>3, <2>4
  <2>6. \A j \in 1 .. i : pre(i + 1)[j] = names[j]
    BY <2>2, <2>3
  <2>7. Len(Append(pre(i), names[i])) = i /\ Len(pre(i + 1)) = i
    BY <2>2, <2>3, <2>4
  <2>8. Append(pre(i), names[i]) \in Seq(Names)
    BY <2>3, <2>4
  <2>9. QED
    BY <2>3, <2>5, <2>6, <2>7, <2>8, SeqEqual
<1>7. pre(1) = <<>> /\ pre(n + 1) = names
  <2>1. 1 \in 1 .. n + 1 /\ n + 1 \in 1 .. n + 1
    BY <1>1
  <2>2. Len(pre(1)) = 0 /\ pre(1) \in Seq(Names)
    BY <1>3, <2>1
  <2>3. pre(1) = <<>>
    <3> HIDE DEF pre
    <3>1. QED
      BY <2>2, EmptySeq
  <2>4. pre(n + 1) = names
    BY <1>1, <1>2
  <2>5. QED
    BY <2>3, <2>4
<1>8. Len(s) = n /\ \A i \in 1 .. n : s[i] = Do("alloca", names[i], pre(i))
  BY <1>1 DEF Copies
<1>9. \A i \in 1 .. n : /\ s[i] \in Instrs /\ InstrOK(s[i]) /\ s[i].op = "alloca"
                        /\ s[i].reg = names[i] /\ s[i].open = pre(i)
                        /\ s[i].op \notin Branches \union {"label"}
                        /\ Flow(s[i], pre(i + 1))
  <2>1. SUFFICES ASSUME NEW i \in 1 .. n
                 PROVE  /\ s[i] \in Instrs /\ InstrOK(s[i]) /\ s[i].op = "alloca"
                        /\ s[i].reg = names[i] /\ s[i].open = pre(i)
                        /\ s[i].op \notin Branches \union {"label"}
                        /\ Flow(s[i], pre(i + 1))
    OBVIOUS
  <2>2. pre(i) \in Seq(Names) /\ names[i] \in Names /\ names[i] \in Regs /\ names[i] \notin Elems(pre(i))
    BY <1>1, <1>2, <1>3, <1>5
  <2>3. s[i] = Do("alloca", names[i], pre(i))
    BY <1>8
  <2>4. "alloca" \in Ops \ (Branches \union {"label"}) /\ "alloca" \in {"save", "alloca"}
    BY DEF Ops, Branches
  <2>5. Append(pre(i), names[i]) = pre(i + 1)
    BY <1>6
  <2> HIDE DEF pre
  <2>6. s[i] \in Instrs /\ InstrOK(s[i]) /\ s[i].op \notin Branches \union {"label"}
    <3>1. Plain(<< Do("alloca", names[i], pre(i)) >>)
      BY <2>2, <2>4, PlainDo
    <3>2. QED
      BY <2>3, <3>1, PlainOne
  <2>7. Flow(s[i], pre(i + 1))
    BY <2>2, <2>3, <2>4, <2>5, FlowAlloc
  <2>8. s[i].op = "alloca" /\ s[i].reg = names[i] /\ s[i].open = pre(i)
    BY <2>3 DEF Do, Instr
  <2>9. QED
    BY <2>6, <2>7, <2>8
<1> HIDE DEF pre
<1>10. s \in Seq(Instrs)
  <2>1. s = [i \in 1 .. n |-> s[i]]
    BY <1>1 DEF Copies
  <2>2. \A i \in 1 .. n : s[i] \in Instrs
    BY <1>9
  <2>3. QED
    BY <1>1, <2>1, <2>2
<1>11. Plain(s)
  BY <1>8, <1>9, <1>10 DEF Plain, Sound, Elems
<1>12. CASE n = 0
  <2>1. s = <<>> /\ names = <<>>
    BY <1>2, <1>8, <1>10, <1>12, EmptySeq
  <2>2. QED
    BY <1>2, <1>8, <1>11, <1>12, <2>1 DEF Elems
<1>13. CASE n # 0
  <2>1. n \in 1 .. n /\ 1 \in 1 .. n
    BY <1>1, <1>13
  <2>2. s # <<>> /\ s[1].open = <<>> /\ Flow(s[Len(s)], names)
    BY <1>7, <1>8, <1>9, <1>13, <2>1
  <2>3. \A i \in 1 .. (n - 1) : Flow(s[i], s[i + 1].open)
    <3>1. \A i \in 1 .. (n - 1) : i \in 1 .. n /\ i + 1 \in 1 .. n
      BY <1>1
    <3>2. QED
      BY <1>9, <3>1
  <2>4. Piece(s, <<>>, names)
    BY <1>8, <2>2, <2>3 DEF Piece
  <2>5. \A r \in Elems(names) : r[1] = "var" /\ \E x \in Elems(s) : x.op = "alloca" /\ x.reg = r
    <3>0. Elems(names) = {names[i] : i \in 1 .. n}
      BY <1>2 DEF Elems
    <3>1. SUFFICES ASSUME NEW i \in 1 .. n
                   PROVE  names[i][1] = "var" /\ \E x \in Elems(s) : x.op = "alloca" /\ x.reg = names[i]
      BY <3>0
    <3>2. names[i][1] = "var"
      BY <1>2, NameTypes
    <3>3. s[i] \in Elems(s)
      BY <1>8 DEF Elems
    <3>4. QED
      BY <1>9, <3>2, <3>3
  <2>6. QED
    BY <1>2, <1>11, <2>4, <2>5
<1>14. QED
  BY <1>12, <1>13

LEMMA StepEnterFunc ==
  ASSUME IInv, NEW args \in ArgLists, NEW ty \in RetTypes, EnterFunc(args, ty)
  PROVE  IInv'
<1> DEFINE names == Copied(args)
           is == Copies(args)
           v == [kind |-> "func", stage |-> "body", begin |-> 1, label |-> labelCount,
                 block |-> None, out |-> <<>>, in |-> names, dom |-> dom, nest |-> 0]
<1>1. /\ TypeOK /\ CodeOK /\ LabelsOK /\ BranchesOK /\ LoopsOK /\ NamesOK /\ PhaseOK
      /\ phase = "start" /\ code = <<>> /\ visits = <<>> /\ open = <<>>
  <2>1. phase = "start"
    BY DEF EnterFunc
  <2>2. QED
    BY <2>1 DEF IInv, Generated, PhaseOK
<1>2. /\ phase' = "gen" /\ retty' = ty /\ code' = code \o is /\ open' = names
      /\ visits' = << Visit("func", None, names) >>
      /\ dom' = {args[i] : i \in 1 .. Len(args)}
      /\ UNCHANGED <<stmts, counters, loops, run>>
  BY DEF EnterFunc, Write, Copied, Copies
<1>3. Visit("func", None, names) = v
  <2>1. Len(code) + 1 = 1 /\ 0 + 0 = 0
    BY <1>1
  <2>2. QED
    BY <1>1, <2>1 DEF Visit
<1>4. args \in Seq(Vars) /\ (\A i, j \in 1 .. Len(args) : args[i] = args[j] => i = j)
      /\ RetTypes \subseteq {"void", "scalar", "heap"}
  BY ControlAssumption, Zenon
<1>5. /\ names \in Seq(Names) /\ Plain(is)
      /\ (is = <<>> /\ names = <<>>) \/ Piece(is, <<>>, names)
      /\ \A r \in Elems(names) : r[1] = "var" /\ \E x \in Elems(is) : x.op = "alloca" /\ x.reg = r
  BY <1>4, CopiesPiece
<1>6. dom' \subseteq Vars
  BY <1>2, <1>4
<1> HIDE DEF names, is
<1>7. /\ dom \subseteq Vars /\ labelCount \in Nat /\ labelCountBlock \in Nat /\ varCount \in Nat
      /\ loopStartStack \in Seq(Nat) /\ loopEndStack \in Seq(Nat)
  BY <1>1 DEF TypeOK
<1>8. /\ labelCount' = labelCount /\ labelCountBlock' = labelCountBlock /\ varCount' = varCount
      /\ loopStartStack' = loopStartStack /\ loopEndStack' = loopEndStack
      /\ ip' = ip /\ stack' = stack /\ reg' = reg /\ heap' = heap
  BY <1>2 DEF counters, loops, run
<1>9. v \in Visits
  <2>1. None \in Regs /\ <<>> \in Seq(Names)
    BY NameTypes
  <2>2. QED
    BY <1>5, <1>7, <2>1 DEF Visits, Kinds
<1>10. v.kind = "func" /\ v.stage = "body" /\ v.out = <<>> /\ v.in = names /\ v.nest = 0
  OBVIOUS
<1> HIDE DEF v
<1>11. visits' = <<v>> /\ visits' \in Seq(Visits) /\ Len(visits') = 1 /\ visits'[1] = v
  <2>1. visits' = <<v>>
    BY <1>2, <1>3
  <2>2. <<v>> \in Seq(Visits) /\ Len(<<v>>) = 1
    BY <1>9, Tuple1
  <2>3. QED
    BY <2>1, <2>2
<1>12. Pending(v) = {}
  BY <1>10 DEF Pending
<1>13. is \in Seq(Instrs) /\ code' = is
  <2>1. is \in Seq(Instrs)
    BY <1>5 DEF Plain, Sound
  <2>2. QED
    BY <1>1, <1>2, <2>1
<1>14. Elems(code) = {} /\ Elems(open) = {}
  BY <1>1, ElemsEmpty
<1>15. CodeOK'
  <2>1. \A x \in Elems(is) : InstrOK(x)
    BY <1>5 DEF Plain, Sound
  <2>2. (is = <<>> /\ open' = <<>>) \/ Piece(is, <<>>, open')
    BY <1>2, <1>5
  <2>3. QED
    BY <1>13, <2>1, <2>2 DEF CodeOK
<1>16. LabelsOK' /\ BranchesOK'
  <2>1. visits \in Seq(Visits) /\ Len(visits) = 0
    BY <1>1
  <2>2. labelCount' \in Nat /\ labelCount <= labelCount'
    BY <1>7, <1>8
  <2>3. \A p \in 1 .. Len(visits') : \A t \in Pending(visits'[p]) :
          \E q \in 1 .. Len(visits) : t \in Pending(visits[q])
    BY <1>11, <1>12
  <2>4. \A p \in 1 .. Len(visits) : \A t \in Pending(visits[p]) :
          \E q \in 1 .. Len(visits') :
            t \in Pending(visits'[q]) /\ Begins(visits'[q].in, visits[p].in)
    BY <2>1
  <2>5. QED
    BY <1>1, <1>2, <1>5, <1>7, <1>11, <2>1, <2>2, <2>3, <2>4, PlainLinks
<1>17. VisitsOK'
  <2>1. Begins(<<>>, names) /\ Begins(names, names)
    BY <1>5, BeginsReflexive DEF Begins
  <2>2. \A p \in 1 .. Len(visits') : p = 1
    BY <1>11
  <2>3. VisitOK(1)'
    BY <1>2, <1>10, <1>11, <1>12, <2>1 DEF VisitOK
  <2>4. QED
    BY <1>11, <2>2, <2>3 DEF VisitsOK
<1>18. LoopsOK'
  <2>1. Len(loopStartStack) = 0 /\ Len(loopEndStack) = 0
    BY <1>1 DEF LoopsOK
  <2>2. Top' = v
    BY <1>11 DEF Top
  <2>3. QED
    BY <1>8, <1>10, <1>11, <2>1, <2>2 DEF LoopsOK
<1>19. NamesOK'
  <2>1. \A r \in Elems(open') : r[1] = "var" /\ \E x \in Elems(code') : x.op = "alloca" /\ x.reg = r
    BY <1>2, <1>5, <1>13
  <2>2. QED
    BY <2>1 DEF NamesOK
<1>20. PhaseOK'
  <2>1. /\ phase' = "gen" /\ retty' \in {"void", "scalar", "heap"}
        /\ ip' = 1 /\ stack' = <<>> /\ heap' = EmptyHeap /\ DOMAIN reg' = {}
    BY <1>1, <1>2, <1>4, <1>8 DEF PhaseOK
  <2>2. ~(Len(visits') >= 2) /\ visits'[1].stage = "body"
    BY <1>10, <1>11
  <2>3. QED
    BY <2>1, <2>2 DEF PhaseOK, EmptyHeap
<1>21. TypeOK'
  <2>1. open' \in Seq(Names)
    BY <1>2, <1>5
  <2>2. phase' = "gen"
    BY <1>2
  <2>3. QED
    BY <1>1, <1>6, <1>8, <2>1, <2>2 DEF TypeOK
<1>22. RegsOK' /\ ScopesLive'
  <2>1. DOMAIN reg' = {} /\ phase' = "gen"
    BY <1>1, <1>2, <1>8 DEF PhaseOK
  <2>2. QED
    BY <2>1 DEF RegsOK, ScopesLive
<1>23. QED
  BY <1>15, <1>16, <1>17, <1>18, <1>19, <1>20, <1>21, <1>22 DEF IInv, Generated

LEMMA StepLeaveFunc ==
  ASSUME IInv, LeaveFunc
  PROVE  IInv'
<1> DEFINE r == IF retty = "heap" THEN code[Len(code) - 1].reg ELSE None
           x == Do("ret", r, open)
           is == <<x>>
<1>1. /\ TypeOK /\ Generated /\ ScopesLive
      /\ CodeOK /\ LabelsOK /\ BranchesOK /\ VisitsOK /\ LoopsOK /\ NamesOK /\ PhaseOK
  BY DEF IInv, Generated
<1>2. /\ phase = "gen" /\ visits # <<>> /\ Top.kind = "func" /\ Top.stage = "done"
      /\ code' = code \o is /\ visits' = <<>> /\ phase' = "run"
      /\ UNCHANGED <<stmts, retty, counters, loops, open, dom, run>>
  BY DEF LeaveFunc, Write
<1>3. /\ labelCount' = labelCount /\ labelCountBlock' = labelCountBlock /\ varCount' = varCount
      /\ loopStartStack' = loopStartStack /\ loopEndStack' = loopEndStack
      /\ ip' = ip /\ stack' = stack /\ reg' = reg /\ heap' = heap /\ open' = open
      /\ retty' = retty /\ dom' = dom
  BY <1>2 DEF counters, loops, run
<1>4. Len(visits) = 1 /\ Top = visits[1] /\ visits \in Seq(Visits)
  BY <1>1, <1>2, TopVisit
<1>5. Len(code) >= 2 /\ code \in Seq(Instrs)
  BY <1>1, <1>2, <1>4 DEF PhaseOK, CodeOK
<1>6. r \in Regs /\ open \in Seq(Names)
  <2>1. None \in Regs
    BY NameTypes
  <2>2. code[Len(code) - 1] \in Instrs
    BY <1>5
  <2>3. code[Len(code) - 1].reg \in Regs
    BY <2>2 DEF Instrs
  <2>4. QED
    BY <1>1, <2>1, <2>3 DEF TypeOK
<1> HIDE DEF r
<1>7. /\ x \in Instrs /\ x.op = "ret" /\ x.open = open
      /\ Plain(is)
  <2>1. "ret" \in Ops \ (Branches \union {"label"}) /\ "ret" \in Ops
        /\ "ret" \notin {"save", "alloca", "call", "strcall", "heap"} /\ "ret" # "save"
    BY DEF Ops, Branches
  <2>2. Plain(is)
    BY <1>6, <2>1, PlainDo
  <2>3. QED
    BY <1>6, <2>1, <2>2, DoType
<1> HIDE DEF x
<1>8. Piece(is, open, open') /\ Sound(is) /\ is \in Seq(Instrs)
  <2>1. Flow(x, open')
    BY <1>7 DEF Flow
  <2>2. is # <<>> /\ Len(is) = 1 /\ is[1] = x
    OBVIOUS
  <2>3. QED
    BY <1>7, <2>1, <2>2 DEF Piece, Plain, Sound
<1>9. CodeOK' /\ Elems(code') = Elems(code) \union Elems(is)
  BY <1>1, <1>2, <1>8, CodeExtended
<1>10. Pending(Top) = {}
  BY <1>2 DEF Pending
<1>11. LabelsOK' /\ BranchesOK'
  <2>1. labelCount \in Nat /\ labelCount' \in Nat /\ labelCount <= labelCount'
    BY <1>1, <1>3 DEF TypeOK
  <2>2. visits' \in Seq(Visits) /\ Len(visits') = 0
    BY <1>2
  <2>3. \A p \in 1 .. Len(visits') : \A t \in Pending(visits'[p]) :
          \E q \in 1 .. Len(visits) : t \in Pending(visits[q])
    BY <2>2
  <2>4. \A p \in 1 .. Len(visits) : \A t \in Pending(visits[p]) :
          \E q \in 1 .. Len(visits') :
            t \in Pending(visits'[q]) /\ Begins(visits'[q].in, visits[p].in)
    BY <1>4, <1>10
  <2>5. QED
    BY <1>1, <1>2, <1>4, <1>7, <2>1, <2>2, <2>3, <2>4, PlainLinks
<1>12. VisitsOK'
  BY <1>2 DEF VisitsOK
<1>13. LoopsOK'
  <2>1. Len(loopStartStack) = 0 /\ Len(loopEndStack) = 0
    BY <1>1, <1>2, <1>4 DEF LoopsOK
  <2>2. QED
    BY <1>2, <1>3, <2>1 DEF LoopsOK
<1>14. NamesOK'
  <2>1. /\ varCount \in Nat /\ labelCountBlock \in Nat
        /\ varCount <= varCount /\ labelCountBlock <= labelCountBlock
    BY <1>1 DEF TypeOK
  <2>2. \A z \in Elems(open') : z \in Elems(open)
    BY <1>3
  <2>3. Elems(code) \subseteq Elems(code')
    BY <1>9
  <2>4. QED
    BY <1>1, <1>3, <2>1, <2>2, <2>3, NamesKept
<1>15. /\ code' # <<>> /\ Len(code') = Len(code) + 1 /\ code'[Len(code')] = x
       /\ code'[1].open = <<>> /\ Len(code') \in Nat
  <2>1. code' = Append(code, x)
    BY <1>2, <1>5, <1>7, ConcatOne
  <2>2. Len(code') = Len(code) + 1 /\ code'[Len(code')] = x /\ code'[1] = code[1] /\ code' # <<>>
    BY <1>5, <1>7, <2>1
  <2>3. code[1].open = <<>>
    <3>1. code # <<>>
      BY <1>5
    <3>2. QED
      BY <1>1, <3>1 DEF CodeOK, Piece
  <2>4. Len(code') \in Nat
    BY <1>5, <2>2
  <2>5. QED
    BY <2>2, <2>3, <2>4
<1>16. PhaseOK'
  <2>1. retty' \in {"void", "scalar", "heap"}
    BY <1>1, <1>3 DEF PhaseOK
  <2>2. ~(Len(visits') >= 2)
    BY <1>2
  <2>3. QED
    BY <1>2, <1>7, <1>15, <2>1, <2>2 DEF PhaseOK
<1>17. ip' = 1 /\ DOMAIN reg' = {} /\ reg' = reg
  BY <1>1, <1>2, <1>3 DEF PhaseOK
<1>18. TypeOK'
  <2>1. ip' \in 1 .. Len(code')
    BY <1>5, <1>15, <1>17
  <2>2. QED
    BY <1>1, <1>2, <1>3, <2>1 DEF TypeOK
<1>19. RegsOK'
  BY <1>17 DEF RegsOK
<1>20. ScopesLive'
  <2>1. Now' = code'[1]
    BY <1>17 DEF Now
  <2>2. Len(Now'.open) = 0
    BY <1>15, <2>1
  <2>3. QED
    BY <2>2 DEF ScopesLive
<1>21. QED
  BY <1>9, <1>11, <1>12, <1>13, <1>14, <1>16, <1>18, <1>19, <1>20 DEF IInv, Generated

\* what is in scope, o, is allocated: ScopesLive for given registers and a given stack
Scope(o, rg, st) ==
  \A i \in 1 .. Len(o) :
    /\ o[i] \in DOMAIN rg /\ rg[o[i]].n <= Len(st)
    /\ o[i][1] # "block" => rg[o[i]].mem = "stack" /\ st[rg[o[i]].n] = o[i]
    /\ \A j \in 1 .. (i - 1) : rg[o[j]].n <= rg[o[i]].n
RegsType(rg) ==
  \A r \in DOMAIN rg : rg[r].n \in Nat /\ (rg[r].mem = "stack" => rg[r].n >= 1)

LEMMA ScopesLiveNow == ScopesLive <=> (phase = "run" => Scope(code[ip].open, reg, stack))
<1> DEFINE o == code[ip].open
           A(i) == /\ o[i] \in DOMAIN reg /\ reg[o[i]].n <= Len(stack)
                   /\ o[i][1] # "block" => reg[o[i]].mem = "stack" /\ Live(o[i])
                   /\ \A j \in 1 .. (i - 1) : reg[o[j]].n <= reg[o[i]].n
           B(i) == /\ o[i] \in DOMAIN reg /\ reg[o[i]].n <= Len(stack)
                   /\ o[i][1] # "block" => reg[o[i]].mem = "stack" /\ stack[reg[o[i]].n] = o[i]
                   /\ \A j \in 1 .. (i - 1) : reg[o[j]].n <= reg[o[i]].n
<1>2. ScopesLive <=> (phase = "run" => \A i \in 1 .. Len(o) : A(i))
  BY DEF ScopesLive, Now
<1>3. Scope(o, reg, stack) <=> \A i \in 1 .. Len(o) : B(i)
  BY DEF Scope
<1> HIDE DEF o
<1>4. \A i \in 1 .. Len(o) : A(i) <=> B(i)
  BY Zenon DEF Live
<1> HIDE DEF A, B
<1>5. QED
  BY <1>2, <1>3, <1>4, Zenon DEF o

LEMMA ScopeBegins ==
  ASSUME NEW s \in Seq(Names), NEW t \in Seq(Names), Begins(s, t), NEW rg, NEW st, Scope(t, rg, st)
  PROVE  Scope(s, rg, st)
<1>1. \A i \in 1 .. Len(s) : i \in 1 .. Len(t) /\ s[i] = t[i] /\ \A j \in 1 .. (i - 1) : s[j] = t[j]
  BY DEF Begins
<1>2. QED
  BY <1>1 DEF Scope

\* what is in scope stays allocated when another register changes and the stack grows
LEMMA ScopeKept ==
  ASSUME NEW o \in Seq(Names), NEW r, r \notin Elems(o), NEW x, NEW rg, NEW st, NEW st2,
         RegsType(rg), Len(st) \in Nat, Len(st2) \in Nat, Len(st) <= Len(st2),
         \A k \in 1 .. Len(st) : st2[k] = st[k], Scope(o, rg, st)
  PROVE  Scope(o, With(rg, r, x), st2)
<1> DEFINE rg2 == With(rg, r, x)
<1>1. \A i \in 1 .. Len(o) : o[i] # r
  BY DEF Elems
<1>2. \A i \in 1 .. Len(o) : o[i] \in DOMAIN rg
  BY DEF Scope
<1>3. \A i \in 1 .. Len(o) : o[i] \in DOMAIN rg2 /\ rg2[o[i]] = rg[o[i]]
  BY <1>1, <1>2 DEF With
<1> HIDE DEF rg2
<1>4. \A i \in 1 .. Len(o) : rg[o[i]].n \in Nat /\ (rg[o[i]].mem = "stack" => rg[o[i]].n >= 1)
  BY <1>2 DEF RegsType
<1>5. SUFFICES ASSUME NEW i \in 1 .. Len(o)
               PROVE  /\ o[i] \in DOMAIN rg2 /\ rg2[o[i]].n <= Len(st2)
                      /\ o[i][1] # "block" => rg2[o[i]].mem = "stack" /\ st2[rg2[o[i]].n] = o[i]
                      /\ \A j \in 1 .. (i - 1) : rg2[o[j]].n <= rg2[o[i]].n
  BY DEF Scope, rg2
<1>6. /\ rg[o[i]].n <= Len(st)
      /\ o[i][1] # "block" => rg[o[i]].mem = "stack" /\ st[rg[o[i]].n] = o[i]
      /\ \A j \in 1 .. (i - 1) : rg[o[j]].n <= rg[o[i]].n
  BY DEF Scope
<1>7. o[i] \in DOMAIN rg2 /\ rg2[o[i]].n <= Len(st2)
  BY <1>3, <1>4, <1>6
<1>8. o[i][1] # "block" => rg2[o[i]].mem = "stack" /\ st2[rg2[o[i]].n] = o[i]
  BY <1>3, <1>4, <1>6
<1>9. \A j \in 1 .. (i - 1) : rg2[o[j]].n <= rg2[o[i]].n
  <2>1. \A j \in 1 .. (i - 1) : j \in 1 .. Len(o)
    OBVIOUS
  <2>2. QED
    BY <1>3, <1>6, <2>1
<1>10. QED
  BY <1>7, <1>8, <1>9

LEMMA ScopeAppend ==
  ASSUME NEW o \in Seq(Names), NEW r \in Names, NEW rg, NEW st, Scope(o, rg, st),
         r \in DOMAIN rg, rg[r].n <= Len(st),
         r[1] # "block" => rg[r].mem = "stack" /\ st[rg[r].n] = r,
         \A j \in 1 .. Len(o) : rg[o[j]].n <= rg[r].n
  PROVE  Scope(Append(o, r), rg, st)
<1> DEFINE t == Append(o, r)
<1>1. /\ Len(t) = Len(o) + 1 /\ t[Len(o) + 1] = r /\ Len(o) \in Nat
      /\ \A i \in 1 .. Len(o) : t[i] = o[i]
  OBVIOUS
<1> HIDE DEF t
<1>2. \A i \in 1 .. Len(t) : \A j \in 1 .. (i - 1) : j \in 1 .. Len(o) /\ t[j] = o[j]
  BY <1>1
<1>3. ASSUME NEW i \in 1 .. Len(o)
      PROVE  /\ t[i] \in DOMAIN rg /\ rg[t[i]].n <= Len(st)
             /\ t[i][1] # "block" => rg[t[i]].mem = "stack" /\ st[rg[t[i]].n] = t[i]
             /\ \A j \in 1 .. (i - 1) : rg[t[j]].n <= rg[t[i]].n
  <2>1. i \in 1 .. Len(t) /\ t[i] = o[i]
    BY <1>1
  <2>2. QED
    BY <1>2, <2>1 DEF Scope
<1>4. \A i \in 1 .. Len(t) : i \in 1 .. Len(o) \/ i = Len(o) + 1
  BY <1>1
<1>5. /\ rg[t[Len(o) + 1]].n <= Len(st) /\ t[Len(o) + 1] \in DOMAIN rg
      /\ t[Len(o) + 1][1] # "block" => rg[t[Len(o) + 1]].mem = "stack"
                                      /\ st[rg[t[Len(o) + 1]].n] = t[Len(o) + 1]
      /\ \A j \in 1 .. ((Len(o) + 1) - 1) : rg[t[j]].n <= rg[t[Len(o) + 1]].n
  <2>1. Len(o) + 1 \in 1 .. Len(t)
    BY <1>1
  <2>2. QED
    BY <1>1, <1>2, <2>1
<1>6. Scope(t, rg, st)
  BY <1>3, <1>4, <1>5 DEF Scope
<1>7. QED
  BY <1>6 DEF t

\* what is in scope up to r survives that the stack is cut to the height that r notes
LEMMA ScopeRestored ==
  ASSUME NEW s \in Seq(Names), NEW t \in Seq(Names), Begins(s, t), NEW rg, NEW st \in Seq(Names),
         RegsType(rg), Scope(t, rg, st), NEW p \in 1 .. Len(t), Len(s) <= p
  PROVE  /\ rg[t[p]].n \in 0 .. Len(st)
         /\ Scope(s, rg, SubSeq(st, 1, rg[t[p]].n))
<1> DEFINE h == rg[t[p]].n
           st2 == SubSeq(st, 1, h)
<1>1. t[p] \in DOMAIN rg /\ h <= Len(st) /\ h \in Nat /\ h \in 0 .. Len(st)
  BY DEF Scope, RegsType
<1>2. Len(st2) = h /\ \A k \in 1 .. h : st2[k] = st[k]
  BY <1>1
<1>3. Scope(s, rg, st)
  BY ScopeBegins
<1>4. \A i \in 1 .. Len(s) : s[i] = t[i] /\ i \in 1 .. p
  BY DEF Begins
<1> HIDE DEF h, st2
<1>5. \A i \in 1 .. Len(s) : rg[s[i]].n <= h
  <2>1. SUFFICES ASSUME NEW i \in 1 .. Len(s) PROVE rg[t[i]].n <= h
    BY <1>4
  <2>2. CASE i = p
    BY <1>1, <2>2 DEF h
  <2>3. CASE i # p
    <3>1. i \in 1 .. (p - 1)
      BY <1>4, <2>3
    <3>2. \A j \in 1 .. (p - 1) : rg[t[j]].n <= rg[t[p]].n
      BY DEF Scope
    <3>3. QED
      BY <3>1, <3>2 DEF h
  <2>4. QED
    BY <2>2, <2>3
<1>6. \A i \in 1 .. Len(s) : s[i] \in DOMAIN rg /\ rg[s[i]].n \in Nat
                           /\ (rg[s[i]].mem = "stack" => rg[s[i]].n >= 1)
  BY <1>3 DEF Scope, RegsType
<1>7. \A i \in 1 .. Len(s) : rg[s[i]].mem = "stack" => st2[rg[s[i]].n] = st[rg[s[i]].n]
  BY <1>1, <1>2, <1>5, <1>6
<1>8. Scope(s, rg, st2)
  BY <1>2, <1>3, <1>5, <1>6, <1>7 DEF Scope
<1>9. QED
  BY <1>1, <1>8 DEF h, st2

LEMMA RemoveType ==
  ASSUME NEW lst \in Seq(Nat), NEW elem
  PROVE  lst_remove(lst, elem) \in Seq(Nat)
<1> DEFINE S == {i \in 1 .. Len(lst) : lst[i] = elem}
           First(i) == i \in 1 .. Len(lst) /\ lst[i] = elem /\ \A j \in 1 .. (i - 1) : lst[j] # elem
           n == CHOOSE i \in 1 .. Len(lst) : lst[i] = elem /\ \A j \in 1 .. (i - 1) : lst[j] # elem
<1>1. CASE S = {}
  BY <1>1 DEF lst_remove
<1>2. CASE S # {}
  <2>1. S \subseteq Nat
    OBVIOUS
  <2>2. PICK m \in S : \A y \in S : <<y, m>> \notin OpToRel(<, Nat)
    <3> HIDE DEF S
    <3>1. QED
      BY <1>2, <2>1, NatLessThanWellFounded, WFMin
  <2>3. \A y \in S : ~(y < m)
    BY <2>1, <2>2 DEF OpToRel
  <2>4. m \in 1 .. Len(lst) /\ lst[m] = elem /\ \A j \in 1 .. (m - 1) : lst[j] # elem
    <3>1. m \in 1 .. Len(lst) /\ lst[m] = elem
      OBVIOUS
    <3>2. ASSUME NEW j \in 1 .. (m - 1), lst[j] = elem PROVE FALSE
      <4>1. j \in S /\ j < m
        BY <3>1, <3>2
      <4>2. QED
        BY <2>3, <4>1
    <3>3. QED
      BY <3>1, <3>2
  <2>5. n \in 1 .. Len(lst)
    BY <2>4
  <2>6. lst_remove(lst, elem) = SubSeq(lst, 1, n - 1) \o SubSeq(lst, n + 1, Len(lst))
    BY <2>4 DEF lst_remove
  <2> HIDE DEF n
  <2>7. SubSeq(lst, 1, n - 1) \in Seq(Nat) /\ SubSeq(lst, n + 1, Len(lst)) \in Seq(Nat)
    BY <2>5
  <2>8. QED
    BY <2>6, <2>7
<1>3. QED
  BY <1>1, <1>2

\* the code that runs, and the instruction behind one that neither branches nor returns
LEMMA RunTypes ==
  ASSUME IInv, phase = "run"
  PROVE  /\ code \in Seq(Instrs) /\ ip \in 1 .. Len(code) /\ Now = code[ip]
         /\ Now \in Instrs /\ InstrOK(Now) /\ Now.open \in Seq(Names)
         /\ stack \in Seq(Names) /\ Len(stack) \in Nat /\ DOMAIN reg \subseteq Names
         /\ RegsType(reg) /\ Scope(Now.open, reg, stack)
         /\ visits = <<>> /\ TypeOK /\ Generated /\ PhaseOK
         /\ \A i \in 1 .. Len(code) : code[i].open \in Seq(Names)
<1>1. TypeOK /\ Generated /\ RegsOK /\ ScopesLive /\ CodeOK /\ PhaseOK
  BY DEF IInv, Generated
<1>2. code \in Seq(Instrs) /\ ip \in 1 .. Len(code) /\ Now = code[ip]
  BY <1>1 DEF CodeOK, TypeOK, Now
<1>3. \A i \in 1 .. Len(code) : code[i] \in Instrs /\ code[i].open \in Seq(Names)
  <2>1. \A x \in Instrs : x.open \in Seq(Names)
    BY DEF Instrs
  <2>2. \A i \in 1 .. Len(code) : code[i] \in Instrs
    BY <1>2
  <2>3. QED
    BY <2>1, <2>2
<1>4. InstrOK(Now)
  BY <1>1, <1>2 DEF CodeOK, Elems
<1>5. stack \in Seq(Names) /\ Len(stack) \in Nat /\ DOMAIN reg \subseteq Names
  BY <1>1 DEF TypeOK
<1>6. RegsType(reg)
  BY <1>1 DEF TypeOK, RegsOK, RegsType
<1>7. Scope(Now.open, reg, stack)
  BY <1>1, <1>2, ScopesLiveNow
<1>8. visits = <<>>
  BY <1>1 DEF PhaseOK
<1>9. QED
  BY <1>1, <1>2, <1>3, <1>4, <1>5, <1>6, <1>7, <1>8

LEMMA RunNextInstr ==
  ASSUME IInv, phase = "run", Now.op # "ret"
  PROVE  /\ ip + 1 \in 1 .. Len(code)
         /\ code[ip + 1].open \in Seq(Names) /\ Flow(Now, code[ip + 1].open)
<1>1. code \in Seq(Instrs) /\ ip \in 1 .. Len(code) /\ Now = code[ip] /\ PhaseOK
      /\ \A i \in 1 .. Len(code) : code[i].open \in Seq(Names)
  BY RunTypes
<1>2. code # <<>> /\ code[Len(code)].op = "ret"
  BY <1>1 DEF PhaseOK
<1>3. ip # Len(code)
  BY <1>1, <1>2
<1>4. ip \in 1 .. (Len(code) - 1) /\ ip + 1 \in 1 .. Len(code)
  BY <1>1, <1>3
<1>5. Piece(code, <<>>, open)
  BY <1>2 DEF IInv, Generated, CodeOK
<1>6. Flow(code[ip], code[ip + 1].open)
  BY <1>4, <1>5 DEF Piece
<1>7. QED
  BY <1>1, <1>4, <1>6

\* what is left to show of a step of the running function
LEMMA RunStep ==
  ASSUME IInv, phase = "run", UNCHANGED gen,
         phase' \in {"run", "returned", "undefined"},
         phase' = "run" => ip' \in 1 .. Len(code) /\ Scope(code[ip'].open, reg', stack'),
         stack' \in Seq(Names), DOMAIN reg' \subseteq Names, RegsType(reg'),
         \A r \in DOMAIN reg' : reg'[r] \in [mem : {"sp", "stack", "heap"}, n : Nat],
         heap'.lst \in Seq(Nat), DOMAIN heap'.live \subseteq Blocks
  PROVE  IInv'
<1>1. TypeOK /\ Generated /\ PhaseOK
  BY RunTypes
<1>2. /\ code' = code /\ visits' = visits /\ open' = open /\ labelCount' = labelCount
      /\ labelCountBlock' = labelCountBlock /\ varCount' = varCount
      /\ loopStartStack' = loopStartStack /\ loopEndStack' = loopEndStack
      /\ retty' = retty /\ dom' = dom
  BY DEF gen, counters, loops
<1>3. PhaseOK'
  BY <1>1, <1>2 DEF PhaseOK
<1>4. Generated'
  BY <1>1, <1>3, GenUnchanged
<1>5. TypeOK'
  BY <1>1, <1>2 DEF TypeOK
<1>6. RegsOK'
  BY DEF RegsOK, RegsType
<1>7. ScopesLive'
  <2>1. ScopesLive' <=> (phase' = "run" => Scope(code'[ip'].open, reg', stack'))
    <3>1. (ScopesLive <=> (phase = "run" => Scope(code[ip].open, reg, stack)))'
      BY ScopesLiveNow, PTL
    <3>2. QED
      BY <3>1
  <2>2. QED
    BY <1>2, <2>1
<1>8. QED
  BY <1>4, <1>5, <1>6, <1>7 DEF IInv

\* registers and heap that do not change keep their types
LEMMA RunKept ==
  ASSUME TypeOK
  PROVE  /\ stack \in Seq(Names) /\ DOMAIN reg \subseteq Names
         /\ \A r \in DOMAIN reg : reg[r] \in [mem : {"sp", "stack", "heap"}, n : Nat]
         /\ heap.lst \in Seq(Nat) /\ DOMAIN heap.live \subseteq Blocks
BY DEF TypeOK

\* a register that is written
LEMMA WithTypes ==
  ASSUME TypeOK, RegsType(reg), NEW r \in Names,
         NEW x \in [mem : {"sp", "stack", "heap"}, n : Nat], x.mem = "stack" => x.n >= 1,
         NEW rg, rg = With(reg, r, x)
  PROVE  /\ DOMAIN rg \subseteq Names /\ RegsType(rg) /\ r \in DOMAIN rg /\ rg[r] = x
         /\ \A y \in DOMAIN rg : rg[y] \in [mem : {"sp", "stack", "heap"}, n : Nat]
         /\ \A y \in DOMAIN reg : y # r => rg[y] = reg[y]
<1>1. /\ DOMAIN reg \subseteq Names
      /\ \A y \in DOMAIN reg : reg[y] \in [mem : {"sp", "stack", "heap"}, n : Nat]
  BY DEF TypeOK
<1>2. /\ DOMAIN rg = DOMAIN reg \union {r} /\ rg[r] = x
      /\ \A y \in DOMAIN reg : y # r => rg[y] = reg[y]
  BY DEF With
<1>3. \A y \in DOMAIN rg : rg[y] \in [mem : {"sp", "stack", "heap"}, n : Nat]
  BY <1>1, <1>2
<1>4. RegsType(rg)
  BY <1>1, <1>2 DEF RegsType
<1>5. QED
  BY <1>1, <1>2, <1>3, <1>4

LEMMA AllocNote ==
  ASSUME NEW m \in {"sp", "stack", "heap"}, NEW k \in Nat
  PROVE  LET x == [mem |-> m, n |-> k]
         IN  x \in [mem : {"sp", "stack", "heap"}, n : Nat] /\ x.mem = m /\ x.n = k
OBVIOUS

LEMMA StepRunSave ==
  ASSUME IInv, RunSave
  PROVE  IInv'
<1> DEFINE r == Now.reg
           x == [mem |-> "sp", n |-> Len(stack)]
           rg == With(reg, r, x)
           o == Now.open
<1>1. /\ phase = "run" /\ Now.op = "save" /\ reg' = rg /\ ip' = ip + 1
      /\ phase' = phase /\ UNCHANGED gen /\ stack' = stack /\ heap' = heap
  BY DEF RunSave, At, Step
<1>2. /\ InstrOK(Now) /\ o \in Seq(Names) /\ stack \in Seq(Names) /\ Len(stack) \in Nat
      /\ RegsType(reg) /\ Scope(o, reg, stack) /\ TypeOK
  BY <1>1, RunTypes
<1>3. /\ ip + 1 \in 1 .. Len(code) /\ code[ip + 1].open \in Seq(Names)
      /\ Flow(Now, code[ip + 1].open)
  BY <1>1, RunNextInstr
<1>4. r \in Names /\ r[1] = "block"
  BY <1>1, <1>2 DEF InstrOK
<1>5. r \notin Elems(o) /\ code[ip + 1].open = Append(o, r)
  BY <1>1, <1>3 DEF Flow
<1>6. x \in [mem : {"sp", "stack", "heap"}, n : Nat] /\ x.mem = "sp" /\ x.n = Len(stack)
  BY <1>2, AllocNote
<1> HIDE DEF r, x, o
<1>7. /\ DOMAIN rg \subseteq Names /\ RegsType(rg) /\ r \in DOMAIN rg /\ rg[r] = x
      /\ \A y \in DOMAIN rg : rg[y] \in [mem : {"sp", "stack", "heap"}, n : Nat]
      /\ \A y \in DOMAIN reg : y # r => rg[y] = reg[y]
  BY <1>2, <1>4, <1>6, WithTypes
<1>8. Scope(o, rg, stack)
  BY <1>2, <1>5, ScopeKept
<1>9. \A j \in 1 .. Len(o) : rg[o[j]].n <= rg[r].n
  BY <1>6, <1>7, <1>8 DEF Scope
<1> HIDE DEF rg
<1>10. rg[r].n <= Len(stack)
  BY <1>2, <1>6, <1>7
<1>11. Scope(Append(o, r), rg, stack)
  BY <1>2, <1>4, <1>7, <1>8, <1>9, <1>10, ScopeAppend
<1>12. heap.lst \in Seq(Nat) /\ DOMAIN heap.live \subseteq Blocks
  BY <1>2, RunKept
<1>13. ip' \in 1 .. Len(code) /\ Scope(code[ip'].open, reg', stack')
  BY <1>1, <1>3, <1>5, <1>11
<1>14. QED
  BY <1>1, <1>2, <1>7, <1>12, <1>13, RunStep

LEMMA StepRunAlloca ==
  ASSUME IInv, RunAlloca
  PROVE  IInv'
<1> DEFINE r == Now.reg
           x == [mem |-> "stack", n |-> Len(stack) + 1]
           rg == With(reg, r, x)
           st == Append(stack, r)
           o == Now.open
<1>1. /\ phase = "run" /\ Now.op = "alloca" /\ reg' = rg /\ stack' = st /\ ip' = ip + 1
      /\ phase' = phase /\ UNCHANGED gen /\ heap' = heap
  BY DEF RunAlloca, At, Step
<1>2. /\ InstrOK(Now) /\ o \in Seq(Names) /\ stack \in Seq(Names) /\ Len(stack) \in Nat
      /\ RegsType(reg) /\ Scope(o, reg, stack) /\ TypeOK
  BY <1>1, RunTypes
<1>3. /\ ip + 1 \in 1 .. Len(code) /\ code[ip + 1].open \in Seq(Names)
      /\ Flow(Now, code[ip + 1].open)
  BY <1>1, RunNextInstr
<1>4. r \in Names
  BY <1>1, <1>2 DEF InstrOK
<1>5. r \notin Elems(o) /\ code[ip + 1].open = Append(o, r)
  BY <1>1, <1>3 DEF Flow
<1>6. x \in [mem : {"sp", "stack", "heap"}, n : Nat] /\ x.mem = "stack" /\ x.n = Len(stack) + 1
      /\ x.n >= 1
  <2>1. Len(stack) + 1 \in Nat /\ Len(stack) + 1 >= 1
    BY <1>2
  <2>2. QED
    BY <2>1, AllocNote
<1> HIDE DEF r, x, o
<1>7. /\ DOMAIN rg \subseteq Names /\ RegsType(rg) /\ r \in DOMAIN rg /\ rg[r] = x
      /\ \A y \in DOMAIN rg : rg[y] \in [mem : {"sp", "stack", "heap"}, n : Nat]
      /\ \A y \in DOMAIN reg : y # r => rg[y] = reg[y]
  BY <1>2, <1>4, <1>6, WithTypes
<1>8. /\ st \in Seq(Names) /\ Len(st) = Len(stack) + 1 /\ st[Len(stack) + 1] = r
      /\ \A k \in 1 .. Len(stack) : st[k] = stack[k]
  BY <1>2, <1>4
<1>9. Len(st) \in Nat /\ Len(stack) <= Len(st)
  BY <1>2, <1>8
<1> HIDE DEF st
<1>10. Scope(o, rg, st)
  BY <1>2, <1>5, <1>8, <1>9, ScopeKept
<1> HIDE DEF rg
<1>11. \A j \in 1 .. Len(o) : rg[o[j]].n <= rg[r].n
  BY <1>6, <1>7, <1>8, <1>10 DEF Scope
<1>12. rg[r].n <= Len(st) /\ rg[r].mem = "stack" /\ st[rg[r].n] = r
  BY <1>6, <1>7, <1>8, <1>9
<1>13. Scope(Append(o, r), rg, st)
  BY <1>2, <1>4, <1>7, <1>10, <1>11, <1>12, ScopeAppend
<1>14. heap.lst \in Seq(Nat) /\ DOMAIN heap.live \subseteq Blocks
  BY <1>2, RunKept
<1>15. ip' \in 1 .. Len(code) /\ Scope(code[ip'].open, reg', stack')
  BY <1>1, <1>3, <1>5, <1>13
<1>16. QED
  BY <1>1, <1>7, <1>8, <1>14, <1>15, RunStep

LEMMA StepRunRestore ==
  ASSUME IInv, RunRestore
  PROVE  IInv'
<1> DEFINE o == Now.open
           s == code[ip + 1].open
<1>1. /\ phase = "run" /\ Now.op = "restore" /\ ip' = ip + 1
      /\ stack' = SubSeq(stack, 1, reg[Now.reg].n)
      /\ phase' = phase /\ UNCHANGED gen /\ reg' = reg /\ heap' = heap
  BY DEF RunRestore, At, Step
<1>2. /\ o \in Seq(Names) /\ stack \in Seq(Names) /\ Len(stack) \in Nat
      /\ RegsType(reg) /\ Scope(o, reg, stack) /\ TypeOK
  BY <1>1, RunTypes
<1>3. ip + 1 \in 1 .. Len(code) /\ s \in Seq(Names) /\ Flow(Now, s)
  BY <1>1, RunNextInstr
<1>4. PICK p \in 1 .. Len(o) : o[p] = Now.reg /\ Len(s) <= p
  BY <1>1, <1>3 DEF Flow
<1>5. Begins(s, o)
  BY <1>1, <1>3 DEF Flow
<1> HIDE DEF o, s
<1>6. reg[o[p]].n \in 0 .. Len(stack) /\ Scope(s, reg, SubSeq(stack, 1, reg[o[p]].n))
  BY <1>2, <1>3, <1>4, <1>5, ScopeRestored
<1>7. stack' \in Seq(Names)
  <2>1. \A h \in 0 .. Len(stack) : SubSeq(stack, 1, h) \in Seq(Names)
    BY <1>2
  <2>2. QED
    BY <1>1, <1>4, <1>6, <2>1
<1>8. /\ DOMAIN reg \subseteq Names /\ heap.lst \in Seq(Nat) /\ DOMAIN heap.live \subseteq Blocks
      /\ \A y \in DOMAIN reg : reg[y] \in [mem : {"sp", "stack", "heap"}, n : Nat]
  BY <1>2, RunKept
<1>9. ip' \in 1 .. Len(code) /\ Scope(code[ip'].open, reg', stack')
  BY <1>1, <1>3, <1>4, <1>6 DEF s
<1>10. QED
  BY <1>1, <1>2, <1>7, <1>8, <1>9, RunStep

\* an instruction that changes neither the registers nor the stack
LEMMA StepRunUse ==
  ASSUME IInv, RunUse
  PROVE  IInv'
<1> DEFINE s == code[ip + 1].open
<1>1. /\ phase = "run" /\ Now.op \in {"use", "label"} /\ ip' = ip + 1
      /\ phase' = phase /\ UNCHANGED gen /\ stack' = stack /\ reg' = reg /\ heap' = heap
  BY DEF RunUse, At, Step
<1>2. /\ Now.open \in Seq(Names) /\ RegsType(reg) /\ Scope(Now.open, reg, stack) /\ TypeOK
  BY <1>1, RunTypes
<1>3. ip + 1 \in 1 .. Len(code) /\ s \in Seq(Names) /\ Begins(s, Now.open)
  <2>1. ip + 1 \in 1 .. Len(code) /\ s \in Seq(Names) /\ Flow(Now, s)
    BY <1>1, RunNextInstr
  <2>2. QED
    BY <1>1, <2>1 DEF Flow
<1> HIDE DEF s
<1>4. Scope(s, reg, stack)
  BY <1>2, <1>3, ScopeBegins
<1>5. /\ DOMAIN reg \subseteq Names /\ heap.lst \in Seq(Nat) /\ DOMAIN heap.live \subseteq Blocks
      /\ \A y \in DOMAIN reg : reg[y] \in [mem : {"sp", "stack", "heap"}, n : Nat]
      /\ stack \in Seq(Names)
  BY <1>2, RunKept
<1>6. ip' \in 1 .. Len(code) /\ Scope(code[ip'].open, reg', stack')
  BY <1>1, <1>3, <1>4 DEF s
<1>7. QED
  BY <1>1, <1>2, <1>5, <1>6, RunStep

\* in the finished code a label that a branch leads to is in one place
LEMMA BranchLands ==
  ASSUME IInv, phase = "run", NEW i \in 1 .. Len(code), code[i].op \in Branches,
         NEW k \in 1 .. Len(code[i].to)
  PROVE  \E j \in 1 .. Len(code) :
           /\ Labelled(code[i].to[k]) = {j}
           /\ code[j].meant = << code[i].meant[k] >> /\ Begins(code[j].open, code[i].open)
<1>1. BranchesOK /\ LabelsOK /\ PhaseOK
  BY DEF IInv, Generated
<1>2. visits = <<>>
  BY <1>1 DEF PhaseOK
<1>3. code[i] \in Elems(code)
  BY DEF Elems
<1>4. Leads(code[i].to[k], code[i].meant[k], code[i].open)
  BY <1>1, <1>3 DEF BranchesOK
<1>5. PICK y \in Elems(code) : LabelAt(y, code[i].to[k], code[i].meant[k], code[i].open)
  BY <1>2, <1>4 DEF Leads
<1>6. PICK j \in 1 .. Len(code) : code[j] = y
  BY DEF Elems
<1>7. /\ code[j].op = "label" /\ code[j].to = << code[i].to[k] >>
      /\ code[j].meant = << code[i].meant[k] >> /\ Begins(code[j].open, code[i].open)
  BY <1>5, <1>6 DEF LabelAt
<1>8. Labelled(code[i].to[k]) = {j}
  <2>1. j \in Labelled(code[i].to[k])
    BY <1>7 DEF Labelled
  <2>2. ASSUME NEW m \in Labelled(code[i].to[k]) PROVE m = j
    <3>1. m \in 1 .. Len(code) /\ code[m].op = "label" /\ code[m].to = code[j].to
      BY <1>7 DEF Labelled
    <3>2. QED
      BY <1>1, <1>7, <3>1 DEF LabelsOK, Once
  <2>3. QED
    BY <2>1, <2>2
<1>9. QED
  BY <1>7, <1>8

LEMMA BranchStep ==
  ASSUME IInv, phase = "run", phase' = phase, Now.op \in Branches, NEW k \in 1 .. Len(Now.to),
         NEW m \in Labelled(Now.to[k]), ip' = m,
         UNCHANGED gen, stack' = stack, reg' = reg, heap' = heap
  PROVE  IInv'
<1>1. /\ ip \in 1 .. Len(code) /\ Now = code[ip] /\ Now.open \in Seq(Names)
      /\ RegsType(reg) /\ Scope(Now.open, reg, stack) /\ TypeOK
      /\ \A i \in 1 .. Len(code) : code[i].open \in Seq(Names)
  BY RunTypes
<1>2. PICK j \in 1 .. Len(code) : Labelled(Now.to[k]) = {j} /\ Begins(code[j].open, Now.open)
  BY <1>1, BranchLands
<1>3. m = j
  BY <1>2
<1>4. Scope(code[m].open, reg, stack)
  BY <1>1, <1>2, <1>3, ScopeBegins
<1>5. /\ DOMAIN reg \subseteq Names /\ heap.lst \in Seq(Nat) /\ DOMAIN heap.live \subseteq Blocks
      /\ \A y \in DOMAIN reg : reg[y] \in [mem : {"sp", "stack", "heap"}, n : Nat]
      /\ stack \in Seq(Names)
  BY <1>1, RunKept
<1>6. ip' \in 1 .. Len(code) /\ Scope(code[ip'].open, reg', stack')
  BY <1>2, <1>3, <1>4
<1>7. QED
  BY <1>1, <1>5, <1>6, RunStep

LEMMA StepRunBranch ==
  ASSUME IInv, RunBranch \/ RunNext
  PROVE  IInv'
<1>1. /\ phase = "run" /\ phase' = phase /\ Now.op \in {"br", "next"}
      /\ UNCHANGED gen /\ stack' = stack /\ reg' = reg /\ heap' = heap
      /\ \E i \in Labelled(Now.to[1]) : ip' = i
  BY DEF RunBranch, RunNext, At
<1>2. InstrOK(Now)
  BY <1>1, RunTypes
<1>3. 1 \in 1 .. Len(Now.to) /\ Now.op \in Branches
  BY <1>1, <1>2 DEF InstrOK, Branches
<1>4. PICK m \in Labelled(Now.to[1]) : ip' = m
  BY <1>1
<1>5. QED
  BY <1>1, <1>3, <1>4, BranchStep

LEMMA StepRunCondBranch ==
  ASSUME IInv, RunCondBranch
  PROVE  IInv'
<1>1. /\ phase = "run" /\ phase' = phase /\ Now.op = "cbr"
      /\ UNCHANGED gen /\ stack' = stack /\ reg' = reg /\ heap' = heap
      /\ \E k \in {1, 2} : \E i \in Labelled(Now.to[k]) : ip' = i
  BY DEF RunCondBranch, At
<1>2. InstrOK(Now)
  BY <1>1, RunTypes
<1>3. 1 \in 1 .. Len(Now.to) /\ 2 \in 1 .. Len(Now.to) /\ Now.op \in Branches
  BY <1>1, <1>2 DEF InstrOK, Branches
<1>4. PICK k \in 1 .. Len(Now.to) : \E i \in Labelled(Now.to[k]) : ip' = i
  BY <1>1, <1>3
<1>5. PICK m \in Labelled(Now.to[k]) : ip' = m
  BY <1>4
<1>6. QED
  BY <1>1, <1>3, <1>5, BranchStep

LEMMA StepRunHeapAlloc ==
  ASSUME IInv, RunHeapAlloc
  PROVE  IInv'
<1> DEFINE r == Now.reg
           o == Now.open
           s == code[ip + 1].open
<1>1. /\ phase = "run" /\ Now.op \in {"heap", "call", "strcall"} /\ ip' = ip + 1
      /\ phase' = phase /\ UNCHANGED gen /\ stack' = stack
  BY DEF RunHeapAlloc, At, Step
<1>2. PICK a \in Blocks \ DOMAIN heap.live :
        heap' = ext_heap_alloc(heap, a, r) /\ reg' = With(reg, r, [mem |-> "heap", n |-> a])
  BY DEF RunHeapAlloc
<1>3. /\ InstrOK(Now) /\ o \in Seq(Names) /\ stack \in Seq(Names) /\ Len(stack) \in Nat
      /\ RegsType(reg) /\ Scope(o, reg, stack) /\ TypeOK
  BY <1>1, RunTypes
<1>4. ip + 1 \in 1 .. Len(code) /\ s \in Seq(Names) /\ Flow(Now, s)
  BY <1>1, RunNextInstr
<1>5. r \notin Elems(o) /\ Begins(s, o)
  BY <1>1, <1>4 DEF Flow
<1>6. r \in Names
  BY <1>1, <1>3 DEF InstrOK
<1>7. a \in Nat /\ a # 0
  BY ControlAssumption
<1> DEFINE x == [mem |-> "heap", n |-> a]
           rg == With(reg, r, x)
<1>8. x \in [mem : {"sp", "stack", "heap"}, n : Nat] /\ x.mem = "heap" /\ x.n = a
  BY <1>7, AllocNote
<1> HIDE DEF r, o, s, x
<1>9. /\ DOMAIN rg \subseteq Names /\ RegsType(rg)
      /\ \A y \in DOMAIN rg : rg[y] \in [mem : {"sp", "stack", "heap"}, n : Nat]
  BY <1>3, <1>6, <1>8, WithTypes
<1>10. Scope(o, rg, stack)
  BY <1>3, <1>5, ScopeKept
<1>11. reg' = rg
  BY <1>2 DEF x
<1> HIDE DEF rg
<1>12. Scope(s, rg, stack)
  BY <1>3, <1>4, <1>5, <1>10, ScopeBegins
<1>13. heap'.lst \in Seq(Nat) /\ DOMAIN heap'.live \subseteq Blocks
  <2>1. heap.lst \in Seq(Nat) /\ DOMAIN heap.live \subseteq Blocks
    BY <1>3, RunKept
  <2>2. heap'.lst = Append(heap.lst, a) /\ DOMAIN heap'.live = DOMAIN heap.live \union {a}
    BY <1>2, <1>7 DEF ext_heap_alloc, lst_append
  <2>3. QED
    BY <1>7, <2>1, <2>2
<1>14. ip' \in 1 .. Len(code) /\ Scope(code[ip'].open, reg', stack')
  BY <1>1, <1>4, <1>11, <1>12 DEF s
<1>15. QED
  BY <1>1, <1>3, <1>9, <1>11, <1>13, <1>14, RunStep

LEMMA StepRunFree ==
  ASSUME IInv, RunFree
  PROVE  IInv'
<1> DEFINE s == code[ip + 1].open
           a == reg[Now.reg].n
<1>1. /\ phase = "run" /\ Now.op = "free" /\ ip' = ip + 1 /\ heap' = ext_heap_free(heap, a)
      /\ phase' = phase /\ UNCHANGED gen /\ stack' = stack /\ reg' = reg
  BY DEF RunFree, At, Step
<1>2. /\ Now.open \in Seq(Names) /\ RegsType(reg) /\ Scope(Now.open, reg, stack) /\ TypeOK
  BY <1>1, RunTypes
<1>3. ip + 1 \in 1 .. Len(code) /\ s \in Seq(Names) /\ Begins(s, Now.open)
  <2>1. ip + 1 \in 1 .. Len(code) /\ s \in Seq(Names) /\ Flow(Now, s)
    BY <1>1, RunNextInstr
  <2>2. QED
    BY <1>1, <2>1 DEF Flow
<1> HIDE DEF s, a
<1>4. Scope(s, reg, stack)
  BY <1>2, <1>3, ScopeBegins
<1>5. /\ DOMAIN reg \subseteq Names /\ heap.lst \in Seq(Nat) /\ DOMAIN heap.live \subseteq Blocks
      /\ \A y \in DOMAIN reg : reg[y] \in [mem : {"sp", "stack", "heap"}, n : Nat]
      /\ stack \in Seq(Names)
  BY <1>2, RunKept
<1>6. heap'.lst \in Seq(Nat) /\ DOMAIN heap'.live \subseteq Blocks
  <2>1. lst_remove(heap.lst, a) \in Seq(Nat)
    BY <1>5, RemoveType
  <2>2. \/ heap' = heap
        \/ heap'.lst = lst_remove(heap.lst, a) /\ DOMAIN heap'.live = DOMAIN heap.live \ {a}
    BY <1>1 DEF ext_heap_free
  <2>3. QED
    BY <1>5, <2>1, <2>2
<1>7. ip' \in 1 .. Len(code) /\ Scope(code[ip'].open, reg', stack')
  BY <1>1, <1>3, <1>4 DEF s
<1>8. QED
  BY <1>1, <1>2, <1>5, <1>6, <1>7, RunStep

LEMMA StepRunEnds ==
  ASSUME IInv, RunFreeOther \/ RunReturn
  PROVE  IInv'
<1>1. /\ phase = "run" /\ phase' \in {"returned", "undefined"} /\ UNCHANGED gen
      /\ stack' = stack /\ reg' = reg /\ heap' = heap
  BY DEF RunFreeOther, RunReturn, At, run
<1>2. TypeOK /\ RegsType(reg)
  BY <1>1, RunTypes
<1>3. /\ DOMAIN reg \subseteq Names /\ heap.lst \in Seq(Nat) /\ DOMAIN heap.live \subseteq Blocks
      /\ \A y \in DOMAIN reg : reg[y] \in [mem : {"sp", "stack", "heap"}, n : Nat]
      /\ stack \in Seq(Names)
  BY <1>2, RunKept
<1>4. phase' # "run" /\ phase' \in {"run", "returned", "undefined"}
  BY <1>1
<1>5. QED
  BY <1>1, <1>2, <1>3, <1>4, RunStep

LEMMA StepStutter ==
  ASSUME IInv, UNCHANGED vars
  PROVE  IInv'
<1>1. /\ UNCHANGED gen /\ phase' = phase /\ ip' = ip /\ stack' = stack /\ reg' = reg
      /\ heap' = heap /\ entered' = entered
      /\ TypeOK /\ Generated /\ RegsOK /\ ScopesLive
  BY DEF vars, run, IInv
<1>2. /\ code' = code /\ visits' = visits /\ open' = open /\ labelCount' = labelCount
      /\ labelCountBlock' = labelCountBlock /\ varCount' = varCount
      /\ loopStartStack' = loopStartStack /\ loopEndStack' = loopEndStack
      /\ retty' = retty /\ dom' = dom
  BY <1>1 DEF gen, counters, loops
<1>3. PhaseOK'
  BY <1>1, <1>2 DEF Generated, PhaseOK, EmptyHeap
<1>4. Generated'
  BY <1>1, <1>3, GenUnchanged
<1>5. TypeOK'
  BY <1>1, <1>2 DEF TypeOK
<1>6. RegsOK' /\ ScopesLive'
  BY <1>1, <1>2 DEF RegsOK, ScopesLive, Live, Now
<1>7. QED
  BY <1>4, <1>5, <1>6 DEF IInv

LEMMA IInvStep == IInv /\ [Next]_vars => IInv'
<1> SUFFICES ASSUME IInv, [Next]_vars PROVE IInv'
  OBVIOUS
<1>1. CASE UNCHANGED vars
  BY <1>1, StepStutter
<1>2. CASE Generate
  <2>1. ASSUME NEW args \in ArgLists, NEW ty \in RetTypes, EnterFunc(args, ty) PROVE IInv'
    BY <2>1, StepEnterFunc
  <2>2. CASE LeaveFunc
    BY <2>2, StepLeaveFunc
  <2>3. CASE EnterStmts
    BY <2>3, StepEnterStmts
  <2>4. CASE LeaveStmts
    BY <2>4, StepLeaveStmts
  <2>5. ASSUME NEW v \in Vars, VarDecl(v) PROVE IInv'
    BY <2>5, StepVarDecl
  <2>6. ASSUME NEW v \in Vars, NEW e \in Exprs, Assign(v, e) PROVE IInv'
    BY <2>6, StepAssign
  <2>7. ASSUME NEW e \in Exprs, ExprStmt(e) PROVE IInv'
    BY <2>7, StepExprStmt
  <2>8. CASE Return
    BY <2>8, StepReturn
  <2>9. CASE EnterLoop
    BY <2>9, StepEnterLoop
  <2>10. CASE LeaveLoop
    BY <2>10, StepLeaveLoop
  <2>11. ASSUME NEW n \in Depths, LoopBreak(n) \/ LoopNext(n) PROVE IInv'
    BY <2>11, StepLoopJump
  <2>12. CASE LoopJumpError
    BY <2>12, StepLoopJumpError
  <2>13. ASSUME NEW else \in BOOLEAN, EnterCond(else) PROVE IInv'
    BY <2>13, StepEnterCond
  <2>14. CASE EnterElse
    BY <2>14, StepEnterElse
  <2>15. CASE LeaveCond
    BY <2>15, StepLeaveCond
  <2>16. QED
    BY <1>2, <2>1, <2>2, <2>3, <2>4, <2>5, <2>6, <2>7, <2>8, <2>9, <2>10, <2>11, <2>12,
       <2>13, <2>14, <2>15, Zenon DEF Generate
<1>3. CASE Run
  <2>1. CASE RunSave
    BY <2>1, StepRunSave
  <2>2. CASE RunRestore
    BY <2>2, StepRunRestore
  <2>3. CASE RunAlloca
    BY <2>3, StepRunAlloca
  <2>4. CASE RunUse
    BY <2>4, StepRunUse
  <2>5. CASE RunBranch \/ RunNext
    BY <2>5, StepRunBranch
  <2>6. CASE RunCondBranch
    BY <2>6, StepRunCondBranch
  <2>7. CASE RunHeapAlloc
    BY <2>7, StepRunHeapAlloc
  <2>8. CASE RunFree
    BY <2>8, StepRunFree
  <2>9. CASE RunFreeOther \/ RunReturn
    BY <2>9, StepRunEnds
  <2>10. QED
    BY <1>3, <2>1, <2>2, <2>3, <2>4, <2>5, <2>6, <2>7, <2>8, <2>9, Zenon DEF Run
<1>4. QED
  BY <1>1, <1>2, <1>3, Zenon DEF Next

LEMMA BranchesFinished ==
  ASSUME IInv
  PROVE  BranchesLinked
<1> SUFFICES ASSUME phase = "run",
                    NEW i \in 1 .. Len(code), code[i].op \in {"br", "next", "cbr"},
                    NEW k \in 1 .. Len(code[i].to)
             PROVE  \E j \in 1 .. Len(code) : /\ Labelled(code[i].to[k]) = {j}
                                              /\ code[j].meant = << code[i].meant[k] >>
  BY DEF BranchesLinked
<1>1. code[i].op \in Branches
  BY DEF Branches
<1>2. QED
  BY <1>1, BranchLands

-------------------------------------------------------------------------------
(***************************************************************************)
(* The theorems.                                                           *)
(***************************************************************************)
\* The code that is written is whole and what is in scope in it flows from instruction to
\* instruction, the open visits promise the labels that branches need, and the memory in
\* scope is allocated: what follows is a consequence of this.
THEOREM Inductive == Spec => []IInv
<1>1. Init => IInv
  BY InitIInv
<1>2. IInv /\ [Next]_vars => IInv'
  BY IInvStep
<1>3. QED
  BY <1>1, <1>2, PTL DEF Spec

\* Counters, stacks of labels, registers, the stack and the heap keep their types,
\* whatever function is generated and however it runs; the code never runs past its end.
THEOREM TypeCorrect == Spec => []TypeOK
<1>1. IInv => TypeOK
  BY DEF IInv
<1>2. QED
  BY <1>1, Inductive, PTL

\* However deep blocks, conditions and loops are nested and whatever breaks, nexts and
\* returns they hold, every branch of the finished code leads to the one place that the
\* statement it was written for means.
THEOREM BranchesCorrect == Spec => []BranchesLinked
<1>1. IInv => BranchesLinked
  BY BranchesFinished
<1>2. QED
  BY <1>1, Inductive, PTL

\* Wherever the code of any function is when it runs, by whatever branches it came
\* there, its variables and temporaries in scope are on the stack, and each restore
\* finds the height that its block or loop has saved.
THEOREM ScopesCorrect == Spec => []ScopesLive
<1>1. IInv => ScopesLive
  BY DEF IInv
<1>2. QED
  BY <1>1, Inductive, PTL

===============================================================================
