---------------------------- MODULE ZeroACAsmProofs ----------------------------
(***************************************************************************)
(* Proofs about ZeroACAsm: the finished program's jumps of if statements   *)
(* and loops, its returns, its calls and its accesses of constants lead to *)
(* where they were meant to, for every program.                            *)
(*                                                                         *)
(* The argument: what an address was written for ("want") tells which list *)
(* or which open visit may patch it, so the passes do not disturb each     *)
(* other; an address is patched exactly when its target becomes known, and *)
(* from then on neither the address nor the target changes.                *)
(* Only the jumps of break and next may be patched at the end of the wrong *)
(* loop, and only those of a loop that has another loop inside.            *)
(***************************************************************************)
EXTENDS ZeroACAsm, TLAPS, SequenceTheorems, FiniteSetTheorems

\* the open visits: a function, then conditions and loops, each one begun after
\* the condition of the one around it was written
VisitOK(i) ==
  LET v == visits[i] IN
  /\ v.begin <= pos
  /\ v.kind = "func" <=> i = 1
  /\ v.stage = "body" <=> i = 1
  /\ v.kind = "loop" => v.stage # "else"
  /\ i > 1 /\ v.stage # "cond" => v.begin < pos
  /\ i < Len(visits) => v.stage # "cond"
  /\ \A j \in 2 .. (i - 1) : visits[j].begin < v.begin

VisitsOK ==
  /\ \A i \in 1 .. Len(visits) : VisitOK(i)
  /\ phase = "done" => visits = <<>>

\* addresses are written at the end of the stream
Fresh == \A p \in DOMAIN off : p + AddrSize + 1 <= pos

\* targets that are known lie behind; those of open visits are not known yet
LabelsOK ==
  /\ \A t \in DOMAIN label :
       /\ t.to \in {"skip", "endif", "ret"} => t.at \in Nat /\ t.at < pos
       /\ t.to = "again" => label[t] = t.at
  /\ \A i \in 2 .. Len(visits) :
       /\ Target("endif", visits[i].begin) \notin DOMAIN label
       /\ visits[i].stage # "else" => Target("skip", visits[i].begin) \notin DOMAIN label
       /\ visits[i].kind = "loop" => Target("again", visits[i].begin) \in DOMAIN label
  /\ visits # <<>> => Target("ret", visits[1].begin) \notin DOMAIN label
  /\ \A f \in DOMAIN addr : /\ Target("func", f) \in DOMAIN label
                            /\ label[Target("func", f)] = addr[f]

\* the constant c begins at the place in the table that the offset a at p leads to
Holds(p, a, c) ==
  \E k \in 1 .. Len(table) : a = To(k - 1, p) /\ table[k] = [const |-> c, k |-> 1]

\* what the lists and the open visits hold was written for their targets
ListsOK ==
  /\ \A p \in endfunc_comefroms :
       visits # <<>> /\ p \in DOMAIN off /\ want[p] = Target("ret", visits[1].begin)
  /\ \A c \in begin_comefroms \union end_comefroms :
       c.pos \in DOMAIN off /\ want[c.pos].to \in {"begin", "end"}
  /\ \A c \in func_comefroms : c.pos \in DOMAIN off /\ want[c.pos] = Target("func", c.fn)
  /\ \A c \in const_addrs :
       /\ c.pos \in DOMAIN off /\ want[c.pos].to = "const"
       /\ Holds(c.pos, c.addr, want[c.pos].at)

SlotOK(i, to) ==
  /\ visits[i].slot \in DOMAIN off
  /\ want[visits[i].slot] = Target(to, visits[i].begin)
  /\ visits[i].before = visits[i].slot + AddrSize + 1

SlotsOK ==
  \A i \in 2 .. Len(visits) :
    /\ visits[i].stage = "block" => SlotOK(i, "skip")
    /\ visits[i].stage = "else"  => SlotOK(i, "endif")

\* every address waits for its target or leads to it
Waits(p, stage) == \E i \in 2 .. Len(visits) : visits[i].stage = stage /\ visits[i].slot = p

StructureOK ==
  \A p \in DOMAIN want :
    /\ want[p].to = "ret"   => p \in endfunc_comefroms \/ Lands(p)
    /\ want[p].to = "skip"  => Waits(p, "block") \/ Lands(p)
    /\ want[p].to = "endif" => Waits(p, "else") \/ Lands(p)
    /\ want[p].to = "again" => Lands(p)

Listed ==
  phase # "done" =>
    \A p \in DOMAIN want :
      /\ want[p].to = "func"  => \E c \in func_comefroms : c.pos = p
      /\ want[p].to = "const" => \E c \in const_addrs : c.pos = p

Core ==
  /\ TypeOK /\ VisitsOK /\ Fresh /\ LabelsOK /\ ListsOK /\ SlotsOK /\ StructureOK /\ Listed

IInv == Core /\ CallsLinked /\ ConstsLinked

VisitType ==
  [kind : {"func", "cond", "loop"}, stage : {"cond", "block", "else", "body"},
   begin : Nat, slot : Nat, before : Nat]

-------------------------------------------------------------------------------
(***************************************************************************)
(* Lemmas.                                                                 *)
(***************************************************************************)

\* Sizes of what is written are natural numbers.
LEMMA SizeFacts ==
  /\ AddrSize \in Nat /\ AddrSize >= 1 /\ IntSize \in Nat /\ IntSize >= 1
  /\ PushInt \in Nat /\ PushInt >= 3
BY AsmAssumption DEF AsmAssumption, PushInt

\* Types of the open visits.
LEMMA VisitFacts ==
  ASSUME TypeOK
  PROVE  /\ pos \in Nat /\ visits \in Seq(VisitType) /\ Len(visits) \in Nat
         /\ \A i \in 1 .. Len(visits) :
              visits[i] \in VisitType /\ visits[i].begin \in Nat /\ visits[i].slot \in Nat
         /\ visits # <<>> <=> Len(visits) >= 1
<1>1. pos \in Nat /\ visits \in Seq(VisitType)
  BY DEF TypeOK, VisitType
<1>2. \A i \in 1 .. Len(visits) : visits[i] \in VisitType
  BY <1>1
<1> QED
  BY <1>1, <1>2 DEF VisitType

\* An address that leads to its target still does when neither of them changes.
LEMMA LandsKept ==
  ASSUME NEW p, Lands(p), off'[p] = off[p], want'[p] = want[p],
         want[p] \in DOMAIN label =>
           want[p] \in DOMAIN label' /\ label'[want[p]] = label[want[p]]
  PROVE  Lands(p)'
BY DEF Lands, Reached

\* Nothing is claimed about the calls and constants of an unfinished program.
LEMMA Unfinished ==
  ASSUME phase' # "done"
  PROVE  CallsLinked' /\ ConstsLinked'
BY DEF CallsLinked, ConstsLinked

\* The position of the next address is unused, and the stream ends after it.
LEMMA NewSlot ==
  ASSUME TypeOK, Fresh, NEW a \in Nat, a >= pos
  PROVE  /\ JumpSlot(a) \in Nat /\ JumpSlot(a) \notin DOMAIN off
         /\ JumpEnd(a) \in Nat /\ JumpSlot(a) + AddrSize + 1 = JumpEnd(a)
         /\ JumpEnd(a) > a
BY SizeFacts DEF TypeOK, Fresh, JumpSlot, JumpEnd

\* Code without addresses moves only the end of the stream.
LEMMA WriteExprSafe ==
  ASSUME IInv, WriteExpr
  PROVE  IInv'
<1>1. /\ Core /\ phase = "code" /\ pos \in Nat /\ pos' \in Nat /\ pos' > pos
      /\ UNCHANGED <<phase, off, visits, symbols, loops, lists, want, label>>
  BY AsmAssumption DEF IInv, Core, TypeOK, WriteExpr, InExpr, AsmAssumption
<1> USE DEF symbols, loops, lists
<1>2. TypeOK'
  BY <1>1 DEF Core, TypeOK
<1>3. VisitsOK'
  BY <1>1, VisitFacts DEF Core, VisitsOK, VisitOK
<1>4. Fresh' /\ LabelsOK'
  BY <1>1, SizeFacts DEF Core, Fresh, LabelsOK, TypeOK
<1>5. ListsOK' /\ SlotsOK'
  BY <1>1 DEF Core, ListsOK, SlotsOK, SlotOK, Holds, To
<1>6. StructureOK' /\ Listed'
  BY <1>1 DEF Core, StructureOK, Listed, Waits, Lands, Reached
<1> QED
  BY <1>1, <1>2, <1>3, <1>4, <1>5, <1>6, Unfinished DEF IInv, Core

-------------------------------------------------------------------------------
(***************************************************************************)
(* Steps that write one address and patch none.                            *)
(***************************************************************************)

\* Writing an address at the end of the stream preserves the invariant if the new
\* address is put on the list that its target calls for.
LEMMA WriteSafe ==
  ASSUME IInv, phase # "done", phase' = "code",
         NEW a \in Nat, a >= pos, NEW o, NEW w,
         off' = With(off, JumpSlot(a), o), want' = With(want, JumpSlot(a), w),
         pos' \in Nat, pos' >= JumpEnd(a), UNCHANGED <<visits, label, addr>>,
         w.to \notin {"skip", "endif", "again"},
         w.to = "ret" => JumpSlot(a) \in endfunc_comefroms',
         w.to = "func" => \E c \in func_comefroms' : c.pos = JumpSlot(a),
         w.to = "const" => \E c \in const_addrs' : c.pos = JumpSlot(a),
         endfunc_comefroms \subseteq endfunc_comefroms',
         func_comefroms \subseteq func_comefroms', const_addrs \subseteq const_addrs',
         TypeOK', ListsOK'
  PROVE  IInv'
<1> DEFINE p == JumpSlot(a)
<1>1. /\ TypeOK /\ VisitsOK /\ Fresh /\ LabelsOK /\ SlotsOK /\ StructureOK /\ Listed
      /\ DOMAIN want = DOMAIN off
  BY DEF IInv, Core, TypeOK
<1>2. p \notin DOMAIN off /\ p + AddrSize + 1 = JumpEnd(a) /\ JumpEnd(a) > a /\ JumpEnd(a) \in Nat
  BY <1>1, NewSlot
<1>3. /\ DOMAIN off' = DOMAIN off \union {p} /\ DOMAIN want' = DOMAIN want \union {p}
      /\ want'[p] = w
      /\ \A q \in DOMAIN off : off'[q] = off[q] /\ want'[q] = want[q]
  BY <1>1, <1>2 DEF With
<1>4. VisitsOK'
  BY <1>1, <1>2, VisitFacts DEF VisitsOK, VisitOK
<1>5. Fresh'
  BY <1>1, <1>2, <1>3, SizeFacts, SMTT(30) DEF Fresh, TypeOK
<1>6. LabelsOK'
  BY <1>1, <1>2, VisitFacts DEF LabelsOK
<1>7. SlotsOK'
  BY <1>1, <1>3 DEF SlotsOK, SlotOK
<1>8. StructureOK'
  <2> SUFFICES ASSUME NEW q \in DOMAIN want'
               PROVE  /\ want'[q].to = "ret"   => q \in endfunc_comefroms' \/ Lands(q)'
                      /\ want'[q].to = "skip"  => Waits(q, "block")' \/ Lands(q)'
                      /\ want'[q].to = "endif" => Waits(q, "else")' \/ Lands(q)'
                      /\ want'[q].to = "again" => Lands(q)'
    BY DEF StructureOK
  <2>1. CASE q = p
    BY <1>3, <2>1
  <2>2. CASE q \in DOMAIN want
    <3>1. Lands(q) => Lands(q)'
      BY <1>1, <1>3, <2>2, LandsKept
    <3>2. want'[q] = want[q]
      BY <1>1, <1>3, <2>2
    <3>3. /\ Waits(q, "block") => Waits(q, "block")'
          /\ Waits(q, "else") => Waits(q, "else")'
      BY DEF Waits
    <3> QED
      BY <1>1, <2>2, <3>1, <3>2, <3>3 DEF StructureOK
  <2> QED
    BY <1>3, <2>1, <2>2
<1>9. Listed'
  BY <1>1, <1>3 DEF Listed
<1> QED
  BY <1>4, <1>5, <1>6, <1>7, <1>8, <1>9, Unfinished DEF IInv, Core

\* The lists stay right when the new address is put on the list of its target only.
LEMMA NewListsOK ==
  ASSUME IInv, NEW a \in Nat, a >= pos, NEW w, NEW x,
         DOMAIN off' = DOMAIN off \union {JumpSlot(a)}, want' = With(want, JumpSlot(a), w),
         visits # <<>> => visits' # <<>> /\ visits'[1].begin = visits[1].begin,
         \/ endfunc_comefroms' = endfunc_comefroms
         \/ /\ endfunc_comefroms' = endfunc_comefroms \union {JumpSlot(a)}
            /\ visits # <<>> /\ w = Target("ret", visits[1].begin),
         \/ begin_comefroms' \union end_comefroms' = begin_comefroms \union end_comefroms
         \/ /\ begin_comefroms' \union end_comefroms' =
                 begin_comefroms \union end_comefroms \union {x}
            /\ x.pos = JumpSlot(a) /\ w.to \in {"begin", "end"},
         \/ func_comefroms' = func_comefroms
         \/ /\ func_comefroms' = func_comefroms \union {x}
            /\ x.pos = JumpSlot(a) /\ w = Target("func", x.fn),
         \/ const_addrs' = const_addrs /\ table' = table
         \/ /\ const_addrs' = const_addrs \union {x}
            /\ x.pos = JumpSlot(a) /\ w.to = "const"
            /\ Len(table') \in Nat /\ Len(table) <= Len(table')
            /\ \A k \in 1 .. Len(table) : table'[k] = table[k]
            /\ \E k \in 1 .. Len(table') :
                 x.addr = To(k - 1, x.pos) /\ table'[k] = [const |-> w.at, k |-> 1]
  PROVE  ListsOK'
<1>1. TypeOK /\ Fresh /\ ListsOK /\ DOMAIN want = DOMAIN off /\ Len(table) \in Nat
  BY DEF IInv, Core, TypeOK
<1>2. want'[JumpSlot(a)] = w /\ \A q \in DOMAIN off : want'[q] = want[q]
  BY <1>1, NewSlot DEF With
<1>3. \A p \in endfunc_comefroms' :
        visits' # <<>> /\ p \in DOMAIN off' /\ want'[p] = Target("ret", visits'[1].begin)
  BY <1>1, <1>2 DEF ListsOK
<1>4. \A c \in begin_comefroms' \union end_comefroms' :
        c.pos \in DOMAIN off' /\ want'[c.pos].to \in {"begin", "end"}
  BY <1>1, <1>2 DEF ListsOK
<1>5. \A c \in func_comefroms' : c.pos \in DOMAIN off' /\ want'[c.pos] = Target("func", c.fn)
  BY <1>1, <1>2 DEF ListsOK
<1>6. \A c \in const_addrs' :
        /\ c.pos \in DOMAIN off' /\ want'[c.pos].to = "const"
        /\ \E k \in 1 .. Len(table') :
             c.addr = To(k - 1, c.pos) /\ table'[k] = [const |-> want'[c.pos].at, k |-> 1]
  <2> TAKE c \in const_addrs'
  <2>1. CASE c \in const_addrs
    <3>1. /\ c.pos \in DOMAIN off /\ want'[c.pos] = want[c.pos] /\ want[c.pos].to = "const"
          /\ Holds(c.pos, c.addr, want[c.pos].at)
      BY <1>1, <1>2, <2>1 DEF ListsOK
    <3>2. PICK k \in 1 .. Len(table) :
            c.addr = To(k - 1, c.pos) /\ table[k] = [const |-> want[c.pos].at, k |-> 1]
      BY <3>1 DEF Holds
    <3>3. k \in 1 .. Len(table') /\ table'[k] = table[k]
      BY <1>1, <3>2
    <3> QED
      BY <3>1, <3>2, <3>3
  <2>2. CASE c \notin const_addrs
    BY <1>2, <2>2
  <2> QED
    BY <2>1, <2>2
<1> QED
  BY <1>3, <1>4, <1>5, <1>6 DEF ListsOK, Holds

\* Types of the stream when an address is written.
LEMMA StreamTyped ==
  ASSUME TypeOK, Fresh, NEW a \in Nat, a >= pos, NEW o \in Int, NEW w, w.to \in Kinds,
         off' = With(off, JumpSlot(a), o), want' = With(want, JumpSlot(a), w)
  PROVE  /\ DOMAIN off' \subseteq Nat /\ \A p \in DOMAIN off' : off'[p] \in Int
         /\ DOMAIN want' = DOMAIN off' /\ \A p \in DOMAIN want' : want'[p].to \in Kinds
         /\ DOMAIN off \subseteq DOMAIN off'
BY NewSlot DEF TypeOK, With

\* The start-up code's call and those of functions.
LEMMA WriteCallSafe ==
  ASSUME IInv, phase # "done", phase' = "code", NEW f \in Funcs, NEW n \in Nat,
         WriteCall(f, n), pos' \in Nat, pos' >= JumpEnd(pos + PushInt)
  PROVE  IInv'
<1> DEFINE a == pos + PushInt
           p == JumpSlot(a)
           w == Target("func", f)
<1>1. /\ off' = With(off, p, To(0, p)) /\ want' = With(want, p, w)
      /\ func_comefroms' = func_comefroms \union {[fn |-> f, pos |-> p, args |-> n]}
      /\ UNCHANGED <<visits, symbols, loops, begin_comefroms, end_comefroms,
                     endfunc_comefroms, const_addrs, label>>
  BY DEF WriteCall
<1>2. TypeOK /\ Fresh /\ pos \in Nat
  BY DEF IInv, Core, TypeOK
<1>3. a \in Nat /\ a >= pos /\ p \in Nat
  BY <1>2, SizeFacts, NewSlot
<1>4. To(0, p) \in Int /\ w.to = "func" /\ w.to \in Kinds
  BY <1>3, SizeFacts DEF To, Kinds, Target
<1> HIDE DEF a, p, w
<1>5. TypeOK'
  <2>1. /\ DOMAIN off' \subseteq Nat /\ \A q \in DOMAIN off' : off'[q] \in Int
        /\ DOMAIN want' = DOMAIN off' /\ \A q \in DOMAIN want' : want'[q].to \in Kinds
        /\ DOMAIN off \subseteq DOMAIN off'
    BY <1>1, <1>2, <1>3, <1>4, StreamTyped DEF p
  <2>2. func_comefroms' \subseteq [fn : Funcs, pos : Nat, args : Nat]
    BY <1>1, <1>2, <1>3 DEF TypeOK
  <2> QED
    BY <1>1, <1>2, <1>3, <2>1, <2>2 DEF TypeOK, symbols, loops
<1>6. ListsOK'
  <2>1. DOMAIN off' = DOMAIN off \union {p}
    BY <1>1 DEF With
  <2>2. w = Target("func", [fn |-> f, pos |-> p, args |-> n].fn)
    BY DEF w
  <2> QED
    BY <1>1, <1>3, <2>1, <2>2, NewListsOK DEF p, symbols
<1>7. /\ \E c \in func_comefroms' : c.pos = p
      /\ UNCHANGED <<addr, visits, label, endfunc_comefroms, const_addrs>>
      /\ func_comefroms \subseteq func_comefroms'
  <2>1. [fn |-> f, pos |-> p, args |-> n] \in func_comefroms'
    BY <1>1
  <2> QED
    BY <1>1, <2>1 DEF symbols
<1> QED
  BY <1>1, <1>3, <1>4, <1>5, <1>6, <1>7, WriteSafe DEF p, a

\* The start-up code's call of the main function is put on the list of calls.
LEMMA StartSafe ==
  ASSUME IInv, Start
  PROVE  IInv'
<1>1. pos \in Nat /\ Main \in Funcs /\ WriteCall(Main, 0) /\ phase # "done" /\ phase' = "code"
      /\ pos' = JumpEnd(pos + PushInt) + 1
  BY AsmAssumption DEF IInv, Core, TypeOK, Start, AsmAssumption
<1> QED
  BY <1>1, SizeFacts, WriteCallSafe DEF JumpEnd

\* Every other call is put on the list of calls.
LEMMA CallSafe ==
  ASSUME IInv, NEW f \in Funcs, NEW n, Call(f, n)
  PROVE  IInv'
<1>1. /\ pos \in Nat /\ n \in Nat /\ WriteCall(f, n) /\ phase # "done" /\ phase' = "code"
      /\ pos' = JumpEnd(pos + PushInt)
  BY AsmAssumption DEF IInv, Core, TypeOK, Call, InExpr, AsmAssumption
<1> QED
  BY <1>1, SizeFacts, WriteCallSafe DEF JumpEnd

\* A return's jump is put on the list of its function.
LEMMA ReturnSafe ==
  ASSUME IInv, Return
  PROVE  IInv'
<1> DEFINE p == JumpSlot(pos)
           w == Target("ret", visits[1].begin)
<1>1. /\ phase = "code" /\ phase' = "code" /\ visits # <<>>
      /\ off' = With(off, p, 0) /\ want' = With(want, p, w)
      /\ endfunc_comefroms' = endfunc_comefroms \union {p}
      /\ pos' = JumpEnd(pos)
      /\ UNCHANGED <<visits, symbols, loops, begin_comefroms, end_comefroms,
                     func_comefroms, const_addrs, label>>
  BY DEF Return, InStmt, InExpr
<1>2. TypeOK /\ Fresh /\ pos \in Nat /\ pos >= pos
  BY DEF IInv, Core, TypeOK
<1>3. p \in Nat /\ pos' \in Nat /\ pos' >= JumpEnd(pos)
  BY <1>1, <1>2, NewSlot
<1>4. w.to = "ret" /\ w.to \in Kinds
  BY DEF Kinds, Target
<1>5. TypeOK'
  <2>1. /\ DOMAIN off' \subseteq Nat /\ \A q \in DOMAIN off' : off'[q] \in Int
        /\ DOMAIN want' = DOMAIN off' /\ \A q \in DOMAIN want' : want'[q].to \in Kinds
        /\ DOMAIN off \subseteq DOMAIN off'
    BY <1>1, <1>2, <1>4, StreamTyped
  <2>2. p \in DOMAIN off'
    BY <1>1 DEF With
  <2> HIDE DEF p, w
  <2> QED
    BY <1>1, <1>2, <1>3, <2>1, <2>2 DEF TypeOK, symbols, loops
<1>6. ListsOK'
  <2>1. DOMAIN off' = DOMAIN off \union {p}
    BY <1>1 DEF With
  <2> QED
    BY <1>1, <1>2, <2>1, NewListsOK DEF symbols
<1> HIDE DEF p, w
<1>7. /\ p \in endfunc_comefroms' /\ endfunc_comefroms \subseteq endfunc_comefroms'
      /\ UNCHANGED <<addr, visits, label, func_comefroms, const_addrs>>
  BY <1>1 DEF symbols
<1> QED
  BY <1>1, <1>2, <1>3, <1>4, <1>5, <1>6, <1>7, WriteSafe DEF p

\* The jumps of break and next are put on lists that hold no other jumps.
LEMMA LoopJumpSafe ==
  ASSUME IInv, NEW to \in {"begin", "end"}, NEW n \in Int, LoopJump(to, n),
         begin_comefroms' \union end_comefroms' =
           begin_comefroms \union end_comefroms \union {Saved(n)},
         begin_comefroms' \subseteq begin_comefroms \union {Saved(n)},
         end_comefroms' \subseteq end_comefroms \union {Saved(n)}
  PROVE  IInv'
<1> DEFINE p == JumpSlot(pos)
           w == Meant(to, n)
<1>1. /\ phase = "code" /\ phase' = "code" /\ cur_loop # <<>>
      /\ off' = With(off, p, 0) /\ want' = With(want, p, w)
      /\ pos' = JumpEnd(pos)
      /\ UNCHANGED <<visits, symbols, loops, endfunc_comefroms, func_comefroms,
                     const_addrs, label>>
  BY DEF LoopJump, InStmt, InExpr
<1>2. TypeOK /\ Fresh /\ pos \in Nat /\ pos >= pos
  BY DEF IInv, Core, TypeOK
<1>3. p \in Nat /\ pos' \in Nat /\ pos' >= JumpEnd(pos)
  BY <1>1, <1>2, NewSlot
<1>4. w.to = to /\ w.to \in Kinds
  BY DEF Kinds, Target, Meant
<1>5. Saved(n) \in Jumps /\ Saved(n).pos = p
  <2>1. cur_loop \in Seq(Nat) /\ Len(cur_loop) >= 1
    BY <1>1, <1>2 DEF TypeOK
  <2>2. Len(cur_loop) - Reduced(n) \in 1 .. Len(cur_loop)
    BY <2>1 DEF Reduced
  <2>3. cur_loop[Len(cur_loop) - Reduced(n)] \in Nat
    BY <2>1, <2>2
  <2> QED
    BY <1>3, <2>3 DEF Saved, Jumps
<1> HIDE DEF p, w
<1>6. TypeOK'
  <2>1. /\ DOMAIN off' \subseteq Nat /\ \A q \in DOMAIN off' : off'[q] \in Int
        /\ DOMAIN want' = DOMAIN off' /\ \A q \in DOMAIN want' : want'[q].to \in Kinds
        /\ DOMAIN off \subseteq DOMAIN off'
    BY <1>1, <1>2, <1>4, StreamTyped DEF p
  <2>2. begin_comefroms' \subseteq Jumps /\ end_comefroms' \subseteq Jumps
    BY <1>2, <1>5 DEF TypeOK
  <2> QED
    BY <1>1, <1>2, <1>3, <2>1, <2>2 DEF TypeOK, symbols, loops
<1>7. ListsOK'
  <2>1. DOMAIN off' = DOMAIN off \union {p}
    BY <1>1 DEF With
  <2> QED
    BY <1>1, <1>2, <1>4, <1>5, <2>1, NewListsOK DEF symbols, p
<1> QED
  BY <1>1, <1>2, <1>3, <1>4, <1>6, <1>7, WriteSafe DEF p, symbols

\* The jump of a break statement disturbs no other address.
LEMMA LoopBreakSafe ==
  ASSUME IInv, NEW n \in Int, LoopBreak(n)
  PROVE  IInv'
BY LoopJumpSafe DEF LoopBreak

\* The jump of a next statement disturbs no other address.
LEMMA LoopNextSafe ==
  ASSUME IInv, NEW n \in Int, LoopNext(n)
  PROVE  IInv'
BY LoopJumpSafe DEF LoopNext

\* A constant is in the table at the position that AddConst gives it.
LEMMA ConstTabFacts ==
  ASSUME TypeOK, NEW c \in Consts, table' = AddConst(c)
  PROVE  /\ table' \in Seq([const : Consts, k : Nat]) /\ ConstPos(c) \in Nat
         /\ Len(table') \in Nat /\ Len(table) <= Len(table')
         /\ \A k \in 1 .. Len(table) : table'[k] = table[k]
         /\ ConstPos(c) + 1 \in 1 .. Len(table')
         /\ table'[ConstPos(c) + 1] = [const |-> c, k |-> 1]
<1> DEFINE S == [const : Consts, k : Nat]
           new == [k \in 1 .. ConstSize[c] |-> [const |-> c, k |-> k]]
<1>1. table \in Seq(S) /\ Len(table) \in Nat
  BY DEF TypeOK
<1>2. CASE \E i \in 1 .. Len(table) : table[i] = [const |-> c, k |-> 1]
  <2>1. PICK i \in 1 .. Len(table) :
          table[i] = [const |-> c, k |-> 1] /\ ConstPos(c) = i - 1
    BY <1>2 DEF ConstPos
  <2> QED
    BY <1>1, <2>1 DEF AddConst
<1>3. CASE ~ \E i \in 1 .. Len(table) : table[i] = [const |-> c, k |-> 1]
  <2>1. ConstSize[c] \in Nat /\ ConstSize[c] >= 1
    BY AsmAssumption DEF AsmAssumption
  <2>2. new \in Seq(S) /\ Len(new) = ConstSize[c] /\ new[1] = [const |-> c, k |-> 1]
    <3>1. new \in [1 .. ConstSize[c] -> S]
      BY <2>1
    <3>2. new[1] = [const |-> c, k |-> 1] /\ DOMAIN new = 1 .. ConstSize[c]
      BY <2>1
    <3> HIDE DEF new
    <3>3. new \in Seq(S)
      BY <2>1, <3>1, SeqDef
    <3>4. Len(new) \in Nat /\ 1 .. Len(new) = 1 .. ConstSize[c]
      BY <3>2, <3>3, LenProperties
    <3> QED
      BY <2>1, <3>2, <3>3, <3>4
  <2>3. ConstPos(c) = Len(table)
    BY <1>3 DEF ConstPos
  <2>4. ~ (ConstPos(c) < Len(table))
    BY <1>1, <2>3
  <2>5. table' = table \o new
    BY <2>4 DEF AddConst
  <2> HIDE DEF new
  <2>6. /\ table \o new \in Seq(S) /\ Len(table \o new) = Len(table) + Len(new)
        /\ \A k \in 1 .. Len(table) : (table \o new)[k] = table[k]
        /\ (table \o new)[Len(table) + 1] = new[1]
    BY <1>1, <2>1, <2>2, ConcatProperties
  <2> QED
    BY <1>1, <2>1, <2>2, <2>3, <2>5, <2>6
<1> QED
  BY <1>2, <1>3

\* The address of a constant is put on the list together with its position.
LEMMA PushConstSafe ==
  ASSUME IInv, NEW c \in Consts, NEW extcall \in {0, 1}, PushConst(c, extcall)
  PROVE  IInv'
<1> DEFINE p == JumpSlot(pos)
           w == Target("const", c)
           o == To(ConstPos(c), p)
           x == [pos |-> p, addr |-> o]
<1>1. /\ phase = "code" /\ phase' = "code"
      /\ off' = With(off, p, o) /\ want' = With(want, p, w)
      /\ const_addrs' = const_addrs \union {x}
      /\ table' = AddConst(c) /\ pos' = JumpEnd(pos) + extcall
      /\ UNCHANGED <<visits, addr, loops, begin_comefroms, end_comefroms,
                     endfunc_comefroms, func_comefroms, label>>
  BY DEF PushConst, InExpr
<1>2. TypeOK /\ Fresh /\ pos \in Nat /\ pos >= pos
  BY DEF IInv, Core, TypeOK
<1>3. p \in Nat /\ pos' \in Nat /\ pos' >= JumpEnd(pos)
  BY <1>1, <1>2, NewSlot
<1>4. w.to = "const" /\ w.at = c /\ w.to \in Kinds
  BY DEF Kinds, Target
<1>5. /\ table' \in Seq([const : Consts, k : Nat]) /\ ConstPos(c) \in Nat
      /\ Len(table') \in Nat /\ Len(table) <= Len(table')
      /\ \A k \in 1 .. Len(table) : table'[k] = table[k]
      /\ ConstPos(c) + 1 \in 1 .. Len(table')
      /\ table'[ConstPos(c) + 1] = [const |-> c, k |-> 1]
  BY <1>1, <1>2, ConstTabFacts
<1>6. o \in Int /\ x.pos = p /\ x.addr = o /\ x \in [pos : Nat, addr : Int]
  BY <1>3, <1>5, SizeFacts DEF To
<1>7. \E k \in 1 .. Len(table') :
        x.addr = To(k - 1, x.pos) /\ table'[k] = [const |-> w.at, k |-> 1]
  <2>1. (ConstPos(c) + 1) - 1 = ConstPos(c)
    BY <1>5
  <2> QED
    BY <1>4, <1>5, <1>6, <2>1
<1> HIDE DEF p, w, o, x
<1>8. TypeOK'
  <2>1. /\ DOMAIN off' \subseteq Nat /\ \A q \in DOMAIN off' : off'[q] \in Int
        /\ DOMAIN want' = DOMAIN off' /\ \A q \in DOMAIN want' : want'[q].to \in Kinds
        /\ DOMAIN off \subseteq DOMAIN off'
    BY <1>1, <1>2, <1>4, <1>6, StreamTyped DEF p
  <2>2. const_addrs' \subseteq [pos : Nat, addr : Int]
    BY <1>1, <1>2, <1>6 DEF TypeOK
  <2> QED
    BY <1>1, <1>2, <1>3, <1>5, <2>1, <2>2 DEF TypeOK, loops
<1>9. ListsOK'
  <2>1. DOMAIN off' = DOMAIN off \union {p}
    BY <1>1 DEF With
  <2> QED
    BY <1>1, <1>2, <1>4, <1>5, <1>6, <1>7, <2>1, NewListsOK DEF p
<1>10. \E e \in const_addrs' : e.pos = p
  BY <1>1, <1>6
<1> QED
  BY <1>1, <1>2, <1>3, <1>4, <1>8, <1>9, <1>10, WriteSafe DEF p

-------------------------------------------------------------------------------
(***************************************************************************)
(* Steps that open a construct.                                            *)
(***************************************************************************)
\* A function's address becomes known while no other construct is open.
LEMMA EnterFuncSafe ==
  ASSUME IInv, NEW f \in Funcs, EnterFunc(f)
  PROVE  IInv'
<1> DEFINE v == [Visit("func", pos) EXCEPT !.stage = "body"]
           t == Target("func", f)
<1>1. /\ phase = "code" /\ visits = <<>> /\ f \notin DOMAIN addr
      /\ addr' = With(addr, f, pos) /\ visits' = <<v>> /\ label' = With(label, t, pos)
      /\ UNCHANGED <<phase, pos, off, table, loops, lists, want>>
  BY DEF EnterFunc
<1>2. TypeOK /\ VisitsOK /\ LabelsOK /\ ListsOK /\ StructureOK /\ Core /\ pos \in Nat
  BY DEF IInv, Core, TypeOK
<1>3. /\ v \in VisitType /\ v.kind = "func" /\ v.stage = "body" /\ v.begin = pos
      /\ Len(visits') = 1 /\ visits'[1] = v
  BY <1>1, <1>2 DEF VisitType, Visit
<1>4. t \in Places /\ t.to = "func"
  BY DEF Places, Kinds, Target
<1> HIDE DEF v
<1>5. TypeOK'
  <2>1. DOMAIN addr' \subseteq Funcs /\ \A g \in DOMAIN addr' : addr'[g] \in Nat
    BY <1>1, <1>2 DEF TypeOK, With
  <2>2. DOMAIN label' \subseteq Places /\ \A q \in DOMAIN label' : label'[q] \in Nat
    BY <1>1, <1>2, <1>4 DEF TypeOK, With
  <2>3. visits' \in Seq(VisitType)
    BY <1>1, <1>3
  <2> QED
    BY <1>1, <1>2, <2>1, <2>2, <2>3 DEF TypeOK, VisitType, loops, lists
<1>6. VisitsOK'
  BY <1>1, <1>2, <1>3 DEF VisitsOK, VisitOK
<1>7. LabelsOK'
  <2>1. \A q \in DOMAIN label' : /\ q.to \in {"skip", "endif", "ret"} => q.at \in Nat /\ q.at < pos'
                                 /\ q.to = "again" => label'[q] = q.at
    BY <1>1, <1>2, <1>4 DEF LabelsOK, With
  <2>2. Target("ret", visits'[1].begin) \notin DOMAIN label'
    BY <1>1, <1>2, <1>3, <2>1 DEF Target
  <2>3. \A g \in DOMAIN addr' : /\ Target("func", g) \in DOMAIN label'
                                /\ label'[Target("func", g)] = addr'[g]
    BY <1>1, <1>2 DEF LabelsOK, With, Target
  <2> QED
    BY <1>3, <2>1, <2>2, <2>3 DEF LabelsOK
<1>8. ListsOK'
  BY <1>1, <1>2 DEF ListsOK, Holds, lists
<1>9. Fresh' /\ SlotsOK' /\ Listed'
  BY <1>1, <1>2, <1>3 DEF Core, Fresh, SlotsOK, Listed, lists
<1>10. StructureOK'
  <2> SUFFICES ASSUME NEW q \in DOMAIN want
               PROVE  /\ want[q].to = "ret"   => q \in endfunc_comefroms' \/ Lands(q)'
                      /\ want[q].to \in {"skip", "endif", "again"} => Lands(q)'
    BY <1>1 DEF StructureOK
  <2>1. ~ Waits(q, "block") /\ ~ Waits(q, "else")
    BY <1>1 DEF Waits
  <2>2. Lands(q) /\ want[q].to # "func" => Lands(q)'
    BY <1>1, <1>4, LandsKept DEF With
  <2> QED
    BY <1>1, <1>2, <2>1, <2>2 DEF StructureOK, lists
<1> QED
  BY <1>1, <1>5, <1>6, <1>7, <1>8, <1>9, <1>10, Unfinished DEF IInv, Core

\* A new visit on top of the open ones.
LEMMA PushVisit ==
  ASSUME IInv, Block, NEW k \in {"cond", "loop"}, visits' = Append(visits, Visit(k, pos)),
         UNCHANGED <<pos, phase>>
  PROVE  /\ visits' \in Seq(VisitType) /\ Len(visits') = Len(visits) + 1 /\ Len(visits) >= 1
         /\ \A i \in 1 .. Len(visits) : visits'[i] = visits[i]
         /\ visits'[Len(visits) + 1] = Visit(k, pos)
         /\ VisitsOK'
<1> DEFINE v == Visit(k, pos)
           n == Len(visits)
<1>1. TypeOK /\ VisitsOK /\ pos \in Nat /\ visits \in Seq(VisitType) /\ n \in Nat /\ n >= 1
  BY VisitFacts DEF IInv, Core, Block, InStmt, InExpr
<1>2. v \in VisitType /\ v.kind = k /\ v.stage = "cond" /\ v.begin = pos
  BY <1>1 DEF VisitType, Visit
<1> HIDE DEF v
<1>3. /\ visits' \in Seq(VisitType) /\ Len(visits') = n + 1
      /\ \A i \in 1 .. n : visits'[i] = visits[i]
      /\ visits'[n + 1] = v
  BY <1>1, <1>2 DEF v
<1>4. phase = "code" /\ visits[n].stage # "cond"
  BY DEF Block, InStmt, InExpr, Top
<1>5. \A i \in 1 .. Len(visits') : VisitOK(i)'
  <2> TAKE i \in 1 .. Len(visits')
  <2>1. CASE i \in 1 .. n
    <3>1. \A j \in 2 .. (i - 1) : visits'[j] = visits[j]
      BY <1>1, <1>3, <2>1
    <3> QED
      BY <1>1, <1>3, <1>4, <2>1, <3>1 DEF VisitsOK, VisitOK
  <2>2. CASE i = n + 1
    <3>1. \A j \in 2 .. n : visits[j].stage # "cond" /\ visits[j].begin < pos
      BY <1>1, <1>4 DEF VisitsOK, VisitOK
    <3> QED
      BY <1>1, <1>2, <1>3, <2>2, <3>1 DEF VisitOK
  <2> QED
    BY <1>1, <1>3, <2>1, <2>2
<1> QED
  BY <1>1, <1>3, <1>4, <1>5 DEF VisitsOK, v

\* A new condition has a begin that no open visit or known target has.
LEMMA EnterCondSafe ==
  ASSUME IInv, EnterCond
  PROVE  IInv'
<1> DEFINE n == Len(visits)
           v == Visit("cond", pos)
<1>1. /\ Block /\ phase = "code" /\ visits' = Append(visits, v)
      /\ UNCHANGED <<phase, pos, off, symbols, loops, lists, want, label>>
  BY DEF EnterCond, Block, InStmt, InExpr
<1>2. Core /\ TypeOK /\ pos \in Nat /\ n \in Nat
  BY VisitFacts DEF IInv, Core
<1>3. /\ visits' \in Seq(VisitType) /\ Len(visits') = n + 1 /\ n >= 1
      /\ \A i \in 1 .. n : visits'[i] = visits[i]
      /\ visits'[n + 1] = v /\ VisitsOK'
  BY <1>1, PushVisit
<1>4. v.kind = "cond" /\ v.stage = "cond" /\ v.begin = pos
  BY DEF Visit
<1> HIDE DEF v
<1>5. TypeOK'
  BY <1>1, <1>2, <1>3 DEF TypeOK, VisitType, symbols, loops, lists
<1>6. LabelsOK'
  <2>1. \A t \in DOMAIN label : t.to \in {"skip", "endif", "ret"} => t.at # pos
    BY <1>2 DEF Core, LabelsOK
  <2> QED
    BY <1>1, <1>2, <1>3, <1>4, <2>1 DEF Core, LabelsOK, Target, symbols
<1>7. ListsOK'
  BY <1>1, <1>2, <1>3 DEF Core, ListsOK, Holds, lists, symbols
<1>8. SlotsOK'
  BY <1>1, <1>2, <1>3, <1>4 DEF Core, SlotsOK, SlotOK
<1>9. StructureOK'
  <2>1. \A q : /\ Waits(q, "block") => Waits(q, "block")'
               /\ Waits(q, "else") => Waits(q, "else")'
    BY <1>2, <1>3 DEF Waits
  <2>2. \A q : Lands(q) => Lands(q)'
    BY <1>1 DEF Lands, Reached
  <2> QED
    BY <1>1, <1>2, <2>1, <2>2 DEF Core, StructureOK, lists
<1>10. Fresh' /\ Listed'
  BY <1>1, <1>2 DEF Core, Fresh, Listed, lists
<1> QED
  BY <1>1, <1>3, <1>5, <1>6, <1>7, <1>8, <1>9, <1>10, Unfinished DEF IInv, Core

\* A new loop has a begin that no open visit or known target has.
LEMMA EnterLoopSafe ==
  ASSUME IInv, EnterLoop
  PROVE  IInv'
<1> DEFINE n == Len(visits)
           v == Visit("loop", pos)
           t == Target("begin", pos)
           u == Target("again", pos)
<1>1. /\ Block /\ phase = "code" /\ visits' = Append(visits, v)
      /\ loop_ident' = loop_ident + 1 /\ cur_loop' = Append(cur_loop, loop_ident')
      /\ label' = With(With(label, t, pos), u, pos)
      /\ UNCHANGED <<phase, pos, off, symbols, lists, want>>
  BY DEF EnterLoop, Block, InStmt, InExpr
<1>2. Core /\ TypeOK /\ pos \in Nat /\ n \in Nat
  BY VisitFacts DEF IInv, Core
<1>3. /\ visits' \in Seq(VisitType) /\ Len(visits') = n + 1 /\ n >= 1
      /\ \A i \in 1 .. n : visits'[i] = visits[i]
      /\ visits'[n + 1] = v /\ VisitsOK'
  BY <1>1, PushVisit
<1>4. /\ v.kind = "loop" /\ v.stage = "cond" /\ v.begin = pos
      /\ t \in Places /\ t.to = "begin" /\ u \in Places /\ u.to = "again" /\ u.at = pos
  BY <1>2 DEF Visit, Target, Places, Kinds
<1> HIDE DEF v
<1>5. /\ DOMAIN label' = DOMAIN label \union {t, u}
      /\ label'[t] = pos /\ label'[u] = pos
      /\ \A q \in DOMAIN label : q.to # "begin" => label'[q] = label[q]
  <2>1. \A q \in DOMAIN label : q = u => label[q] = pos
    BY <1>2, <1>4 DEF Core, LabelsOK
  <2> QED
    BY <1>1, <1>4, <2>1 DEF With
<1>6. TypeOK'
  <2>1. DOMAIN label' \subseteq Places /\ \A q \in DOMAIN label' : label'[q] \in Nat
    BY <1>1, <1>2, <1>4 DEF TypeOK, With
  <2>2. loop_ident' \in Nat /\ cur_loop' \in Seq(Nat)
    BY <1>1, <1>2 DEF TypeOK
  <2> QED
    BY <1>1, <1>2, <1>3, <2>1, <2>2 DEF TypeOK, VisitType, symbols, lists
<1>7. LabelsOK'
  <2>1. \A q \in DOMAIN label : q.to \in {"skip", "endif", "ret"} => q.at # pos
    BY <1>2 DEF Core, LabelsOK
  <2>2. \A q \in DOMAIN label' : /\ q.to \in {"skip", "endif", "ret"} => q.at \in Nat /\ q.at < pos
                                 /\ q.to = "again" => label'[q] = q.at
    BY <1>2, <1>4, <1>5 DEF Core, LabelsOK
  <2>3. \A q \in DOMAIN label' : q.to \in {"skip", "endif", "ret"} => q \in DOMAIN label
    BY <1>4, <1>5
  <2>4. \A i \in 2 .. Len(visits') :
          /\ Target("endif", visits'[i].begin) \notin DOMAIN label'
          /\ visits'[i].stage # "else" => Target("skip", visits'[i].begin) \notin DOMAIN label'
          /\ visits'[i].kind = "loop" => Target("again", visits'[i].begin) \in DOMAIN label'
    <3> TAKE i \in 2 .. Len(visits')
    <3>1. CASE i \in 2 .. n
      BY <1>2, <1>3, <1>5, <2>3, <3>1 DEF Core, LabelsOK, Target
    <3>2. CASE i = n + 1
      BY <1>3, <1>4, <1>5, <2>1, <2>3, <3>2 DEF Target
    <3> QED
      BY <1>2, <1>3, <3>1, <3>2
  <2>5. Target("ret", visits'[1].begin) \notin DOMAIN label'
    BY <1>2, <1>3, <2>3 DEF Core, LabelsOK, Target
  <2>6. \A f \in DOMAIN addr' : /\ Target("func", f) \in DOMAIN label'
                                /\ label'[Target("func", f)] = addr'[f]
    BY <1>1, <1>2, <1>5 DEF Core, LabelsOK, Target, symbols
  <2> QED
    BY <1>1, <2>2, <2>4, <2>5, <2>6 DEF LabelsOK
<1>8. ListsOK'
  BY <1>1, <1>2, <1>3 DEF Core, ListsOK, Holds, lists, symbols
<1>9. SlotsOK'
  BY <1>1, <1>2, <1>3, <1>4 DEF Core, SlotsOK, SlotOK
<1>10. StructureOK'
  <2>1. \A q : /\ Waits(q, "block") => Waits(q, "block")'
               /\ Waits(q, "else") => Waits(q, "else")'
    BY <1>2, <1>3 DEF Waits
  <2>2. \A q : Lands(q) /\ want[q].to # "begin" => Lands(q)'
    BY <1>1, <1>5 DEF Lands, Reached
  <2> QED
    BY <1>1, <1>2, <2>1, <2>2 DEF Core, StructureOK, lists
<1>11. Fresh' /\ Listed'
  BY <1>1, <1>2 DEF Core, Fresh, Listed, lists
<1> QED
  BY <1>1, <1>3, <1>6, <1>7, <1>8, <1>9, <1>10, <1>11, Unfinished DEF IInv, Core

-------------------------------------------------------------------------------
(***************************************************************************)
(* Steps that patch.                                                       *)
(***************************************************************************)

\* The visit on top and those below it.
LEMMA TopFacts ==
  ASSUME IInv, visits # <<>>
  PROVE  /\ Core /\ TypeOK /\ pos \in Nat /\ Len(visits) \in Nat /\ Len(visits) >= 1
         /\ Top = visits[Len(visits)] /\ Top \in VisitType /\ Top.begin \in Nat /\ Top.slot \in Nat
         /\ VisitOK(Len(visits))
         /\ Outer \in Seq(VisitType) /\ Len(Outer) = Len(visits) - 1
         /\ \A i \in 1 .. Len(visits) - 1 : Outer[i] = visits[i]
         /\ \A i \in 2 .. Len(visits) - 1 : visits[i].begin < Top.begin
<1> DEFINE n == Len(visits)
<1>1. /\ Core /\ TypeOK /\ pos \in Nat /\ visits \in Seq(VisitType) /\ n \in Nat /\ n >= 1
      /\ visits[n] \in VisitType /\ visits[n].begin \in Nat /\ visits[n].slot \in Nat
  BY VisitFacts DEF IInv, Core
<1>2. VisitOK(n)
  BY <1>1 DEF Core, VisitsOK
<1>3. \A i \in 2 .. n - 1 : visits[i].begin < visits[n].begin
  BY <1>2 DEF VisitOK
<1>4. Outer \in Seq(VisitType) /\ Len(Outer) = n - 1 /\ \A i \in 1 .. n - 1 : Outer[i] = visits[i]
  BY <1>1 DEF Outer
<1> QED
  BY <1>1, <1>2, <1>3, <1>4 DEF Top

\* The visits when the one on top goes on to its next stage.
LEMMA ReplacedFacts ==
  ASSUME IInv, visits # <<>>, NEW v \in VisitType, visits' = Replaced(v)
  PROVE  /\ visits' \in Seq(VisitType) /\ Len(visits') = Len(visits)
         /\ \A i \in 1 .. Len(visits) - 1 : visits'[i] = visits[i]
         /\ visits'[Len(visits)] = v
BY TopFacts DEF Replaced

\* The jump over a block waits until the visit on top has written the block.
LEMMA TestCondSafe ==
  ASSUME IInv, TestCond
  PROVE  IInv'
<1> DEFINE n == Len(visits)
           p == JumpSlot(pos + 1)
           w == Target("skip", Top.begin)
           v == [Top EXCEPT !.stage = "block", !.slot = p, !.before = JumpEnd(pos + 1)]
<1>1. /\ phase = "code" /\ visits # <<>> /\ Top.stage = "cond" /\ pos > Top.begin
      /\ off' = With(off, p, 0) /\ want' = With(want, p, w) /\ visits' = Replaced(v)
      /\ pos' = JumpEnd(pos + 1)
      /\ UNCHANGED <<phase, symbols, loops, lists, label>>
  BY DEF TestCond
<1>2. /\ Core /\ TypeOK /\ Fresh /\ pos \in Nat /\ pos + 1 \in Nat /\ n \in Nat /\ n >= 2
      /\ Top = visits[n] /\ Top \in VisitType /\ Top.kind # "func"
  BY <1>1, TopFacts DEF Core, VisitOK
<1>3. /\ p \in Nat /\ p \notin DOMAIN off /\ pos' \in Nat /\ pos' > pos
      /\ p + AddrSize + 1 = pos'
  BY <1>1, <1>2, NewSlot
<1>4. /\ v \in VisitType /\ v.kind = Top.kind /\ v.stage = "block" /\ v.begin = Top.begin
      /\ v.slot = p /\ v.before = pos'
  BY <1>1, <1>2, <1>3 DEF VisitType
<1>5. w.to = "skip" /\ w.to \in Kinds
  BY DEF Target, Kinds
<1> HIDE DEF p, w, v
<1>6. /\ visits' \in Seq(VisitType) /\ Len(visits') = n
      /\ \A i \in 1 .. n - 1 : visits'[i] = visits[i]
      /\ visits'[n] = v
  BY <1>1, <1>4, ReplacedFacts
<1>7. /\ DOMAIN off' = DOMAIN off \union {p} /\ want'[p] = w
      /\ DOMAIN want' = DOMAIN want \union {p} /\ DOMAIN want = DOMAIN off
      /\ \A q \in DOMAIN off : off'[q] = off[q] /\ want'[q] = want[q]
  BY <1>1, <1>2, <1>3 DEF With, TypeOK
<1>8. TypeOK'
  <2>1. /\ DOMAIN off' \subseteq Nat /\ \A q \in DOMAIN off' : off'[q] \in Int
        /\ DOMAIN want' = DOMAIN off' /\ \A q \in DOMAIN want' : want'[q].to \in Kinds
        /\ DOMAIN off \subseteq DOMAIN off'
    BY <1>1, <1>2, <1>5, StreamTyped DEF p
  <2> QED
    BY <1>1, <1>2, <1>3, <1>6, <2>1 DEF TypeOK, VisitType, symbols, loops, lists
<1>9. VisitsOK'
  <2>1. \A i \in 1 .. n : visits'[i].begin = visits[i].begin /\ visits'[i].kind = visits[i].kind
    BY <1>2, <1>4, <1>6
  <2>2. \A i \in 1 .. n : VisitOK(i)'
    <3> TAKE i \in 1 .. n
    <3>1. VisitOK(i) /\ visits[i].begin \in Nat
      BY <1>2, VisitFacts DEF Core, VisitsOK
    <3>2. CASE i = n
      BY <1>1, <1>2, <1>3, <1>4, <1>6, <2>1, <3>1, <3>2 DEF VisitOK
    <3>3. CASE i < n
      BY <1>1, <1>2, <1>3, <1>6, <2>1, <3>1, <3>3, SMTT(30) DEF VisitOK
    <3> QED
      BY <1>2, <3>2, <3>3
  <2> QED
    BY <1>1, <1>6, <2>2 DEF VisitsOK
<1>10. Fresh'
  <2>1. \A q \in DOMAIN off : q \in Nat /\ q + AddrSize + 1 <= pos
    BY <1>2 DEF Fresh, TypeOK
  <2>2. DOMAIN off' = DOMAIN off \union {p}
    BY <1>7
  <2> QED
    BY <1>2, <1>3, <2>1, <2>2, SizeFacts DEF Fresh
<1>11. LabelsOK'
  <2>1. \A i \in 1 .. n : visits'[i].begin = visits[i].begin /\ visits'[i].kind = visits[i].kind
    BY <1>2, <1>4, <1>6
  <2>2. \A i \in 2 .. n : visits'[i].stage # "else" => visits[i].stage # "else"
    BY <1>1, <1>2, <1>6
  <2> QED
    BY <1>1, <1>2, <1>3, <1>6, <2>1, <2>2 DEF Core, LabelsOK, symbols
<1>12. ListsOK'
  <2>1. visits'[1].begin = visits[1].begin /\ visits' # <<>>
    BY <1>2, <1>6
  <2>2. pos + 1 >= pos /\ want' = With(want, p, w)
    BY <1>1, <1>2
  <2> QED
    BY <1>1, <1>2, <1>7, <2>1, <2>2, NewListsOK DEF symbols, lists, p
<1>13. SlotsOK'
  <2> SUFFICES ASSUME NEW i \in 2 .. n
               PROVE  /\ visits'[i].stage = "block" => SlotOK(i, "skip")'
                      /\ visits'[i].stage = "else"  => SlotOK(i, "endif")'
    BY <1>6 DEF SlotsOK, SlotOK
  <2>1. CASE i = n
    BY <1>3, <1>4, <1>6, <1>7, <2>1 DEF SlotOK, w
  <2>2. CASE i < n
    BY <1>2, <1>6, <1>7, <2>2 DEF Core, SlotsOK, SlotOK
  <2> QED
    BY <1>2, <2>1, <2>2
<1>14. StructureOK'
  <2>1. visits[n].stage = "cond" /\ Len(visits) = n
    BY <1>1, <1>2
  <2>2. \A q : /\ Waits(q, "block") => Waits(q, "block")'
               /\ Waits(q, "else") => Waits(q, "else")'
    BY <1>2, <1>6, <2>1 DEF Waits
  <2>3. \A q \in DOMAIN off : Lands(q) => Lands(q)'
    BY <1>1, <1>7 DEF Lands, Reached
  <2>4. \E i \in 2 .. Len(visits') : visits'[i].stage = "block" /\ visits'[i].slot = p
    BY <1>2, <1>4, <1>6
  <2>5. \A q \in DOMAIN off :
          /\ want'[q].to = "ret"   => q \in endfunc_comefroms' \/ Lands(q)'
          /\ want'[q].to = "skip"  => Waits(q, "block")' \/ Lands(q)'
          /\ want'[q].to = "endif" => Waits(q, "else")' \/ Lands(q)'
          /\ want'[q].to = "again" => Lands(q)'
    BY <1>1, <1>2, <1>7, <2>2, <2>3 DEF Core, StructureOK, lists
  <2> QED
    BY <1>5, <1>7, <2>4, <2>5 DEF StructureOK, Waits
<1>15. Listed'
  BY <1>1, <1>2, <1>5, <1>7 DEF Core, Listed, lists
<1> QED
  BY <1>1, <1>8, <1>9, <1>10, <1>11, <1>12, <1>13, <1>14, <1>15, Unfinished DEF IInv, Core

\* The jump that the visit on top has written, whose target is not known yet.
LEMMA TopSlot ==
  ASSUME IInv, visits # <<>>, Top.kind # "func", NEW to, to = "skip" \/ to = "endif",
         to = "skip" => Top.stage = "block", to = "endif" => Top.stage = "else"
  PROVE  /\ Len(visits) >= 2
         /\ Top.slot \in DOMAIN off /\ want[Top.slot] = Target(to, Top.begin)
         /\ Top.before = Top.slot + AddrSize + 1 /\ Top.begin < pos
         /\ Target(to, Top.begin) \notin DOMAIN label /\ Target(to, Top.begin) \in Places
         /\ \A i \in 2 .. Len(visits) - 1 : visits[i].begin # Top.begin
<1> DEFINE n == Len(visits)
<1>1. /\ Core /\ Top = visits[n] /\ n \in Nat /\ n >= 1 /\ VisitOK(n) /\ pos \in Nat
      /\ Top.begin \in Nat /\ \A i \in 2 .. n - 1 : visits[i].begin < Top.begin
  BY TopFacts
<1>2. n >= 2
  BY TopFacts DEF VisitOK
<1>3. \A i \in 2 .. n - 1 : visits[i].begin # Top.begin
  BY <1>1, VisitFacts DEF Core
<1>4. Target(to, Top.begin) \in Places
  BY <1>1 DEF Target, Places, Kinds
<1>5. Target(to, Top.begin) \notin DOMAIN label /\ Top.begin < pos
  BY <1>1, <1>2 DEF Core, LabelsOK, VisitOK
<1>6. /\ Top.slot \in DOMAIN off /\ want[Top.slot] = Target(to, Top.begin)
      /\ Top.before = Top.slot + AddrSize + 1
  BY <1>1, <1>2 DEF Core, SlotsOK, SlotOK
<1> QED
  BY <1>2, <1>3, <1>4, <1>5, <1>6

\* The jump over the if block leads to the else block; the one over that block waits.
LEMMA EnterElseSafe ==
  ASSUME IInv, EnterElse
  PROVE  IInv'
<1> DEFINE n == Len(visits)
           s == Top.slot
           p == JumpSlot(pos)
           t == Target("skip", Top.begin)
           w == Target("endif", Top.begin)
           v == [Top EXCEPT !.stage = "else", !.slot = p, !.before = JumpEnd(pos)]
<1>1. /\ phase = "code" /\ visits # <<>> /\ Top.kind = "cond" /\ Top.stage = "block"
      /\ off' = With([off EXCEPT ![s] = JumpEnd(pos) - Top.before], p, 0)
      /\ want' = With(want, p, w) /\ label' = With(label, t, JumpEnd(pos))
      /\ visits' = Replaced(v) /\ pos' = JumpEnd(pos)
      /\ UNCHANGED <<phase, symbols, loops, lists>>
  BY DEF EnterElse
<1>2. /\ Core /\ TypeOK /\ Fresh /\ pos \in Nat /\ n \in Nat /\ n >= 2
      /\ Top = visits[n] /\ Top \in VisitType /\ Top.begin \in Nat
  BY <1>1, TopFacts, TopSlot DEF Core
<1>3. /\ p \in Nat /\ p \notin DOMAIN off /\ pos' \in Nat /\ pos' > pos
      /\ p + AddrSize + 1 = pos' /\ JumpEnd(pos) = pos'
  BY <1>1, <1>2, NewSlot
<1>4. /\ s \in DOMAIN off /\ want[s] = t /\ Top.before = s + AddrSize + 1 /\ Top.begin < pos
      /\ t \notin DOMAIN label /\ t \in Places
      /\ \A i \in 2 .. n - 1 : visits[i].begin # Top.begin
  BY <1>1, TopSlot
<1>5. /\ v \in VisitType /\ v.kind = "cond" /\ v.stage = "else" /\ v.begin = Top.begin
      /\ v.slot = p /\ v.before = pos'
  BY <1>1, <1>2, <1>3 DEF VisitType
<1>6. w.to = "endif" /\ w.to \in Kinds /\ t.to = "skip" /\ t.at = Top.begin
  BY DEF Target, Kinds
<1>7. s \in Nat /\ off[s] \in Int /\ DOMAIN want = DOMAIN off
  BY <1>2, <1>4 DEF TypeOK
<1> HIDE DEF s, p, t, w, v
<1>8. /\ visits' \in Seq(VisitType) /\ Len(visits') = n
      /\ \A i \in 1 .. n - 1 : visits'[i] = visits[i]
      /\ visits'[n] = v
  BY <1>1, <1>5, ReplacedFacts
<1>9. /\ DOMAIN off' = DOMAIN off \union {p} /\ want'[p] = w
      /\ DOMAIN want' = DOMAIN want \union {p}
      /\ \A q \in DOMAIN off : want'[q] = want[q] /\ (q # s => off'[q] = off[q])
      /\ off'[s] = pos' - (s + AddrSize + 1) /\ off'[p] = 0
  BY <1>1, <1>3, <1>4, <1>7 DEF With
<1>10. /\ DOMAIN label' = DOMAIN label \union {t} /\ label'[t] = pos'
       /\ \A q \in DOMAIN label : label'[q] = label[q]
  BY <1>1, <1>3, <1>4 DEF With
<1>11. TypeOK'
  <2>1. /\ DOMAIN off' \subseteq Nat /\ \A q \in DOMAIN off' : off'[q] \in Int
        /\ DOMAIN off \subseteq DOMAIN off'
    <3>1. off'[s] \in Int /\ off'[p] \in Int
      BY <1>3, <1>7, <1>9, SizeFacts
    <3>2. \A q \in DOMAIN off : off'[q] \in Int
      BY <1>2, <1>9, <3>1 DEF TypeOK
    <3> QED
      BY <1>2, <1>3, <1>9, <3>1, <3>2 DEF TypeOK
  <2>2. DOMAIN want' = DOMAIN off' /\ \A q \in DOMAIN want' : want'[q].to \in Kinds
    BY <1>2, <1>6, <1>7, <1>9 DEF TypeOK
  <2>3. DOMAIN label' \subseteq Places /\ \A q \in DOMAIN label' : label'[q] \in Nat
    BY <1>2, <1>3, <1>4, <1>10 DEF TypeOK
  <2> QED
    BY <1>1, <1>2, <1>3, <1>8, <2>1, <2>2, <2>3 DEF TypeOK, VisitType, symbols, loops, lists
<1>12. VisitsOK'
  <2>1. \A i \in 1 .. n : visits'[i].begin = visits[i].begin /\ visits'[i].kind = visits[i].kind
    BY <1>1, <1>2, <1>5, <1>8
  <2>2. \A i \in 1 .. n : VisitOK(i)'
    <3> TAKE i \in 1 .. n
    <3>1. VisitOK(i) /\ visits[i].begin \in Nat
      BY <1>2, VisitFacts DEF Core, VisitsOK
    <3>2. CASE i = n
      <4>1. visits'[n].stage = "else" /\ visits'[n].kind = "cond" /\ Len(visits') = n
        BY <1>5, <1>8
      <4>2. \A j \in 2 .. n - 1 : visits'[j].begin < visits'[n].begin
        BY <1>2, <1>5, <1>8, TopFacts, <1>1
      <4>3. visits'[n].begin < pos'
        BY <1>2, <1>3, <1>4, <1>5, <1>8
      <4>4. visits'[n].begin \in Nat /\ visits'[n].kind # "func" /\ visits'[n].stage # "body"
        BY <1>2, <1>5, <1>8
      <4>5. ~ (n < Len(visits')) /\ n # 1 /\ visits'[n].begin <= pos'
        BY <1>2, <1>3, <4>1, <4>3, <4>4
      <4> QED
        BY <3>2, <4>1, <4>2, <4>3, <4>4, <4>5 DEF VisitOK
    <3>3. CASE i < n
      <4>1. visits'[i] = visits[i] /\ \A j \in 2 .. (i - 1) : visits'[j] = visits[j]
        BY <1>2, <1>8, <3>3
      <4>2. \A j \in 2 .. (i - 1) : visits'[j].begin < visits'[i].begin
        BY <3>1, <4>1 DEF VisitOK
      <4> QED
        BY <1>2, <1>3, <1>8, <3>1, <3>3, <4>1, <4>2 DEF VisitOK
    <3> QED
      BY <1>2, <3>2, <3>3
  <2> QED
    <3>1. phase' # "done"
      BY <1>1
    <3> QED
      BY <1>2, <1>8, <2>2, <3>1 DEF VisitsOK
<1>13. Fresh'
  <2>1. \A q \in DOMAIN off : q \in Nat /\ q + AddrSize + 1 <= pos
    BY <1>2 DEF Fresh, TypeOK
  <2>2. DOMAIN off' = DOMAIN off \union {p}
    BY <1>9
  <2> QED
    BY <1>2, <1>3, <2>1, <2>2, SizeFacts DEF Fresh
<1>14. LabelsOK'
  <2>1. \A i \in 1 .. n : visits'[i].begin = visits[i].begin /\ visits'[i].kind = visits[i].kind
    BY <1>1, <1>2, <1>5, <1>8
  <2>2. \A q \in DOMAIN label' : /\ q.to \in {"skip", "endif", "ret"} => q.at \in Nat /\ q.at < pos'
                                 /\ q.to = "again" => label'[q] = q.at
    BY <1>2, <1>3, <1>4, <1>6, <1>10 DEF Core, LabelsOK
  <2>3. \A i \in 2 .. n :
          /\ Target("endif", visits'[i].begin) \notin DOMAIN label'
          /\ visits'[i].stage # "else" => Target("skip", visits'[i].begin) \notin DOMAIN label'
          /\ visits'[i].kind = "loop" => Target("again", visits'[i].begin) \in DOMAIN label'
    <3> TAKE i \in 2 .. n
    <3>1. CASE i = n
      <4>1. visits'[n].stage = "else" /\ visits'[n].kind = "cond"
        BY <1>5, <1>8
      <4>2. Target("endif", visits[n].begin) \notin DOMAIN label
        BY <1>2 DEF Core, LabelsOK
      <4>3. Target("endif", visits[n].begin) # t
        BY DEF Target, t
      <4> QED
        BY <1>2, <1>10, <2>1, <3>1, <4>1, <4>2, <4>3
    <3>2. CASE i < n
      <4>1. visits'[i] = visits[i] /\ visits[i].begin # Top.begin
        BY <1>2, <1>4, <1>8, <3>2
      <4>2. t # Target("skip", visits[i].begin) /\ t # Target("endif", visits[i].begin)
        BY <4>1 DEF Target, t
      <4> QED
        BY <1>2, <1>10, <4>1, <4>2 DEF Core, LabelsOK
    <3> QED
      BY <1>2, <3>1, <3>2
  <2>4. Target("ret", visits'[1].begin) \notin DOMAIN label'
    BY <1>1, <1>2, <1>10, <2>1 DEF Core, LabelsOK, Target, t
  <2>5. \A f \in DOMAIN addr' : /\ Target("func", f) \in DOMAIN label'
                                /\ label'[Target("func", f)] = addr'[f]
    BY <1>1, <1>2, <1>10 DEF Core, LabelsOK, symbols
  <2> QED
    BY <1>8, <2>2, <2>3, <2>4, <2>5 DEF LabelsOK
<1>15. ListsOK'
  <2>1. visits'[1].begin = visits[1].begin /\ visits' # <<>>
    BY <1>2, <1>8
  <2>2. pos >= pos /\ want' = With(want, p, w)
    BY <1>1, <1>2
  <2> QED
    BY <1>1, <1>2, <1>9, <2>1, <2>2, NewListsOK DEF symbols, lists, p
<1>16. SlotsOK'
  <2> SUFFICES ASSUME NEW i \in 2 .. n
               PROVE  /\ visits'[i].stage = "block" => SlotOK(i, "skip")'
                      /\ visits'[i].stage = "else"  => SlotOK(i, "endif")'
    BY <1>8 DEF SlotsOK, SlotOK
  <2>1. CASE i = n
    BY <1>3, <1>5, <1>8, <1>9, <2>1 DEF SlotOK, w
  <2>2. CASE i < n
    BY <1>2, <1>7, <1>8, <1>9, <2>2 DEF Core, SlotsOK, SlotOK
  <2> QED
    BY <1>2, <2>1, <2>2
<1>17. StructureOK'
  <2>1. visits[n].stage = "block" /\ visits[n].slot = s
    BY <1>1, <1>2 DEF s
  <2>2. \A q : /\ Waits(q, "block") => q = s \/ Waits(q, "block")'
               /\ Waits(q, "else") => Waits(q, "else")'
    BY <1>2, <1>8, <2>1 DEF Waits
  <2>3. \A q \in DOMAIN off : q = s => Lands(q)'
    BY <1>3, <1>4, <1>7, <1>9, <1>10, SizeFacts DEF Lands, Reached
  <2>4. \A q \in DOMAIN off : Lands(q) => Lands(q)'
    BY <1>9, <1>10, <2>3 DEF Lands, Reached
  <2>5. \E i \in 2 .. Len(visits') : visits'[i].stage = "else" /\ visits'[i].slot = p
    BY <1>2, <1>5, <1>8
  <2>6. \A q \in DOMAIN off :
          /\ want'[q].to = "ret"   => q \in endfunc_comefroms' \/ Lands(q)'
          /\ want'[q].to = "skip"  => Waits(q, "block")' \/ Lands(q)'
          /\ want'[q].to = "endif" => Waits(q, "else")' \/ Lands(q)'
          /\ want'[q].to = "again" => Lands(q)'
    BY <1>1, <1>2, <1>7, <1>9, <2>2, <2>3, <2>4 DEF Core, StructureOK, lists
  <2> QED
    BY <1>6, <1>7, <1>9, <2>5, <2>6 DEF StructureOK, Waits
<1>18. Listed'
  BY <1>1, <1>2, <1>6, <1>7, <1>9 DEF Core, Listed, lists
<1> QED
  BY <1>1, <1>11, <1>12, <1>13, <1>14, <1>15, <1>16, <1>17, <1>18, Unfinished DEF IInv, Core

\* Without the visit on top the other open visits are as they were.
LEMMA PopVisit ==
  ASSUME IInv, visits # <<>>, Top.kind # "func", Top.stage # "cond", visits' = Outer,
         pos' \in Nat, pos' >= pos, phase' = phase
  PROVE  /\ visits' \in Seq(VisitType) /\ Len(visits') = Len(visits) - 1 /\ Len(visits') >= 1
         /\ \A i \in 1 .. Len(visits') : visits'[i] = visits[i]
         /\ visits' # <<>> /\ VisitsOK'
<1> DEFINE n == Len(visits)
<1>1. /\ Core /\ TypeOK /\ pos \in Nat /\ n \in Nat /\ n >= 2 /\ Top = visits[n]
      /\ visits' \in Seq(VisitType) /\ Len(visits') = n - 1
      /\ \A i \in 1 .. n - 1 : visits'[i] = visits[i]
  BY TopFacts DEF VisitOK
<1>2. \A i \in 1 .. n - 1 : VisitOK(i)'
  <2> TAKE i \in 1 .. n - 1
  <2>1. VisitOK(i) /\ visits[i].begin \in Nat
    BY <1>1, VisitFacts DEF Core, VisitsOK
  <2>2. \A j \in 2 .. (i - 1) : visits'[j] = visits[j]
    BY <1>1
  <2> QED
    BY <1>1, <2>1, <2>2 DEF VisitOK
<1>3. phase # "done"
  BY <1>1 DEF Core, VisitsOK
<1> QED
  BY <1>1, <1>2, <1>3 DEF VisitsOK

\* The if block's or the else block's jump leads behind the statement.
LEMMA LeaveCondSafe ==
  ASSUME IInv, LeaveCond
  PROVE  IInv'
<1> DEFINE n  == Len(visits)
           s  == Top.slot
           to == IF Top.stage = "else" THEN "endif" ELSE "skip"
           t  == Target(to, Top.begin)
<1>1. /\ phase = "code" /\ visits # <<>> /\ Top.kind = "cond" /\ Top.stage # "cond"
      /\ off' = [off EXCEPT ![s] = pos - Top.before]
      /\ label' = With(label, t, pos) /\ visits' = Outer
      /\ UNCHANGED <<phase, pos, symbols, loops, lists, want>>
  BY DEF LeaveCond
<1>2. /\ Core /\ TypeOK /\ pos \in Nat /\ n \in Nat /\ n >= 1 /\ VisitOK(n)
      /\ Top = visits[n] /\ Top \in VisitType /\ Top.begin \in Nat
  BY <1>1, TopFacts
<1>3. Top.stage = "block" \/ Top.stage = "else"
  <2>1. visits[n].kind = "cond" /\ visits[n].stage # "cond"
    BY <1>1, <1>2
  <2>2. visits[n].stage # "body"
    BY <1>1, <2>1, TopFacts DEF VisitOK
  <2> QED
    BY <1>2, <2>1, <2>2 DEF VisitType
<1>4. /\ s \in DOMAIN off /\ want[s] = t /\ Top.before = s + AddrSize + 1 /\ Top.begin < pos
      /\ t \notin DOMAIN label /\ t \in Places /\ n >= 2
      /\ \A i \in 2 .. n - 1 : visits[i].begin # Top.begin
  BY <1>1, <1>3, TopSlot
<1>5. /\ visits' \in Seq(VisitType) /\ Len(visits') = n - 1 /\ n - 1 >= 1
      /\ \A i \in 1 .. n - 1 : visits'[i] = visits[i]
      /\ visits' # <<>> /\ VisitsOK'
  BY <1>1, <1>2, PopVisit
<1>6. t.to \in {"skip", "endif"} /\ t.at = Top.begin
  BY DEF Target
<1>7. s \in Nat /\ off[s] \in Int /\ DOMAIN want = DOMAIN off
  BY <1>2, <1>4 DEF TypeOK
<1>8. \A b : b # Top.begin => t # Target("skip", b) /\ t # Target("endif", b)
  BY DEF Target
<1>9. \A x : t # Target("again", x) /\ t # Target("ret", x) /\ t # Target("func", x)
  BY DEF Target
<1>10. visits[n].slot = s /\ (visits[n].stage = "block" => want[s].to = "skip")
  BY <1>2, <1>4 DEF Target
<1> HIDE DEF s, t, to
<1>11. /\ DOMAIN off' = DOMAIN off
       /\ \A q \in DOMAIN off : q # s => off'[q] = off[q]
       /\ off'[s] = pos - (s + AddrSize + 1)
  BY <1>1, <1>4
<1>12. /\ DOMAIN label' = DOMAIN label \union {t} /\ label'[t] = pos
       /\ \A q \in DOMAIN label : label'[q] = label[q]
  BY <1>1, <1>4 DEF With
<1>13. TypeOK'
  <2>1. \A q \in DOMAIN off' : off'[q] \in Int
    BY <1>2, <1>7, <1>11, SizeFacts DEF TypeOK
  <2>2. DOMAIN label' \subseteq Places /\ \A q \in DOMAIN label' : label'[q] \in Nat
    BY <1>2, <1>4, <1>12 DEF TypeOK
  <2> QED
    BY <1>1, <1>2, <1>5, <1>11, <2>1, <2>2 DEF TypeOK, VisitType, symbols, loops, lists
<1>14. Fresh' /\ Listed'
  BY <1>1, <1>2, <1>11 DEF Core, Fresh, Listed, lists
<1>15. LabelsOK'
  <2>1. \A q \in DOMAIN label' : /\ q.to \in {"skip", "endif", "ret"} => q.at \in Nat /\ q.at < pos'
                                 /\ q.to = "again" => label'[q] = q.at
    BY <1>1, <1>2, <1>4, <1>6, <1>12 DEF Core, LabelsOK
  <2>2. \A i \in 2 .. Len(visits') :
          /\ Target("endif", visits'[i].begin) \notin DOMAIN label'
          /\ visits'[i].stage # "else" => Target("skip", visits'[i].begin) \notin DOMAIN label'
          /\ visits'[i].kind = "loop" => Target("again", visits'[i].begin) \in DOMAIN label'
    <3> TAKE i \in 2 .. Len(visits')
    <3>1. i \in 2 .. n - 1 /\ i \in 1 .. n - 1 /\ i \in 2 .. n
      BY <1>2, <1>5
    <3>2. visits'[i] = visits[i] /\ visits[i].begin # Top.begin
      BY <1>4, <1>5, <3>1
    <3> QED
      BY <1>2, <1>8, <1>12, <3>1, <3>2 DEF Core, LabelsOK
  <2>3. Target("ret", visits'[1].begin) \notin DOMAIN label'
    BY <1>1, <1>2, <1>5, <1>9, <1>12 DEF Core, LabelsOK
  <2>4. \A f \in DOMAIN addr' : /\ Target("func", f) \in DOMAIN label'
                                /\ label'[Target("func", f)] = addr'[f]
    BY <1>1, <1>2, <1>12 DEF Core, LabelsOK, symbols
  <2> QED
    BY <2>1, <2>2, <2>3, <2>4 DEF LabelsOK
<1>16. ListsOK'
  BY <1>1, <1>2, <1>5, <1>11 DEF Core, ListsOK, Holds, lists, symbols
<1>17. SlotsOK'
  BY <1>1, <1>2, <1>5, <1>11, SMTT(30) DEF Core, SlotsOK, SlotOK
<1>18. StructureOK'
  <2>1. \A q : /\ Waits(q, "block") => q = s \/ Waits(q, "block")'
               /\ Waits(q, "else") => q = s \/ Waits(q, "else")'
    BY <1>2, <1>5, <1>10 DEF Waits
  <2>2. \A q \in DOMAIN off : q = s => Lands(q)'
    BY <1>1, <1>2, <1>4, <1>7, <1>11, <1>12, SizeFacts DEF Lands, Reached
  <2>3. \A q \in DOMAIN off : Lands(q) => Lands(q)'
    BY <1>1, <1>11, <1>12, <2>2 DEF Lands, Reached
  <2> QED
    BY <1>1, <1>2, <1>7, <2>1, <2>2, <2>3 DEF Core, StructureOK, lists
<1> QED
  BY <1>1, <1>5, <1>13, <1>14, <1>15, <1>16, <1>17, <1>18, Unfinished DEF IInv, Core

\* Only the jumps of break and next are patched by the loop's lists.
LEMMA LinkLoopFacts ==
  ASSUME IInv, NEW o, NEW after \in Nat, Top.begin \in Nat, DOMAIN off \subseteq DOMAIN o,
         DOMAIN o \subseteq Nat, \A q \in DOMAIN o : o[q] \in Int
  PROVE  /\ DOMAIN LinkLoop(o, after) = DOMAIN o
         /\ \A q \in DOMAIN o : LinkLoop(o, after)[q] \in Int
         /\ \A q \in DOMAIN o : want[q].to \notin {"begin", "end"} \/ q \notin DOMAIN off =>
              LinkLoop(o, after)[q] = o[q]
<1> DEFINE B == Positions(begin_comefroms, loop_ident)
           E == Positions(end_comefroms, loop_ident)
           one == Patch(o, B, Top.begin)
<1>1. LinkLoop(o, after) = Patch(one, E, after)
  BY DEF LinkLoop
<1>2. \A q \in B \union E : q \in DOMAIN off /\ want[q].to \in {"begin", "end"}
  BY DEF IInv, Core, ListsOK, Positions
<1> HIDE DEF B, E
<1>3. \A q \in DOMAIN o : To(Top.begin, q) \in Int /\ To(after, q) \in Int
  BY SizeFacts DEF To
<1>4. /\ DOMAIN one = DOMAIN o
      /\ \A q \in DOMAIN o : one[q] = IF q \in B THEN To(Top.begin, q) ELSE o[q]
  BY DEF Patch
<1>5. \A q \in DOMAIN o : one[q] \in Int
  BY <1>3, <1>4
<1> HIDE DEF one
<1>6. /\ DOMAIN Patch(one, E, after) = DOMAIN o
      /\ \A q \in DOMAIN o : Patch(one, E, after)[q] = IF q \in E THEN To(after, q) ELSE one[q]
  BY <1>4 DEF Patch
<1> QED
  BY <1>1, <1>2, <1>3, <1>4, <1>5, <1>6

\* The loop's conditional jump leads behind it, its jump back to its begin.
LEMMA LeaveLoopSafe ==
  ASSUME IInv, LeaveLoop
  PROVE  IInv'
<1> DEFINE n == Len(visits)
           s == Top.slot
           b == Top.begin
           p == JumpSlot(pos)
           t == Target("skip", b)
           e == Target("end", b)
           w == Target("again", b)
           o == [With(off, p, To(b, p)) EXCEPT ![s] = JumpEnd(pos) - Top.before]
<1>1. /\ phase = "code" /\ visits # <<>> /\ Top.kind = "loop" /\ Top.stage = "block"
      /\ off' = LinkLoop(o, JumpEnd(pos)) /\ want' = With(want, p, w)
      /\ label' = With(With(label, t, JumpEnd(pos)), e, JumpEnd(pos))
      /\ pos' = JumpEnd(pos) /\ visits' = Outer
      /\ begin_comefroms' = Without(begin_comefroms, loop_ident)
      /\ end_comefroms' = Without(end_comefroms, loop_ident)
      /\ cur_loop' = SubSeq(cur_loop, 1, Len(cur_loop) - 1)
      /\ UNCHANGED <<phase, symbols, loop_ident, endfunc_comefroms, func_comefroms, const_addrs>>
  BY DEF LeaveLoop
<1>2. /\ Core /\ TypeOK /\ Fresh /\ pos \in Nat /\ n \in Nat /\ n >= 1
      /\ Top = visits[n] /\ Top \in VisitType /\ b \in Nat
  BY <1>1, TopFacts DEF Core
<1>3. /\ p \in Nat /\ p \notin DOMAIN off /\ pos' \in Nat /\ pos' > pos
      /\ p + AddrSize + 1 = pos' /\ JumpEnd(pos) = pos'
  BY <1>1, <1>2, NewSlot
<1>4. /\ s \in DOMAIN off /\ want[s] = t /\ Top.before = s + AddrSize + 1 /\ b < pos
      /\ t \notin DOMAIN label /\ t \in Places /\ n >= 2
      /\ \A i \in 2 .. n - 1 : visits[i].begin # b
  BY <1>1, TopSlot
<1>5. /\ visits' \in Seq(VisitType) /\ Len(visits') = n - 1 /\ n - 1 >= 1
      /\ \A i \in 1 .. n - 1 : visits'[i] = visits[i]
      /\ visits' # <<>> /\ VisitsOK'
  BY <1>1, <1>2, <1>3, PopVisit
<1>6. /\ t.to = "skip" /\ t.at = b /\ e.to = "end" /\ e.at = b /\ w.to = "again" /\ w.at = b
      /\ w.to \in Kinds /\ e \in Places
  BY <1>2 DEF Target, Kinds, Places
<1>7. /\ s \in Nat /\ off[s] \in Int /\ DOMAIN want = DOMAIN off /\ s # p
  BY <1>2, <1>3, <1>4 DEF TypeOK
<1>8. w \in DOMAIN label /\ label[w] = b
  <2>1. visits[n].kind = "loop"
    BY <1>1, <1>2
  <2>2. Target("again", visits[n].begin) \in DOMAIN label
    BY <1>2, <1>4, <2>1 DEF Core, LabelsOK
  <2> QED
    BY <1>2, <1>6, <2>2 DEF Core, LabelsOK
<1>9. visits[n].slot = s /\ visits[n].stage = "block"
  BY <1>1, <1>2
<1>10. \A x : x # b => t # Target("skip", x)
  BY DEF Target
<1>11. /\ \A x : t # Target("again", x) /\ t # Target("ret", x) /\ t # Target("func", x)
       /\ \A x : t # Target("endif", x)
       /\ \A x : e # Target("again", x) /\ e # Target("ret", x) /\ e # Target("func", x)
       /\ \A x : e # Target("endif", x) /\ e # Target("skip", x)
  BY DEF Target
<1> HIDE DEF s, p, t, e, w, b
<1>a. To(b, p) \in Int /\ To(b, p) = b - pos'
  <2>1. b \in Nat /\ p \in Nat /\ pos' = p + AddrSize + 1 /\ AddrSize \in Nat
    BY <1>2, <1>3, SizeFacts
  <2>2. To(b, p) = b - p - (AddrSize + 1)
    BY DEF To
  <2> QED
    BY <2>1, <2>2
<1>12. /\ DOMAIN o = DOMAIN off \union {p} /\ o[p] = To(b, p)
       /\ \A q \in DOMAIN off : q # s => o[q] = off[q]
       /\ o[s] = pos' - (s + AddrSize + 1)
  BY <1>a, <1>3, <1>4, <1>7 DEF With
<1> HIDE DEF o
<1>13. /\ DOMAIN o \subseteq Nat /\ \A q \in DOMAIN off : off[q] \in Int
  BY <1>2, <1>3, <1>12 DEF TypeOK
<1>14. \A q \in DOMAIN o : o[q] \in Int
  <2>1. o[s] \in Int
    BY <1>3, <1>7, <1>12, SizeFacts
  <2> QED
    BY <1>a, <1>12, <1>13, <2>1
<1>15. /\ DOMAIN off' = DOMAIN off \union {p} /\ off'[p] = To(b, p)
       /\ \A q \in DOMAIN off' : off'[q] \in Int
       /\ \A q \in DOMAIN off : want[q].to \notin {"begin", "end"} => off'[q] = o[q]
  <2>1. DOMAIN off \subseteq DOMAIN o /\ JumpEnd(pos) \in Nat /\ Top.begin \in Nat
    BY <1>2, <1>3, <1>12 DEF b
  <2>2. /\ DOMAIN LinkLoop(o, JumpEnd(pos)) = DOMAIN o
        /\ \A q \in DOMAIN o : LinkLoop(o, JumpEnd(pos))[q] \in Int
        /\ \A q \in DOMAIN o : want[q].to \notin {"begin", "end"} \/ q \notin DOMAIN off =>
             LinkLoop(o, JumpEnd(pos))[q] = o[q]
    BY <1>13, <1>14, <2>1, LinkLoopFacts
  <2> QED
    BY <1>1, <1>3, <1>12, <2>2
<1>16. /\ DOMAIN want' = DOMAIN want \union {p} /\ want'[p] = w
       /\ \A q \in DOMAIN want : want'[q] = want[q]
  BY <1>1, <1>3, <1>7 DEF With
<1>17. /\ DOMAIN label' = DOMAIN label \union {t, e} /\ label'[t] = pos' /\ label'[e] = pos'
       /\ \A q \in DOMAIN label : q # e => label'[q] = label[q]
  BY <1>1, <1>3, <1>4 DEF With
<1>18. TypeOK'
  <2>1. DOMAIN label' \subseteq Places /\ \A q \in DOMAIN label' : label'[q] \in Nat
    BY <1>2, <1>3, <1>4, <1>6, <1>17 DEF TypeOK
  <2>2. DOMAIN want' = DOMAIN off' /\ \A q \in DOMAIN want' : want'[q].to \in Kinds
    BY <1>2, <1>6, <1>7, <1>15, <1>16 DEF TypeOK
  <2>3. DOMAIN off' \subseteq Nat /\ endfunc_comefroms' \subseteq DOMAIN off'
    BY <1>1, <1>2, <1>3, <1>15 DEF TypeOK
  <2>4. begin_comefroms' \subseteq Jumps /\ end_comefroms' \subseteq Jumps
    BY <1>1, <1>2 DEF TypeOK, Without
  <2>5. cur_loop' \in Seq(Nat)
    <3>1. cur_loop \in Seq(Nat) /\ Len(cur_loop) \in Nat
      BY <1>2 DEF TypeOK
    <3>2. \A i \in 1 .. Len(cur_loop) - 1 : cur_loop[i] \in Nat
      BY <3>1
    <3> QED
      BY <1>1, <3>1, <3>2, SubSeqProperties
  <2> QED
    BY <1>1, <1>2, <1>3, <1>5, <1>15, <2>1, <2>2, <2>3, <2>4, <2>5
    DEF TypeOK, VisitType, symbols
<1>19. Fresh'
  <2>1. \A q \in DOMAIN off : q \in Nat /\ q + AddrSize + 1 <= pos
    BY <1>2 DEF Fresh, TypeOK
  <2> QED
    BY <1>2, <1>3, <1>15, <2>1, SizeFacts DEF Fresh
<1>20. LabelsOK'
  <2>1. \A q \in DOMAIN label' : /\ q.to \in {"skip", "endif", "ret"} => q.at \in Nat /\ q.at < pos'
                                 /\ q.to = "again" => label'[q] = q.at
    BY <1>1, <1>2, <1>3, <1>4, <1>6, <1>17 DEF Core, LabelsOK
  <2>2. \A i \in 2 .. Len(visits') :
          /\ Target("endif", visits'[i].begin) \notin DOMAIN label'
          /\ visits'[i].stage # "else" => Target("skip", visits'[i].begin) \notin DOMAIN label'
          /\ visits'[i].kind = "loop" => Target("again", visits'[i].begin) \in DOMAIN label'
    <3> TAKE i \in 2 .. Len(visits')
    <3>1. i \in 2 .. n - 1 /\ i \in 1 .. n - 1 /\ i \in 2 .. n
      BY <1>2, <1>5
    <3>2. visits'[i] = visits[i] /\ visits[i].begin # b
      BY <1>4, <1>5, <3>1
    <3> QED
      BY <1>2, <1>10, <1>11, <1>17, <3>1, <3>2 DEF Core, LabelsOK
  <2>3. Target("ret", visits'[1].begin) \notin DOMAIN label'
    BY <1>1, <1>2, <1>5, <1>11, <1>17 DEF Core, LabelsOK
  <2>4. \A f \in DOMAIN addr' : /\ Target("func", f) \in DOMAIN label'
                                /\ label'[Target("func", f)] = addr'[f]
    BY <1>1, <1>2, <1>11, <1>17 DEF Core, LabelsOK, symbols
  <2> QED
    BY <2>1, <2>2, <2>3, <2>4 DEF LabelsOK
<1>21. ListsOK'
  <2>1. /\ begin_comefroms' \subseteq begin_comefroms /\ end_comefroms' \subseteq end_comefroms
        /\ table' = table
    BY <1>1 DEF Without, symbols
  <2>2. /\ DOMAIN off \subseteq DOMAIN off' /\ \A q \in DOMAIN off : want'[q] = want[q]
        /\ visits' # <<>> /\ visits'[1] = visits[1] /\ ListsOK
    BY <1>2, <1>5, <1>7, <1>15, <1>16 DEF Core
  <2>3. UNCHANGED <<endfunc_comefroms, func_comefroms, const_addrs>>
    BY <1>1
  <2> QED
    BY <2>1, <2>2, <2>3, ZenonT(30) DEF ListsOK, Holds
<1>22. SlotsOK'
  <2>1. \A i \in 2 .. Len(visits') : i \in 2 .. n /\ visits'[i] = visits[i]
    BY <1>2, <1>5
  <2>2. DOMAIN off \subseteq DOMAIN off' /\ \A q \in DOMAIN off : want'[q] = want[q]
    BY <1>7, <1>15, <1>16
  <2> QED
    BY <1>2, <2>1, <2>2 DEF Core, SlotsOK, SlotOK
<1>23. StructureOK'
  <2>1. \A q : /\ Waits(q, "block") => q = s \/ Waits(q, "block")'
               /\ Waits(q, "else") => Waits(q, "else")'
    BY <1>2, <1>5, <1>9 DEF Waits
  <2>2. \A q \in DOMAIN off : q = s => Lands(q)'
    <3>1. want'[s] = t /\ t \in DOMAIN label' /\ label'[t] = pos'
      BY <1>4, <1>7, <1>16, <1>17
    <3>2. off'[s] = pos' - (s + AddrSize + 1)
      BY <1>4, <1>6, <1>12, <1>15
    <3>3. s + AddrSize + 1 + off'[s] = pos'
      <4>1. s \in Nat /\ pos' \in Nat /\ AddrSize \in Nat
        BY <1>3, <1>7, SizeFacts
      <4>2. \A x, y, z \in Nat : x + y + 1 + (z - (x + y + 1)) = z
        OBVIOUS
      <4>3. s + AddrSize + 1 + (pos' - (s + AddrSize + 1)) = pos'
        BY <4>1, <4>2
      <4> QED
        BY <3>2, <4>3, Zenon
    <3> QED
      BY <3>1, <3>3 DEF Lands, Reached
  <2>3. \A q \in DOMAIN off : Lands(q) /\ want[q].to \notin {"begin", "end"} => Lands(q)'
    <3> SUFFICES ASSUME NEW q \in DOMAIN off, Lands(q), want[q].to \notin {"begin", "end"}, q # s
                 PROVE  Lands(q)'
      BY <2>2
    <3>1. off'[q] = off[q] /\ want'[q] = want[q] /\ want[q] # e
      BY <1>6, <1>7, <1>12, <1>15, <1>16
    <3>2. want[q] \in DOMAIN label => want[q] \in DOMAIN label' /\ label'[want[q]] = label[want[q]]
      BY <1>17, <3>1
    <3> QED
      BY <3>1, <3>2, LandsKept
  <2>4. want'[p] \in DOMAIN label' /\ p + AddrSize + 1 + off'[p] = label'[want'[p]]
    <3>1. w # e /\ label'[w] = b /\ w \in DOMAIN label'
      BY <1>6, <1>8, <1>17
    <3> QED
      BY <1>a, <1>2, <1>3, <1>15, <1>16, <3>1, SizeFacts
  <2>5. \A q \in DOMAIN off :
          /\ want'[q].to = "ret"   => q \in endfunc_comefroms' \/ Lands(q)'
          /\ want'[q].to = "skip"  => Waits(q, "block")' \/ Lands(q)'
          /\ want'[q].to = "endif" => Waits(q, "else")' \/ Lands(q)'
          /\ want'[q].to = "again" => Lands(q)'
    BY <1>1, <1>2, <1>7, <1>16, <2>1, <2>2, <2>3 DEF Core, StructureOK
  <2> QED
    BY <1>6, <1>7, <1>16, <2>4, <2>5 DEF StructureOK, Lands, Reached
<1>24. Listed'
  BY <1>1, <1>2, <1>6, <1>7, <1>16 DEF Core, Listed
<1> QED
  BY <1>1, <1>5, <1>18, <1>19, <1>20, <1>21, <1>22, <1>23, <1>24, Unfinished DEF IInv, Core

\* The function's returns lead to its end, and no construct stays open.
LEMMA LeaveFuncSafe ==
  ASSUME IInv, LeaveFunc
  PROVE  IInv'
<1> DEFINE R == endfunc_comefroms
           t == Target("ret", Top.begin)
<1>1. /\ phase = "code" /\ visits # <<>> /\ Top.kind = "func"
      /\ off' = Patch(off, R, pos) /\ label' = With(label, t, pos)
      /\ pos' = pos + 2 * PushInt + 1 /\ endfunc_comefroms' = {}
      /\ cur_loop' = <<>> /\ visits' = <<>>
      /\ UNCHANGED <<phase, symbols, loop_ident, begin_comefroms, end_comefroms,
                     func_comefroms, const_addrs, want>>
  BY DEF LeaveFunc
<1>2. Core /\ TypeOK /\ pos \in Nat /\ Top.begin \in Nat /\ DOMAIN want = DOMAIN off
  BY <1>1, TopFacts DEF TypeOK
<1>3. pos' \in Nat /\ pos' > pos
  BY <1>1, <1>2, SizeFacts
<1>4. Len(visits) = 1 /\ Top = visits[1] /\ Top.begin <= pos
  <2>1. VisitOK(Len(visits)) /\ Top = visits[Len(visits)]
    BY <1>1, TopFacts
  <2>2. Len(visits) = 1 /\ visits[Len(visits)].begin <= pos
    BY <1>1, <2>1 DEF VisitOK
  <2> QED
    BY <2>1, <2>2
<1>5. /\ t \notin DOMAIN label /\ t \in Places /\ t.to = "ret" /\ t.at = Top.begin
      /\ \A f : t # Target("func", f)
  BY <1>1, <1>2, <1>4 DEF Core, LabelsOK, Target, Places, Kinds
<1>6. \A q \in R : q \in DOMAIN off /\ want[q] = t
  BY <1>2, <1>4 DEF Core, ListsOK
<1> HIDE DEF t, R
<1>7. /\ DOMAIN off' = DOMAIN off
      /\ \A q \in DOMAIN off : off'[q] = IF q \in R THEN To(pos, q) ELSE off[q]
  BY <1>1 DEF Patch
<1>8. /\ DOMAIN label' = DOMAIN label \union {t} /\ label'[t] = pos
      /\ \A q \in DOMAIN label : label'[q] = label[q]
  BY <1>1, <1>5 DEF With
<1>9. \A q \in DOMAIN off : q \in Nat /\ To(pos, q) \in Int /\ q + AddrSize + 1 + To(pos, q) = pos
  BY <1>2, SizeFacts DEF TypeOK, To
<1>10. TypeOK'
  <2>1. \A q \in DOMAIN off' : off'[q] \in Int
    BY <1>2, <1>7, <1>9 DEF TypeOK
  <2>2. DOMAIN label' \subseteq Places /\ \A q \in DOMAIN label' : label'[q] \in Nat
    BY <1>2, <1>5, <1>8 DEF TypeOK
  <2>3. visits' \in Seq(VisitType) /\ cur_loop' \in Seq(Nat)
    BY <1>1
  <2> QED
    BY <1>1, <1>2, <1>3, <1>7, <2>1, <2>2, <2>3 DEF TypeOK, VisitType, symbols
<1>11. VisitsOK' /\ SlotsOK' /\ Listed'
  BY <1>1, <1>2 DEF Core, VisitsOK, SlotsOK, Listed
<1>12. Fresh'
  <2>1. \A q \in DOMAIN off : q \in Nat /\ q + AddrSize + 1 <= pos
    BY <1>2, <1>9 DEF Core, Fresh
  <2> QED
    BY <1>2, <1>3, <1>7, <2>1, SizeFacts DEF Fresh
<1>13. LabelsOK'
  <2>1. \A q \in DOMAIN label' : /\ q.to \in {"skip", "endif", "ret"} => q.at \in Nat /\ q.at < pos'
                                 /\ q.to = "again" => label'[q] = q.at
    BY <1>2, <1>3, <1>4, <1>5, <1>8 DEF Core, LabelsOK
  <2>2. \A f \in DOMAIN addr' : /\ Target("func", f) \in DOMAIN label'
                                /\ label'[Target("func", f)] = addr'[f]
    BY <1>1, <1>2, <1>5, <1>8 DEF Core, LabelsOK, symbols
  <2> QED
    BY <1>1, <2>1, <2>2 DEF LabelsOK
<1>14. ListsOK'
  BY <1>1, <1>2, <1>7 DEF Core, ListsOK, Holds, symbols
<1>15. StructureOK'
  <2> SUFFICES ASSUME NEW q \in DOMAIN off
               PROVE  want[q].to \in {"ret", "skip", "endif", "again"} => Lands(q)'
    BY <1>1, <1>2 DEF StructureOK
  <2>1. ~ Waits(q, "block") /\ ~ Waits(q, "else")
    BY <1>4 DEF Waits
  <2>2. CASE q \in R
    <3>1. off'[q] = To(pos, q) /\ want'[q] = t
      BY <1>1, <1>6, <1>7, <2>2
    <3> QED
      BY <1>8, <1>9, <3>1 DEF Lands, Reached
  <2>3. CASE q \notin R
    <3>1. off'[q] = off[q] /\ want'[q] = want[q]
      BY <1>1, <1>7, <2>3
    <3>2. Lands(q) => Lands(q)'
      BY <1>8, <3>1, LandsKept
    <3> QED
      BY <1>2, <2>1, <2>3, <3>2 DEF Core, StructureOK, R
  <2> QED
    BY <2>2, <2>3
<1> QED
  BY <1>1, <1>10, <1>11, <1>12, <1>13, <1>14, <1>15, Unfinished DEF IInv, Core

-------------------------------------------------------------------------------
(***************************************************************************)
(* The ends of the run.                                                    *)
(***************************************************************************)

\* The last pass gives the calls and the accesses of constants their addresses,
\* and no other address.
LEMMA FinishSafe ==
  ASSUME IInv, Finish
  PROVE  IInv'
<1>1. /\ phase = "code" /\ visits = <<>> /\ ~Unlinked
      /\ off' = Linked(pos + 1) /\ pos' = pos + 1 + Len(table) /\ phase' = "done"
      /\ UNCHANGED <<visits, symbols, loops, lists, want, label>>
  BY DEF Finish
<1>2. /\ Core /\ TypeOK /\ pos \in Nat /\ Len(table) \in Nat /\ DOMAIN want = DOMAIN off
      /\ pos' \in Nat /\ pos' > pos
  BY <1>1 DEF IInv, Core, TypeOK
<1>3. ListsOK
  BY <1>2 DEF Core
<1>4. DOMAIN off' = DOMAIN off
  BY <1>1 DEF Linked
<1>5. ASSUME NEW q \in DOMAIN off, want[q].to = "const"
      PROVE  \E c \in const_addrs : c.pos = q /\ off'[q] = c.addr + (pos + 1)
  <2>1. \E c \in const_addrs : c.pos = q
    BY <1>1, <1>2, <1>5 DEF Core, Listed
  <2>2. off'[q] = (CHOOSE c \in const_addrs : c.pos = q).addr + (pos + 1)
    BY <1>1, <2>1 DEF Linked
  <2>3. (CHOOSE c \in const_addrs : c.pos = q) \in {c \in const_addrs : c.pos = q}
    BY <2>1
  <2> QED
    BY <2>2, <2>3
<1>6. ASSUME NEW q \in DOMAIN off, want[q].to = "func"
      PROVE  \E c \in func_comefroms : c.pos = q /\ off'[q] = To(addr[c.fn], q)
  <2>1. \E c \in func_comefroms : c.pos = q
    BY <1>1, <1>2, <1>6 DEF Core, Listed
  <2>2. ~ \E c \in const_addrs : c.pos = q
    BY <1>3, <1>6 DEF ListsOK
  <2>3. off'[q] = To(addr[(CHOOSE c \in func_comefroms : c.pos = q).fn], q)
    BY <1>1, <2>1, <2>2 DEF Linked
  <2>4. (CHOOSE c \in func_comefroms : c.pos = q) \in {c \in func_comefroms : c.pos = q}
    BY <2>1
  <2> QED
    BY <2>3, <2>4
<1>7. ASSUME NEW q \in DOMAIN off, want[q].to \notin {"const", "func"}
      PROVE  off'[q] = off[q]
  <2>1. ~ \E c \in const_addrs : c.pos = q
    BY <1>3, <1>7 DEF ListsOK
  <2>2. \A c \in func_comefroms : want[c.pos].to = "func"
    <3>1. \A c \in func_comefroms : want[c.pos] = Target("func", c.fn)
      BY <1>3 DEF ListsOK
    <3>2. \A x : Target("func", x).to = "func"
      BY DEF Target
    <3> QED
      BY <3>1, <3>2
  <2>3. ~ \E c \in func_comefroms : c.pos = q
    BY <1>7, <2>2
  <2> QED
    BY <1>1, <2>1, <2>3 DEF Linked
<1>8. TypeOK'
  <2>1. \A q \in DOMAIN off' : off'[q] \in Int
    <3> SUFFICES ASSUME NEW q \in DOMAIN off PROVE off'[q] \in Int
      BY <1>4
    <3>1. CASE want[q].to = "const"
      <4>1. PICK c \in const_addrs : c.pos = q /\ off'[q] = c.addr + (pos + 1)
        BY <1>5, <3>1
      <4>2. c.addr \in Int
        BY <1>2 DEF TypeOK
      <4> QED
        BY <1>2, <4>1, <4>2
    <3>2. CASE want[q].to = "func"
      <4>1. PICK c \in func_comefroms : c.pos = q /\ off'[q] = To(addr[c.fn], q)
        BY <1>6, <3>2
      <4>2. addr[c.fn] \in Nat /\ q \in Nat
        BY <1>1, <1>2 DEF TypeOK, Unlinked
      <4> QED
        BY <4>1, <4>2, SizeFacts DEF To
    <3>3. CASE want[q].to \notin {"const", "func"}
      BY <1>2, <1>7, <3>3 DEF TypeOK
    <3> QED
      BY <3>1, <3>2, <3>3
  <2> QED
    BY <1>1, <1>2, <1>4, <2>1 DEF TypeOK, symbols, loops, lists
<1>9. VisitsOK' /\ Listed' /\ SlotsOK'
  BY <1>1, <1>2 DEF Core, VisitsOK, Listed, SlotsOK
<1>10. Fresh'
  <2>1. \A q \in DOMAIN off : q \in Nat /\ q + AddrSize + 1 <= pos
    BY <1>2 DEF Core, Fresh, TypeOK
  <2> QED
    BY <1>2, <1>4, <2>1, SizeFacts DEF Fresh
<1>11. LabelsOK'
  BY <1>1, <1>2 DEF Core, LabelsOK, symbols, TypeOK
<1>12. ListsOK'
  BY <1>1, <1>3, <1>4 DEF ListsOK, Holds, lists, symbols
<1>13. StructureOK'
  <2> SUFFICES ASSUME NEW q \in DOMAIN off, want[q].to \in {"ret", "skip", "endif", "again"}
               PROVE  Lands(q)'
    BY <1>1, <1>2 DEF StructureOK, lists
  <2>1. ~ Waits(q, "block") /\ ~ Waits(q, "else") /\ q \notin endfunc_comefroms
    BY <1>1, <1>3 DEF Waits, ListsOK
  <2>2. Lands(q)
    BY <1>2, <2>1 DEF Core, StructureOK
  <2>3. off'[q] = off[q]
    BY <1>7
  <2> QED
    BY <1>1, <2>2, <2>3 DEF Lands, Reached
<1>14. CallsLinked'
  <2> SUFFICES ASSUME NEW q \in DOMAIN off, want[q].to = "func"
               PROVE  Lands(q)'
    BY <1>1, <1>2 DEF CallsLinked
  <2>1. PICK c \in func_comefroms : c.pos = q /\ off'[q] = To(addr[c.fn], q)
    BY <1>6
  <2>2. want[q] = Target("func", c.fn) /\ c.fn \in DOMAIN addr
    BY <1>1, <1>3, <2>1 DEF ListsOK, Unlinked
  <2>3. want[q] \in DOMAIN label /\ label[want[q]] = addr[c.fn]
    BY <1>2, <2>2 DEF Core, LabelsOK
  <2>4. addr[c.fn] \in Nat /\ q \in Nat
    BY <1>2, <2>2 DEF TypeOK
  <2>5. q + AddrSize + 1 + To(addr[c.fn], q) = addr[c.fn]
    BY <2>4, SizeFacts DEF To
  <2> QED
    BY <1>1, <2>1, <2>3, <2>5 DEF Lands, Reached
<1>15. ASSUME NEW q \in DOMAIN off, want[q].to = "const"
       PROVE  /\ (q + AddrSize + 1 + off'[q]) - (pos' - Len(table)) + 1 \in 1 .. Len(table)
              /\ table[(q + AddrSize + 1 + off'[q]) - (pos' - Len(table)) + 1] =
                   [const |-> want[q].at, k |-> 1]
  <2>1. PICK c \in const_addrs : c.pos = q /\ off'[q] = c.addr + (pos + 1)
    BY <1>5, <1>15
  <2>2. PICK k \in 1 .. Len(table) :
          c.addr = To(k - 1, q) /\ table[k] = [const |-> want[q].at, k |-> 1]
    BY <1>3, <2>1 DEF ListsOK, Holds
  <2>3. q \in Nat
    BY <1>2 DEF TypeOK
  <2>4. (q + AddrSize + 1 + (To(k - 1, q) + (pos + 1))) - ((pos + 1 + Len(table)) - Len(table)) + 1 = k
    BY <1>2, <2>3, SizeFacts DEF To
  <2>5. (q + AddrSize + 1 + off'[q]) - (pos' - Len(table)) + 1 = k
    <3>1. off'[q] = To(k - 1, q) + (pos + 1) /\ pos' = pos + 1 + Len(table)
      BY <1>1, <2>1, <2>2
    <3> QED
      BY <2>4, <3>1, Zenon
  <2> QED
    BY <2>2, <2>5, Zenon
<1>16. ConstsLinked'
  <2>1. want' = want /\ table' = table /\ DOMAIN want = DOMAIN off
    BY <1>1, <1>2 DEF symbols
  <2> QED
    BY <1>15, <2>1, Zenon DEF ConstsLinked, Reached
<1> QED
  BY <1>2, <1>8, <1>9, <1>10, <1>11, <1>12, <1>13, <1>14, <1>16 DEF IInv, Core

\* An exception leaves everything as it is.
LEMMA ThrowSafe ==
  ASSUME IInv, phase = "code", Throw
  PROVE  IInv'
<1>1. /\ Core /\ phase' = "error" /\ phase # "done"
      /\ UNCHANGED <<pos, off, visits, symbols, loops, lists, want, label>>
  BY DEF Throw, IInv
<1> USE DEF symbols, loops, lists
<1>2. TypeOK' /\ VisitsOK'
  BY <1>1 DEF Core, TypeOK, VisitsOK, VisitOK
<1>3. Fresh' /\ LabelsOK' /\ ListsOK' /\ SlotsOK'
  BY <1>1 DEF Core, Fresh, LabelsOK, ListsOK, Holds, SlotsOK, SlotOK
<1>4. StructureOK' /\ Listed'
  BY <1>1 DEF Core, StructureOK, Listed, Waits, Lands, Reached
<1> QED
  BY <1>1, <1>2, <1>3, <1>4, Unfinished DEF IInv, Core

\* Nothing is written when main begins.
LEMMA InitSafe == Init => IInv
<1> SUFFICES ASSUME Init PROVE IInv
  OBVIOUS
<1>1. /\ phase = "start" /\ pos = 0 /\ visits = <<>> /\ table = <<>>
      /\ DOMAIN off = {} /\ DOMAIN want = {} /\ DOMAIN label = {} /\ DOMAIN addr = {}
      /\ loop_ident = 0 /\ cur_loop = <<>>
      /\ begin_comefroms = {} /\ end_comefroms = {} /\ endfunc_comefroms = {}
      /\ func_comefroms = {} /\ const_addrs = {}
  BY DEF Init
<1>2. TypeOK
  BY <1>1 DEF TypeOK
<1>3. VisitsOK /\ Fresh /\ LabelsOK /\ ListsOK /\ SlotsOK
  BY <1>1 DEF VisitsOK, Fresh, LabelsOK, ListsOK, SlotsOK
<1>4. StructureOK /\ Listed /\ CallsLinked /\ ConstsLinked
  BY <1>1 DEF StructureOK, Listed, CallsLinked, ConstsLinked
<1> QED
  BY <1>2, <1>3, <1>4 DEF IInv, Core

\* Every step preserves the invariant.
LEMMA NextSafe ==
  ASSUME IInv, [Next]_vars
  PROVE  IInv'
<1>1. CASE Start \/ WriteExpr \/ Finish
  BY <1>1, StartSafe, WriteExprSafe, FinishSafe
<1>2. CASE FinishError
  BY <1>2, ThrowSafe DEF FinishError
<1>3. ASSUME NEW f \in Funcs, EnterFunc(f)
      PROVE  IInv'
  BY <1>3, EnterFuncSafe
<1>4. ASSUME NEW f \in Funcs, NEW n \in ArgCounts, Call(f, n)
      PROVE  IInv'
  BY <1>4, CallSafe
<1>5. ASSUME NEW f \in Funcs, NEW n \in ArgCounts, CallError(f, n)
      PROVE  IInv'
  BY <1>5, ThrowSafe DEF CallError, InExpr
<1>6. ASSUME NEW c \in Consts, NEW extcall \in {0, 1}, PushConst(c, extcall)
      PROVE  IInv'
  BY <1>6, PushConstSafe
<1>7. CASE Return \/ LeaveFunc
  BY <1>7, ReturnSafe, LeaveFuncSafe
<1>8. CASE EnterCond \/ EnterLoop \/ TestCond
  BY <1>8, EnterCondSafe, EnterLoopSafe, TestCondSafe
<1>9. CASE EnterElse \/ LeaveCond \/ LeaveLoop
  BY <1>9, EnterElseSafe, LeaveCondSafe, LeaveLoopSafe
<1>10. ASSUME NEW n \in Depths, LoopBreak(n) \/ LoopNext(n)
       PROVE  IInv'
  <2>1. n \in Int
    BY AsmAssumption DEF AsmAssumption
  <2> QED
    BY <1>10, <2>1, LoopBreakSafe, LoopNextSafe
<1>11. CASE LoopJumpError
  BY <1>11, ThrowSafe DEF LoopJumpError, InStmt, InExpr
<1>12. CASE UNCHANGED vars
  <2>1. UNCHANGED <<phase, pos, off, visits, addr, table, loop_ident, cur_loop,
                    begin_comefroms, end_comefroms, endfunc_comefroms, func_comefroms,
                    const_addrs, want, label>>
    BY <1>12 DEF vars, symbols, loops, lists
  <2>2. Core'
    BY <2>1 DEF IInv, Core, TypeOK, VisitsOK, VisitOK, Fresh, LabelsOK, ListsOK, Holds,
                SlotsOK, SlotOK, StructureOK, Waits, Lands, Reached, Listed
  <2>3. CallsLinked' /\ ConstsLinked'
    BY <2>1 DEF IInv, CallsLinked, ConstsLinked, Lands, Reached
  <2> QED
    BY <2>2, <2>3 DEF IInv
<1> QED
  BY <1>1, <1>2, <1>3, <1>4, <1>5, <1>6, <1>7, <1>8, <1>9, <1>10, <1>11, <1>12 DEF Next

-------------------------------------------------------------------------------
(***************************************************************************)
(* Theorems.                                                               *)
(***************************************************************************)

\* The inductive invariant holds whatever program is compiled.
THEOREM Invariance == Spec => []IInv
<1>1. Init => IInv
  BY InitSafe
<1>2. IInv /\ [Next]_vars => IInv'
  BY NextSafe
<1> QED
  BY <1>1, <1>2, PTL DEF Spec

\* The stream's position, the offsets and the lists have their types, and every
\* return on the list of the current function is a position in the stream.
THEOREM TypeCorrect == Spec => []TypeOK
<1>1. IInv => TypeOK
  BY DEF IInv, Core
<1> QED
  BY <1>1, Invariance, PTL

\* However if statements and loops are nested, in whichever order their jumps are
\* patched, and however many returns a function has: the finished program's
\* structured jumps lead to the end or the begin of their own construct.
THEOREM StructureCorrect == Spec => []StructureLinked
<1>1. IInv => StructureLinked
  <2> SUFFICES ASSUME IInv, phase = "done", NEW p \in DOMAIN want,
                      want[p].to \in {"ret", "skip", "endif", "again"}
               PROVE  Lands(p)
    BY DEF StructureLinked
  <2>1. visits = <<>> /\ StructureOK /\ ListsOK
    BY DEF IInv, Core, VisitsOK
  <2>2. ~ Waits(p, "block") /\ ~ Waits(p, "else") /\ p \notin endfunc_comefroms
    BY <2>1 DEF Waits, ListsOK
  <2> QED
    BY <2>1, <2>2 DEF StructureOK
<1> QED
  BY <1>1, Invariance, PTL

\* Every call of the finished program, also one of a function that is defined
\* later, leads to the first instruction of the function called.
THEOREM CallsCorrect == Spec => []CallsLinked
<1>1. IInv => CallsLinked
  BY DEF IInv
<1> QED
  BY <1>1, Invariance, PTL

\* Every constant of the finished program is read where it begins in the table,
\* whose address is known only at the end.
THEOREM ConstsCorrect == Spec => []ConstsLinked
<1>1. IInv => ConstsLinked
  BY DEF IInv
<1> QED
  BY <1>1, Invariance, PTL

-------------------------------------------------------------------------------
(***************************************************************************)
(* The jumps of break and next.                                            *)
(*                                                                         *)
(* A saved jump carries the number of its loop; the numbers of the open    *)
(* loops grow inwards, and the last number given is that of the loop which *)
(* ends only if no other loop began in between.                            *)
(***************************************************************************)

\* the loops around the statement that are not inside of the one with visit i
Rank(i)  == Cardinality({j \in Loops : j <= i})
Ident(i) == cur_loop[Rank(i)]

\* an inner loop began after the loop with address b
Begun(b) == \E t \in DOMAIN label : t.to = "begin" /\ b < t.at

OpenOK ==
  /\ Len(cur_loop) = Cardinality(Loops)
  /\ \A k \in 1 .. Len(cur_loop) : \E i \in Loops : Rank(i) = k
  /\ \A i \in Loops :
       /\ Rank(i) \in 1 .. Len(cur_loop) /\ Ident(i) <= loop_ident
       /\ \A j \in Loops : i < j => Ident(i) < Ident(j)
       /\ Target("begin", visits[i].begin) \in DOMAIN label
       /\ Ident(i) < loop_ident => Begun(visits[i].begin)

EndsOK ==
  \A t \in DOMAIN label :
    /\ t.to = "begin" => label[t] = t.at /\ t.at <= pos
    /\ t.to = "end"   => label[t] <= pos /\ Target("skip", t.at) \in DOMAIN label

\* a saved jump is one of an open loop, or one of a loop that had inner loops
Live(c) ==
  \E i \in Loops : /\ want[c.pos] = Target(want[c.pos].to, visits[i].begin)
                  /\ c.ident = Ident(i)

Closed(b) == Target("end", b) \in DOMAIN label /\ HasInner(b)

SavedOK(comefroms, to) ==
  /\ \A c \in comefroms : want[c.pos].to = to /\ (Live(c) \/ Closed(want[c.pos].at))
  /\ \A p \in DOMAIN want :
       want[p].to = to => Lands(p) \/ Closed(want[p].at) \/ \E c \in comefroms : c.pos = p

\* the same after a step, of the list that there is then
SavedThen(D, to) ==
  /\ \A c \in D : want'[c.pos].to = to /\ (Live(c)' \/ Closed(want[c.pos].at)')
  /\ \A q \in DOMAIN want' :
       want'[q].to = to =>
         Lands(q)' \/ Closed(want[q].at)' \/ \E c \in D : c.pos = q

LoopInv ==
  /\ OpenOK /\ EndsOK
  /\ SavedOK(begin_comefroms, "begin") /\ SavedOK(end_comefroms, "end")

\* Adding an element above all others to a set of numbers.
LEMMA RankAdd ==
  ASSUME NEW n \in Nat, NEW S \in SUBSET (1 .. n)
  PROVE  /\ IsFiniteSet(S) /\ Cardinality(S) \in Nat
         /\ Cardinality(S \union {n + 1}) = Cardinality(S) + 1
         /\ {j \in S \union {n + 1} : j <= n + 1} = S \union {n + 1}
         /\ \A i \in S : /\ {j \in S \union {n + 1} : j <= i} = {j \in S : j <= i}
                         /\ Cardinality({j \in S : j <= i}) \in 1 .. Cardinality(S)
<1>1. IsFiniteSet(1 .. n)
  BY FS_Interval
<1>2. IsFiniteSet(S) /\ Cardinality(S) \in Nat
  BY <1>1, FS_Subset, FS_CardinalityType
<1>3. n + 1 \notin S
  OBVIOUS
<1>4. Cardinality(S \union {n + 1}) = Cardinality(S) + 1
  BY <1>2, <1>3, FS_AddElement
<1>5. ASSUME NEW i \in S
      PROVE  Cardinality({j \in S : j <= i}) \in 1 .. Cardinality(S)
  <2> DEFINE T == {j \in S : j <= i}
  <2>1. T \in SUBSET S /\ i \in T
    OBVIOUS
  <2> HIDE DEF T
  <2>2. IsFiniteSet(T) /\ Cardinality(T) <= Cardinality(S) /\ Cardinality(T) \in Nat
    BY <1>2, <2>1, FS_Subset, FS_CardinalityType
  <2>3. Cardinality(T) # 0
    BY <2>1, <2>2, FS_EmptySet
  <2> QED
    BY <1>2, <2>2, <2>3 DEF T
<1>6. ASSUME NEW i \in S
      PROVE  {j \in S \union {n + 1} : j <= i} = {j \in S : j <= i}
  <2>1. i \in 1 .. n /\ ~(n + 1 <= i)
    OBVIOUS
  <2>2. \A j \in S \union {n + 1} : j <= i => j \in S
    BY <2>1
  <2> QED
    BY <2>2, Zenon
<1>7. {j \in S \union {n + 1} : j <= n + 1} = S \union {n + 1}
  <2>1. \A j \in S \union {n + 1} : j <= n + 1
    OBVIOUS
  <2> QED
    BY <2>1, Zenon
<1> QED
  BY <1>2, <1>4, <1>5, <1>6, <1>7

\* The rank from below and the rank from above.
LEMMA RankInside ==
  ASSUME NEW n \in Nat, NEW S \in SUBSET (1 .. n), NEW i \in S
  PROVE  Cardinality({j \in S : j > i}) = Cardinality(S) - Cardinality({j \in S : j <= i})
<1> DEFINE T == {j \in S : j <= i}
           U == {j \in S : j > i}
<1>1. IsFiniteSet(S)
  BY RankAdd
<1>2. T \in SUBSET S /\ U \in SUBSET S /\ T \union U = S /\ T \intersect U = {}
  <2>1. \A j \in S : j <= i \/ j > i
    OBVIOUS
  <2>2. \A j \in S : ~(j <= i /\ j > i)
    OBVIOUS
  <2> QED
    BY <2>1, <2>2
<1> HIDE DEF T, U
<1>3. /\ IsFiniteSet(T) /\ IsFiniteSet(U) /\ Cardinality(T) \in Nat /\ Cardinality(U) \in Nat
  BY <1>1, <1>2, FS_Subset, FS_CardinalityType
<1>4. Cardinality(S) = Cardinality(T) + Cardinality(U)
  <2>1. Cardinality(T \union U) = Cardinality(T) + Cardinality(U) - Cardinality(T \intersect U)
    BY <1>3, FS_Union
  <2>2. Cardinality(T \intersect U) = 0
    BY <1>2, FS_EmptySet
  <2> QED
    BY <1>2, <1>3, <2>1, <2>2
<1> QED
  BY <1>3, <1>4 DEF T, U

\* The loops are visits, and an open loop begins before any other statement in it.
LEMMA LoopFacts ==
  ASSUME IInv
  PROVE  /\ Len(visits) \in Nat /\ Loops \in SUBSET (1 .. Len(visits))
         /\ Cardinality(Loops) \in Nat /\ pos \in Nat
         /\ cur_loop \in Seq(Nat) /\ Len(cur_loop) \in Nat /\ loop_ident \in Nat
         /\ \A i \in Loops : i >= 2 /\ visits[i].begin \in Nat /\ visits[i].kind = "loop"
         /\ DOMAIN want = DOMAIN off
         /\ begin_comefroms \subseteq Jumps /\ end_comefroms \subseteq Jumps
<1>1. TypeOK /\ VisitsOK /\ Len(visits) \in Nat /\ pos \in Nat
  BY VisitFacts DEF IInv, Core
<1>2. Loops \in SUBSET (1 .. Len(visits))
  BY DEF Loops
<1>3. Cardinality(Loops) \in Nat
  BY <1>1, <1>2, RankAdd
<1>4. \A i \in Loops : i >= 2 /\ visits[i].begin \in Nat /\ visits[i].kind = "loop"
  <2> TAKE i \in Loops
  <2>1. i \in 1 .. Len(visits) /\ visits[i].kind = "loop"
    BY DEF Loops
  <2>2. VisitOK(i)
    BY <1>1, <2>1 DEF VisitsOK
  <2> QED
    BY <1>1, <2>1, <2>2, VisitFacts DEF VisitOK
<1>5. cur_loop \in Seq(Nat) /\ loop_ident \in Nat /\ DOMAIN want = DOMAIN off
      /\ begin_comefroms \subseteq Jumps /\ end_comefroms \subseteq Jumps
  BY <1>1 DEF TypeOK
<1> QED
  BY <1>1, <1>2, <1>3, <1>4, <1>5

\* the label of a begin or an end
LoopLabel(t) == t.to \in {"begin", "end"}

\* A loop that had inner loops keeps them.
LEMMA ClosedKept ==
  ASSUME DOMAIN label \subseteq DOMAIN label', NEW b, Closed(b),
         \A t \in DOMAIN label : t.to = "end" => label[t] \in Int
                                   /\ label'[t] \in Int /\ label[t] <= label'[t],
         \A t \in DOMAIN label : t.to = "begin" => t.at \in Int
  PROVE  Closed(b)'
<1>1. PICK t \in DOMAIN label : t.to = "begin" /\ t.at > b /\ t.at < label[Target("end", b)]
  BY DEF Closed, HasInner
<1> DEFINE e == Target("end", b)
<1>2. e \in DOMAIN label /\ e.to = "end"
  BY DEF Closed, Target
<1> HIDE DEF e
<1>3. t \in DOMAIN label' /\ e \in DOMAIN label'
  BY <1>2
<1>4. t.at < label'[e]
  BY <1>1, <1>2 DEF e
<1> QED
  BY <1>1, <1>3, <1>4 DEF Closed, HasInner, e

\* Steps that neither open nor close a loop nor save a jump.
LEMMA LoopsKept ==
  ASSUME IInv, LoopInv, pos' \in Nat, pos' >= pos,
         Loops' = Loops, \A i \in Loops : visits'[i].begin = visits[i].begin,
         cur_loop' = cur_loop, loop_ident' = loop_ident,
         begin_comefroms' = begin_comefroms, end_comefroms' = end_comefroms,
         DOMAIN label \subseteq DOMAIN label',
         \A t \in DOMAIN label : LoopLabel(t) => label'[t] = label[t],
         \A t \in DOMAIN label' : LoopLabel(t) => t \in DOMAIN label,
         \A p \in DOMAIN want :
           /\ p \in DOMAIN want' /\ want'[p] = want[p]
           /\ LoopLabel(want[p]) => off'[p] = off[p],
         \A p \in DOMAIN want' : LoopLabel(want'[p]) => p \in DOMAIN want
  PROVE  LoopInv'
<1>1. /\ Len(visits) \in Nat /\ pos \in Nat
      /\ \A i \in Loops : visits[i].begin \in Nat /\ Rank(i)' = Rank(i) /\ Ident(i)' = Ident(i)
      /\ DOMAIN want = DOMAIN off
  BY LoopFacts DEF Rank, Ident
<1>2. \A t \in DOMAIN label : label[t] \in Nat
  BY DEF IInv, Core, TypeOK
<1>3. \A b : Begun(b) => Begun(b)'
  BY DEF Begun
<1>4. OpenOK'
  <2>1. /\ Len(cur_loop') = Cardinality(Loops')
        /\ \A k \in 1 .. Len(cur_loop') : \E i \in Loops' : Rank(i)' = k
    BY <1>1 DEF LoopInv, OpenOK
  <2>2. ASSUME NEW i \in Loops'
        PROVE  /\ Rank(i)' \in 1 .. Len(cur_loop') /\ Ident(i)' <= loop_ident'
               /\ \A j \in Loops' : i < j => Ident(i)' < Ident(j)'
               /\ Target("begin", visits'[i].begin) \in DOMAIN label'
               /\ Ident(i)' < loop_ident' => Begun(visits[i].begin)'
    <3>1. i \in Loops /\ Rank(i)' = Rank(i) /\ Ident(i)' = Ident(i)
          /\ \A j \in Loops' : Ident(j)' = Ident(j)
      BY <1>1
    <3>2. visits'[i].begin = visits[i].begin
      BY <3>1
    <3>3. Ident(i) < loop_ident => Begun(visits[i].begin)
      BY <3>1 DEF LoopInv, OpenOK
    <3>4. Ident(i)' < loop_ident' => Begun(visits[i].begin)'
      <4> DEFINE b == visits[i].begin
      <4>1. Begun(b) => \E t \in DOMAIN label' : t.to = "begin" /\ b < t.at
        BY DEF Begun
      <4>2. visits'[i].begin = b
        BY <3>2
      <4> HIDE DEF b
      <4>3. Ident(i)' < loop_ident' => Begun(b)
        BY <3>1, <3>3 DEF b
      <4> QED
        BY <4>1, <4>2, <4>3 DEF Begun
    <3> QED
      BY <3>1, <3>2, <3>4 DEF LoopInv, OpenOK
  <2> QED
    BY <2>1, <2>2 DEF OpenOK
<1>5. EndsOK'
  <2> SUFFICES ASSUME NEW t \in DOMAIN label', LoopLabel(t)
               PROVE  /\ t.to = "begin" => label'[t] = t.at /\ t.at <= pos'
                      /\ t.to = "end"   => label'[t] <= pos' /\ Target("skip", t.at) \in DOMAIN label'
    BY DEF EndsOK, LoopLabel
  <2>1. t \in DOMAIN label /\ label'[t] = label[t] /\ label[t] \in Nat
    BY <1>2
  <2>2. /\ t.to = "begin" => label[t] = t.at /\ t.at <= pos
        /\ t.to = "end"   => label[t] <= pos /\ Target("skip", t.at) \in DOMAIN label
    BY <2>1 DEF LoopInv, EndsOK
  <2> QED
    BY <1>1, <2>1, <2>2
<1>6. ASSUME NEW b, Closed(b) PROVE Closed(b)'
  <2>1. \A t \in DOMAIN label : t.to = "end" => label[t] \in Int
                                   /\ label'[t] \in Int /\ label[t] <= label'[t]
    BY <1>2 DEF LoopLabel
  <2>2. \A t \in DOMAIN label : t.to = "begin" => t.at \in Int
    BY <1>2 DEF LoopInv, EndsOK
  <2> QED
    BY <1>6, <2>1, <2>2, ClosedKept
<1>7. ASSUME NEW C, NEW to \in {"begin", "end"}, SavedOK(C, to),
             \A c \in C : c.pos \in DOMAIN want
      PROVE  /\ \A c \in C : want'[c.pos].to = to /\ (Live(c)' \/ Closed(want[c.pos].at)')
             /\ \A p \in DOMAIN want' :
                  want'[p].to = to =>
                    Lands(p)' \/ Closed(want[p].at)' \/ \E c \in C : c.pos = p
  <2>1. ASSUME NEW c \in C
        PROVE  want'[c.pos].to = to /\ (Live(c)' \/ Closed(want[c.pos].at)')
    <3>1. want'[c.pos] = want[c.pos] /\ want[c.pos].to = to
      BY <1>7 DEF SavedOK
    <3>2. Live(c) \/ Closed(want[c.pos].at)
      BY <1>7 DEF SavedOK
    <3>3. Live(c) => Live(c)'
      BY <1>1, <3>1 DEF Live
    <3> QED
      BY <1>6, <3>1, <3>2, <3>3
  <2>2. ASSUME NEW p \in DOMAIN want', want'[p].to = to
        PROVE  Lands(p)' \/ Closed(want[p].at)' \/ \E c \in C : c.pos = p
    <3>1. p \in DOMAIN want /\ want'[p] = want[p] /\ off'[p] = off[p] /\ want[p].to = to
      BY <2>2 DEF LoopLabel
    <3>2. Lands(p) => Lands(p)'
      <4>1. want[p] \in DOMAIN label =>
              want[p] \in DOMAIN label' /\ label'[want[p]] = label[want[p]]
        BY <3>1 DEF LoopLabel
      <4> QED
        BY <3>1, <4>1, LandsKept
    <3>3. Lands(p) \/ Closed(want[p].at) \/ \E c \in C : c.pos = p
      BY <1>7, <3>1 DEF SavedOK
    <3> QED
      BY <1>6, <3>1, <3>2, <3>3
  <2> QED
    BY <2>1, <2>2
<1>8. /\ \A c \in begin_comefroms : c.pos \in DOMAIN want
      /\ \A c \in end_comefroms : c.pos \in DOMAIN want
  BY <1>1 DEF IInv, Core, ListsOK
<1>9. SavedOK(begin_comefroms, "begin")'
  <2>1. SavedOK(begin_comefroms, "begin")
    BY DEF LoopInv
  <2> DEFINE C == begin_comefroms
  <2>2. /\ \A c \in C : want'[c.pos].to = "begin" /\ (Live(c)' \/ Closed(want[c.pos].at)')
        /\ \A p \in DOMAIN want' :
             want'[p].to = "begin" =>
               Lands(p)' \/ Closed(want[p].at)' \/ \E c \in C : c.pos = p
    <3> HIDE DEF C
    <3> QED
      BY <1>7, <1>8, <2>1 DEF C
  <2> QED
    BY <2>2 DEF SavedOK
<1>10. SavedOK(end_comefroms, "end")'
  <2>1. SavedOK(end_comefroms, "end")
    BY DEF LoopInv
  <2> DEFINE C == end_comefroms
  <2>2. /\ \A c \in C : want'[c.pos].to = "end" /\ (Live(c)' \/ Closed(want[c.pos].at)')
        /\ \A p \in DOMAIN want' :
             want'[p].to = "end" =>
               Lands(p)' \/ Closed(want[p].at)' \/ \E c \in C : c.pos = p
    <3> HIDE DEF C
    <3> QED
      BY <1>7, <1>8, <2>1 DEF C
  <2> QED
    BY <2>2 DEF SavedOK
<1> QED
  BY <1>4, <1>5, <1>9, <1>10 DEF LoopInv

\* An address written at the end of the stream that is not a jump of break or next.
LEMMA WriteKept ==
  ASSUME IInv, LoopInv, NEW a \in Nat, a >= pos, NEW w, ~LoopLabel(w), NEW x,
         off' = With(off, JumpSlot(a), x), want' = With(want, JumpSlot(a), w),
         pos' \in Nat, pos' >= pos, UNCHANGED <<visits, loops, begin_comefroms, end_comefroms, label>>
  PROVE  LoopInv'
<1> DEFINE p == JumpSlot(a)
<1>1. p \notin DOMAIN off /\ DOMAIN want = DOMAIN off
  BY NewSlot, LoopFacts DEF IInv, Core
<1> HIDE DEF p
<1>2. /\ \A q \in DOMAIN want : /\ q \in DOMAIN want' /\ want'[q] = want[q]
                                /\ off'[q] = off[q]
      /\ \A q \in DOMAIN want' : LoopLabel(want'[q]) => q \in DOMAIN want
  BY <1>1 DEF With, p
<1>3. Loops' = Loops
  BY DEF Loops
<1> QED
  BY <1>2, <1>3, LoopsKept DEF loops

\* Code without addresses, returns and the start-up code.
LEMMA WriteKeepsLoops ==
  ASSUME IInv, LoopInv, Start \/ WriteExpr \/ Return
  PROVE  LoopInv'
<1>0. pos \in Nat /\ PushInt \in Nat /\ pos >= pos /\ pos + PushInt \in Nat /\ pos + PushInt >= pos
  BY LoopFacts, SizeFacts
<1>1. \A k \in {"func", "ret"} : \A x : ~LoopLabel(Target(k, x))
  BY DEF LoopLabel, Target
<1>2. \A a \in Nat : JumpEnd(a) \in Nat /\ JumpEnd(a) >= a
  BY SizeFacts DEF JumpEnd
<1>3. CASE Start
  <2>1. /\ WriteCall(Main, 0) /\ pos' = JumpEnd(pos + PushInt) + 1
    BY <1>3 DEF Start
  <2>2. pos' \in Nat /\ pos' >= pos
    BY <1>0, <1>2, <2>1
  <2> QED
    BY <1>0, <1>1, <2>1, <2>2, WriteKept DEF WriteCall
<1>4. CASE Return
  <2>1. pos' \in Nat /\ pos' >= pos
    BY <1>0, <1>2, <1>4 DEF Return
  <2> QED
    BY <1>0, <1>1, <1>4, <2>1, WriteKept DEF Return
<1>5. CASE WriteExpr
  <2>1. pos' \in Nat /\ pos' >= pos
    BY <1>0, <1>5, AsmAssumption DEF WriteExpr
  <2>2. UNCHANGED <<off, visits, loops, begin_comefroms, end_comefroms, want, label>>
    BY <1>5 DEF WriteExpr, lists
  <2>3. Loops' = Loops
    BY <2>2 DEF Loops
  <2> QED
    BY <2>1, <2>2, <2>3, LoopsKept DEF loops
<1> QED
  BY <1>3, <1>4, <1>5

\* A call.
LEMMA CallKeepsLoops ==
  ASSUME IInv, LoopInv, NEW f, NEW n, Call(f, n)
  PROVE  LoopInv'
<1>1. pos \in Nat /\ pos + PushInt \in Nat /\ pos + PushInt >= pos
  BY LoopFacts, SizeFacts
<1>2. ~LoopLabel(Target("func", f))
  BY DEF LoopLabel, Target
<1>3. /\ WriteCall(f, n) /\ pos' = JumpEnd(pos + PushInt)
  BY DEF Call
<1>4. pos' \in Nat /\ pos' >= pos
  BY <1>1, <1>3, SizeFacts DEF JumpEnd
<1> QED
  BY <1>1, <1>2, <1>3, <1>4, WriteKept DEF WriteCall

\* A constant.
LEMMA ConstKeepsLoops ==
  ASSUME IInv, LoopInv, NEW c \in Consts, NEW extcall \in {0, 1}, PushConst(c, extcall)
  PROVE  LoopInv'
<1>1. pos \in Nat /\ pos >= pos
  BY LoopFacts
<1>2. ~LoopLabel(Target("const", c))
  BY DEF LoopLabel, Target
<1>3. pos' \in Nat /\ pos' >= pos
  BY <1>1, SizeFacts DEF PushConst, JumpEnd
<1> QED
  BY <1>1, <1>2, <1>3, WriteKept DEF PushConst

\* No loop is open outside of functions and at the end of one.
LEMMA FuncKeepsLoops ==
  ASSUME IInv, LoopInv, NEW f \in Funcs, EnterFunc(f) \/ LeaveFunc
  PROVE  LoopInv'
<1>0. pos \in Nat /\ DOMAIN want = DOMAIN off /\ cur_loop \in Seq(Nat)
  BY LoopFacts
<1>1. CASE EnterFunc(f)
  <2>1. /\ visits = <<>> /\ visits' = << [Visit("func", pos) EXCEPT !.stage = "body"] >>
        /\ label' = With(label, Target("func", f), pos)
        /\ UNCHANGED <<pos, off, loops, begin_comefroms, end_comefroms, want>>
    BY <1>1 DEF EnterFunc, lists
  <2>2. Len(visits') = 1 /\ visits'[1].kind = "func" /\ Len(visits) = 0
    BY <2>1 DEF Visit
  <2>3. Loops = {} /\ Loops' = {}
    BY <2>2 DEF Loops
  <2>4. Target("func", f).to = "func"
    BY DEF Target
  <2> DEFINE t == Target("func", f)
  <2> HIDE DEF t
  <2>5. /\ DOMAIN label \subseteq DOMAIN label'
        /\ \A x \in DOMAIN label : LoopLabel(x) => label'[x] = label[x]
        /\ \A x \in DOMAIN label' : LoopLabel(x) => x \in DOMAIN label
    BY <2>1, <2>4 DEF With, LoopLabel, t
  <2> QED
    BY <1>0, <2>1, <2>3, <2>5, LoopsKept DEF loops
<1>2. CASE LeaveFunc
  <2>1. /\ visits # <<>> /\ Top.kind = "func"
        /\ off' = Patch(off, endfunc_comefroms, pos)
        /\ label' = With(label, Target("ret", Top.begin), pos)
        /\ pos' = pos + 2 * PushInt + 1
        /\ cur_loop' = <<>> /\ visits' = <<>>
        /\ UNCHANGED <<loop_ident, begin_comefroms, end_comefroms, want>>
    BY <1>2 DEF LeaveFunc
  <2>2. Len(visits) = 1 /\ visits[1].kind = "func"
    BY <2>1, TopFacts DEF VisitOK
  <2>3. Loops = {} /\ Loops' = {}
    BY <2>1, <2>2 DEF Loops
  <2>4. cur_loop = <<>>
    <3>1. Len(cur_loop) = 0
      BY <2>3, FS_EmptySet DEF LoopInv, OpenOK
    <3> QED
      BY <1>0, <3>1
  <2>5. Target("ret", Top.begin).to = "ret"
    BY DEF Target
  <2> DEFINE t == Target("ret", Top.begin)
  <2> HIDE DEF t
  <2>6. /\ DOMAIN label \subseteq DOMAIN label'
        /\ \A x \in DOMAIN label : LoopLabel(x) => label'[x] = label[x]
        /\ \A x \in DOMAIN label' : LoopLabel(x) => x \in DOMAIN label
    BY <2>1, <2>5 DEF With, LoopLabel, t
  <2>7. \A q \in DOMAIN want : LoopLabel(want[q]) => off'[q] = off[q]
    <3>1. \A q \in endfunc_comefroms : want[q].to = "ret"
      BY DEF IInv, Core, ListsOK, Target
    <3> QED
      BY <1>0, <2>1, <3>1 DEF Patch, LoopLabel
  <2>8. pos' \in Nat /\ pos' >= pos
    BY <1>0, <2>1, SizeFacts
  <2> QED
    BY <2>1, <2>3, <2>4, <2>6, <2>7, <2>8, LoopsKept
<1> QED
  BY <1>1, <1>2

\* A condition has no loops of its own.
LEMMA CondKeepsLoops ==
  ASSUME IInv, LoopInv, EnterCond \/ TestCond
  PROVE  LoopInv'
<1>0. pos \in Nat /\ DOMAIN want = DOMAIN off /\ Len(visits) \in Nat
  BY LoopFacts
<1>1. CASE EnterCond
  <2>1. /\ Block /\ visits' = Append(visits, Visit("cond", pos))
        /\ UNCHANGED <<phase, pos, off, loops, begin_comefroms, end_comefroms, want, label>>
    BY <1>1 DEF EnterCond, lists
  <2>2. /\ Len(visits') = Len(visits) + 1
        /\ \A i \in 1 .. Len(visits) : visits'[i] = visits[i]
        /\ visits'[Len(visits) + 1].kind = "cond"
    <3>1. Visit("cond", pos).kind = "cond"
      BY DEF Visit
    <3> QED
      BY <2>1, <3>1, PushVisit
  <2>3. Loops' = Loops /\ \A i \in Loops : visits'[i].begin = visits[i].begin
    BY <1>0, <2>2 DEF Loops
  <2>4. pos' \in Nat /\ pos' >= pos
    BY <1>0, <2>1
  <2> QED
    BY <2>1, <2>3, <2>4, LoopsKept DEF loops
<1>2. CASE TestCond
  <2> DEFINE n == Len(visits)
             p == JumpSlot(pos + 1)
             w == Target("skip", Top.begin)
             v == [Top EXCEPT !.stage = "block", !.slot = p, !.before = JumpEnd(pos + 1)]
  <2>1. /\ visits # <<>> /\ off' = With(off, p, 0) /\ want' = With(want, p, w)
        /\ visits' = Replaced(v) /\ pos' = JumpEnd(pos + 1)
        /\ UNCHANGED <<loops, begin_comefroms, end_comefroms, label>>
    BY <1>2 DEF TestCond, lists
  <2>2. /\ pos + 1 \in Nat /\ pos + 1 >= pos /\ Fresh /\ TypeOK
    BY <1>0 DEF IInv, Core
  <2>3. p \in Nat /\ p \notin DOMAIN off /\ pos' \in Nat /\ pos' >= pos
    BY <1>0, <2>1, <2>2, NewSlot
  <2>4. /\ Top = visits[n] /\ Top \in VisitType /\ n >= 1
    BY <2>1, TopFacts
  <2>5. v \in VisitType /\ v.kind = Top.kind /\ v.begin = Top.begin
    <3>1. JumpEnd(pos + 1) \in Nat
      BY <2>2, NewSlot
    <3> QED
      BY <2>3, <2>4, <3>1 DEF VisitType
  <2>6. w.to = "skip"
    BY DEF Target
  <2> HIDE DEF p, v, w
  <2>7. Len(visits') = n /\ (\A i \in 1 .. n - 1 : visits'[i] = visits[i]) /\ visits'[n] = v
    BY <2>1, <2>5, ReplacedFacts
  <2>8. Loops' = Loops /\ \A i \in Loops : visits'[i].begin = visits[i].begin
    <3>1. \A i \in 1 .. n : visits'[i].kind = visits[i].kind /\ visits'[i].begin = visits[i].begin
      <4> TAKE i \in 1 .. n
      <4>1. CASE i = n
        BY <2>4, <2>5, <2>7, <4>1
      <4>2. CASE i # n
        BY <1>0, <2>7, <4>2
      <4> QED
        BY <4>1, <4>2
    <3> QED
      BY <2>7, <3>1 DEF Loops
  <2>9. /\ \A q \in DOMAIN want : /\ q \in DOMAIN want' /\ want'[q] = want[q]
                                  /\ off'[q] = off[q]
        /\ \A q \in DOMAIN want' : LoopLabel(want'[q]) => q \in DOMAIN want
    BY <1>0, <2>1, <2>3, <2>6 DEF With, LoopLabel
  <2> QED
    BY <2>1, <2>3, <2>8, <2>9, LoopsKept DEF loops
<1> QED
  BY <1>1, <1>2

\* The end of a block, which patches the jump of its own condition.
LEMMA BlockKeepsLoops ==
  ASSUME IInv, LoopInv, EnterElse \/ LeaveCond
  PROVE  LoopInv'
<1> DEFINE n  == Len(visits)
           s  == Top.slot
           to == IF Top.stage = "else" THEN "endif" ELSE "skip"
           t  == Target(to, Top.begin)
<1>0. pos \in Nat /\ DOMAIN want = DOMAIN off /\ n \in Nat
  BY LoopFacts
<1>1. /\ visits # <<>> /\ Top.kind = "cond" /\ Top.stage # "cond"
      /\ UNCHANGED <<loops, begin_comefroms, end_comefroms>>
  BY DEF EnterElse, LeaveCond, lists
<1>2. /\ Top = visits[n] /\ Top \in VisitType /\ n >= 1 /\ TypeOK /\ Fresh /\ VisitOK(n)
  BY <1>1, TopFacts DEF Core
<1>3. Top.stage = "block" \/ Top.stage = "else"
  <2>1. visits[n].stage # "body"
    BY <1>1, <1>2 DEF VisitOK
  <2> QED
    BY <1>1, <1>2, <2>1 DEF VisitType
<1>4. /\ s \in DOMAIN off /\ want[s] = t
  BY <1>1, <1>3, TopSlot
<1>5. ~LoopLabel(t) /\ (EnterElse => t = Target("skip", Top.begin))
  BY DEF LoopLabel, Target, EnterElse
<1> HIDE DEF s, t, to
<1>6. CASE EnterElse
  <2> DEFINE p == JumpSlot(pos)
             w == Target("endif", Top.begin)
             v == [Top EXCEPT !.stage = "else", !.slot = p, !.before = JumpEnd(pos)]
  <2>1. /\ off' = With([off EXCEPT ![s] = JumpEnd(pos) - Top.before], p, 0)
        /\ want' = With(want, p, w) /\ label' = With(label, t, JumpEnd(pos))
        /\ visits' = Replaced(v) /\ pos' = JumpEnd(pos)
    BY <1>5, <1>6 DEF EnterElse, s
  <2>2. p \in Nat /\ p \notin DOMAIN off /\ pos' \in Nat /\ pos' >= pos
    BY <1>0, <1>2, <2>1, NewSlot
  <2>3. v \in VisitType /\ v.kind = "cond"
    BY <1>1, <1>2, <2>1, <2>2 DEF VisitType
  <2>4. w.to = "endif"
    BY DEF Target
  <2> HIDE DEF p, v, w
  <2>5. Len(visits') = n /\ (\A i \in 1 .. n - 1 : visits'[i] = visits[i]) /\ visits'[n] = v
    BY <1>1, <2>1, <2>3, ReplacedFacts
  <2>6. Loops' = Loops /\ \A i \in Loops : visits'[i].begin = visits[i].begin
    <3>1. \A i \in 1 .. n : i \in 1 .. n - 1 \/ i = n
      BY <1>0
    <3>2. \A i \in 1 .. n : /\ visits'[i].kind = visits[i].kind
                            /\ visits[i].kind = "loop" => visits'[i].begin = visits[i].begin
      BY <1>1, <1>2, <2>3, <2>5, <3>1
    <3> QED
      BY <2>5, <3>2 DEF Loops
  <2>7. /\ \A q \in DOMAIN want : /\ q \in DOMAIN want' /\ want'[q] = want[q]
                                  /\ LoopLabel(want[q]) => off'[q] = off[q]
        /\ \A q \in DOMAIN want' : LoopLabel(want'[q]) => q \in DOMAIN want
    BY <1>0, <1>4, <1>5, <2>1, <2>2, <2>4 DEF With, LoopLabel
  <2>8. /\ DOMAIN label \subseteq DOMAIN label'
        /\ \A x \in DOMAIN label : LoopLabel(x) => label'[x] = label[x]
        /\ \A x \in DOMAIN label' : LoopLabel(x) => x \in DOMAIN label
    BY <1>5, <2>1 DEF With
  <2> QED
    BY <1>1, <2>2, <2>6, <2>7, <2>8, LoopsKept DEF loops
<1>7. CASE LeaveCond
  <2>1. /\ off' = [off EXCEPT ![s] = pos - Top.before] /\ label' = With(label, t, pos)
        /\ visits' = Outer /\ UNCHANGED <<pos, phase, want>>
    BY <1>7 DEF LeaveCond, s, t, to
  <2>2. /\ Len(visits') = n - 1 /\ \A i \in 1 .. n - 1 : visits'[i] = visits[i]
    BY <1>1, <2>1, TopFacts
  <2>3. Loops' = Loops /\ \A i \in Loops : visits'[i].begin = visits[i].begin
    <3>1. n \notin Loops
      BY <1>1, <1>2 DEF Loops
    <3>2. \A i \in Loops : i \in 1 .. n - 1
      BY <1>0, <3>1 DEF Loops
    <3> QED
      BY <1>0, <2>2, <3>2 DEF Loops
  <2>4. \A q \in DOMAIN want : LoopLabel(want[q]) => off'[q] = off[q]
    BY <1>0, <1>4, <1>5, <2>1
  <2>5. /\ DOMAIN label \subseteq DOMAIN label'
        /\ \A x \in DOMAIN label : LoopLabel(x) => label'[x] = label[x]
        /\ \A x \in DOMAIN label' : LoopLabel(x) => x \in DOMAIN label
    BY <1>5, <2>1 DEF With
  <2>6. pos' \in Nat /\ pos' >= pos
    BY <1>0, <2>1
  <2> QED
    BY <1>1, <2>1, <2>3, <2>4, <2>5, <2>6, LoopsKept DEF loops
<1> QED
  BY <1>6, <1>7

\* The last pass touches only calls and constants, and an error nothing at all.
LEMMA EndKeepsLoops ==
  ASSUME IInv, LoopInv, Finish \/ Throw
  PROVE  LoopInv'
<1>0. pos \in Nat /\ DOMAIN want = DOMAIN off
  BY LoopFacts
<1>1. UNCHANGED <<visits, symbols, loops, lists, want, label>>
  BY DEF Finish, Throw
<1>2. Loops' = Loops
  BY <1>1 DEF Loops
<1>3. pos' \in Nat /\ pos' >= pos
  <2>1. Len(table) \in Nat
    BY DEF IInv, Core, TypeOK
  <2>2. pos' = pos \/ pos' = pos + 1 + Len(table)
    BY DEF Finish, Throw
  <2> QED
    BY <1>0, <2>1, <2>2
<1>4. \A q \in DOMAIN want : LoopLabel(want[q]) => off'[q] = off[q]
  <2> SUFFICES ASSUME NEW q \in DOMAIN off, LoopLabel(want[q]) PROVE off'[q] = off[q]
    BY <1>0
  <2>1. \A c \in const_addrs : want[c.pos].to = "const"
    BY DEF IInv, Core, ListsOK
  <2>2. \A c \in func_comefroms : want[c.pos].to = "func"
    <3>1. \A c \in func_comefroms : want[c.pos] = Target("func", c.fn)
      BY DEF IInv, Core, ListsOK
    <3>2. \A x : Target("func", x).to = "func"
      BY DEF Target
    <3> QED
      BY <3>1, <3>2
  <2>3. (~ \E c \in const_addrs : c.pos = q) /\ (~ \E c \in func_comefroms : c.pos = q)
    BY <2>1, <2>2 DEF LoopLabel
  <2> QED
    BY <2>3 DEF Finish, Throw, Linked
<1> QED
  BY <1>1, <1>2, <1>3, <1>4, LoopsKept DEF loops, lists

\* The saved jumps after a step: those that were kept and those that were added are
\* of open loops or of loops that had inner loops, and those removed have landed.
LEMMA SavedKept ==
  ASSUME NEW C, NEW D, NEW to \in {"begin", "end"}, SavedOK(C, to),
         \A q \in DOMAIN want : q \in DOMAIN want' /\ want'[q] = want[q],
         \A q \in DOMAIN want : want[q].to = to /\ Lands(q) => Lands(q)' \/ Closed(want[q].at)',
         \A b : Closed(b) => Closed(b)',
         \A c \in C : c.pos \in DOMAIN want,
         \A c \in C : c \notin D => Lands(c.pos)' \/ Closed(want[c.pos].at)',
         \A c \in D : \/ c \in C /\ (Live(c) => Live(c)' \/ Closed(want[c.pos].at)')
                      \/ want'[c.pos].to = to /\ Live(c)',
         \A q \in DOMAIN want' : q \in DOMAIN want \/ want'[q].to # to \/ \E c \in D : c.pos = q
  PROVE  SavedThen(D, to)
<1>1. ASSUME NEW q \in DOMAIN want, Closed(want[q].at)
      PROVE  Closed(want[q].at)'
  <2> DEFINE b == want[q].at
  <2>1. Closed(b) /\ want'[q].at = b
    BY <1>1
  <2> HIDE DEF b
  <2>2. \A x : x = b => Closed(x)'
    BY <2>1
  <2> QED
    BY <2>1, <2>2
<1>2. ASSUME NEW c \in D
      PROVE  want'[c.pos].to = to /\ (Live(c)' \/ Closed(want[c.pos].at)')
  <2>1. CASE c \in C /\ (Live(c) => Live(c)' \/ Closed(want[c.pos].at)')
    <3>1. c.pos \in DOMAIN want /\ want[c.pos].to = to /\ (Live(c) \/ Closed(want[c.pos].at))
      BY <2>1 DEF SavedOK
    <3> QED
      BY <1>1, <2>1, <3>1
  <2>2. CASE want'[c.pos].to = to /\ Live(c)'
    BY <2>2
  <2> QED
    BY <2>1, <2>2
<1>3. ASSUME NEW q \in DOMAIN want', want'[q].to = to
      PROVE  Lands(q)' \/ Closed(want[q].at)' \/ \E c \in D : c.pos = q
  <2>1. CASE q \in DOMAIN want
    <3>1. want[q].to = to
      BY <1>3, <2>1
    <3>2. Lands(q) \/ Closed(want[q].at) \/ \E c \in C : c.pos = q
      BY <2>1, <3>1 DEF SavedOK
    <3>3. CASE \E c \in C : c.pos = q
      BY <3>3
    <3> QED
      BY <1>1, <2>1, <3>1, <3>2, <3>3
  <2> QED
    BY <1>3, <2>1
<1> QED
  BY <1>2, <1>3 DEF SavedThen

\* A loop is begun: its number is the highest one, and the loops around it have an
\* inner loop.
LEMMA EnterLoopKeepsLoops ==
  ASSUME IInv, LoopInv, EnterLoop
  PROVE  LoopInv'
<1>0. PICK n, m : n = Len(visits) /\ m = Cardinality(Loops)
  OBVIOUS
<1> DEFINE v == Visit("loop", pos)
           t == Target("begin", pos)
           u == Target("again", pos)
<1>1. /\ Block /\ visits' = Append(visits, v)
      /\ loop_ident' = loop_ident + 1 /\ cur_loop' = Append(cur_loop, loop_ident')
      /\ label' = With(With(label, t, pos), u, pos)
      /\ UNCHANGED <<phase, pos, off, want, begin_comefroms, end_comefroms>>
  BY DEF EnterLoop, lists
<1>2. /\ n \in Nat /\ Loops \in SUBSET (1 .. n) /\ m \in Nat /\ pos \in Nat
      /\ cur_loop \in Seq(Nat) /\ Len(cur_loop) \in Nat /\ loop_ident \in Nat
      /\ DOMAIN want = DOMAIN off
      /\ OpenOK /\ EndsOK /\ Len(cur_loop) = m
  BY <1>0, LoopFacts DEF LoopInv, OpenOK
<1>3. /\ v.kind = "loop" /\ v.begin = pos
      /\ t.to = "begin" /\ t.at = pos /\ u.to = "again"
  BY DEF Visit, Target
<1>4. /\ Len(visits') = n + 1 /\ n >= 1 /\ visits'[n + 1] = v
      /\ \A i \in 1 .. n : visits'[i] = visits[i]
  BY <1>0, <1>1, PushVisit
<1>5. Loops' = Loops \union {n + 1}
  <2>1. n + 1 \in Loops' /\ \A i \in 1 .. n : i \in Loops' <=> i \in Loops
    BY <1>0, <1>2, <1>3, <1>4 DEF Loops
  <2>2. \A i \in Loops' : i \in 1 .. n \/ i = n + 1
    BY <1>0, <1>2, <1>4 DEF Loops
  <2>3. \A i \in Loops : i \in 1 .. n
    BY <1>2
  <2> QED
    BY <2>1, <2>2, <2>3, Zenon
<1>6. \A i \in Loops : visits[i].begin < pos /\ visits[i].begin \in Nat
  <2> TAKE i \in Loops
  <2>1. i >= 2 /\ i <= n /\ i \in 1 .. n /\ visits[i].begin \in Nat
    BY <1>2, LoopFacts
  <2>2. VisitOK(i)
    BY <1>0, <2>1 DEF IInv, Core, VisitsOK
  <2>3. visits[i].stage # "cond"
    <3>1. CASE i = n
      BY <1>0, <1>1, <3>1 DEF Block, InStmt, Top
    <3>2. CASE i # n
      BY <1>0, <1>2, <2>1, <2>2, <3>2 DEF VisitOK
    <3> QED
      BY <3>1, <3>2
  <2> QED
    BY <2>1, <2>2, <2>3 DEF VisitOK
<1>7. /\ Cardinality(Loops') = m + 1
      /\ {j \in Loops' : j <= n + 1} = Loops'
      /\ \A i \in Loops : /\ {j \in Loops' : j <= i} = {j \in Loops : j <= i}
                          /\ Cardinality({j \in Loops : j <= i}) \in 1 .. m
  <2> DEFINE S == Loops
  <2>1. n \in Nat /\ S \in SUBSET (1 .. n)
    BY <1>2
  <2> HIDE DEF S
  <2>2. /\ Cardinality(S \union {n + 1}) = Cardinality(S) + 1
        /\ {j \in S \union {n + 1} : j <= n + 1} = S \union {n + 1}
        /\ \A i \in S : /\ {j \in S \union {n + 1} : j <= i} = {j \in S : j <= i}
                        /\ Cardinality({j \in S : j <= i}) \in 1 .. Cardinality(S)
    BY <2>1, RankAdd
  <2> QED
    BY <1>0, <1>5, <2>2 DEF S
<1>8. /\ Rank(n + 1)' = m + 1
      /\ \A i \in Loops : Rank(i)' = Rank(i) /\ Rank(i) \in 1 .. m
  BY <1>4, <1>7 DEF Rank
<1>9. /\ Len(cur_loop') = m + 1 /\ cur_loop'[m + 1] = loop_ident + 1
      /\ \A k \in 1 .. m : cur_loop'[k] = cur_loop[k] /\ cur_loop[k] \in Nat
  <2>1. loop_ident' \in Nat /\ Len(cur_loop) = m
    BY <1>0, <1>1, <1>2
  <2> QED
    BY <1>1, <1>2, <2>1, AppendProperties
<1>10. /\ Ident(n + 1)' = loop_ident + 1
       /\ \A i \in Loops : /\ Ident(i)' = Ident(i) /\ Ident(i) \in Nat /\ Ident(i) <= loop_ident
                           /\ \A j \in Loops : i < j => Ident(i) < Ident(j)
                           /\ Target("begin", visits[i].begin) \in DOMAIN label
  BY <1>2, <1>8, <1>9 DEF Ident, OpenOK
<1>11. /\ DOMAIN label' = DOMAIN label \union {t, u}
       /\ label'[t] = pos /\ \A x \in DOMAIN label : LoopLabel(x) => label'[x] = label[x]
  <2>1. \A x \in DOMAIN label : x = t => label[x] = pos
    BY <1>2, <1>3 DEF EndsOK
  <2> QED
    BY <1>1, <1>3, <2>1 DEF With, LoopLabel
<1> HIDE DEF v, t, u
<1>12. \A i \in Loops : Begun(visits[i].begin)'
  <2> TAKE i \in Loops
  <2>1. t \in DOMAIN label' /\ visits[i].begin < pos /\ visits'[i] = visits[i]
    BY <1>2, <1>4, <1>6, <1>11
  <2> QED
    BY <1>3, <2>1 DEF Begun
<1>13. OpenOK'
  <2>1. ASSUME NEW k \in 1 .. Len(cur_loop')
        PROVE  \E i \in Loops' : Rank(i)' = k
    <3>1. CASE k = m + 1
      BY <1>5, <1>8, <3>1
    <3>2. CASE k # m + 1
      <4>1. k \in 1 .. Len(cur_loop)
        BY <1>2, <1>9, <3>2
      <4>2. PICK i \in Loops : Rank(i) = k
        BY <1>2, <4>1 DEF OpenOK
      <4> QED
        BY <1>5, <1>8, <4>2
    <3> QED
      BY <3>1, <3>2
  <2>2. ASSUME NEW i \in Loops'
        PROVE  /\ Rank(i)' \in 1 .. Len(cur_loop') /\ Ident(i)' <= loop_ident'
               /\ \A j \in Loops' : i < j => Ident(i)' < Ident(j)'
               /\ Target("begin", visits[i].begin)' \in DOMAIN label'
               /\ Ident(i)' < loop_ident' => Begun(visits[i].begin)'
    <3>1. CASE i = n + 1
      <4>1. Rank(i)' = m + 1 /\ Ident(i)' = loop_ident + 1
        BY <1>8, <1>10, <3>1
      <4>2. \A j \in Loops' : ~ (i < j)
        BY <1>2, <1>5, <3>1
      <4>3. Target("begin", visits'[i].begin) = t
        BY <1>3, <1>4, <3>1 DEF t
      <4>4. m + 1 \in 1 .. Len(cur_loop') /\ loop_ident + 1 <= loop_ident'
            /\ ~ (loop_ident + 1 < loop_ident')
        BY <1>1, <1>2, <1>9
      <4>5. Target("begin", visits[i].begin)' \in DOMAIN label'
        BY <1>11, <4>3
      <4> QED
        BY <4>1, <4>2, <4>4, <4>5
    <3>2. CASE i \in Loops
      <4>1. Rank(i)' \in 1 .. m /\ Ident(i)' <= loop_ident /\ Ident(i)' \in Nat
        BY <1>8, <1>10, <3>2
      <4>2. ASSUME NEW j \in Loops', i < j PROVE Ident(i)' < Ident(j)'
        <5>1. CASE j = n + 1
          BY <1>2, <1>10, <4>1, <5>1
        <5>2. CASE j \in Loops
          BY <1>10, <3>2, <4>2, <5>2
        <5> QED
          BY <1>5, <5>1, <5>2
      <4>3. visits'[i] = visits[i] /\ Target("begin", visits[i].begin) \in DOMAIN label'
        BY <1>2, <1>4, <1>10, <1>11, <3>2
      <4>4. Rank(i)' \in 1 .. Len(cur_loop') /\ Ident(i)' <= loop_ident'
        BY <1>1, <1>2, <1>9, <4>1
      <4>5. Target("begin", visits[i].begin)' \in DOMAIN label'
        BY <4>3
      <4>6. Begun(visits[i].begin)'
        BY <1>12, <3>2
      <4> QED
        BY <4>2, <4>4, <4>5, <4>6
    <3> QED
      BY <1>5, <3>1, <3>2
  <2>3. Len(cur_loop') = Cardinality(Loops')
    BY <1>7, <1>9
  <2> QED
    BY <2>1, <2>2, <2>3 DEF OpenOK
<1>14. EndsOK'
  <2>1. ASSUME NEW x \in DOMAIN label'
        PROVE  /\ x.to = "begin" => label'[x] = x.at /\ x.at <= pos'
               /\ x.to = "end"   => label'[x] <= pos' /\ Target("skip", x.at) \in DOMAIN label'
    <3>1. CASE x = t
      BY <1>1, <1>2, <1>3, <1>11, <3>1
    <3>2. CASE x = u
      BY <1>3, <3>2
    <3>3. CASE x \in DOMAIN label
      BY <1>1, <1>2, <1>11, <3>3 DEF EndsOK, LoopLabel
    <3> QED
      BY <1>11, <3>1, <3>2, <3>3
  <2> QED
    BY <2>1 DEF EndsOK
<1>15. ASSUME NEW b, Closed(b) PROVE Closed(b)'
  <2>1. /\ \A x \in DOMAIN label : label[x] \in Nat
        /\ DOMAIN label \subseteq DOMAIN label'
    BY <1>11 DEF IInv, Core, TypeOK
  <2>2. \A x \in DOMAIN label : x.to = "end" => label[x] \in Int
                                   /\ label'[x] \in Int /\ label[x] <= label'[x]
    BY <1>11, <2>1 DEF LoopLabel
  <2>3. \A x \in DOMAIN label : x.to = "begin" => x.at \in Int
    BY <1>2, <2>1 DEF EndsOK
  <2> QED
    BY <1>15, <2>1, <2>2, <2>3, ClosedKept
<1>16. \A c : c.pos \in DOMAIN want /\ Live(c) => Live(c)'
  BY <1>1, <1>2, <1>4, <1>5, <1>10 DEF Live
<1>17. \A q \in DOMAIN want : LoopLabel(want[q]) /\ Lands(q) => Lands(q)'
  BY <1>1, <1>11, LandsKept
<1>18. /\ \A c \in begin_comefroms : c.pos \in DOMAIN want
       /\ \A c \in end_comefroms : c.pos \in DOMAIN want
  BY <1>2 DEF IInv, Core, ListsOK
<1>19. SavedOK(begin_comefroms, "begin")'
  <2> DEFINE C == begin_comefroms
  <2>1. SavedOK(C, "begin") /\ \A c \in C : c.pos \in DOMAIN want
    BY <1>18 DEF LoopInv
  <2> HIDE DEF C
  <2>2. SavedThen(C, "begin")
    <3>1. \A q \in DOMAIN want :
            want[q].to = "begin" /\ Lands(q) => Lands(q)' \/ Closed(want[q].at)'
      BY <1>17 DEF LoopLabel
    <3>2. \A c \in C : c \in C /\ (Live(c) => Live(c)' \/ Closed(want[c.pos].at)')
      BY <1>16, <2>1
    <3>3. /\ \A q \in DOMAIN want : q \in DOMAIN want' /\ want'[q] = want[q]
          /\ \A q \in DOMAIN want' : q \in DOMAIN want
      BY <1>1
    <3> QED
      BY <1>15, <2>1, <3>1, <3>2, <3>3, SavedKept
  <2> QED
    BY <1>1, <2>2 DEF SavedOK, SavedThen, C
<1>20. SavedOK(end_comefroms, "end")'
  <2> DEFINE C == end_comefroms
  <2>1. SavedOK(C, "end") /\ \A c \in C : c.pos \in DOMAIN want
    BY <1>18 DEF LoopInv
  <2> HIDE DEF C
  <2>2. SavedThen(C, "end")
    <3>1. \A q \in DOMAIN want :
            want[q].to = "end" /\ Lands(q) => Lands(q)' \/ Closed(want[q].at)'
      BY <1>17 DEF LoopLabel
    <3>2. \A c \in C : c \in C /\ (Live(c) => Live(c)' \/ Closed(want[c.pos].at)')
      BY <1>16, <2>1
    <3>3. /\ \A q \in DOMAIN want : q \in DOMAIN want' /\ want'[q] = want[q]
          /\ \A q \in DOMAIN want' : q \in DOMAIN want
      BY <1>1
    <3> QED
      BY <1>15, <2>1, <3>1, <3>2, <3>3, SavedKept
  <2> QED
    BY <1>1, <2>2 DEF SavedOK, SavedThen, C
<1> QED
  BY <1>13, <1>14, <1>19, <1>20 DEF LoopInv

\* The jump is saved with the number of the loop that it is meant for.
LEMMA SavedMeant ==
  ASSUME IInv, LoopInv, NEW to \in {"begin", "end"}, NEW n \in Int, cur_loop # <<>>
  PROVE  \E i \in Loops : Saved(n).ident = Ident(i) /\ Meant(to, n) = Target(to, visits[i].begin)
<1> DEFINE last  == Cardinality(Loops) - 1
           depth == IF n \in 0 .. last THEN n ELSE last
<1>1. /\ Len(visits) \in Nat /\ Loops \in SUBSET (1 .. Len(visits))
      /\ cur_loop \in Seq(Nat) /\ Len(cur_loop) \in Nat /\ Len(cur_loop) >= 1
      /\ OpenOK /\ Len(cur_loop) = Cardinality(Loops)
  BY LoopFacts DEF LoopInv, OpenOK
<1>2. depth = Reduced(n) /\ depth \in 0 .. last /\ last = Len(cur_loop) - 1
  BY <1>1 DEF Reduced
<1>3. \A i \in Loops : Rank(i) \in 1 .. Len(cur_loop) /\ Inside(i) = Len(cur_loop) - Rank(i)
  <2> TAKE i \in Loops
  <2> DEFINE S == Loops
             m == Len(visits)
  <2>1. m \in Nat /\ S \in SUBSET (1 .. m) /\ i \in S
    BY <1>1
  <2> HIDE DEF S, m
  <2>2. Cardinality({j \in S : j > i}) = Cardinality(S) - Cardinality({j \in S : j <= i})
    BY <2>1, RankInside
  <2> QED
    BY <1>1, <2>2 DEF S, Inside, Rank, OpenOK
<1> HIDE DEF last, depth
<1>4. \E i \in Loops : Inside(i) = depth
  <2>1. Len(cur_loop) - depth \in 1 .. Len(cur_loop)
    BY <1>1, <1>2
  <2>2. PICK i \in Loops : Rank(i) = Len(cur_loop) - depth
    BY <1>1, <2>1 DEF OpenOK
  <2> QED
    BY <1>1, <1>2, <1>3, <2>2
<1> DEFINE j == CHOOSE i \in Loops : Inside(i) = depth
<1>5. j \in Loops /\ Inside(j) = depth
  BY <1>4
<1>6. Meant(to, n) = Target(to, visits[j].begin)
  BY DEF Meant, last, depth
<1> HIDE DEF j
<1>7. Rank(j) = Len(cur_loop) - Reduced(n)
  BY <1>1, <1>2, <1>3, <1>5
<1> QED
  BY <1>5, <1>6, <1>7 DEF Saved, Ident

\* A saved jump is one of an open loop.
LEMMA LoopJumpKeeps ==
  ASSUME IInv, LoopInv, NEW to \in {"begin", "end"}, NEW n \in Int, LoopJump(to, n)
  PROVE  /\ OpenOK' /\ EndsOK'
         /\ \A b : Closed(b) => Closed(b)'
         /\ \A q \in DOMAIN want : /\ q \in DOMAIN want' /\ want'[q] = want[q]
                                   /\ Lands(q) => Lands(q)'
         /\ \A c : c.pos \in DOMAIN want /\ Live(c) => Live(c)'
         /\ \A c : c = Saved(n) => want'[c.pos].to = to /\ Live(c)'
         /\ \A q \in DOMAIN want' : q \in DOMAIN want \/ q = Saved(n).pos
<1> DEFINE p == JumpSlot(pos)
           w == Meant(to, n)
<1>1. /\ cur_loop # <<>>
      /\ off' = With(off, p, 0) /\ want' = With(want, p, w) /\ pos' = JumpEnd(pos)
      /\ UNCHANGED <<visits, loop_ident, cur_loop, label>>
  BY DEF LoopJump, loops
<1>2. TypeOK /\ Fresh /\ pos \in Nat /\ DOMAIN want = DOMAIN off
  BY LoopFacts DEF IInv, Core
<1>3. p \notin DOMAIN off /\ pos' \in Nat /\ pos' > pos
  BY <1>1, <1>2, NewSlot
<1>4. PICK i \in Loops : Saved(n).ident = Ident(i) /\ w = Target(to, visits[i].begin)
  BY <1>1, SavedMeant
<1>5. Saved(n).pos = p /\ w.to = to /\ w.at = visits[i].begin
  BY <1>4 DEF Saved, Target
<1> HIDE DEF p, w
<1>6. /\ DOMAIN want' = DOMAIN want \union {p} /\ want'[p] = w
      /\ \A q \in DOMAIN want : want'[q] = want[q] /\ off'[q] = off[q]
  BY <1>1, <1>2, <1>3 DEF With
<1>7. Loops' = Loops /\ \A j : Ident(j)' = Ident(j) /\ Rank(j)' = Rank(j)
  BY <1>1 DEF Loops, Ident, Rank
<1>8. OpenOK'
  <2>1. OpenOK
    BY DEF LoopInv
  <2> QED
    BY <1>1, <1>7, <2>1 DEF OpenOK, Begun
<1>9. EndsOK'
  <2>1. EndsOK /\ \A x \in DOMAIN label : label[x] \in Nat
    BY <1>2 DEF LoopInv, TypeOK
  <2>2. ASSUME NEW x \in DOMAIN label
        PROVE  /\ x.to = "begin" => label[x] = x.at /\ x.at <= pos'
               /\ x.to = "end"   => label[x] <= pos' /\ Target("skip", x.at) \in DOMAIN label
    BY <1>2, <1>3, <2>1 DEF EndsOK
  <2> QED
    BY <1>1, <2>2 DEF EndsOK
<1>10. \A b : Closed(b) => Closed(b)'
  BY <1>1 DEF Closed, HasInner
<1>11. \A q \in DOMAIN want : Lands(q) => Lands(q)'
  BY <1>1, <1>6, LandsKept
<1>12. \A c : c.pos \in DOMAIN want /\ Live(c) => Live(c)'
  BY <1>1, <1>6, <1>7 DEF Live
<1>13. ASSUME NEW c, c = Saved(n) PROVE want'[c.pos].to = to /\ Live(c)'
  BY <1>1, <1>4, <1>5, <1>6, <1>7, <1>13 DEF Live
<1> QED
  BY <1>5, <1>6, <1>8, <1>9, <1>10, <1>11, <1>12, <1>13

\* The jumps of break and next.
LEMMA JumpKeepsLoops ==
  ASSUME IInv, LoopInv, NEW n \in Int, LoopBreak(n) \/ LoopNext(n)
  PROVE  LoopInv'
<1>0. /\ SavedOK(begin_comefroms, "begin") /\ SavedOK(end_comefroms, "end")
      /\ \A c \in begin_comefroms : c.pos \in DOMAIN want
      /\ \A c \in end_comefroms : c.pos \in DOMAIN want
  BY DEF LoopInv, IInv, Core, ListsOK, TypeOK
<1>1. ASSUME NEW C, NEW to \in {"begin", "end"}, SavedOK(C, to), \A c \in C : c.pos \in DOMAIN want,
             NEW other \in {"begin", "end"}, LoopJump(other, n),
             NEW D, (D = C /\ to # other) \/ (D = C \union {Saved(n)} /\ to = other)
      PROVE  SavedThen(D, to)
  <2>1. /\ \A b : Closed(b) => Closed(b)'
        /\ \A q \in DOMAIN want : /\ q \in DOMAIN want' /\ want'[q] = want[q]
                                  /\ Lands(q) => Lands(q)'
        /\ \A c : c.pos \in DOMAIN want /\ Live(c) => Live(c)'
        /\ \A c : c = Saved(n) => want'[c.pos].to = other /\ Live(c)'
        /\ \A q \in DOMAIN want' : q \in DOMAIN want \/ q = Saved(n).pos
    BY <1>1, LoopJumpKeeps
  <2>2. \A c \in D : \/ c \in C /\ (Live(c) => Live(c)' \/ Closed(want[c.pos].at)')
                     \/ want'[c.pos].to = to /\ Live(c)'
    BY <1>1, <2>1
  <2>3. \A q \in DOMAIN want' : q \in DOMAIN want \/ want'[q].to # to \/ \E c \in D : c.pos = q
    <3>1. want'[Saved(n).pos].to = other
      BY <2>1
    <3>2. to = other => Saved(n) \in D
      BY <1>1
    <3> QED
      BY <2>1, <3>1, <3>2
  <2>4. \A c \in C : c \in D
    BY <1>1
  <2>5. /\ \A q \in DOMAIN want : q \in DOMAIN want' /\ want'[q] = want[q]
        /\ \A q \in DOMAIN want : want[q].to = to /\ Lands(q) => Lands(q)' \/ Closed(want[q].at)'
    <3>1. \A q \in DOMAIN want : q \in DOMAIN want' /\ want'[q] = want[q]
      BY <2>1
    <3>2. \A q \in DOMAIN want : Lands(q) => Lands(q)'
      BY <2>1
    <3> QED
      BY <3>1, <3>2
  <2>6. \A b : Closed(b) => Closed(b)'
    BY <2>1
  <2>7. \A c \in C : c \notin D => Lands(c.pos)' \/ Closed(want[c.pos].at)'
    BY <2>4
  <2>8. SavedOK(C, to) /\ \A c \in C : c.pos \in DOMAIN want
    BY <1>1
  <2> QED
    BY <2>2, <2>3, <2>5, <2>6, <2>7, <2>8, SavedKept
<1>2. PICK B, E : B = begin_comefroms' /\ E = end_comefroms'
  OBVIOUS
<1>3. ASSUME NEW other \in {"begin", "end"}, LoopJump(other, n),
             \/ B = begin_comefroms /\ other = "end"
             \/ B = begin_comefroms \union {Saved(n)} /\ other = "begin",
             \/ E = end_comefroms /\ other = "begin"
             \/ E = end_comefroms \union {Saved(n)} /\ other = "end"
      PROVE  LoopInv'
  <2>1. OpenOK' /\ EndsOK'
    BY <1>3, LoopJumpKeeps
  <2>2. SavedOK(begin_comefroms, "begin")'
    <3> DEFINE C == begin_comefroms
    <3>1. SavedOK(C, "begin") /\ (\A c \in C : c.pos \in DOMAIN want)
          /\ ((B = C /\ other # "begin") \/ (B = C \union {Saved(n)} /\ other = "begin"))
      BY <1>0, <1>2, <1>3
    <3> HIDE DEF C
    <3>2. SavedThen(B, "begin")
      BY <1>1, <1>3, <3>1
    <3> QED
      BY <1>2, <3>2 DEF SavedOK, SavedThen
  <2>3. SavedOK(end_comefroms, "end")'
    <3> DEFINE C == end_comefroms
    <3>1. SavedOK(C, "end") /\ (\A c \in C : c.pos \in DOMAIN want)
          /\ ((E = C /\ other # "end") \/ (E = C \union {Saved(n)} /\ other = "end"))
      BY <1>0, <1>2, <1>3
    <3> HIDE DEF C
    <3>2. SavedThen(E, "end")
      BY <1>1, <1>3, <3>1
    <3> QED
      BY <1>2, <3>2 DEF SavedOK, SavedThen
  <2> QED
    BY <2>1, <2>2, <2>3 DEF LoopInv
<1>4. CASE LoopBreak(n)
  <2>1. LoopJump("end", n) /\ B = begin_comefroms /\ E = end_comefroms \union {Saved(n)}
    BY <1>2, <1>4 DEF LoopBreak
  <2> QED
    BY <1>2, <1>3, <2>1
<1>5. CASE LoopNext(n)
  <2>1. LoopJump("begin", n) /\ B = begin_comefroms \union {Saved(n)} /\ E = end_comefroms
    BY <1>2, <1>5 DEF LoopNext
  <2> QED
    BY <1>2, <1>3, <2>1
<1> QED
  BY <1>4, <1>5

\* Removing the highest element of a set of numbers.
LEMMA RankRemove ==
  ASSUME NEW n \in Nat, NEW S \in SUBSET (1 .. n), n \in S
  PROVE  /\ Cardinality(S \ {n}) = Cardinality(S) - 1 /\ Cardinality(S) \in Nat
         /\ {j \in S : j <= n} = S
         /\ \A i \in S \ {n} : /\ {j \in S \ {n} : j <= i} = {j \in S : j <= i}
                              /\ Cardinality({j \in S : j <= i}) \in 1 .. Cardinality(S) - 1
<1>1. IsFiniteSet(S) /\ Cardinality(S) \in Nat
  BY RankAdd
<1>2. Cardinality(S \ {n}) = Cardinality(S) - 1
  BY <1>1, FS_RemoveElement
<1>3. {j \in S : j <= n} = S
  <2>1. \A j \in S : j <= n
    OBVIOUS
  <2> QED
    BY <2>1, Zenon
<1>4. ASSUME NEW i \in S \ {n}
      PROVE  /\ {j \in S \ {n} : j <= i} = {j \in S : j <= i}
             /\ Cardinality({j \in S : j <= i}) \in 1 .. Cardinality(S) - 1
  <2>1. ~ (n <= i)
    OBVIOUS
  <2>2. {j \in S \ {n} : j <= i} = {j \in S : j <= i}
    BY <2>1, Zenon
  <2> DEFINE T == S \ {n}
  <2>3. T \in SUBSET (1 .. n) /\ i \in T
    OBVIOUS
  <2> HIDE DEF T
  <2>4. Cardinality({j \in T : j <= i}) \in 1 .. Cardinality(T)
    BY <2>3, RankAdd
  <2> QED
    BY <1>2, <2>2, <2>4 DEF T
<1> QED
  BY <1>1, <1>2, <1>3, <1>4

\* A loop ends: the jumps saved for the last loop begun land if that is the one
\* that ends; otherwise the one that ends has had an inner loop.
LEMMA LeaveLoopKeepsLoops ==
  ASSUME IInv, LoopInv, LeaveLoop
  PROVE  LoopInv'
<1>0. PICK n, m, b, p, s, B, E :
        /\ n = Len(visits) /\ m = Cardinality(Loops) /\ b = Top.begin
        /\ p = JumpSlot(pos) /\ s = Top.slot
        /\ B = Positions(begin_comefroms, loop_ident) /\ E = Positions(end_comefroms, loop_ident)
  OBVIOUS
<1> DEFINE t == Target("skip", b)
           e == Target("end", b)
           w == Target("again", b)
           o == [With(off, p, To(b, p)) EXCEPT ![s] = JumpEnd(pos) - Top.before]
<1>1. /\ visits # <<>> /\ Top.kind = "loop" /\ Top.stage = "block"
      /\ off' = LinkLoop(o, JumpEnd(pos)) /\ want' = With(want, p, w)
      /\ label' = With(With(label, t, JumpEnd(pos)), e, JumpEnd(pos))
      /\ pos' = JumpEnd(pos) /\ visits' = Outer
      /\ begin_comefroms' = Without(begin_comefroms, loop_ident)
      /\ end_comefroms' = Without(end_comefroms, loop_ident)
      /\ cur_loop' = SubSeq(cur_loop, 1, Len(cur_loop) - 1)
      /\ loop_ident' = loop_ident
  BY <1>0 DEF LeaveLoop
<1>2. /\ TypeOK /\ Fresh /\ ListsOK /\ pos \in Nat /\ n \in Nat /\ n >= 1
      /\ Top = visits[n] /\ visits[n].begin = b /\ b \in Nat
  BY <1>0, <1>1, TopFacts DEF Core
<1>3. /\ Loops \in SUBSET (1 .. n) /\ n \in Loops /\ m \in Nat
      /\ cur_loop \in Seq(Nat) /\ Len(cur_loop) = m /\ loop_ident \in Nat
      /\ DOMAIN want = DOMAIN off /\ OpenOK /\ EndsOK
      /\ SavedOK(begin_comefroms, "begin") /\ SavedOK(end_comefroms, "end")
  <2>1. OpenOK /\ EndsOK /\ Len(cur_loop) = Cardinality(Loops)
        /\ SavedOK(begin_comefroms, "begin") /\ SavedOK(end_comefroms, "end")
    BY DEF LoopInv, OpenOK
  <2>2. n \in Loops
    BY <1>0, <1>1, <1>2 DEF Loops
  <2> QED
    BY <1>0, <2>1, <2>2, LoopFacts
<1>4. /\ p \in Nat /\ p \notin DOMAIN off /\ pos' \in Nat /\ pos' > pos /\ JumpEnd(pos) = pos'
  BY <1>0, <1>1, <1>2, NewSlot
<1>5. /\ s \in DOMAIN off /\ want[s] = t /\ t \notin DOMAIN label /\ b < pos
  BY <1>0, <1>1, TopSlot
<1>6. /\ t.to = "skip" /\ e.to = "end" /\ e.at = b /\ w.to = "again"
  BY DEF Target
<1> HIDE DEF t, e, w
<1>7. /\ Len(visits') = n - 1 /\ \A i \in 1 .. n - 1 : visits'[i] = visits[i]
  BY <1>0, <1>1, TopFacts
<1>8. Loops' = Loops \ {n}
  <2>1. \A i \in Loops : i \in 1 .. n
    BY <1>3
  <2>2. \A i \in Loops' : i \in 1 .. n - 1 /\ i \in 1 .. n /\ i # n /\ i \in Loops
    BY <1>0, <1>2, <1>7 DEF Loops
  <2>3. \A i \in Loops : i # n => i \in Loops'
    BY <1>0, <1>2, <1>7 DEF Loops
  <2> QED
    BY <2>2, <2>3, Zenon
<1>9. /\ Cardinality(Loops') = m - 1 /\ Rank(n) = m
      /\ \A i \in Loops' : Rank(i)' = Rank(i) /\ Rank(i) \in 1 .. m - 1
  <2> DEFINE S == Loops
  <2>1. n \in Nat /\ S \in SUBSET (1 .. n) /\ n \in S
    BY <1>2, <1>3
  <2> HIDE DEF S
  <2>2. /\ Cardinality(S \ {n}) = Cardinality(S) - 1
        /\ {j \in S : j <= n} = S
        /\ \A i \in S \ {n} : /\ {j \in S \ {n} : j <= i} = {j \in S : j <= i}
                             /\ Cardinality({j \in S : j <= i}) \in 1 .. Cardinality(S) - 1
    BY <2>1, RankRemove
  <2>3. Cardinality(Loops') = m - 1 /\ Rank(n) = m
    BY <1>0, <1>8, <2>2 DEF S, Rank
  <2>4. \A i \in Loops' : Rank(i)' = Rank(i) /\ Rank(i) \in 1 .. m - 1
    BY <1>0, <1>8, <2>2 DEF S, Rank
  <2> QED
    BY <2>3, <2>4
<1>10. Len(cur_loop') = m - 1 /\ \A k \in 1 .. m - 1 : cur_loop'[k] = cur_loop[k]
  <2>1. m >= 1
    BY <1>3, <1>9 DEF OpenOK
  <2> QED
    BY <1>1, <1>3, <2>1, SubSeqProperties
<1>11. /\ \A i \in Loops' : i \in Loops /\ i # n /\ i < n /\ visits'[i] = visits[i] /\ Ident(i)' = Ident(i)
       /\ \A i \in Loops : Ident(i) \in Nat
  <2>0. \A i \in Loops : Rank(i) \in 1 .. Len(cur_loop)
    BY <1>3 DEF OpenOK
  <2>1. \A i \in Loops : Rank(i) \in 1 .. m /\ cur_loop[Rank(i)] \in Nat
    BY <1>3, <2>0
  <2>2. \A i \in Loops' : i \in Loops /\ i # n /\ i < n /\ visits'[i] = visits[i]
    BY <1>2, <1>3, <1>7, <1>8
  <2>3. \A i \in Loops' : cur_loop'[Rank(i)'] = cur_loop[Rank(i)]
    BY <1>9, <1>10
  <2> QED
    BY <2>1, <2>2, <2>3 DEF Ident
<1>12. /\ e \notin DOMAIN label
       /\ DOMAIN label' = DOMAIN label \union {t, e} /\ label'[e] = pos'
       /\ \A x \in DOMAIN label : label'[x] = label[x]
  <2>1. e \notin DOMAIN label
    BY <1>3, <1>5, <1>6 DEF EndsOK, t
  <2> QED
    BY <1>1, <1>4, <1>5, <2>1 DEF With
<1>13. OpenOK'
  <2>1. ASSUME NEW k \in 1 .. Len(cur_loop')
        PROVE  \E i \in Loops' : Rank(i)' = k
    <3>1. k \in 1 .. Len(cur_loop) /\ k # m
      BY <1>3, <1>10
    <3>2. PICK i \in Loops : Rank(i) = k
      BY <1>3, <3>1 DEF OpenOK
    <3> QED
      BY <1>8, <1>9, <3>1, <3>2
  <2>2. ASSUME NEW i \in Loops'
        PROVE  /\ Rank(i)' \in 1 .. Len(cur_loop') /\ Ident(i)' <= loop_ident'
               /\ \A j \in Loops' : i < j => Ident(i)' < Ident(j)'
               /\ Target("begin", visits[i].begin)' \in DOMAIN label'
               /\ Ident(i)' < loop_ident' => Begun(visits[i].begin)'
    <3>1. Rank(i)' \in 1 .. Len(cur_loop') /\ Ident(i)' <= loop_ident'
      BY <1>1, <1>3, <1>9, <1>10, <1>11 DEF OpenOK
    <3>2. \A j \in Loops' : i < j => Ident(i)' < Ident(j)'
      BY <1>3, <1>11 DEF OpenOK
    <3>3. Target("begin", visits[i].begin)' \in DOMAIN label'
      BY <1>3, <1>11, <1>12 DEF OpenOK
    <3>4. Ident(i)' < loop_ident' => Begun(visits[i].begin)'
      BY <1>1, <1>3, <1>11, <1>12 DEF OpenOK, Begun
    <3> QED
      BY <3>1, <3>2, <3>3, <3>4
  <2>3. Len(cur_loop') = Cardinality(Loops')
    BY <1>9, <1>10
  <2> QED
    BY <2>1, <2>2, <2>3 DEF OpenOK
<1>14. \A x \in DOMAIN label : label[x] \in Nat
  BY <1>2 DEF TypeOK
<1>15. EndsOK'
  <2>1. ASSUME NEW x \in DOMAIN label'
        PROVE  /\ x.to = "begin" => label'[x] = x.at /\ x.at <= pos'
               /\ x.to = "end"   => label'[x] <= pos' /\ Target("skip", x.at) \in DOMAIN label'
    <3>1. CASE x = t
      BY <1>6, <3>1
    <3>2. CASE x = e
      BY <1>4, <1>6, <1>12, <3>2 DEF t
    <3>3. CASE x \in DOMAIN label
      <4>1. /\ x.to = "begin" => label[x] = x.at /\ x.at <= pos
            /\ x.to = "end"   => label[x] <= pos /\ Target("skip", x.at) \in DOMAIN label
        BY <1>3, <3>3 DEF EndsOK
      <4> QED
        BY <1>2, <1>4, <1>12, <1>14, <3>3, <4>1
    <3> QED
      BY <1>12, <3>1, <3>2, <3>3
  <2> QED
    BY <2>1 DEF EndsOK
<1>16. ASSUME NEW x, Closed(x) PROVE Closed(x)'
  <2>1. DOMAIN label \subseteq DOMAIN label'
    BY <1>12
  <2>2. \A y \in DOMAIN label : y.to = "end" => label[y] \in Int
                                   /\ label'[y] \in Int /\ label[y] <= label'[y]
    BY <1>12, <1>14
  <2>3. \A y \in DOMAIN label : y.to = "begin" => y.at \in Int
    BY <1>3, <1>14 DEF EndsOK
  <2> QED
    BY <1>16, <2>1, <2>2, <2>3, ClosedKept
<1>17. Ident(n) < loop_ident => Closed(b)'
  <2> SUFFICES ASSUME Ident(n) < loop_ident PROVE Closed(b)'
    OBVIOUS
  <2>1. Begun(b)
    BY <1>2, <1>3 DEF OpenOK
  <2>2. PICK x \in DOMAIN label : x.to = "begin" /\ b < x.at
    BY <2>1 DEF Begun
  <2>3. x.at \in Nat /\ x.at <= pos
    BY <1>3, <1>14, <2>2 DEF EndsOK
  <2>4. x.at > b /\ x.at < label'[e] /\ x \in DOMAIN label' /\ e \in DOMAIN label'
    BY <1>2, <1>4, <1>12, <2>2, <2>3
  <2>5. Target("end", b) = e
    BY DEF e
  <2>6. \E y \in DOMAIN label' : y.to = "begin" /\ y.at > b /\ y.at < label'[Target("end", b)]
    BY <2>2, <2>4, <2>5
  <2> QED
    BY <2>4, <2>5, <2>6 DEF Closed, HasInner
<1>18. /\ DOMAIN want' = DOMAIN want \union {p} /\ want'[p] = w
       /\ \A q \in DOMAIN want : want'[q] = want[q]
  BY <1>1, <1>3, <1>4 DEF With
<1>19. /\ \A q \in B : want[q].to = "begin" /\ q \in DOMAIN want
       /\ \A q \in E : want[q].to = "end" /\ q \in DOMAIN want
  BY <1>0, <1>2, <1>3 DEF SavedOK, Positions, ListsOK
<1>20. \A q \in DOMAIN want :
         off'[q] = IF q \in E THEN To(pos', q)
                   ELSE IF q \in B THEN To(b, q)
                   ELSE IF q = s THEN JumpEnd(pos) - Top.before ELSE off[q]
  <2>1. \A q \in DOMAIN want : q \in DOMAIN o /\ q # p
                              /\ o[q] = IF q = s THEN JumpEnd(pos) - Top.before ELSE off[q]
    BY <1>3, <1>4 DEF With
  <2> HIDE DEF o
  <2>2. off' = Patch(Patch(o, B, b), E, pos')
    BY <1>0, <1>1, <1>4 DEF LinkLoop
  <2>3. \A f, S, a, q : q \in DOMAIN f =>
          /\ q \in DOMAIN Patch(f, S, a)
          /\ Patch(f, S, a)[q] = IF q \in S THEN To(a, q) ELSE f[q]
    BY DEF Patch
  <2> DEFINE one == Patch(o, B, b)
  <2>4. \A q \in DOMAIN want : q \in DOMAIN one /\ one[q] = IF q \in B THEN To(b, q) ELSE o[q]
    BY <2>1, <2>3
  <2>5. off' = Patch(one, E, pos')
    BY <2>2
  <2> HIDE DEF one
  <2>6. \A q \in DOMAIN want : off'[q] = IF q \in E THEN To(pos', q) ELSE one[q]
    BY <2>3, <2>4, <2>5
  <2> QED
    BY <2>1, <2>4, <2>6
<1>21. \A q \in DOMAIN want : q + AddrSize + 1 + To(pos', q) = pos' /\ q + AddrSize + 1 + To(b, q) = b
  <2>1. \A q \in DOMAIN want : q \in Nat
    BY <1>2, <1>3 DEF TypeOK
  <2> QED
    BY <1>2, <1>4, <2>1, SizeFacts DEF To
<1>22. ASSUME NEW c \in begin_comefroms \union end_comefroms, c.ident = loop_ident
       PROVE  Lands(c.pos)' \/ Closed(want[c.pos].at)'
  <2>1. c.pos \in DOMAIN want /\ want[c.pos].to \in {"begin", "end"}
    BY <1>2, <1>3 DEF ListsOK
  <2>2. c.pos \in B \/ c.pos \in E
    BY <1>0, <1>22 DEF Positions
  <2>3. CASE Closed(want[c.pos].at)
    <3> DEFINE x == want[c.pos].at
    <3>1. Closed(x) /\ want'[c.pos].at = x
      BY <1>18, <2>1, <2>3
    <3> HIDE DEF x
    <3>2. \A y : y = x => Closed(y)'
      BY <1>16, <3>1
    <3> QED
      BY <3>1, <3>2
  <2>4. CASE Live(c)
    <3>1. PICK i \in Loops : want[c.pos] = Target(want[c.pos].to, visits[i].begin) /\ loop_ident = Ident(i)
      BY <1>22, <2>4 DEF Live
    <3>2. i = n
      <4>1. Ident(n) <= loop_ident /\ Ident(n) \in Nat /\ (i < n => Ident(i) < Ident(n))
        BY <1>3, <1>11 DEF OpenOK
      <4>2. i \in 1 .. n
        BY <1>3
      <4> QED
        BY <1>2, <1>3, <3>1, <4>1, <4>2
    <3>3. want'[c.pos] = Target(want[c.pos].to, b)
      BY <1>2, <1>18, <2>1, <3>1, <3>2
    <3>4. CASE c.pos \in E
      <4>1. want'[c.pos] = e /\ off'[c.pos] = To(pos', c.pos)
        BY <1>19, <1>20, <2>1, <3>3, <3>4 DEF e
      <4> QED
        BY <1>12, <1>21, <2>1, <4>1 DEF Lands, Reached
    <3>5. CASE c.pos \in B
      <4>1. want'[c.pos] = Target("begin", b) /\ off'[c.pos] = To(b, c.pos)
        BY <1>19, <1>20, <2>1, <3>3, <3>5
      <4>2. Target("begin", b) \in DOMAIN label /\ Target("begin", b).to = "begin"
            /\ Target("begin", b).at = b
        BY <1>2, <1>3 DEF OpenOK, Target
      <4>3. label'[Target("begin", b)] = b
        BY <1>3, <1>12, <4>2 DEF EndsOK
      <4> QED
        BY <1>12, <1>21, <2>1, <4>1, <4>2, <4>3 DEF Lands, Reached
    <3> QED
      BY <2>2, <3>4, <3>5
  <2> QED
    BY <1>3, <2>3, <2>4 DEF SavedOK
<1>23. ASSUME NEW c, c.pos \in DOMAIN want, c.ident # loop_ident, Live(c)
       PROVE  Live(c)' \/ Closed(want[c.pos].at)'
  <2>1. PICK i \in Loops : want[c.pos] = Target(want[c.pos].to, visits[i].begin) /\ c.ident = Ident(i)
    BY <1>23 DEF Live
  <2>2. CASE i = n
    <3>1. Ident(n) < loop_ident
      BY <1>3, <1>11, <1>23, <2>1, <2>2 DEF OpenOK
    <3>2. want'[c.pos].at = b
      BY <1>2, <1>18, <1>23, <2>1, <2>2 DEF Target
    <3>3. \A y : y = b => Closed(y)'
      BY <1>17, <3>1
    <3> QED
      BY <3>2, <3>3
  <2>3. CASE i # n
    BY <1>8, <1>11, <1>18, <1>23, <2>1, <2>3 DEF Live
  <2> QED
    BY <2>2, <2>3
<1>24. ASSUME NEW q \in DOMAIN want, want[q].to \in {"begin", "end"}, Lands(q)
       PROVE  Lands(q)' \/ Closed(want[q].at)'
  <2>1. CASE q \in B \union E
    <3>1. PICK c \in begin_comefroms \union end_comefroms : c.pos = q /\ c.ident = loop_ident
      BY <1>0, <2>1 DEF Positions
    <3> QED
      BY <1>22, <3>1
  <2>2. CASE q \notin B \union E
    <3>1. q # s
      BY <1>5, <1>6, <1>24
    <3>2. off'[q] = off[q] /\ want'[q] = want[q]
      BY <1>18, <1>20, <2>2, <3>1
    <3> QED
      BY <1>12, <1>24, <3>2, LandsKept
  <2> QED
    BY <2>1, <2>2
<1>25. ASSUME NEW C, NEW D, NEW to \in {"begin", "end"}, C \subseteq begin_comefroms \union end_comefroms,
              SavedOK(C, to), D = Without(C, loop_ident)
       PROVE  SavedThen(D, to)
  <2>1. /\ \A c \in C : c.pos \in DOMAIN want
        /\ \A c \in D : c \in C /\ c.ident # loop_ident
        /\ \A c \in C : c \notin D => c.ident = loop_ident
    BY <1>2, <1>3, <1>25 DEF Without, ListsOK
  <2>2. \A c \in C : c \notin D => Lands(c.pos)' \/ Closed(want[c.pos].at)'
    BY <1>22, <1>25, <2>1
  <2>3. \A c \in D : c \in C /\ (Live(c) => Live(c)' \/ Closed(want[c.pos].at)')
    BY <1>23, <2>1
  <2>4. \A q \in DOMAIN want : want[q].to = to /\ Lands(q) => Lands(q)' \/ Closed(want[q].at)'
    BY <1>24
  <2>5. /\ \A q \in DOMAIN want : q \in DOMAIN want' /\ want'[q] = want[q]
        /\ \A q \in DOMAIN want' : q \in DOMAIN want \/ want'[q].to # to
    BY <1>6, <1>18
  <2> QED
    BY <1>16, <1>25, <2>1, <2>2, <2>3, <2>4, <2>5, SavedKept
<1>26. SavedOK(begin_comefroms, "begin")'
  <2> DEFINE C == begin_comefroms
  <2>1. SavedOK(C, "begin") /\ C \subseteq begin_comefroms \union end_comefroms
    BY <1>3
  <2> HIDE DEF C
  <2>2. SavedThen(Without(C, loop_ident), "begin")
    BY <1>25, <2>1
  <2> QED
    BY <1>1, <2>2 DEF SavedOK, SavedThen, C
<1>27. SavedOK(end_comefroms, "end")'
  <2> DEFINE C == end_comefroms
  <2>1. SavedOK(C, "end") /\ C \subseteq begin_comefroms \union end_comefroms
    BY <1>3
  <2> HIDE DEF C
  <2>2. SavedThen(Without(C, loop_ident), "end")
    BY <1>25, <2>1
  <2> QED
    BY <1>1, <2>2 DEF SavedOK, SavedThen, C
<1> QED
  BY <1>13, <1>15, <1>26, <1>27 DEF LoopInv

\* No loop is open when main begins.
LEMMA InitLoops == Init => LoopInv
<1> SUFFICES ASSUME Init PROVE LoopInv
  OBVIOUS
<1>1. /\ visits = <<>> /\ cur_loop = <<>> /\ DOMAIN label = {} /\ DOMAIN want = {}
      /\ begin_comefroms = {} /\ end_comefroms = {}
  BY DEF Init
<1>2. Loops = {}
  BY <1>1 DEF Loops
<1>3. OpenOK
  <2>1. Cardinality(Loops) = 0
    BY <1>2, FS_EmptySet
  <2> QED
    BY <1>1, <1>2, <2>1 DEF OpenOK
<1> QED
  BY <1>1, <1>3 DEF LoopInv, EndsOK, SavedOK

\* Every step preserves the invariant of the loops.
LEMMA NextKeepsLoops ==
  ASSUME IInv, LoopInv, [Next]_vars
  PROVE  LoopInv'
<1>1. CASE Start \/ WriteExpr \/ Return
  BY <1>1, WriteKeepsLoops
<1>2. ASSUME NEW f \in Funcs, NEW n \in ArgCounts, Call(f, n)
      PROVE  LoopInv'
  BY <1>2, CallKeepsLoops
<1>3. ASSUME NEW c \in Consts, NEW extcall \in {0, 1}, PushConst(c, extcall)
      PROVE  LoopInv'
  BY <1>3, ConstKeepsLoops
<1>4. CASE Finish \/ FinishError \/ LoopJumpError
  BY <1>4, EndKeepsLoops DEF FinishError, LoopJumpError
<1>5. ASSUME NEW f \in Funcs, NEW n \in ArgCounts, CallError(f, n)
      PROVE  LoopInv'
  BY <1>5, EndKeepsLoops DEF CallError
<1>6. ASSUME NEW f \in Funcs, EnterFunc(f)
      PROVE  LoopInv'
  BY <1>6, FuncKeepsLoops
<1>7. CASE LeaveFunc
  <2>1. Main \in Funcs
    BY AsmAssumption DEF AsmAssumption
  <2> QED
    BY <1>7, <2>1, FuncKeepsLoops
<1>8. CASE EnterCond \/ TestCond
  BY <1>8, CondKeepsLoops
<1>9. CASE EnterElse \/ LeaveCond
  BY <1>9, BlockKeepsLoops
<1>10. CASE EnterLoop \/ LeaveLoop
  BY <1>10, EnterLoopKeepsLoops, LeaveLoopKeepsLoops
<1>11. ASSUME NEW n \in Depths, LoopBreak(n) \/ LoopNext(n)
       PROVE  LoopInv'
  <2>1. n \in Int
    BY AsmAssumption DEF AsmAssumption
  <2> QED
    BY <1>11, <2>1, JumpKeepsLoops
<1>12. CASE UNCHANGED vars
  <2>1. UNCHANGED <<pos, off, visits, loops, begin_comefroms, end_comefroms, want, label>>
    BY <1>12 DEF vars, loops, lists
  <2>2. Loops' = Loops /\ pos \in Nat
    BY <2>1, LoopFacts DEF Loops
  <2> QED
    BY <2>1, <2>2, LoopsKept DEF loops
<1> QED
  BY <1>1, <1>2, <1>3, <1>4, <1>5, <1>6, <1>7, <1>8, <1>9, <1>10, <1>11, <1>12 DEF Next

\* In the finished program a break leads to the end of the loop that it leaves and
\* a next to its begin, from however deep inside of if blocks and of other loops,
\* if the loop that is meant has no other loop inside.
THEOREM InnerLoopsCorrect == Spec => []InnerLoopsLinked
<1>1. Init => IInv /\ LoopInv
  BY InitSafe, InitLoops
<1>2. IInv /\ LoopInv /\ [Next]_vars => (IInv /\ LoopInv)'
  BY NextSafe, NextKeepsLoops
<1>3. IInv /\ LoopInv => InnerLoopsLinked
  <2> SUFFICES ASSUME IInv, LoopInv, phase = "done", NEW p \in DOMAIN want,
                      want[p].to \in {"begin", "end"}, ~HasInner(want[p].at)
               PROVE  Lands(p)
    BY DEF InnerLoopsLinked
  <2>1. Loops = {}
    BY DEF IInv, Core, VisitsOK, Loops
  <2>2. \A c : ~Live(c)
    BY <2>1 DEF Live
  <2>3. ~Closed(want[p].at)
    BY DEF Closed
  <2>4. PICK C : SavedOK(C, want[p].to)
    BY DEF LoopInv
  <2>5. Lands(p) \/ \E c \in C : c.pos = p
    BY <2>3, <2>4 DEF SavedOK
  <2> QED
    BY <2>2, <2>3, <2>4, <2>5 DEF SavedOK
<1> QED
  BY <1>1, <1>2, <1>3, PTL DEF Spec

===============================================================================
