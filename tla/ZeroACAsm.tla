------------------------------- MODULE ZeroACAsm -------------------------------
(***************************************************************************)
(* The zero-address code generator: the order in which the visitors write  *)
(* the code of a program to the output stream, the jumps and calls whose   *)
(* distances are not known when they are written, and the passes that go   *)
(* back and patch them.                                                    *)
(*                                                                         *)
(* The syntax tree is not fixed.  Its visitors call each other             *)
(* recursively: an action is the code of a visitor between two such calls, *)
(* and "visits" is the stack of the visitors that have not returned.  The  *)
(* conjuncts marked "program" are what the grammar guarantees.             *)
(*                                                                         *)
(* Of the code only the addresses are kept that are written into it, by    *)
(* their positions.  An address is written as PUSH, the ADDR_IP            *)
(* descriptor, the offset; the instruction that uses it (JMP, JMPCND,      *)
(* CALL, RDMEM) is one byte and follows at once.                           *)
(***************************************************************************)
EXTENDS Integers, Sequences, FiniteSets

CONSTANTS
  Funcs, Main,   \* the functions in the symbol table; Main is named "start"
  NumArgs,       \* and the number of their arguments
  Consts,        \* string constants and names of external functions
  ConstSize,     \* bytes of a constant in the constants table
  AddrSize,      \* bytes of an address, without its descriptor
  IntSize,       \* bytes of an integer, without its descriptor
  ExprSizes,     \* sizes of code in which no address is written
  Depths,        \* the numbers of loops that break and next are given
  ArgCounts,     \* the numbers of arguments that calls are given
  MaxCode,       \* bound: statements start below this address
  MaxVisits      \* bound: nested statements

ASSUME AsmAssumption ==
  /\ Main \in Funcs /\ NumArgs \in [Funcs -> Nat]
  /\ ConstSize \in [Consts -> Nat \ {0}]
  /\ AddrSize \in Nat \ {0} /\ IntSize \in Nat \ {0}
  /\ ExprSizes \subseteq Nat \ {0} /\ Depths \subseteq Int /\ ArgCounts \subseteq Nat
  /\ MaxCode \in Nat /\ MaxVisits \in Nat

VARIABLES
  phase,             \* where main is
  pos,               \* m_ostr->tellp(), the end of the stream
  off,               \* the offsets in the stream, by position
  visits,            \* the active visitors with their local variables
  addr,              \* Symbol::addr of the functions that have been visited
  table,             \* m_consttab: the bytes of its stream
  loop_ident,        \* the static variable of visit(ASTLoop)
  cur_loop,          \* m_cur_loop
  begin_comefroms,   \* m_loop_begin_comefroms
  end_comefroms,     \* m_loop_end_comefroms
  endfunc_comefroms, \* m_endfunc_comefroms
  func_comefroms,    \* m_func_comefroms
  const_addrs,       \* m_const_addrs
  want,              \* history: what each offset is meant to reach
  label              \* history: the addresses of those targets

lists   == <<begin_comefroms, end_comefroms, endfunc_comefroms, func_comefroms, const_addrs>>
loops   == <<loop_ident, cur_loop>>
symbols == <<addr, table>>
vars    == <<phase, pos, off, visits, symbols, loops, lists, want, label>>

-------------------------------------------------------------------------------
With(f, x, v) == [y \in DOMAIN f \union {x} |-> IF y = x THEN v ELSE f[y]]

\* mutant: the instruction after the address is not skipped
ToAddress(a, p) == a - p - AddrSize

\* the offset at position p that reaches address a: the address itself and the
\* instruction that uses it have already been skipped
To(a, p)   == a - p - (AddrSize + 1)
Reached(p) == p + AddrSize + 1 + off[p]

\* writes the distances to address a at the positions in set S
Patch(f, S, a) == [p \in DOMAIN f |-> IF p \in S THEN To(a, p) ELSE f[p]]

\* a jump written at address a: position of its offset, and the code after it
JumpSlot(a) == a + 2
JumpEnd(a)  == a + 3 + AddrSize
PushInt     == 2 + IntSize

Target(to, at) == [to |-> to, at |-> at]

Top        == visits[Len(visits)]
Outer      == SubSeq(visits, 1, Len(visits) - 1)
Replaced(v) == Append(Outer, v)
Visit(kind, begin) ==
  [kind |-> kind, stage |-> "cond", begin |-> begin, slot |-> 0, before |-> 0]

\* the visits of the loops around the current statement, and how many of these
\* loops are inside of the one with visit i
Loops     == {i \in 1 .. Len(visits) : visits[i].kind = "loop"}
Inside(i) == Cardinality({j \in Loops : j > i})

\* code of an expression, or of a statement, is written next
InExpr == phase = "code" /\ visits # <<>> /\ pos <= MaxCode
InStmt == InExpr /\ Top.stage # "cond"
Block  == InStmt /\ Len(visits) < MaxVisits

Init ==
  /\ phase = "start" /\ pos = 0
  /\ off = [p \in {} |-> 0] /\ want = [p \in {} |-> 0] /\ label = [t \in {} |-> 0]
  /\ visits = <<>>
  /\ addr = [f \in {} |-> 0] /\ table = <<>>
  /\ loop_ident = 0 /\ cur_loop = <<>>
  /\ begin_comefroms = {} /\ end_comefroms = {} /\ endfunc_comefroms = {}
  /\ func_comefroms = {} /\ const_addrs = {}

-------------------------------------------------------------------------------
(***************************************************************************)
(* Calls and constants.                                                    *)
(***************************************************************************)

\* frame size, function address, CALL
WriteCall(f, n) ==
  LET p == JumpSlot(pos + PushInt) IN
  /\ off'  = With(off, p, To(0, p))
  /\ want' = With(want, p, Target("func", f))
  /\ func_comefroms' = func_comefroms \union {[fn |-> f, pos |-> p, args |-> n]}
  /\ UNCHANGED <<visits, symbols, loops, begin_comefroms, end_comefroms,
                 endfunc_comefroms, const_addrs, label>>

\* Start: calls the start function and halts
Start ==
  /\ phase = "start" /\ phase' = "code"
  /\ WriteCall(Main, 0)
  /\ pos' = JumpEnd(pos + PushInt) + 1

\* code in which no address is written
WriteExpr ==
  /\ InExpr
  /\ \E n \in ExprSizes : pos' = pos + n
  /\ UNCHANGED <<phase, off, visits, symbols, loops, lists, want, label>>

Throw ==
  /\ phase' = "error"
  /\ UNCHANGED <<pos, off, visits, symbols, loops, lists, want, label>>

Call(f, n) ==
  /\ InExpr /\ n = NumArgs[f]
  /\ WriteCall(f, n)
  /\ pos' = JumpEnd(pos + PushInt)
  /\ UNCHANGED phase

CallError(f, n) == InExpr /\ n # NumArgs[f] /\ Throw

\* mutant: the position of a constant found in the table is one byte too high
ConstPosPast(c) ==
  IF \E i \in 1 .. Len(table) : table[i] = [const |-> c, k |-> 1]
  THEN (CHOOSE i \in 1 .. Len(table) : table[i] = [const |-> c, k |-> 1])
  ELSE Len(table)

\* ConstTab::AddConst: the position of a constant in the table, which may already
\* hold it, and the table with the constant
ConstPos(c) ==
  IF \E i \in 1 .. Len(table) : table[i] = [const |-> c, k |-> 1]
  THEN (CHOOSE i \in 1 .. Len(table) : table[i] = [const |-> c, k |-> 1]) - 1
  ELSE Len(table)

AddConst(c) ==
  IF ConstPos(c) < Len(table) THEN table
  ELSE table \o [k \in 1 .. ConstSize[c] |-> [const |-> c, k |-> k]]

\* PushStrConst, or CallExternal, which appends the EXTCALL instruction
PushConst(c, extcall) ==
  /\ InExpr
  /\ LET p == JumpSlot(pos) IN
     /\ off'  = With(off, p, To(ConstPos(c), p))
     /\ want' = With(want, p, Target("const", c))
     /\ const_addrs' = const_addrs \union {[pos |-> p, addr |-> To(ConstPos(c), p)]}
  /\ table' = AddConst(c)
  /\ pos' = JumpEnd(pos) + extcall
  /\ UNCHANGED <<phase, visits, addr, loops, begin_comefroms, end_comefroms,
                 endfunc_comefroms, func_comefroms, label>>

-------------------------------------------------------------------------------
(***************************************************************************)
(* Functions.                                                              *)
(***************************************************************************)
EnterFunc(f) ==
  /\ phase = "code" /\ visits = <<>> /\ pos <= MaxCode
  /\ f \notin DOMAIN addr              \* program
  /\ addr'   = With(addr, f, pos)
  /\ visits' = << [Visit("func", pos) EXCEPT !.stage = "body"] >>
  /\ label'  = With(label, Target("func", f), pos)
  /\ UNCHANGED <<phase, pos, off, table, loops, lists, want>>

\* mutant: the position is saved after the address has been written
ReturnSavedLate ==
  /\ InStmt
  /\ off'  = With(off, JumpSlot(pos), 0)
  /\ want' = With(want, JumpSlot(pos), Target("ret", visits[1].begin))
  /\ endfunc_comefroms' = endfunc_comefroms \union {JumpSlot(pos) + AddrSize}
  /\ pos'  = JumpEnd(pos)
  /\ UNCHANGED <<phase, visits, symbols, loops, begin_comefroms, end_comefroms,
                 func_comefroms, const_addrs, label>>

\* the jump to the end of the function; the values have been pushed before
Return ==
  /\ InStmt
  /\ off'  = With(off, JumpSlot(pos), 0)
  /\ want' = With(want, JumpSlot(pos), Target("ret", visits[1].begin))
  /\ endfunc_comefroms' = endfunc_comefroms \union {JumpSlot(pos)}
  /\ pos'  = JumpEnd(pos)
  /\ UNCHANGED <<phase, visits, symbols, loops, begin_comefroms, end_comefroms,
                 func_comefroms, const_addrs, label>>

\* mutant: the list of return statements is kept for the next function
LeaveFuncKeepingReturns ==
  /\ phase = "code" /\ visits # <<>> /\ Top.kind = "func"
  /\ off'    = Patch(off, endfunc_comefroms, pos)
  /\ label'  = With(label, Target("ret", Top.begin), pos)
  /\ pos'    = pos + 2 * PushInt + 1
  /\ cur_loop' = <<>>
  /\ visits' = <<>>
  /\ UNCHANGED <<phase, symbols, loop_ident, endfunc_comefroms, begin_comefroms,
                 end_comefroms, func_comefroms, const_addrs, want>>

\* frame size, number of arguments, RET
LeaveFunc ==
  /\ phase = "code" /\ visits # <<>> /\ Top.kind = "func"
  /\ off'    = Patch(off, endfunc_comefroms, pos)
  /\ label'  = With(label, Target("ret", Top.begin), pos)
  /\ pos'    = pos + 2 * PushInt + 1
  /\ endfunc_comefroms' = {}
  /\ cur_loop' = <<>>
  /\ visits' = <<>>
  /\ UNCHANGED <<phase, symbols, loop_ident, begin_comefroms, end_comefroms,
                 func_comefroms, const_addrs, want>>

-------------------------------------------------------------------------------
(***************************************************************************)
(* Conditions and loops.                                                   *)
(***************************************************************************)
EnterCond ==
  /\ Block
  /\ visits' = Append(visits, Visit("cond", pos))
  /\ UNCHANGED <<phase, pos, off, symbols, loops, lists, want, label>>

EnterLoop ==
  /\ Block
  /\ loop_ident' = loop_ident + 1
  /\ cur_loop' = Append(cur_loop, loop_ident')
  /\ visits'   = Append(visits, Visit("loop", pos))
  /\ label'    = With(With(label, Target("begin", pos), pos), Target("again", pos), pos)
  /\ UNCHANGED <<phase, pos, off, symbols, lists, want>>

\* NOT, and the jump over the block; before it is the condition's code
TestCond ==
  /\ phase = "code" /\ visits # <<>> /\ Top.stage = "cond"
  /\ pos > Top.begin                   \* program
  /\ LET p == JumpSlot(pos + 1) IN
     /\ off'    = With(off, p, 0)
     /\ want'   = With(want, p, Target("skip", Top.begin))
     /\ visits' = Replaced([Top EXCEPT !.stage = "block", !.slot = p,
                                       !.before = JumpEnd(pos + 1)])
  /\ pos' = JumpEnd(pos + 1)
  /\ UNCHANGED <<phase, symbols, loops, lists, label>>

\* mutant: the if block ends before the jump over the else block
EnterElseEarly ==
  /\ phase = "code" /\ visits # <<>> /\ Top.kind = "cond" /\ Top.stage = "block"
  /\ LET p     == JumpSlot(pos)
         after == JumpEnd(pos)
     IN  /\ off'    = With([off EXCEPT ![Top.slot] = pos - Top.before], p, 0)
         /\ want'   = With(want, p, Target("endif", Top.begin))
         /\ label'  = With(label, Target("skip", Top.begin), after)
         /\ visits' = Replaced([Top EXCEPT !.stage = "else", !.slot = p, !.before = after])
         /\ pos'    = after
  /\ UNCHANGED <<phase, symbols, loops, lists>>

\* the end of an if block that is followed by an else block
EnterElse ==
  /\ phase = "code" /\ visits # <<>> /\ Top.kind = "cond" /\ Top.stage = "block"
  /\ LET p     == JumpSlot(pos)
         after == JumpEnd(pos)
     IN  /\ off'    = With([off EXCEPT ![Top.slot] = after - Top.before], p, 0)
         /\ want'   = With(want, p, Target("endif", Top.begin))
         /\ label'  = With(label, Target("skip", Top.begin), after)
         /\ visits' = Replaced([Top EXCEPT !.stage = "else", !.slot = p, !.before = after])
         /\ pos'    = after
  /\ UNCHANGED <<phase, symbols, loops, lists>>

\* the end of the else block, or of an if block without one
LeaveCond ==
  /\ phase = "code" /\ visits # <<>> /\ Top.kind = "cond" /\ Top.stage # "cond"
  /\ off'    = [off EXCEPT ![Top.slot] = pos - Top.before]
  /\ label'  = With(label, Target(IF Top.stage = "else" THEN "endif" ELSE "skip", Top.begin), pos)
  /\ visits' = Outer
  /\ UNCHANGED <<phase, pos, symbols, loops, lists, want>>

Positions(comefroms, ident) == {c.pos : c \in {c \in comefroms : c.ident = ident}}
Without(comefroms, ident)   == {c \in comefroms : c.ident # ident}

\* mutant: the loop ends before its jump back
LinkLoopEarly(o, after) ==
  Patch(Patch(o, Positions(begin_comefroms, loop_ident), Top.begin),
        Positions(end_comefroms, loop_ident), pos)

\* the offsets o with those patched that were saved for the loop with number
\* loop_ident, which ends at address after
LinkLoop(o, after) ==
  Patch(Patch(o, Positions(begin_comefroms, loop_ident), Top.begin),
        Positions(end_comefroms, loop_ident), after)

\* jumps back, then patches the jumps saved for the loop with number loop_ident
LeaveLoop ==
  /\ phase = "code" /\ visits # <<>> /\ Top.kind = "loop" /\ Top.stage = "block"
  /\ LET after == JumpEnd(pos)
         back  == With(off, JumpSlot(pos), To(Top.begin, JumpSlot(pos)))
         skip  == [back EXCEPT ![Top.slot] = after - Top.before]
     IN  /\ off'   = LinkLoop(skip, after)
         /\ want'  = With(want, JumpSlot(pos), Target("again", Top.begin))
         /\ label' = With(With(label, Target("skip", Top.begin), after),
                          Target("end", Top.begin), after)
         /\ pos'   = after
  /\ begin_comefroms' = Without(begin_comefroms, loop_ident)
  /\ end_comefroms'   = Without(end_comefroms, loop_ident)
  /\ cur_loop' = SubSeq(cur_loop, 1, Len(cur_loop) - 1)
  /\ visits'   = Outer
  /\ UNCHANGED <<phase, symbols, loop_ident, endfunc_comefroms, func_comefroms, const_addrs>>

\* the number of loops that break and next leave, reduced to those there are
Reduced(n) == IF n >= Len(cur_loop) \/ n < 0 THEN Len(cur_loop) - 1 ELSE n

\* the jump of break and next: where it is, the loop it is saved for, and (for the
\* properties) the loop around the statement that it is meant for
Saved(n)    == [ident |-> cur_loop[Len(cur_loop) - Reduced(n)], pos |-> JumpSlot(pos)]
Meant(to, n) ==
  LET last  == Cardinality(Loops) - 1
      depth == IF n \in 0 .. last THEN n ELSE last
  IN  Target(to, visits[CHOOSE i \in Loops : Inside(i) = depth].begin)

LoopJump(to, n) ==
  /\ InStmt /\ cur_loop # <<>>
  /\ off'  = With(off, JumpSlot(pos), 0)
  /\ want' = With(want, JumpSlot(pos), Meant(to, n))
  /\ pos'  = JumpEnd(pos)
  /\ UNCHANGED <<phase, visits, symbols, loops, endfunc_comefroms, func_comefroms,
                 const_addrs, label>>

LoopBreak(n) ==
  /\ LoopJump("end", n)
  /\ end_comefroms' = end_comefroms \union {Saved(n)}
  /\ UNCHANGED begin_comefroms

LoopNext(n) ==
  /\ LoopJump("begin", n)
  /\ begin_comefroms' = begin_comefroms \union {Saved(n)}
  /\ UNCHANGED end_comefroms

\* break or next outside of a loop
LoopJumpError == InStmt /\ cur_loop = <<>> /\ Throw

-------------------------------------------------------------------------------
(***************************************************************************)
(* Finish: a last HALT, the constants table, and the addresses of the      *)
(* constants and of the functions.                                         *)
(***************************************************************************)
Unlinked ==
  \E c \in func_comefroms : c.fn \notin DOMAIN addr \/ c.args # NumArgs[c.fn]

FinishError == phase = "code" /\ visits = <<>> /\ Unlinked /\ Throw

\* the stream's offsets when the constants table begins at consttab_pos
Linked(consttab_pos) ==
  [p \in DOMAIN off |->
     IF \E c \in const_addrs : c.pos = p
     THEN (CHOOSE c \in const_addrs : c.pos = p).addr + consttab_pos
     ELSE IF \E c \in func_comefroms : c.pos = p
     THEN To(addr[(CHOOSE c \in func_comefroms : c.pos = p).fn], p)
     ELSE off[p]]

Finish ==
  /\ phase = "code" /\ visits = <<>> /\ ~Unlinked
  /\ off' = Linked(pos + 1)
  /\ pos' = pos + 1 + Len(table)
  /\ phase' = "done"
  /\ UNCHANGED <<visits, symbols, loops, lists, want, label>>

Next ==
  \/ Start \/ WriteExpr \/ Finish \/ FinishError
  \/ \E f \in Funcs : EnterFunc(f) \/ \E n \in ArgCounts : Call(f, n) \/ CallError(f, n)
  \/ \E c \in Consts : \E extcall \in {0, 1} : PushConst(c, extcall)
  \/ Return \/ LeaveFunc
  \/ EnterCond \/ EnterLoop \/ TestCond \/ EnterElse \/ LeaveCond \/ LeaveLoop
  \/ \E n \in Depths : LoopBreak(n) \/ LoopNext(n)
  \/ LoopJumpError

Spec == Init /\ [][Next]_vars

-------------------------------------------------------------------------------
(***************************************************************************)
(* Properties.                                                             *)
(***************************************************************************)

Kinds  == {"func", "ret", "const", "skip", "endif", "again", "begin", "end"}
Places == [to : Kinds, at : Funcs \union Consts \union Nat]
Jumps  == [ident : Nat, pos : Nat]

\* Types of the stream's position, the offsets and the lists of unset addresses,
\* which are positions of addresses in the stream.
TypeOK ==
  /\ phase \in {"start", "code", "done", "error"}
  /\ pos \in Nat
  /\ DOMAIN off \subseteq Nat /\ \A p \in DOMAIN off : off[p] \in Int
  /\ DOMAIN want = DOMAIN off /\ \A p \in DOMAIN want : want[p].to \in Kinds
  /\ DOMAIN label \subseteq Places /\ \A t \in DOMAIN label : label[t] \in Nat
  /\ visits \in Seq([kind : {"func", "cond", "loop"}, stage : {"cond", "block", "else", "body"},
                     begin : Nat, slot : Nat, before : Nat])
  /\ DOMAIN addr \subseteq Funcs /\ \A f \in DOMAIN addr : addr[f] \in Nat
  /\ table \in Seq([const : Consts, k : Nat])
  /\ loop_ident \in Nat /\ cur_loop \in Seq(Nat)
  /\ begin_comefroms \subseteq Jumps /\ end_comefroms \subseteq Jumps
  /\ endfunc_comefroms \subseteq DOMAIN off
  /\ func_comefroms \subseteq [fn : Funcs, pos : Nat, args : Nat]
  /\ const_addrs \subseteq [pos : Nat, addr : Int]

\* In the finished program position p leads to the place it was written for.
Lands(p) == want[p] \in DOMAIN label /\ Reached(p) = label[want[p]]

\* Every conditional jump of an if statement or a loop, every jump over an else
\* block, every jump back and every return leads to its own construct's end or
\* begin, however the constructs are nested and whichever are patched in between.
StructureLinked ==
  phase = "done" =>
    \A p \in DOMAIN want :
      want[p].to \in {"ret", "skip", "endif", "again"} => Lands(p)

\* Every call, the one in the start-up code included, leads to the first
\* instruction of the function that was called, also if it is defined later.
CallsLinked ==
  phase = "done" => \A p \in DOMAIN want : want[p].to = "func" => Lands(p)

\* Every string and every name of an external function is read from the table at
\* the place where that constant begins, although equal constants share a place
\* and the table's own address is known only at the end.
ConstsLinked ==
  phase = "done" =>
    \A p \in DOMAIN want : want[p].to = "const" =>
      LET i == Reached(p) - (pos - Len(table)) + 1 IN
      i \in 1 .. Len(table) /\ table[i] = [const |-> want[p].at, k |-> 1]

\* the loop that begins at b has another loop inside
HasInner(b) ==
  \E t \in DOMAIN label : /\ t.to = "begin" /\ t.at > b
                          /\ t.at < label[Target("end", b)]

\* The break and next statements meant for a loop, which may be inside of if
\* blocks, lead to its end and its begin if it contains no other loop.
InnerLoopsLinked ==
  phase = "done" =>
    \A p \in DOMAIN want :
      want[p].to \in {"begin", "end"} /\ ~HasInner(want[p].at) => Lands(p)

\* "jump to the end of the loop", "jump to the beginning of the loop": the comments
\* of visit(ASTLoopBreak) and visit(ASTLoopNext), for any loop.
LoopsLinked ==
  phase = "done" =>
    \A p \in DOMAIN want : want[p].to \in {"begin", "end"} => Lands(p)

===============================================================================
