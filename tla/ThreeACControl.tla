---------------------------- MODULE ThreeACControl ----------------------------
(***************************************************************************)
(* A function of the three-address code generator, and the run of the code *)
(* that it writes: how the branches of blocks, conditions and loops are    *)
(* linked by labels, when the stack is saved and restored around the       *)
(* variables and temporaries that are allocated on it, and how the blocks  *)
(* of the heap in which arrays and multiple values are returned change     *)
(* hands.                                                                  *)
(*                                                                         *)
(* The syntax tree is not fixed.  Its visitors call each other             *)
(* recursively: an action is the code of a visitor between two such calls, *)
(* "visits" is the stack of the visitors that have not returned.  Of the   *)
(* instructions only those are kept that allocate, use or release memory   *)
(* and those that branch; of the values only the addresses of memory.      *)
(* Conjuncts marked "program" hold for what the grammar accepts, those     *)
(* marked "llvm" for what the LLVM tools accept of the written code.       *)
(***************************************************************************)
EXTENDS Integers, Sequences, FiniteSets, RuntimeHeap

CONSTANTS
  Vars,       \* the local variables and parameters of the function
  ArgLists,   \* the parameter lists it may have
  RetTypes,   \* the kinds of values it may return
  Exprs,      \* the kinds of expressions its statements may have
  Depths,     \* the numbers of loops that break and next are given
  MaxStmts,   \* bound: the statements of the function
  MaxVisits,  \* bound: nested statements
  MaxStack,   \* bound: allocations on the stack
  Blocks      \* bound: the addresses of the heap

ASSUME ControlAssumption ==
  /\ ArgLists \subseteq Seq(Vars)
  /\ \A as \in ArgLists : \A i, j \in 1 .. Len(as) : as[i] = as[j] => i = j
  /\ RetTypes \subseteq {"void", "scalar", "heap"}
  /\ Exprs \subseteq {"const", "array", "string", "comp"}
  /\ Depths \subseteq Int
  /\ MaxStmts \in Nat /\ MaxVisits \in Nat /\ MaxStack \in Nat
  /\ Blocks \subseteq Nat \ {0}

VARIABLES
  phase,           \* the generator writes, or its code runs or has ended
  code,            \* the instructions in the order they are written
  visits,          \* the active visitors with their local variables
  retty,           \* what the function returns
  labelCount,      \* m_labelCount
  labelCountBlock, \* m_labelCountBlock
  varCount,        \* m_varCount
  loopStartStack,  \* m_loopStartStack
  loopEndStack,    \* m_loopEndStack
  open,            \* history: the saved stack pointers and the memory on the stack
                   \*          that are in their scope at the end of the code
  stmts,           \* the statements so far, for MaxStmts
  dom,             \* the variables whose allocation dominates the end of the code
  ip,              \* the instruction that runs next
  stack,           \* the allocations on the stack
  reg,             \* the registers that hold an address or a stack pointer
  heap,            \* the heap and the list of its blocks
  entered          \* history: the loops that have been entered

counters == <<labelCount, labelCountBlock, varCount>>
loops    == <<loopStartStack, loopEndStack>>
gen      == <<code, visits, retty, counters, loops, open, stmts, dom>>
run      == <<ip, stack, reg, heap, entered>>
vars     == <<phase, gen, run>>

-------------------------------------------------------------------------------
(***************************************************************************)
(* Names and instructions.                                                 *)
(***************************************************************************)
None     == <<>>
Var(v)   == <<"var", v>>
Block(k) == <<"block", k>>
Tmp(k)   == <<"tmp", k>>

\* an instruction; "open" is what is in scope before it, and "meant" the places that
\* its labels are meant for
Instr(op, reg_, to, meant, o) ==
  [op |-> op, reg |-> reg_, to |-> to, meant |-> meant, open |-> o]
Do(op, r, o)            == Instr(op, r, <<>>, <<>>, o)
Branch(op, to, meant, o) == Instr(op, None, to, meant, o)
Place(to, at)           == [to |-> to, at |-> at]

\* the code of an expression that begins with o in scope, its temporaries from
\* number k on, and its result: a constant is stored on the stack; the array or
\* the string that a call returns is copied to the stack and its block released;
\* the block with multiple values that a call returns is the result itself
Eval(e, k, o) ==
  CASE e = "const"  -> <<Do("alloca", Tmp(k), o), Do("use", Tmp(k), Append(o, Tmp(k)))>>
    [] e = "array"  -> <<Do("call", Tmp(k), o), Do("alloca", Tmp(k + 1), o),
                         Do("free", Tmp(k), Append(o, Tmp(k + 1)))>>
    [] e = "string" -> <<Do("strcall", Tmp(k), o), Do("alloca", Tmp(k + 1), o),
                         Do("free", Tmp(k + 1), Append(o, Tmp(k + 1)))>>
    [] e = "comp"   -> <<Do("call", Tmp(k), o)>>
Result(e, k) == IF e \in {"array", "string"} THEN Tmp(k + 1) ELSE Tmp(k)
Opened(e, k) == IF e = "comp" THEN <<>> ELSE <<Result(e, k)>>

\* mutant: the stack pointer is saved after the condition has been tested
LoopHeadSavedLate(h, test) ==
  <<Branch("br", <<h.label>>, <<Place("start", h.begin)>>, h.out),
    Branch("label", <<h.label>>, <<Place("start", h.begin)>>, h.out)>>
  \o test \o
  <<Do("save", h.block, h.out),
    Branch("cbr", <<h.label + 1, h.label + 2>>,
           <<Place("begin", h.begin), Place("end", h.begin)>>, h.in),
    Branch("label", <<h.label + 1>>, <<Place("begin", h.begin)>>, h.in)>>

\* the first half of generate_loop, with the code of the condition
LoopHead(h, test) ==
  <<Branch("br", <<h.label>>, <<Place("start", h.begin)>>, h.out),
    Branch("label", <<h.label>>, <<Place("start", h.begin)>>, h.out),
    Do("save", h.block, h.out)>>
  \o test \o
  <<Branch("cbr", <<h.label + 1, h.label + 2>>,
           <<Place("begin", h.begin), Place("end", h.begin)>>, h.in),
    Branch("label", <<h.label + 1>>, <<Place("begin", h.begin)>>, h.in)>>

\* mutant: the stack is not restored at the end of the body
LoopTailKeepingBody(h, o) ==
  <<Branch("br", <<h.label>>, <<Place("start", h.begin)>>, h.out),
    Branch("label", <<h.label + 2>>, <<Place("end", h.begin)>>, h.in),
    Do("restore", h.block, h.in)>>

\* the second half of generate_loop, when o is in scope at the end of the body
LoopTail(h, o) ==
  <<Do("restore", h.block, o),
    Branch("br", <<h.label>>, <<Place("start", h.begin)>>, h.out),
    Branch("label", <<h.label + 2>>, <<Place("end", h.begin)>>, h.in),
    Do("restore", h.block, h.in)>>

\* the loop that copies the elements of an array, with a counter on the stack
CopyLoop(v, src, at, label, block, k, o) ==
  LET out == Append(o, Tmp(k))
      h   == [begin |-> at + 1, label |-> label, block |-> block,
              out |-> out, in |-> Append(out, block)]
  IN  <<Do("alloca", Tmp(k), o)>>
      \o LoopHead(h, <<Do("use", Tmp(k), h.in)>>)
      \o <<Do("use", src, h.in), Do("use", Var(v), h.in), Do("use", Tmp(k), h.in)>>
      \o LoopTail(h, h.in)

-------------------------------------------------------------------------------
(***************************************************************************)
(* Visitors.                                                               *)
(***************************************************************************)
Top   == visits[Len(visits)]
Outer == SubSeq(visits, 1, Len(visits) - 1)
Visit(kind, block, in) ==
  [kind |-> kind, stage |-> "body", begin |-> Len(code) + 1, label |-> labelCount,
   block |-> block, out |-> open, in |-> in, dom |-> dom,
   nest |-> (IF visits = <<>> THEN 0 ELSE Top.nest) + (IF kind = "loop" THEN 1 ELSE 0)]

\* the visitors after a statement has been visited: all but the one of a block of
\* statements visit only one
Returned(vs) ==
  IF vs # <<>> /\ vs[Len(vs)].kind # "stmts"
  THEN [vs EXCEPT ![Len(vs)].stage = "done"] ELSE vs

\* a statement is visited next, as a part of the statement at the top
InStmt == /\ phase = "gen" /\ visits # <<>> /\ stmts < MaxStmts
          /\ Top.kind # "func" /\ Top.stage = "body"
Nested == InStmt /\ Len(visits) < MaxVisits

Write(is) == code' = code \o is
Enter(is, v) == Write(is) /\ visits' = Append(visits, v) /\ stmts' = stmts + 1
Stmt(is)  == Write(is) /\ visits' = Returned(visits) /\ stmts' = stmts + 1

Init ==
  /\ phase = "start" /\ code = <<>> /\ visits = <<>> /\ retty = "void"
  /\ labelCount = 0 /\ labelCountBlock = 0 /\ varCount = 0
  /\ loopStartStack = <<>> /\ loopEndStack = <<>>
  /\ open = <<>> /\ dom = {} /\ stmts = 0
  /\ ip = 1 /\ stack = <<>> /\ heap = EmptyHeap
  /\ reg = [r \in {} |-> 0] /\ entered = [b \in {} |-> 0]

\* visit(ASTFunc): copies the arguments to the stack
EnterFunc(as, ty) ==
  /\ phase = "start" /\ phase' = "gen"
  /\ retty' = ty
  /\ LET names == [i \in 1 .. Len(as) |-> Var(as[i])] IN
     /\ Write([i \in 1 .. Len(as) |-> Do("alloca", names[i], SubSeq(names, 1, i - 1))])
     /\ open' = names
     /\ visits' = << Visit("func", None, names) >>
  /\ dom' = {as[i] : i \in 1 .. Len(as)}
  /\ UNCHANGED <<stmts, counters, loops, run>>

\* mutant: a function without a value is not ended by a return
LeaveFuncOpen ==
  /\ phase = "gen" /\ visits # <<>> /\ Top.kind = "func" /\ Top.stage = "done"
  /\ retty # "heap" \/ code[Len(code) - 1].op = "ret"
  /\ visits' = <<>>
  /\ phase' = "run"
  /\ UNCHANGED <<code, stmts, retty, counters, loops, open, dom, run>>

\* the end of visit(ASTFunc): the result of the last statement is returned, or 0 if it
\* has none; an array, a string or several values have to be those of a return
\* statement, as nothing else is a pointer to the heap
LeaveFunc ==
  /\ phase = "gen" /\ visits # <<>> /\ Top.kind = "func" /\ Top.stage = "done"
  /\ retty # "heap" \/ code[Len(code) - 1].op = "ret"
  /\ Write(<< Do("ret", IF retty = "heap" THEN code[Len(code) - 1].reg ELSE None, open) >>)
  /\ visits' = <<>>
  /\ phase' = "run"
  /\ UNCHANGED <<stmts, retty, counters, loops, open, dom, run>>

\* visit(ASTStmts)
EnterStmts ==
  /\ \/ Nested
     \/ phase = "gen" /\ visits # <<>> /\ Top.kind = "func" /\ Top.stage = "body"
  /\ LET block == Block(labelCountBlock) IN
     /\ Enter(<< Do("save", block, open) >>, Visit("stmts", block, Append(open, block)))
     /\ open' = Append(open, block)
  /\ labelCountBlock' = labelCountBlock + 1
  /\ UNCHANGED <<phase, retty, labelCount, varCount, loops, dom, run>>

LeaveStmts ==
  /\ phase = "gen" /\ visits # <<>> /\ Top.kind = "stmts"
  /\ Write(<< Do("restore", Top.block, open) >>)
  /\ open' = Top.out
  /\ visits' = Returned(Outer)
  /\ UNCHANGED <<stmts, phase, retty, counters, loops, dom, run>>

\* visit(ASTVarDecl) without an assignment; a second allocation with the same name
\* is not accepted ("llvm")
VarDecl(v) ==
  /\ InStmt
  /\ \A i \in 1 .. Len(code) : code[i].op = "alloca" => code[i].reg # Var(v)
  /\ Stmt(<< Do("alloca", Var(v), open) >>)
  /\ open' = Append(open, Var(v))
  /\ dom'  = dom \union {v}
  /\ UNCHANGED <<phase, retty, counters, loops, run>>

\* an expression, a call for example, as a statement
ExprStmt(e) ==
  /\ InStmt
  /\ Stmt(Eval(e, varCount, open))
  /\ open' = open \o Opened(e, varCount)
  /\ varCount' = varCount + 2
  /\ UNCHANGED <<phase, retty, labelCount, labelCountBlock, loops, dom, run>>

\* visit(ASTAssign): stores a scalar, copies an array or a string in a loop, or
\* stores multiple values and releases their block; what does not dominate its use
\* is not accepted ("llvm")
Assign(v, e) ==
  /\ InStmt /\ v \in dom
  /\ LET o    == open \o Opened(e, varCount)
         src  == Result(e, varCount)
         ctr  == varCount + 2
         loop == e \in {"array", "string"}
     IN  /\ Stmt(Eval(e, varCount, open)
                 \o CASE e = "const" -> << Do("use", Var(v), o) >>
                      [] e = "comp"  -> << Do("use", Var(v), o), Do("free", src, o) >>
                      [] loop -> CopyLoop(v, src, Len(code) + 1, labelCount,
                                          Block(labelCountBlock), ctr, o))
         /\ open' = IF loop THEN Append(o, Tmp(ctr)) ELSE o
         /\ varCount' = varCount + 3
         /\ labelCount' = IF loop THEN labelCount + 3 ELSE labelCount
         /\ labelCountBlock' = IF loop THEN labelCountBlock + 1 ELSE labelCountBlock
  /\ UNCHANGED <<phase, retty, loops, dom, run>>

\* what follows the value of a return statement: arrays, strings and multiple values
\* are copied to the heap
ReturnCode(o) ==
  CASE retty \in {"void", "scalar"} -> << Do("ret", None, o) >>
    [] retty = "heap" -> << Do("heap", Tmp(varCount + 1), o), Do("ret", Tmp(varCount + 1), o) >>

\* visit(ASTReturn)
Return ==
  /\ InStmt
  /\ LET value == IF retty = "void" THEN <<>> ELSE Eval("const", varCount, open)
         o     == IF retty = "void" THEN open ELSE Append(open, Tmp(varCount))
     IN  Stmt(value \o ReturnCode(o)) /\ open' = o
  /\ varCount' = varCount + 2
  /\ UNCHANGED <<phase, retty, labelCount, labelCountBlock, loops, dom, run>>

\* visit(ASTLoop) up to the visit of its statement
EnterLoop ==
  /\ Nested
  /\ LET block == Block(labelCountBlock)
         tmp   == Tmp(varCount)
         h     == Visit("loop", block, open \o <<block, tmp>>)
     IN  /\ Enter(LoopHead(h, Eval("const", varCount, Append(open, block))), h)
         /\ open' = h.in
  /\ labelCount' = labelCount + 3
  /\ labelCountBlock' = labelCountBlock + 1
  /\ varCount' = varCount + 1
  /\ loopStartStack' = Append(loopStartStack, labelCount)
  /\ loopEndStack'   = Append(loopEndStack, labelCount + 2)
  /\ UNCHANGED <<phase, retty, dom, run>>

LeaveLoop ==
  /\ phase = "gen" /\ visits # <<>> /\ Top.kind = "loop" /\ Top.stage = "done"
  /\ Write(LoopTail(Top, open))
  /\ open' = Top.out
  /\ dom'  = Top.dom
  /\ visits' = Returned(Outer)
  /\ loopStartStack' = SubSeq(loopStartStack, 1, Len(loopStartStack) - 1)
  /\ loopEndStack'   = SubSeq(loopEndStack, 1, Len(loopEndStack) - 1)
  /\ UNCHANGED <<stmts, phase, retty, counters, run>>

\* the number of loops that break and next leave, reduced to those there are
Reduced(n) == IF n >= Len(loopEndStack) \/ n < 0 THEN Len(loopEndStack) - 1 ELSE n

\* the loop around the statement that a break or next is meant for: the n-th around the
\* innermost, or the outermost
Meant(to, n) ==
  LET nest == IF n \in 0 .. (Top.nest - 1) THEN Top.nest - n ELSE 1
      p    == CHOOSE p \in 1 .. Len(visits) : visits[p].kind = "loop" /\ visits[p].nest = nest
  IN  Place(to, visits[p].begin)

\* visit(ASTLoopBreak) and visit(ASTLoopNext)
LoopBreak(n) ==
  /\ InStmt /\ loopEndStack # <<>>
  /\ LET label == loopEndStack[Len(loopEndStack) - Reduced(n)] IN
     Stmt(<< Branch("br", <<label>>, << Meant("end", n) >>, open) >>)
  /\ UNCHANGED <<phase, retty, counters, loops, open, dom, run>>

LoopNext(n) ==
  /\ InStmt /\ loopStartStack # <<>>
  /\ LET label == loopStartStack[Len(loopStartStack) - Reduced(n)] IN
     Stmt(<< [Branch("br", <<label>>, << Meant("start", n) >>, open) EXCEPT !.op = "next"] >>)
  /\ UNCHANGED <<phase, retty, counters, loops, open, dom, run>>

\* break or next outside of a loop
LoopJumpError ==
  /\ InStmt /\ loopStartStack = <<>>
  /\ phase' = "error"
  /\ UNCHANGED <<gen, run>>

\* the branch over, or into, the block of a condition
CondHead(v, else) ==
  << Branch("cbr", <<v.label, v.label + 1>>,
            << Place("if", v.begin), Place(IF else THEN "else" ELSE "end", v.begin) >>, v.in),
     Branch("label", <<v.label>>, << Place("if", v.begin) >>, v.in) >>

\* visit(ASTCond) up to the visit of its statement; with an else statement there
\* are three labels
EnterCond(else) ==
  /\ Nested
  /\ LET v == Visit(IF else THEN "ifelse" ELSE "if", None, Append(open, Tmp(varCount)))
     IN  /\ Enter(Eval("const", varCount, open) \o CondHead(v, else), v)
         /\ open' = v.in
  /\ varCount' = varCount + 1
  /\ labelCount' = labelCount + (IF else THEN 3 ELSE 2)
  /\ UNCHANGED <<phase, retty, labelCountBlock, loops, dom, run>>

\* mutant: the if block falls into the else block
EnterElseFalling ==
  /\ phase = "gen" /\ visits # <<>> /\ Top.kind = "ifelse" /\ Top.stage = "done"
  /\ Write(<< Branch("br", <<Top.label + 1>>, << Place("end", Top.begin) >>, open),
              Branch("label", <<Top.label + 1>>, << Place("else", Top.begin) >>, Top.in) >>)
  /\ open' = Top.in
  /\ dom'  = Top.dom
  /\ visits' = Append(Outer, [Top EXCEPT !.kind = "else", !.stage = "body"])
  /\ UNCHANGED <<stmts, phase, retty, counters, loops, run>>

EnterElse ==
  /\ phase = "gen" /\ visits # <<>> /\ Top.kind = "ifelse" /\ Top.stage = "done"
  /\ Write(<< Branch("br", <<Top.label + 2>>, << Place("end", Top.begin) >>, open),
              Branch("label", <<Top.label + 1>>, << Place("else", Top.begin) >>, Top.in) >>)
  /\ open' = Top.in
  /\ dom'  = Top.dom
  /\ visits' = Append(Outer, [Top EXCEPT !.kind = "else", !.stage = "body"])
  /\ UNCHANGED <<stmts, phase, retty, counters, loops, run>>

LeaveCond ==
  /\ phase = "gen" /\ visits # <<>> /\ Top.kind \in {"if", "else"} /\ Top.stage = "done"
  /\ LET end == Top.label + (IF Top.kind = "else" THEN 2 ELSE 1) IN
     Write(<< Branch("br", <<end>>, << Place("end", Top.begin) >>, open),
              Branch("label", <<end>>, << Place("end", Top.begin) >>, Top.in) >>)
  /\ open' = Top.in
  /\ dom'  = Top.dom
  /\ visits' = Returned(Outer)
  /\ UNCHANGED <<stmts, phase, retty, counters, loops, run>>

-------------------------------------------------------------------------------
(***************************************************************************)
(* The run of the function.                                                *)
(***************************************************************************)
With(f, x, v) == [y \in DOMAIN f \union {x} |-> IF y = x THEN v ELSE f[y]]

Now    == code[ip]
At(op) == phase = "run" /\ Now.op = op
Step   == ip' = ip + 1

\* where a label is
Labelled(l) == {i \in 1 .. Len(code) : code[i].op = "label" /\ code[i].to = <<l>>}

RunSave ==
  /\ At("save")
  /\ reg' = With(reg, Now.reg, [mem |-> "sp", n |-> Len(stack)])
  /\ Step /\ UNCHANGED <<phase, gen, stack, heap, entered>>

RunRestore ==
  /\ At("restore")
  /\ stack' = SubSeq(stack, 1, reg[Now.reg].n)
  /\ Step /\ UNCHANGED <<phase, gen, reg, heap, entered>>

RunAlloca ==
  /\ At("alloca") /\ Len(stack) < MaxStack
  /\ stack' = Append(stack, Now.reg)
  /\ reg'   = With(reg, Now.reg, [mem |-> "stack", n |-> Len(stack) + 1])
  /\ Step /\ UNCHANGED <<phase, gen, heap, entered>>

\* a load, a store or a copy, and the label of a block of instructions
RunUse ==
  /\ At("use") \/ At("label")
  /\ Step /\ UNCHANGED <<phase, gen, stack, reg, heap, entered>>

\* the first branch to the start of a loop (for the properties)
Enters == Now.meant[1].to = "start" /\ code[ip + 1].to = Now.to
Begin  == Now.meant[1].at

RunBranch ==
  /\ At("br")
  /\ \E i \in Labelled(Now.to[1]) : ip' = i
  /\ entered' = IF Enters THEN With(entered, Begin, [height |-> Len(stack), nexts |-> 0])
                ELSE entered
  /\ UNCHANGED <<phase, gen, stack, reg, heap>>

RunNext ==
  /\ At("next")
  /\ \E i \in Labelled(Now.to[1]) : ip' = i
  /\ entered' = [entered EXCEPT ![Begin].nexts = 1]
  /\ UNCHANGED <<phase, gen, stack, reg, heap>>

\* the value of the condition is not modelled
RunCondBranch ==
  /\ At("cbr")
  /\ \E k \in {1, 2} : \E i \in Labelled(Now.to[k]) : ip' = i
  /\ UNCHANGED <<phase, gen, stack, reg, heap, entered>>

\* a block of the heap, which the function gets by itself, or from another function
\* that it calls
RunHeapAlloc ==
  /\ At("heap") \/ At("call") \/ At("strcall")
  /\ \E a \in Blocks \ DOMAIN heap.live :
       /\ heap' = ext_heap_alloc(heap, a, Now.reg)
       /\ reg'  = With(reg, Now.reg, [mem |-> "heap", n |-> a])
  /\ Step /\ UNCHANGED <<phase, gen, stack, entered>>

RunFree ==
  /\ At("free") /\ reg[Now.reg].mem = "heap" /\ reg[Now.reg].n \in DOMAIN heap.live
  /\ heap' = ext_heap_free(heap, reg[Now.reg].n)
  /\ Step /\ UNCHANGED <<phase, gen, stack, reg, entered>>

\* what was not allocated on the heap is released: undefined
RunFreeOther ==
  /\ At("free") /\ ~(reg[Now.reg].mem = "heap" /\ reg[Now.reg].n \in DOMAIN heap.live)
  /\ phase' = "undefined"
  /\ UNCHANGED <<gen, run>>

RunReturn ==
  /\ At("ret")
  /\ phase' = "returned"
  /\ UNCHANGED <<gen, run>>

Generate ==
  \/ \E as \in ArgLists : \E ty \in RetTypes : EnterFunc(as, ty)
  \/ LeaveFunc \/ EnterStmts \/ LeaveStmts
  \/ \E v \in Vars : VarDecl(v) \/ \E e \in Exprs : Assign(v, e)
  \/ \E e \in Exprs : ExprStmt(e)
  \/ Return
  \/ EnterLoop \/ LeaveLoop
  \/ \E n \in Depths : LoopBreak(n) \/ LoopNext(n)
  \/ LoopJumpError
  \/ \E else \in BOOLEAN : EnterCond(else)
  \/ EnterElse \/ LeaveCond

Run ==
  \/ RunSave \/ RunRestore \/ RunAlloca \/ RunUse
  \/ RunBranch \/ RunNext \/ RunCondBranch
  \/ RunHeapAlloc \/ RunFree \/ RunFreeOther \/ RunReturn

Next == Generate \/ Run

Spec == Init /\ [][Next]_vars

-------------------------------------------------------------------------------
(***************************************************************************)
(* Properties.                                                             *)
(***************************************************************************)
Names == {"var", "block", "tmp"} \X (Vars \union Nat)

\* Types of the registers, the stack and the heap of the running function.
TypeOK ==
  /\ phase \in {"start", "gen", "run", "returned", "undefined", "error"}
  /\ labelCount \in Nat /\ labelCountBlock \in Nat /\ varCount \in Nat
  /\ loopStartStack \in Seq(Nat) /\ loopEndStack \in Seq(Nat)
  /\ open \in Seq(Names) /\ dom \subseteq Vars
  /\ phase = "run" => ip \in 1 .. Len(code)
  /\ stack \in Seq(Names)
  /\ DOMAIN reg \subseteq Names
  /\ \A r \in DOMAIN reg : reg[r] \in [mem : {"sp", "stack", "heap"}, n : Nat]
  /\ heap.lst \in Seq(Nat) /\ DOMAIN heap.live \subseteq Blocks

\* In the finished code every branch of a block, a condition or a loop leads to the
\* one place that it is meant for, break and next statements to the end and to the
\* start of the loop that is so many loops around them, however conditions and loops
\* are nested and array copies bring loops of their own.
BranchesLinked ==
  phase = "run" /\ ip = 1 =>
    \A i \in 1 .. Len(code) : code[i].op \in {"br", "next", "cbr"} =>
      \A k \in 1 .. Len(code[i].to) :
        \E j \in 1 .. Len(code) :
          /\ Labelled(code[i].to[k]) = {j}
          /\ code[j].meant = << code[i].meant[k] >>

\* the memory of a variable or a temporary is still allocated
Live(r) == reg[r].n <= Len(stack) /\ stack[reg[r].n] = r

\* Wherever the running function is, the variables and the temporaries in scope are
\* allocated on the stack and the stack pointers saved for the blocks and the loops
\* around are not above it, in the order of their nesting: no restore brings back
\* what has been released, and none releases what is still in scope.  This is so
\* whether a block is left at its end, by break, by next, or by a condition.
ScopesLive ==
  phase = "run" =>
    \A i \in 1 .. Len(Now.open) :
      LET r == Now.open[i] IN
      /\ r \in DOMAIN reg /\ reg[r].n <= Len(stack)
      /\ r[1] # "block" => reg[r].mem = "stack" /\ Live(r)
      /\ \A j \in 1 .. (i - 1) :
           reg[Now.open[j]].n <= reg[r].n

\* the instruction is behind the end of the loop that begins at b
Behind(b) ==
  ip > 2 /\ code[ip - 1].op = "restore" /\ code[ip - 2].meant = << Place("end", b) >>

\* the loop is about to test its condition again
Again(b) == Now.op = "label" /\ Now.meant = << Place("start", b) >>

\* A loop that has not executed a next statement of its own tests its condition and
\* is left with the stack it was entered with: what an iteration, inner loops with
\* their next statements included, has allocated is released.
LoopsRelease ==
  phase = "run" =>
    \A b \in DOMAIN entered :
      (Behind(b) \/ Again(b)) /\ entered[b].nexts = 0 => Len(stack) = entered[b].height

\* the calls of which the multiple values are not assigned to variables
Unassigned ==
  {code[i].reg : i \in {i \in 1 .. Len(code) :
     code[i].op = "call" /\ ~\E j \in 1 .. Len(code) :
       code[j].op = "free" /\ code[j].reg = code[i].reg}}

\* When the function returns, the runtime library's list holds the blocks that are in
\* use, and these are the one that is returned and those of the calls of which the
\* result was not assigned: all that has been called for in loops, or before a return
\* in the midst of the function, has been released.  What is not in use is released
\* only for the result of a function that returns a string, where it is the copy on
\* the stack instead of the block.
HeapBalanced ==
  /\ phase = "returned" =>
       /\ {heap.lst[i] : i \in 1 .. Len(heap.lst)} = DOMAIN heap.live
       /\ ext_deinit(heap) = Cardinality(DOMAIN heap.live)
       /\ \A a \in DOMAIN heap.live : heap.live[a] \in Unassigned \union {Now.reg}
       /\ retty = "heap" => \E a \in DOMAIN heap.live : heap.live[a] = Now.reg
  /\ phase = "undefined" => code[ip - 2].op = "strcall"

===============================================================================
