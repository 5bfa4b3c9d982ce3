--------------------------- MODULE ZeroACFrameLayout ---------------------------
(***************************************************************************)
(* Names, slots and stack frames: the parser fills the symbol table, then  *)
(* the zero-address code generator visits the functions, gives arguments   *)
(* and local variables their addresses relative to the base pointer, and   *)
(* writes the sizes of the frames where functions are called and left.     *)
(*                                                                         *)
(* The program is not fixed: the parser's actions build any program of     *)
(* functions whose bodies are declarations, uses of variables and calls,   *)
(* in the order of the text.  Conditions and loops neither open a scope    *)
(* nor change the order and are left out; conjuncts marked "program" say   *)
(* what else is.  A data type stands for its size, and the position in the *)
(* code counts the pieces written so far instead of their bytes.           *)
(*                                                                         *)
(* The key of a symbol, its scoped name "f::x", is the sequence <<f, x>>.  *)
(***************************************************************************)
EXTENDS Integers, Sequences, FiniteSetsExt

CONSTANTS
  Funcs, Main,  \* names of functions that are defined or called; "start"
  Vars,         \* names of arguments and variables
  Types,        \* the types of the variables
  TypeSize,     \* bytes of a type on the stack, its descriptor included
  AddrSize,     \* bytes of an address with its descriptor
  Redefine,     \* whether programs define a function twice
  MaxDefs,      \* bound: definitions of functions
  MaxArgs,      \* bound: arguments in the program
  MaxItems,     \* bound: declarations, uses and calls in the program
  TypeLists     \* bound: the lists of types that the arguments of a call have

ASSUME LayoutAssumption ==
  /\ Main \in Funcs /\ "func" \notin Types
  /\ TypeSize \in [Types -> Nat \ {0}] /\ AddrSize \in Nat \ {0}
  /\ Redefine \in BOOLEAN
  /\ MaxDefs \in Nat /\ MaxArgs \in Nat /\ MaxItems \in Nat
  /\ TypeLists \subseteq Seq(Types)

VARIABLES
  phase,          \* where main is
  defs,           \* the syntax tree: the functions in the order of the text
  scope,          \* the parser's m_curscope
  syms,           \* m_symbols: the symbols by their scoped names
  cur, stage, idx, \* the visitor: its function, where in it, and the loop's index
  frame_addr,     \* frame_addr of visit(ASTFunc)
  addr,           \* Symbol::addr of the symbols that have one
  local_stack,    \* m_local_stack
  pos,            \* m_ostr->tellp()
  func_comefroms, \* m_func_comefroms, with the frame size written in the call
  rets,           \* history: what the RET of each definition removes
  entry,          \* history: the definition whose code begins at a position
  accesses        \* history: the addresses of variables written into the code

parser  == <<defs, scope, syms>>
visitor == <<cur, stage, idx, frame_addr>>
written == <<pos, func_comefroms, rets, entry, accesses>>
vars    == <<phase, parser, visitor, addr, local_stack, written>>

-------------------------------------------------------------------------------
With(f, x, v) == [y \in DOMAIN f \union {x} |-> IF y = x THEN v ELSE f[y]]

Argument    == [name : Vars, ty : Types]
Item        == [op : {"decl", "use"}, name : Vars, args : {<<>>}]
               \union [op : {"call"}, name : Funcs, args : TypeLists]
ArgLists    == UNION {[1 .. n -> Argument] : n \in 0 .. MaxArgs}
Definition  == [fn : Funcs, args : ArgLists, body : Seq(Item)]

\* mutant: the function's argument types are not known when it is registered
FuncSymBare(n) == [ty |-> "func", arg |-> 0, nargs |-> 0]

VarSym(t, i) == [ty |-> t, arg |-> i, nargs |-> 0]
FuncSym(n)   == [ty |-> "func", arg |-> 0, nargs |-> n]

Scope(key) == SubSeq(key, 1, Len(key) - 1)

\* mutant: names are not looked for in the global scope
FindScoped(sc, name) == Append(sc, name)

\* GetSym: the symbol of the current scope, else the global one
Find(sc, name) ==
  IF Append(sc, name) \in DOMAIN syms THEN Append(sc, name) ELSE <<name>>

\* FindSymbolsWithSameScope, of the scope that the symbol's name opens
Locals(key) == {s \in DOMAIN syms : Len(s) > 1 /\ Scope(s) = key /\ syms[s].arg = 0}

Size(key) == TypeSize[syms[key].ty]

SumOf(sizes) == FoldFunction(+, 0, sizes)

\* mutant: the locals that have their address already
FrameSizeSoFar(key) == SumOf([s \in Locals(key) \intersect DOMAIN addr |-> Size(s)])

\* GetStackFrameSize
FrameSize(key) == SumOf([s \in Locals(key) |-> Size(s)])

NumArgs  == SumOf([i \in DOMAIN defs |-> Len(defs[i].args)])
NumItems == SumOf([i \in DOMAIN defs |-> Len(defs[i].body)])

Init ==
  /\ phase = "parse" /\ defs = <<>> /\ scope = <<>> /\ syms = [k \in {} |-> FuncSym(0)]
  /\ cur = 0 /\ stage = "enter" /\ idx = 1 /\ frame_addr = 0
  /\ addr = [k \in {} |-> 0] /\ local_stack = [f \in {} |-> 0]
  /\ pos = 0 /\ func_comefroms = {}
  /\ rets = [d \in {} |-> 0] /\ entry = [p \in {} |-> 0] /\ accesses = {}

Throw ==
  /\ phase' = "error"
  /\ UNCHANGED <<parser, visitor, addr, local_stack, written>>

-------------------------------------------------------------------------------
(***************************************************************************)
(* The parser.                                                             *)
(***************************************************************************)

\* the arguments and then the function enter the symbol table; a symbol of the
\* same name is replaced, as is the first of two arguments with one name
Registered(f, args) ==
  LET Named(k) == {i \in DOMAIN args : <<f, args[i].name>> = k}
      new      == {<<f, args[i].name>> : i \in DOMAIN args}
  IN [k \in DOMAIN syms \union new \union {<<f>>} |->
        IF k = <<f>> THEN FuncSym(Len(args))
        ELSE IF k \in new THEN LET i == Max(Named(k)) IN VarSym(args[i].ty, i)
        ELSE syms[k]]

EnterScope(f, args) ==
  /\ phase = "parse" /\ Len(defs) < MaxDefs /\ NumArgs + Len(args) <= MaxArgs
  /\ scope = <<>>                                             \* program
  /\ Redefine \/ \A i \in DOMAIN defs : defs[i].fn # f        \* program
  /\ scope' = <<f>>
  /\ syms' = Registered(f, args)
  /\ defs' = Append(defs, [fn |-> f, args |-> args, body |-> <<>>])
  /\ UNCHANGED <<phase, visitor, addr, local_stack, written>>

AddStatement(item) ==
  /\ phase = "parse" /\ scope # <<>> /\ NumItems < MaxItems
  /\ defs' = [defs EXCEPT ![Len(defs)].body = Append(@, item)]
  /\ UNCHANGED <<phase, scope, visitor, addr, local_stack, written>>

\* a variable in a declaration; an initial value is a use that follows
Declare(x, t) ==
  /\ AddStatement([op |-> "decl", name |-> x, args |-> <<>>])
  /\ syms' = With(syms, Append(scope, x), VarSym(t, 0))

Mention(x) == AddStatement([op |-> "use", name |-> x, args |-> <<>>]) /\ UNCHANGED syms

\* a call with what its argument expressions leave on the stack: values of the types
\* tys, which need not be those of the function's arguments
CallArgs(g, tys) == AddStatement([op |-> "call", name |-> g, args |-> tys]) /\ UNCHANGED syms

LeaveScope ==
  /\ phase = "parse" /\ scope # <<>>
  /\ scope' = <<>>
  /\ UNCHANGED <<phase, defs, syms, visitor, addr, local_stack, written>>

Parsed ==
  /\ phase = "parse" /\ scope = <<>>
  /\ phase' = "start"
  /\ UNCHANGED <<parser, visitor, addr, local_stack, written>>

-------------------------------------------------------------------------------
(***************************************************************************)
(* The code generator.                                                     *)
(***************************************************************************)
Def      == defs[cur]
CurScope == <<Def.fn>>
Stmt     == Def.body[idx]
Visits(op) ==
  phase = "code" /\ stage = "body" /\ idx <= Len(Def.body) /\ Stmt.op = op

\* mutant: the arguments are pushed from the first to the last
ArgPlacesForward(tys) ==
  [i \in DOMAIN tys |-> 2 * AddrSize + SumOf([j \in (i + 1) .. Len(tys) |-> TypeSize[tys[j]]])]

\* where the callee finds what a call has pushed, relative to its base pointer: the
\* arguments are evaluated from the last to the first and not cast, so those before
\* argument i lie below it, and the saved pointers below them all
ArgPlaces(tys) ==
  [i \in DOMAIN tys |-> 2 * AddrSize + SumOf([j \in 1 .. (i - 1) |-> TypeSize[tys[j]]])]

ComeFrom(d, f, key, tys) ==
  [def |-> d, fn |-> f, pos |-> pos, args |-> tys, places |-> ArgPlaces(tys),
   frame |-> FrameSize(key)]

\* calls the start function; the statements were pushed to the front of their
\* list and are visited from its back
Start ==
  /\ phase = "start" /\ <<Main>> \in DOMAIN syms
  /\ phase' = "code" /\ cur' = Len(defs) /\ pos' = pos + 1
  /\ func_comefroms' = {ComeFrom(0, Main, <<Main>>, <<>>)}
  /\ UNCHANGED <<parser, stage, idx, frame_addr, addr, local_stack, rets, entry, accesses>>

StartError == phase = "start" /\ <<Main>> \notin DOMAIN syms /\ Throw

\* mutant: only the old base pointer is skipped
EnterFuncShort ==
  /\ phase = "code" /\ stage = "enter" /\ cur > 0
  /\ stage' = "args" /\ idx' = 1 /\ frame_addr' = AddrSize
  /\ UNCHANGED <<phase, parser, cur, addr, local_stack, written>>

\* the old base and instruction pointers are below the arguments
EnterFunc ==
  /\ phase = "code" /\ stage = "enter" /\ cur > 0
  /\ stage' = "args" /\ idx' = 1 /\ frame_addr' = 2 * AddrSize
  /\ UNCHANGED <<phase, parser, cur, addr, local_stack, written>>

NextArg == phase = "code" /\ stage = "args" /\ idx <= Len(Def.args)
ArgKey  == Find(CurScope, Def.args[idx].name)
ArgOK   == /\ ArgKey \notin DOMAIN addr
           /\ syms[ArgKey].arg = idx /\ syms[ArgKey].ty = Def.args[idx].ty

PlaceArg ==
  /\ NextArg /\ ArgOK
  /\ addr' = With(addr, ArgKey, frame_addr)
  /\ frame_addr' = frame_addr + Size(ArgKey)
  /\ idx' = idx + 1
  /\ UNCHANGED <<phase, parser, cur, stage, local_stack, written>>

PlaceArgError == NextArg /\ ~ArgOK /\ Throw

\* func->addr = tellp
AddressFunc ==
  /\ phase = "code" /\ stage = "args" /\ idx > Len(Def.args)
  /\ addr' = With(addr, Find(CurScope, Def.fn), pos)
  /\ entry' = With(entry, pos, cur)
  /\ stage' = "body" /\ idx' = 1
  /\ UNCHANGED <<phase, parser, cur, frame_addr, local_stack,
                 pos, func_comefroms, rets, accesses>>

Key == Find(CurScope, Stmt.name)

WriteAccess(a) ==
  /\ accesses' = accesses \union {[def |-> cur, key |-> Key, addr |-> a]}
  /\ pos' = pos + 1 /\ idx' = idx + 1
  /\ UNCHANGED <<phase, parser, cur, stage, frame_addr, func_comefroms, rets, entry>>

\* the bytes of the function's locals that have an address
LocalStack == IF Def.fn \in DOMAIN local_stack THEN local_stack[Def.fn] ELSE 0

\* mutant: a variable may be declared again
VisitVarDeclAgain ==
  /\ Visits("decl")
  /\ local_stack' = With(local_stack, Def.fn, LocalStack + Size(Key))
  /\ addr' = With(addr, Key, -(LocalStack + Size(Key)))
  /\ WriteAccess(addr'[Key])

\* the next slot below, and its initial assignment
VisitVarDecl ==
  /\ Visits("decl") /\ Key \notin DOMAIN addr
  /\ local_stack' = With(local_stack, Def.fn, LocalStack + Size(Key))
  /\ addr' = With(addr, Key, -(LocalStack + Size(Key)))
  /\ WriteAccess(addr'[Key])

VarDeclError == Visits("decl") /\ Key \in DOMAIN addr /\ Throw

\* a variable is read or assigned
VisitVar ==
  /\ Visits("use") /\ Key \in DOMAIN addr
  /\ WriteAccess(addr[Key])
  /\ UNCHANGED <<addr, local_stack>>

VarError == Visits("use") /\ Key \notin DOMAIN addr /\ Throw

CallOK == Key \in DOMAIN syms /\ Len(Stmt.args) = syms[Key].nargs

VisitCall ==
  /\ Visits("call") /\ CallOK
  /\ func_comefroms' = func_comefroms \union {ComeFrom(cur, Stmt.name, Key, Stmt.args)}
  /\ pos' = pos + 1 /\ idx' = idx + 1
  /\ UNCHANGED <<phase, parser, cur, stage, frame_addr, addr, local_stack,
                 rets, entry, accesses>>

CallError == Visits("call") /\ ~CallOK /\ Throw

\* frame size, number of arguments, RET
LeaveFunc ==
  /\ phase = "code" /\ stage = "body" /\ idx > Len(Def.body)
  /\ rets' = With(rets, cur, [frame |-> FrameSize(Find(CurScope, Def.fn)),
                              args  |-> Len(Def.args)])
  /\ stage' = "enter" /\ cur' = cur - 1 /\ pos' = pos + 1
  /\ UNCHANGED <<phase, parser, idx, frame_addr, addr, local_stack,
                 func_comefroms, entry, accesses>>

\* Finish looks the saved names up again, in the global scope
Resolvable(c) == <<c.fn>> \in DOMAIN addr /\ Len(c.args) = syms[<<c.fn>>].nargs
AllVisited    == phase = "code" /\ stage = "enter" /\ cur = 0

Finish ==
  /\ AllVisited /\ \A c \in func_comefroms : Resolvable(c)
  /\ phase' = "done"
  /\ UNCHANGED <<parser, visitor, addr, local_stack, written>>

FinishError == AllVisited /\ (\E c \in func_comefroms : ~Resolvable(c)) /\ Throw

Parse ==
  \/ \E f \in Funcs, args \in ArgLists : EnterScope(f, args)
  \/ \E x \in Vars, t \in Types : Declare(x, t)
  \/ \E x \in Vars : Mention(x)
  \/ \E g \in Funcs, tys \in TypeLists : CallArgs(g, tys)
  \/ LeaveScope \/ Parsed

Generate ==
  \/ Start \/ StartError
  \/ EnterFunc \/ PlaceArg \/ PlaceArgError \/ AddressFunc
  \/ VisitVarDecl \/ VarDeclError \/ VisitVar \/ VarError \/ VisitCall \/ CallError
  \/ LeaveFunc \/ Finish \/ FinishError

Next == Parse \/ Generate

Spec == Init /\ [][Next]_vars
-------------------------------------------------------------------------------
Keys    == {<<f>> : f \in Funcs} \union {<<f, x>> : f \in Funcs, x \in Vars}
Globals == {<<f>> : f \in Funcs}
Symbols == [ty : Types \union {"func"}, arg : 0 .. MaxArgs, nargs : 0 .. MaxArgs]

\* The types of the parser's and the generator's state; only symbols of the
\* table have addresses, and the visitor's function is one of the program.
TypeOK ==
  /\ phase \in {"parse", "start", "code", "done", "error"}
  /\ defs \in Seq(Definition)
  /\ scope \in {<<>>} \union Globals
  /\ DOMAIN syms \subseteq Keys /\ syms \in [DOMAIN syms -> Symbols]
  /\ cur \in 0 .. Len(defs) /\ stage \in {"enter", "args", "body"} /\ idx \in Nat \ {0}
  /\ stage # "enter" => cur > 0
  /\ frame_addr \in Nat /\ pos \in Nat
  /\ DOMAIN addr \subseteq DOMAIN syms /\ addr \in [DOMAIN addr -> Int]
  /\ DOMAIN local_stack \subseteq Funcs /\ local_stack \in [DOMAIN local_stack -> Nat]
  /\ DOMAIN rets \subseteq DOMAIN defs /\ DOMAIN entry \subseteq Nat

Variables == {k \in DOMAIN addr : Len(k) > 1}
Slot(k)   == addr[k] .. (addr[k] + Size(k) - 1)

\* No two variables of a function share a byte, nor does one share a byte with
\* the saved base and instruction pointers at 0 .. 2*AddrSize-1, in whichever
\* order variables are declared and functions visited (var.cpp:96-101,
\* func.cpp:40-62).
SlotsDisjoint ==
  /\ \A k, l \in Variables :
       Scope(k) = Scope(l) /\ k # l => Slot(k) \intersect Slot(l) = {}
  /\ \A k \in Variables : Slot(k) \intersect 0 .. (2 * AddrSize - 1) = {}

\* What the code of a function accesses are its own arguments, or its own
\* variables inside the frame that it removes, at the slots that they still
\* have in the end (var.cpp:153-217).
AccessesInFrame ==
  \A a \in accesses :
    LET own == <<defs[a.def].fn>> IN
    /\ Len(a.key) > 1 /\ Scope(a.key) = own /\ a.addr = addr[a.key]
    /\ IF syms[a.key].arg > 0 THEN syms[a.key].arg <= Len(defs[a.def].args)
       ELSE a.addr + Size(a.key) <= 0 /\ -a.addr <= FrameSize(own)

Callee(c) == entry[addr[<<c.fn>>]]

\* In a finished program a call builds the frame that the RET of the code it
\* leads to removes: both write "the size of the local function variables for
\* the stack frame" (func.cpp:12), wherever the function is defined.
CallFramesAgree ==
  phase = "done" => \A c \in func_comefroms : c.frame = rets[Callee(c)].frame

\* In a finished program a call pushes as many arguments as the RET of the code
\* it leads to removes: Finish checks what the "Function ... takes" (asm.cpp:142).
CallArgsAgree ==
  phase = "done" => \A c \in func_comefroms : Len(c.args) = rets[Callee(c)].args

\* In a finished program the callee looks for an argument where the call has pushed it
\* if the arguments before it have the sizes that are declared: an argument of another
\* size, which is not cast (func.cpp:152), displaces only those that come after it.
\* The callee sums up the declared sizes from the first argument on (func.cpp:42, 58-59).
ArgsArrive ==
  phase = "done" => \A c \in func_comefroms : \A i \in DOMAIN c.args :
    LET d      == Callee(c)
        key(j) == <<c.fn, defs[d].args[j].name>>
    IN  (\A j \in 1 .. (i - 1) : TypeSize[c.args[j]] = Size(key(j)))
        => addr[key(i)] = c.places[i]
================================================================================
