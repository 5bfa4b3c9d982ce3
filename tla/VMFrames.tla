------------------------------- MODULE VMFrames -------------------------------
(***************************************************************************)
(* The stack machine of the zero-address-code virtual machine: its         *)
(* registers, its byte memory, the data it pushes and pops, and the stack  *)
(* frames that CALL builds and RET removes.                                *)
(*                                                                         *)
(* The program is not fixed.  At every instruction address any instruction *)
(* may be found that a program of the code generator could execute there:  *)
(* the conjuncts marked "program" in the actions are its calling           *)
(* convention (operands are taken from the running function's own operand  *)
(* area, an address is followed by the instruction that uses it, CALL and  *)
(* RET are given the callee's frame size and argument count).  All other   *)
(* conjuncts are the virtual machine's.                                    *)
(*                                                                         *)
(* Three actions end in the stage "lost", from which the machine is not    *)
(* followed any further: PushBelow, CastOverCode and MisreadBool.          *)
(***************************************************************************)
EXTENDS Integers, Sequences

CONSTANTS
  MemSize,      \* size of the memory in bytes
  CodeEnd,      \* the code occupies the addresses 0 .. CodeEnd-1
  Padding,      \* bytes above the initial stack pointer
  DataTypes,    \* types of data with a descriptor (INT, REAL, STR, ...)
  Vals,         \* values of each data type, frame sizes and argument counts included
  Consts,       \* the constants table: address, type, value
  Size,         \* bytes of a datum on the stack, its descriptor included
  Funcs, Boot,  \* the functions, and the start-up code that calls the first
  Code,         \* the instruction addresses of each function
  Entry,        \* the address of each function
  Targets,      \* the jump targets in each function
  FrameSize,    \* bytes of local variables, as computed by the code generator
  NumArgs, ArgType,
  ArgOff,       \* running sum of the argument sizes; the last one is their total
  Locals,       \* the local variables of each function: offset below bp, type
  Isrs,         \* functions installed as interrupt service routines
  ZeroPopped    \* the option "zero memory of popped values"

AddrTypes == {"ADDR_MEM", "ADDR_IP", "ADDR_BP"}
Types     == DataTypes \union AddrTypes \union {"BOOL"}
Mem       == 0 .. (MemSize - 1)
Program   == Funcs \union {Boot}

ASSUME SizeAssumption ==
  /\ MemSize \in Nat /\ CodeEnd \in Nat /\ Padding \in Nat
  /\ CodeEnd + Padding <= MemSize
  /\ Size \in [Types -> Nat \ {0}]
  /\ \A a, b \in AddrTypes : Size[a] = Size[b]
  /\ {"INT", "STR"} \subseteq DataTypes
  /\ DataTypes \intersect (AddrTypes \union {"BOOL", "ZERO", "CODE"}) = {}
  /\ Vals \in [DataTypes -> SUBSET Int] /\ ZeroPopped \in BOOLEAN
  /\ Consts \subseteq [addr : 0 .. (CodeEnd - 1), ty : DataTypes, val : Int]

ASSUME ProgramAssumption ==
  /\ Boot \notin Funcs /\ Isrs \subseteq Funcs
  /\ Code \in [Program -> SUBSET (0 .. (CodeEnd - 1))]
  /\ Entry \in [Program -> 0 .. (CodeEnd - 1)]
  /\ Targets \in [Program -> SUBSET (0 .. (CodeEnd - 1))]
  /\ FrameSize \in [Program -> Nat] /\ FrameSize[Boot] = Padding
  /\ NumArgs \in [Program -> Nat] /\ NumArgs[Boot] = 0
  /\ \A f \in Program : /\ Entry[f] \in Code[f] /\ Targets[f] \subseteq Code[f]
                        /\ ArgType[f] \in [1 .. NumArgs[f] -> DataTypes]
                        /\ ArgOff[f] \in [1 .. (NumArgs[f] + 1) -> Nat]
                        /\ ArgOff[f][1] = 0
                        /\ \A i \in 1 .. NumArgs[f] :
                             /\ ArgOff[f][i + 1] = ArgOff[f][i] + Size[ArgType[f][i]]
                             /\ \A j \in (i + 1) .. (NumArgs[f] + 1) :
                                  ArgOff[f][i + 1] <= ArgOff[f][j]
                        /\ Locals[f] \subseteq [off : Nat, ty : DataTypes]
                        /\ \A l \in Locals[f] : Size[l.ty] <= l.off /\ l.off <= FrameSize[f]

VARIABLES
  mem,    \* the memory: the datum and the byte of it that each address holds
  ip,     \* instruction pointer
  sp,     \* stack pointer
  bp,     \* base pointer of the running function's frame
  pc,     \* stage of the instruction that is executed
  ret,    \* local variables of a RET under way (and, for the properties, what it moves)
  calls   \* history: the calls that have not returned, the start-up code first

vars == <<mem, ip, sp, bp, pc, ret, calls>>

-------------------------------------------------------------------------------
(***************************************************************************)
(* Memory.  Byte i of a datum of type t and value v is Byte(t, v, i); a    *)
(* datum is intact at an address when all its bytes are there, in order.   *)
(***************************************************************************)
Byte(t, v, i) == [ty |-> t, val |-> v, k |-> i]
ZeroByte      == Byte("ZERO", 0, 0)
CodeByte      == Byte("CODE", 0, 0)
Cell          == [ty : Types \union {"ZERO", "CODE"}, val : Int, k : Int]

Put(m, a, t, v) ==
  [x \in Mem |-> IF a <= x /\ x < a + Size[t] THEN Byte(t, v, x - a) ELSE m[x]]

\* mutant: the last popped byte is not zeroed
EraseShort(m, a, b) ==
  IF ZeroPopped THEN [x \in Mem |-> IF a <= x /\ x < b - 1 THEN ZeroByte ELSE m[x]]
                ELSE m

Erase(m, a, b) ==
  IF ZeroPopped THEN [x \in Mem |-> IF a <= x /\ x < b THEN ZeroByte ELSE m[x]]
                ELSE m

At(m, a, t, v) ==
  /\ 0 <= a /\ a + Size[t] <= MemSize
  /\ \A x \in a .. (a + Size[t] - 1) : m[x] = Byte(t, v, x - a)

Fn         == calls[Len(calls)].fn
OperandEnd == bp - calls[Len(calls)].fs

\* address a holds a datum of one of the types ts
Datum(a, ts) ==
  a \in Mem /\ mem[a].ty \in ts /\ At(mem, a, mem[a].ty, mem[a].val)

\* the datum is one of the running function's operands
Operand(a, ts) ==
  Datum(a, ts) /\ a + Size[mem[a].ty] <= OperandEnd

Next1(a) == a + Size[mem[a].ty]

AddrSize == Size["ADDR_MEM"]
IntSize  == Size["INT"]

\* mutant: local variables are looked for in the caller's frame
ResolvedOuter ==
  CASE mem[sp].ty = "ADDR_MEM" -> mem[sp].val
    [] mem[sp].ty = "ADDR_IP"  -> mem[sp].val + ip + 1
    [] mem[sp].ty = "ADDR_BP"  -> mem[sp].val + calls[Len(calls)].link

\* the value PopAddress returns for the address on top of the stack, the
\* popping instruction being at ip
Resolved ==
  CASE mem[sp].ty = "ADDR_MEM" -> mem[sp].val
    [] mem[sp].ty = "ADDR_IP"  -> mem[sp].val + ip + 1
    [] mem[sp].ty = "ADDR_BP"  -> mem[sp].val + bp

AddrOnTop == Operand(sp, AddrTypes)

-------------------------------------------------------------------------------
NoRet == [na |-> 0, fs |-> 0, vals |-> <<>>, img |-> <<>>, fn |-> Boot, top |-> 0]

Init ==
  /\ mem = [x \in Mem |-> IF x < CodeEnd THEN CodeByte ELSE ZeroByte]
  /\ ip = Entry[Boot]
  /\ sp = MemSize - Padding
  /\ bp = MemSize
  /\ pc = "exec"
  /\ ret = NoRet
  /\ calls = << [fn |-> Boot, bp |-> MemSize, fs |-> Padding,
                 ret |-> 0, link |-> MemSize, top |-> MemSize] >>

\* mutant: the stack pointer may point into the code
PointersAnywhere ==
  /\ ip \in 0 .. (CodeEnd - 1)
  /\ sp \in 0 .. MemSize
  /\ bp \in CodeEnd .. MemSize

\* CheckPointerBounds, at the start of every instruction
PointersOK ==
  /\ ip \in 0 .. (CodeEnd - 1)
  /\ sp \in CodeEnd .. MemSize
  /\ bp \in CodeEnd .. MemSize

Fetch == pc = "exec" /\ PointersOK

\* an instruction of n bytes that goes on to the next one of the function
Step(n) ==
  /\ Fetch
  /\ ip + n \in Code[Fn]       \* program
  /\ ip' = ip + n
  /\ UNCHANGED <<bp, pc, ret, calls>>

BoundsError ==
  /\ pc = "exec" /\ ~PointersOK
  /\ pc' = "error"
  /\ UNCHANGED <<mem, ip, sp, bp, ret, calls>>

\* mutant: the stack pointer is not moved over the descriptor byte
ReplaceShort(a, t, v) ==
  /\ sp'  = a - Size[t] + 1
  /\ mem' = Put(Erase(mem, sp, a), a - Size[t], t, v)

\* replaces the bytes from sp up to address a by a datum of type t
Replace(a, t, v) ==
  /\ sp'  = a - Size[t]
  /\ mem' = Put(Erase(mem, sp, a), a - Size[t], t, v)

\* the result of an instruction, for which there is room above address 0
Result(a, t, v) == Size[t] <= a /\ Replace(a, t, v)

Push(t, v) ==
  /\ ~AddrOnTop                \* program
  /\ Step(1 + Size[t])
  /\ Result(sp, t, v)

\* mutant: the arguments' addresses do not skip the saved registers
SlotsShifted(f) ==
  {[off |-> -l.off, ty |-> l.ty] : l \in Locals[f]}
  \union {[off |-> ArgOff[f][i], ty |-> ArgType[f][i]] : i \in 1 .. NumArgs[f]}

\* the variables of a function: address relative to the base pointer, and type
Slots(f) ==
  {[off |-> -l.off, ty |-> l.ty] : l \in Locals[f]}
  \union {[off |-> 2 * AddrSize + ArgOff[f][i], ty |-> ArgType[f][i]] :
            i \in 1 .. NumArgs[f]}

\* what the code generator pushes addresses for
PushAddress ==
  /\ ~AddrOnTop                \* program
  /\ Step(1 + AddrSize)
  /\ \/ \E a \in Targets[Fn] \union {Entry[f] : f \in Funcs}
                              \union {c.addr : c \in Consts} :
          Result(sp, "ADDR_IP", a - (ip + AddrSize + 2))
     \/ \E s \in Slots(Fn) : Result(sp, "ADDR_BP", s.off)

WriteMem ==
  /\ Operand(sp, {"ADDR_BP"})
  /\ Step(1)
  /\ LET a == Next1(sp) IN
     /\ Operand(a, DataTypes)
     /\ [off |-> mem[sp].val, ty |-> mem[a].ty] \in Slots(Fn)     \* program
     /\ mem' = Put(Erase(mem, sp, Next1(a)), Resolved, mem[a].ty, mem[a].val)
     /\ sp'  = Next1(a)

\* a variable of the running function is read once it has been written
ReadMem ==
  /\ Operand(sp, {"ADDR_BP"})
  /\ Step(1)
  /\ \E s \in Slots(Fn) : s.off = mem[sp].val /\ Datum(Resolved, {s.ty})    \* program
  /\ Result(Next1(sp), mem[Resolved].ty, mem[Resolved].val)

\* RDMEM of an entry of the constants table, which follows the instructions
ReadConst ==
  /\ Operand(sp, {"ADDR_IP"})
  /\ Step(1)
  /\ \E c \in Consts : c.addr = Resolved /\ Result(Next1(sp), c.ty, c.val)

\* types of the first operand, the second one and the result of + - * / % ^
\* and of the binary operators
Arithmetic ==
  {<<t, t, t>> : t \in DataTypes} \union
  {<<"VEC", "VEC", "REAL">>, <<"MAT", "VEC", "VEC">>, <<"MAT", "REAL", "MAT">>,
   <<"VEC", "REAL", "VEC">>, <<"REAL", "VEC", "VEC">>, <<"REAL", "MAT", "MAT">>}

OpArithmetic(t, v) ==
  /\ Operand(sp, DataTypes) /\ Operand(Next1(sp), DataTypes)
  /\ <<mem[Next1(sp)].ty, mem[sp].ty, t>> \in Arithmetic
  /\ Step(1)
  /\ Result(Next1(Next1(sp)), t, v)

OpComparison(v) ==
  /\ Operand(sp, DataTypes)
  /\ Operand(Next1(sp), {mem[sp].ty})
  /\ Step(1)
  /\ Result(Next1(Next1(sp)), "BOOL", v)

\* the code generator does not convert the operands of a comparison
ComparisonError ==
  /\ Operand(sp, DataTypes)
  /\ Operand(Next1(sp), DataTypes \ {mem[sp].ty})
  /\ Fetch
  /\ pc' = "error" /\ ip' = ip + 1
  /\ sp' = Next1(Next1(sp))
  /\ mem' = Erase(mem, sp, Next1(Next1(sp)))
  /\ UNCHANGED <<bp, ret, calls>>

OpLogical(v) ==
  /\ Operand(sp, {"BOOL"}) /\ Operand(Next1(sp), {"BOOL"})
  /\ Step(1)
  /\ Result(Next1(Next1(sp)), "BOOL", v)

OpNot ==
  /\ Operand(sp, {"BOOL"})
  /\ Step(1)
  /\ Result(Next1(sp), "BOOL", 1 - mem[sp].val)

\* USUB, BINNOT, TOI, TOF, TOS: one operand is replaced by one value
OpCast(t, v) ==
  /\ Operand(sp, DataTypes)
  /\ Step(1)
  /\ Result(Next1(sp), t, v)

\* where the stack pointer is after one more operand has been popped
Below(a) == IF Operand(a, DataTypes) THEN {Next1(a)} ELSE {}

\* an external function finds its name on top.  Its arguments are below: get_eps and
\* the ones the machine does not know pop none of them, pow two, the others one;
\* some return no value
CallExternal ==
  /\ Operand(sp, {"STR"})
  /\ Step(1)
  /\ LET a == Next1(sp) IN
     \E b \in {a} \union Below(a) \union UNION {Below(c) : c \in Below(a)} :
       \/ sp' = b /\ mem' = Erase(mem, sp, b)
       \/ \E t \in DataTypes : \E v \in Vals[t] : Result(b, t, v)

\* a vector cannot be cast to a number; fabs throws when it has popped an integer
ExternalError ==
  /\ Operand(sp, {"STR"}) /\ Operand(Next1(sp), DataTypes)
  /\ Fetch
  /\ pc' = "error" /\ ip' = ip + 1
  /\ sp' \in {Next1(sp), Next1(Next1(sp))}
  /\ mem' = Erase(mem, sp, sp')
  /\ UNCHANGED <<bp, ret, calls>>

Lost == pc' \in {"error", "lost"} /\ UNCHANGED <<mem, ip, sp, bp, ret, calls>>

\* what CALL or another instruction pushes has no room above address 0: the bounds
\* check of a string or matrix throws, that of their lengths and of other data looks
\* at the bytes above the stack pointer, and memory before the array is overwritten
PushBelow ==
  /\ Fetch
  /\ \E n \in {2 * AddrSize} \union {Size[t] : t \in Types} : sp < n
  /\ Lost

\* an external function casts its argument on the stack before it pops it.  The text
\* of a vector can be longer than the vector and the function's name: it reaches
\* down into the code, and the stack pointer is above the code again afterwards
CastOverCode ==
  /\ Fetch
  /\ Operand(sp, {"STR"}) /\ Operand(Next1(sp), DataTypes)
  /\ \E t \in DataTypes : Next1(Next1(sp)) - Size[t] < CodeEnd
  /\ Lost

Jump ==
  /\ Fetch
  /\ Operand(sp, {"ADDR_IP"})
  /\ Resolved \in Targets[Fn]            \* program
  /\ ip'  = Resolved
  /\ sp'  = Next1(sp)
  /\ mem' = Erase(mem, sp, Next1(sp))
  /\ UNCHANGED <<bp, pc, ret, calls>>

JumpCond ==
  /\ Fetch
  /\ Operand(sp, {"ADDR_IP"})
  /\ LET a == Next1(sp) IN
     /\ Operand(a, {"BOOL"})
     /\ Resolved \in Targets[Fn] /\ ip + 1 \in Code[Fn]     \* program
     /\ ip'  = IF mem[a].val # 0 THEN Resolved ELSE ip + 1
     /\ sp'  = Next1(a)
     /\ mem' = Erase(mem, sp, Next1(a))
  /\ UNCHANGED <<bp, pc, ret, calls>>

-------------------------------------------------------------------------------
(***************************************************************************)
(* CALL and RET.                                                           *)
(***************************************************************************)

\* CALL once the function's address has been popped: pops the frame size from
\* a, saves the return address and the base pointer, and makes room for the
\* local variables
Enter(m, a, f, retaddr, top) ==
  LET b  == a + IntSize
      fs == m[a].val
  IN  /\ 2 * AddrSize <= b
      /\ mem' = Put(Put(Erase(m, a, b), b - AddrSize, "ADDR_MEM", retaddr),
                    b - 2 * AddrSize, "ADDR_MEM", bp)
      /\ bp' = b - 2 * AddrSize
      /\ sp' = b - 2 * AddrSize - fs
      /\ ip' = Entry[f]
      /\ calls' = Append(calls, [fn |-> f, bp |-> b - 2 * AddrSize, fs |-> fs,
                                 ret |-> retaddr, link |-> bp, top |-> top])

\* the arguments of f lie at address a and above, the first one lowest
Arguments(a, f) ==
  /\ a + ArgOff[f][NumArgs[f] + 1] <= OperandEnd
  /\ \A i \in 1 .. NumArgs[f] :
       Operand(a + ArgOff[f][i], {ArgType[f][i]})

Call(f) ==
  /\ Fetch
  /\ Operand(sp, {"ADDR_IP"}) /\ Resolved = Entry[f]
  /\ ip + 1 \in Code[Fn]                                  \* program
  /\ LET a == Next1(sp) IN
     /\ Operand(a, {"INT"}) /\ mem[a].val = FrameSize[f]  \* program
     /\ Arguments(a + IntSize, f)                         \* program
     /\ Enter(Erase(mem, sp, a), a, f, ip + 1,
              a + IntSize + ArgOff[f][NumArgs[f] + 1])
  /\ UNCHANGED <<pc, ret>>

Ret ==
  /\ Fetch /\ Fn # Boot
  /\ Operand(sp, {"INT"}) /\ mem[sp].val = NumArgs[Fn]    \* program
  /\ LET a == Next1(sp)
         b == Next1(a)
     IN  /\ Operand(a, {"INT"}) /\ mem[a].val = FrameSize[Fn]   \* program
         /\ \A x \in b .. (OperandEnd - 1) : mem[x].ty \in DataTypes \union {"BOOL"}  \* program
         /\ ret' = [na |-> mem[sp].val, fs |-> mem[a].val, vals |-> <<>>,
                    img |-> [i \in 1 .. (OperandEnd - b) |-> mem[b + i - 1]],
                    fn |-> Fn, top |-> calls[Len(calls)].top]
         /\ sp'  = b
         /\ mem' = Erase(mem, sp, b)
  /\ pc' = "collect" /\ ip' = ip + 1
  /\ UNCHANGED <<bp, calls>>

\* mutant: a value is put before those that were popped earlier
CollectRetvalFirst ==
  /\ pc = "collect" /\ sp + ret.fs < bp
  /\ Datum(sp, DataTypes)
  /\ ret' = [ret EXCEPT !.vals = <<[ty |-> mem[sp].ty, val |-> mem[sp].val,
                                    at |-> sp - (bp - ret.fs - Len(ret.img))]>> \o @]
  /\ sp'  = Next1(sp)
  /\ mem' = Erase(mem, sp, Next1(sp))
  /\ UNCHANGED <<ip, bp, pc, calls>>

\* what is left on the stack are the return values; "at" is where in ret.img one was
CollectRetval ==
  /\ pc = "collect" /\ sp + ret.fs < bp
  /\ Datum(sp, DataTypes)
  /\ ret' = [ret EXCEPT !.vals = Append(@, [ty |-> mem[sp].ty, val |-> mem[sp].val,
                                            at |-> sp - (bp - ret.fs - Len(ret.img))])]
  /\ sp'  = Next1(sp)
  /\ mem' = Erase(mem, sp, Next1(sp))
  /\ UNCHANGED <<ip, bp, pc, calls>>

\* the result of a comparison that is returned or was an expression statement has no
\* descriptor: its byte is taken for one, 0 for that of no type, 1 for that of a real
MisreadBool ==
  /\ pc = "collect" /\ sp + ret.fs < bp
  /\ Datum(sp, {"BOOL"})
  /\ Lost

\* mutant: the saved registers are popped in the wrong order
LeaveFrameSwapped ==
  /\ pc = "collect" /\ ~(sp + ret.fs < bp)
  /\ ip'  = mem[bp].val
  /\ bp'  = mem[bp + AddrSize].val
  /\ sp'  = bp + 2 * AddrSize
  /\ mem' = Erase(mem, sp, bp + 2 * AddrSize)
  /\ pc'  = "args"
  /\ calls' = SubSeq(calls, 1, Len(calls) - 1)
  /\ UNCHANGED ret

\* zeroes the local variables, restores base and instruction pointer
LeaveFrame ==
  /\ pc = "collect" /\ ~(sp + ret.fs < bp)
  /\ bp'  = mem[bp].val
  /\ ip'  = mem[bp + AddrSize].val
  /\ sp'  = bp + 2 * AddrSize
  /\ mem' = Erase(mem, sp, bp + 2 * AddrSize)
  /\ pc'  = "args"
  /\ calls' = SubSeq(calls, 1, Len(calls) - 1)
  /\ UNCHANGED ret

PopArg ==
  /\ pc = "args" /\ ret.na > 0
  /\ Datum(sp, DataTypes)
  /\ ret' = [ret EXCEPT !.na = @ - 1]
  /\ sp'  = Next1(sp)
  /\ mem' = Erase(mem, sp, Next1(sp))
  /\ UNCHANGED <<ip, bp, pc, calls>>

\* mutant: the values are pushed in the order they had on the stack
PushLastRetval ==
  /\ pc \in {"args", "push"} /\ ret.na <= 0 /\ ret.vals # <<>>
  /\ LET v == ret.vals[Len(ret.vals)] IN Replace(sp, v.ty, v.val)
  /\ ret' = [ret EXCEPT !.vals = SubSeq(@, 1, Len(@) - 1)]
  /\ pc'  = "push"
  /\ UNCHANGED <<ip, bp, calls>>

\* the values are pushed in the order they were popped
PushRetval ==
  /\ pc \in {"args", "push"} /\ ret.na <= 0 /\ ret.vals # <<>>
  /\ Replace(sp, Head(ret.vals).ty, Head(ret.vals).val)
  /\ ret' = [ret EXCEPT !.vals = Tail(@)]
  /\ pc'  = "push"
  /\ UNCHANGED <<ip, bp, calls>>

RetDone ==
  /\ pc \in {"args", "push"} /\ ret.na <= 0 /\ ret.vals = <<>>
  /\ pc' = "exec" /\ ret' = NoRet
  /\ UNCHANGED <<mem, ip, sp, bp, calls>>

Halt ==
  /\ Fetch /\ Fn = Boot
  /\ pc' = "halted" /\ ip' = ip + 1
  /\ UNCHANGED <<mem, sp, bp, ret, calls>>

-------------------------------------------------------------------------------
(***************************************************************************)
(* A pending interrupt is served instead of fetching an instruction: the   *)
(* address of the service routine is pushed and CALL is executed, which    *)
(* takes the frame size from the interrupted program's stack.              *)
(***************************************************************************)
Interrupt(f) ==
  /\ Fetch /\ AddrSize <= sp
  /\ LET m == Erase(Put(mem, sp - AddrSize, "ADDR_MEM", Entry[f]), sp - AddrSize, sp) IN
     \/ /\ Operand(sp, {"INT"})
        /\ Enter(m, sp, f, ip, sp)
        /\ UNCHANGED <<pc, ret>>
     \/ /\ ~Operand(sp, {"INT"})          \* std::get throws
        /\ mem' = m /\ pc' = "error"
        /\ UNCHANGED <<ip, sp, bp, ret, calls>>

Instruction ==
  \/ \E t \in DataTypes : \E v \in Vals[t] :
       Push(t, v) \/ OpArithmetic(t, v) \/ OpCast(t, v)
  \/ \E v \in {0, 1} : OpComparison(v) \/ OpLogical(v)
  \/ PushAddress \/ WriteMem \/ ReadMem \/ ReadConst
  \/ OpNot \/ ComparisonError \/ CallExternal \/ ExternalError
  \/ Jump \/ JumpCond \/ Halt
  \/ \E f \in Funcs : Call(f)
  \/ PushBelow \/ CastOverCode \/ MisreadBool
  \/ Ret \/ CollectRetval \/ LeaveFrame \/ PopArg \/ PushRetval \/ RetDone
  \/ BoundsError

Spec    == Init /\ [][Instruction]_vars
SpecIrq == Init /\ [][Instruction \/ \E f \in Isrs : Interrupt(f)]_vars

-------------------------------------------------------------------------------
(***************************************************************************)
(* Properties.                                                             *)
(***************************************************************************)

Frame == [fn : Program, bp : Int, fs : Int, ret : Int, link : Int, top : Int]

\* Types of the registers, of every memory cell and of RET's local variables.  The
\* instruction pointer is always in the code or just behind it: a RET finds the
\* address of an instruction where it looks for one, not a base pointer or a datum.
TypeOK ==
  /\ mem \in [Mem -> Cell]
  /\ ip \in 0 .. CodeEnd /\ sp \in Int /\ bp \in Int
  /\ pc \in {"exec", "collect", "args", "push", "halted", "error", "lost"}
  /\ ret \in [na : Int, fs : Int, vals : Seq([ty : DataTypes, val : Int, at : Int]),
              img : Seq(Cell), fn : Program, top : Int]
  /\ calls \in Seq(Frame) /\ calls # <<>>

Running == pc \in {"exec", "collect", "args", "push"}

\* The saved registers of every active call survive whatever the called
\* functions push, pop and assign: the base pointer register is that of the last
\* call, and each frame still holds the caller's base pointer and the return
\* address that CALL saved, so that every RET finds them.
SavedAt(i) ==
  /\ At(mem, calls[i].bp, "ADDR_MEM", calls[i].link)
  /\ At(mem, calls[i].bp + AddrSize, "ADDR_MEM", calls[i].ret)
  /\ calls[i].link = calls[i - 1].bp
  /\ calls[i].ret \in Code[calls[i - 1].fn]

Nested(i) ==
  /\ calls[i].bp + 2 * AddrSize <= calls[i].top
  /\ calls[i].top <= calls[i - 1].bp - calls[i - 1].fs

FrameChain ==
  Running =>
    /\ bp = calls[Len(calls)].bp
    /\ sp <= OperandEnd
    /\ \A i \in 2 .. Len(calls) : SavedAt(i) /\ Nested(i)

\* The bytes from a up to b are a sequence of whole data.
Tiled(m, a, b) ==
  \A x \in a .. (b - 1) :
    LET c == m[x] IN
    /\ c.ty \in Types /\ 0 <= c.k /\ c.k < Size[c.ty]
    /\ a <= x - c.k /\ x - c.k + Size[c.ty] <= b
    /\ At(m, x - c.k, c.ty, c.val)

\* A pop never starts in the middle of a datum or reaches into the local
\* variables: the operand areas of the running function and of all its callers,
\* the arguments of the calls included, consist of whole data although values of
\* different sizes, with and without descriptor, are pushed and popped.
OperandsTiled ==
  Running =>
    /\ Tiled(mem, sp, OperandEnd)
    /\ \A i \in 2 .. Len(calls) :
         Tiled(mem, calls[i].bp + 2 * AddrSize, calls[i - 1].bp - calls[i - 1].fs)

\* Whenever an instruction is fetched, and at every step of a RET, the program in
\* memory is the one that was loaded.  A push or a CALL does change bytes of the code
\* when the stack grows into it, be it by a datum larger than the code, but then
\* CheckPointerBounds stops the machine before the next instruction.  The exceptions
\* are the steps to "lost".
CodeIntact ==
  Running /\ (pc = "exec" => PointersOK) =>
    \A x \in 0 .. (CodeEnd - 1) : mem[x] = CodeByte

\* While a function runs, neither it nor anything it calls changes a byte of its
\* caller's frame: not the locals, not the operands waiting there.
KeepsCaller ==
  Len(calls) > 1 /\ Len(calls') >= Len(calls) =>
    \A x \in Mem : x >= calls[Len(calls)].top => mem'[x] = mem[x]

CallerIsolation == [][KeepsCaller]_vars

\* A RET removes exactly the arguments and the frame.  The data that lay above
\* the local variables are then where the arguments were, unchanged, in reverse
\* order: the first value of a return statement, which was pushed first, ends on
\* top, where the assignment of several variables expects it.
ReturnExact ==
  pc \in {"args", "push"} /\ ret.na <= 0 /\ ret.vals = <<>> =>
    /\ sp = ret.top - Len(ret.img)
    /\ \A i \in 1 .. Len(ret.img) :
         LET c     == ret.img[i]
             below == i - 1 - c.k        \* bytes of the data collected before c's
         IN  mem[ret.top - below - Size[c.ty] + c.k] = c

\* With the option that zeroes popped values no popped operand, argument or
\* local variable can be found in the memory below the stack pointer.
PoppedZeroed ==
  ZeroPopped /\ (Running /\ (pc = "exec" => PointersOK)) =>
    \A x \in CodeEnd .. (sp - 1) : mem[x] = ZeroByte

\* What an interrupt service routine without return values gives back to the
\* interrupted program is the stack the program had.
InterruptTransparent ==
  pc = "args" /\ ret.na <= 0 /\ ret.img = <<>> /\ ret.fn \in Isrs => sp = ret.top

===============================================================================
