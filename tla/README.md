# Verification of matrix_calc

matrix_calc compiles a small language for linear algebra and executes it. This directory holds
TLA+ models of the parts of it whose correctness depends on state, order or concurrency, the TLC
configurations that check them on small instances, and TLAPS proofs for every value of the constants.
All paths below are relative to `src/src/` of the repository.

## 1. Inventory

The program text goes through a lexer and one of two parsers into a syntax tree; a visitor writes
either LLVM assembly ("3ac") or byte code for a stack machine ("0ac"); a virtual machine executes the
byte code.

| component | state | operations | what is hard | what makes it correct |
|---|---|---|---|---|
| VM execution core (`vm_0ac/vm.cpp`, `vm.h`, `run.cpp`) | byte memory holding code and stack, `ip`, `sp`, `bp` | push, pop and address arithmetic, about 60 instructions, CALL, RET | data of different sizes with descriptors; the stack grows towards the code; RET collects values, removes the frame and pushes again | frames and operands stay what the compiled code relies on, code is never executed after being overwritten, returns are exact |
| VM interrupts and timer (`vm.cpp` 22-77, `run.cpp` 24-43, `extfuncs.cpp` 166-196) | atomic request flags, service routines, timer thread and its running flag | RequestInterrupt, SetISR, StartTimer, StopTimer, TimerFunc | two threads, a flag tested and cleared in two steps, start and stop in any order, thread creation that fails, destructor | no request is lost, one late tick at most, the thread object is never misused, stopping returns |
| VM arrays, vectors, matrices (`run.cpp` 107-588, 941-953, `vm.h` 503-604) | the variables in the frame, the operand stack | index and range instructions, literals, casts | ranges counted from the end or backwards, writes element by element into a frame that variables share | the elements the ranges name and no others are read or written |
| external functions (`extfuncs.cpp`) | none | print, read, numerical routines | I/O, floating point | arity and result type |
| 0ac generator: jumps, calls, constants (`codegen_0ac/asm.cpp`, `func.cpp`, `var.cpp`, `consttab.cpp`) | output stream, lists of unset addresses, loop identifiers, constants table | visitors of the tree, Start, Finish | backpatching in nested constructs; forward calls; a table whose address is known last | each address in the finished code leads where it was meant to |
| 0ac generator: variables, frames (`var.cpp`, `func.cpp`, `common/sym.*`, `common/context.h`) | symbol table, local offsets | declarations, assignments, frame sizes | offsets of nested scopes, redeclaration | slots do not overlap and lie in the frame |
| 0ac generator: operators, casts, arrays (`ops.cpp`, `arr.cpp`) | none | type of an expression, casts | type rules | the types that the VM's instructions accept |
| 3ac generator: control and memory (`codegen_3ac/asm.cpp`, `asm.h`, `func.cpp`, `var.cpp`) | output stream, counters of labels, blocks and temporaries, the labels of the current loops | visitors of blocks, conditions, loops, jumps, functions, assignments | jumps out of nested constructs, labels shared with loops of array code, stack saved and restored around blocks and iterations, ownership of heap blocks | each branch reaches the place it is meant for, what is in scope is allocated, loops do not let the stack grow, every heap block is released once |
| 3ac generator: arrays (`ops.cpp`, `arr.cpp`, `var.cpp`) | none | a loop of generated code for every operator, assignment and range | index arithmetic with the wrong one of two dimensions, ranges in both directions, no checks when the code runs | the loops compute what the operation is defined to be, inside the arrays |
| runtime (`libs/runtime.c`) | list of heap blocks | allocate, free, count what is left; numerics | list operations | the list holds the blocks in use |
| lexer and parsers (`parser_direct/`, `parser_yy/`) | look-ahead, LR stacks | tokens, reductions | longest match | the tree of the grammar |
| tree, printer, semantics visitor (`ast/`) | none | traversal | - | - |
| drivers (`main*.cpp`), memory dump, external declarations | options | files, timing, output | - | - |

Interaction: the drivers own the parser context with the symbol table; the generators read and extend
it. The 0ac generator and the VM agree on the frame layout, the descriptors, the address types and on
offsets being relative to the end of the instruction that uses them. Inside the VM the timer's thread
and the thread that executes share the request flags and `m_timer_running`; a request turns into a CALL
between two instructions.

Every component is listed in `PROJECT.json` with what is and is not modelled; its list of hazards names
for each hard-to-test behaviour the line where it bites and the property that covers it.

## 2. Modules

    VMFrames            memory, registers, instructions, CALL, RET
      MCVMFrames        a program, for TLC
    CallStack           what calls promise: activations with variables and operands of their own
      VMCallStack       VMFrames implements CallStack (refinement mapping; EXTENDS VMFrames)
        VMFramesProofs  theorems about VMFrames and VMCallStack
    VMInterrupts        request flags, service routines, timer thread, destructor
      MCVMInterrupts    TLC
      VMInterruptsProofs theorems
    ZeroACAsm           the 0ac generator's emission and patching of addresses
      MCZeroACAsm       TLC
      ZeroACAsmProofs   theorems
    VMArrays            array variables in a frame, element and range instructions
      MCVMArrays        TLC
    ArrayStore          what they promise: separate variables, ranges replaced at once
      VMArrayStore      VMArrays implements ArrayStore (EXTENDS VMArrays)
        VMArraysProofs  theorems about VMArrays and VMArrayStore
    RuntimeHeap         the heap of compiled programs and the runtime library's list of its blocks
    ThreeACControl      the 3ac generator's branches, stack and heap; the run of what it writes (EXTENDS RuntimeHeap)
      MCThreeACControl  TLC
      ThreeACControlProofs theorems
      ThreeACReleaseProofs theorems about what loops and calls leave behind
    ThreeACArrays       the loops over arrays that the 3ac generator writes, as they run
      MCThreeACArrays   TLC
      ThreeACArraysProofs theorems
    ZeroACFrameLayout   parser contexts, symbol table, slots and frames of the 0ac generator
      MCZeroACFrameLayout TLC
      ZeroACFrameLayoutProofs theorems

### VMFrames

State: `mem`, `ip`, `sp`, `bp` are the VM's members. A memory cell records which byte of which datum it
holds, which keeps the sizes and the descriptors and drops the bit patterns: a pop that starts in the
middle of a datum, or a datum that was partly overwritten, shows. `pc` and `ret` are the position and the
local variables of a RET, which takes several steps. `calls` is a history of the calls that have not
returned; the guards use it only in the conjuncts marked "program".

The program is not fixed: at every address any instruction may be found that the code generator could
have put there. The conjuncts marked "program" state its conventions (operands come from the running
function's own operand area, an address is followed by its use, CALL and RET get the frame size and the
number of arguments that the function has). Everything else is the VM's. An external function takes none (`get_eps`), one or
two (`pow`) operands below its name and gives one value or none, whatever function it is; `set_isr`, which takes an address,
is only in `VMInterrupts`. `ComparisonError` and `ExternalError` are the operands that an instruction refuses.

The model contains the execution of a compiled program up to the first of the following, and these are left out:

- The stages `lost`. `PushBelow`: a datum with no room above address 0 either throws (strings, vectors and matrices that are
  longer than what is there) or is written in front of the memory (`vm.h:328-334` looks at the bytes above the stack
  pointer). `CastOverCode`: an external function casts a vector or matrix on the stack to a text that is longer, and the text reaches
  into the code; when the function has popped it the stack pointer is above the code again, so that no check notices.
  `MisreadBool`: a RET pops the result of a comparison as a datum (see the disagreements below). The machine may go on after each of them,
  executing bytes that are no instructions or with a wrong stack; the model does not.
- A BOOL where another instruction expects a datum, or a datum where one expects a BOOL (the sum of two comparisons, a condition
  that is a number): the machine reads a value as a descriptor or a part of a datum as a BOOL. The generator checks neither.
- An argument or a value that has another type or size than the variable it is given to (`vm.h:514`, `func.cpp:152`). What becomes of
  such arguments is stated by `ArgsArrive` of `ZeroACFrameLayout`.
- Variables that are read before they are written, array instructions (`VMArrays`), and addresses relative to the stack
  pointer, which the generator does not emit.

`Interrupt` is only part of `SpecIrq`: see the divergence below.

### CallStack and VMCallStack

`CallStack` knows no memory: an activation has variables and a sequence of operands, a call takes its arguments from
the caller's operands, a return puts values in their place, and only the activation on top acts. `VMCallStack` maps the
machine to it: `calls` says where the frames were put (`FrameChain` that the machine will find them there); the bytes
between two frames are parsed into operands, the argument and local slots into variables. A RET of
the machine takes several steps; the mapped return is the one that leaves the frame. A step to `lost` is a `Stop`. So a step of a function
that reached the operands of its caller, or values that arrive in a wrong order, show as a step that
`CallStack` does not allow.

### VMInterrupts

One action is one atomic access of the code: the scan of `Run` loads a flag (`LoadFlag`), clears it
(`ClearFlag`), calls the routine (`Serve`); the timer's thread checks its running flag, sleeps, requests.
`m_timer_running` is a plain bool that both threads use. As the reading loop calls `sleep_for` between two
reads, a build reads it every time, and a step of the model is one read. `StartTimer` contains the failure of the thread's
creation, which leaves the flag set, and `std::terminate` for a thread object that is overwritten.
`HostRequest` stands for other callers of the public `RequestInterrupt`.

### ZeroACAsm

The visitors call each other recursively; an action is the code of one visitor between two such calls,
and `visits` is the stack of visitors that have not returned, with their local variables. The tree is not
fixed: every tree up to the bounds is visited. Of the output stream only the offsets are kept, by position
(`off`). The lists of unset addresses, the loop counter (a static variable), the current loops and the
constants table are the code's. `want` and `label` are history: what each offset is meant to reach and
where that is. Only the properties and `Meant` use them.

### ZeroACFrameLayout

Two passes share the symbol table. The parser's actions (`EnterScope`, `Declare`, `Mention`, `CallArgs`, `LeaveScope`)
build any program in the order of its text and enter its functions, arguments and variables under their scoped
names; a later symbol of the same name replaces the earlier one, as `insert_or_assign` does. Then the generator's
actions visit the functions from the last to the first (`cur`), give arguments and variables their addresses and write
the frame sizes into calls and returns; every throw of these visitors is an action that ends in phase `error`. The key of
a symbol is the sequence of its scopes and its name. `rets`, `entry` and `accesses` are history: what each RET removes,
whose code begins at a position, and the addresses that were written for variables.

What a call pushes is in `func_comefroms`: the generator evaluates the arguments from the last to the first and casts none of them
(`func.cpp:152`), so an argument expression of any type may stand for an argument (`TypeLists`, a bound), and `ArgPlaces` says where
each of them then is, relative to the callee's base pointer. The callee computes its addresses from the declared sizes (`PlaceArg`),
without looking at any call; `ArgsArrive` compares the two through the address to which `Finish` links the call.

Left out: functions inside of functions and code outside of functions (conjuncts marked "program"), external functions, array
elements. A declaration has one variable; its initial value is a use after it. A type stands for its
size and the position counts pieces of code instead of bytes, since no property compares them with anything but each other.
This module computes what `VMFrames` takes as constants: slots below the base pointer, arguments above the
saved registers, frame sizes and numbers of arguments that calls and returns agree on.

### VMArrays, ArrayStore and VMArrayStore

`VMArrays` looks into what `VMFrames` keeps as data of a size: a variable of a frame is a type, its lengths and its
elements, one per cell, and the neighbours follow. An instruction computes addresses from the lengths it finds in memory
(`Contents`, `WriteTo`), takes the indices modulo the length (`SafeIndex`, with C++'s sign of the remainder) and
writes one element per step (`WriteElement`), with the loop variables of the handler (`i`, `j`, `n`, `new`, and in `loop` those
that the loop does not change). An exception in the middle of the loop (`OutOfBounds`) leaves memory as it is then.
The four writing instructions share the loop, as they differ only in the ranges: one element is a range of one. `before` is
history. Undefined behaviour (a remainder by a length of zero, a write behind a new matrix, elements that a cast does not
find) ends the model with `pc = "undefined"`; a read behind a matrix gives any value (`ElementAt`). The elements
of `m::mat`, of an external library that is not in the repository, are taken to be one row after the other without
checks of the indices, as `ReadMemRaw` and `WriteMemRaw` rely on.

`ArrayStore` has no addresses and no loops: every variable has a value of its own, a range is selected or replaced at once, in the
order of its indices. `VMArrayStore` reads the values of the variables back from memory as it was when the last loop ended, and an
instruction takes effect at the end of its loop.

Assumed (`WrMem`): a value assigned to a whole variable has its type and is not longer than declared. The compiler's casts
do not guarantee it (a vector is not cast to a vector, a string not to a vector); the
hazards name it. `ValueAssumption` restricts indices to 32 bits, in which reads and writes agree. Integers as
elements and arithmetic on arrays are left out.

### ThreeACControl and RuntimeHeap

Two phases: the generator writes a function (`Generate`), then its code runs (`Run`). As in `ZeroACAsm` an action
of the generator is the code of one visitor between two visits of its parts, and `visits` holds the visitors that have
not returned. `code` keeps the instructions that allocate, use or release memory and those that branch; the others are values.
`labelCount`, `labelCountBlock`, `varCount`, `loopStartStack` and `loopEndStack` are the generator's members. `open` is history: the
saved stack pointers and the memory in scope at the end of the code; each instruction notes it. `meant` notes for a
label or a branch the construct it belongs to, which for break and next is found by counting loops (`Meant`) and not by the
generator's stacks.

The run has the stack (`stack`, what each allocation is for), the registers that hold addresses and saved stack pointers
(`reg`), and the heap. Conditions go both ways, as values are not modelled. A call is an instruction that may give a
block of the heap, so one function is enough: `call` and `strcall` take the block, `free` releases it, `heap` is the copy that a
function returns. `RuntimeHeap` has the allocation and release of a block together with the linked list of `runtime.c`, whose
length `ext_deinit` reports at the end. To release what is not a block is undefined and ends the run with phase `undefined`.

Conjuncts marked "llvm" leave out what the LLVM tools refuse: two allocations with one name, and a variable whose allocation does not dominate
the use. A scalar function may end with any statement, whose result or 0 it returns; one that returns an array, a string or several values ends with a return statement. Left out: elements and dimensions of arrays (`ThreeACArrays`), the temporaries of
larger expressions, and functions in functions.

### ThreeACArrays

For the VM an array operation is an instruction; the 3ac generator writes a loop, or several nested ones, for each assignment, operator and range,
with counters in memory and index arithmetic. An action is one pass through the body of such a loop, or its end; `op` is
the operation with the shapes of its operands. The value of an element says what was added and multiplied to get it (`Sum`, `Prod`), so a
result tells which elements went into it and in which order. Indices go through `SafeIndex`, which is computed as the generated
code does it. An access outside of an array is noted in `wild` and reads as unset memory. `Expected` is the
definition of each operation, given without a loop. Left out: powers and inverses (the runtime's numerical routines), the cross product, and
operators on single numbers.

### Assumptions about the inputs

In `ZeroACAsm` functions are defined once (`EnterFunc`) and conditions have code (`TestCond`). What `VMFrames` leaves out is
listed with it above. Vector and matrix data keep their size but no elements in `VMFrames`; the elements are the subject of `VMArrays`.

## 3. Runs

| run | question | result |
|---|---|---|
| `vmframes` | do frames, operands and returned values survive all instructions and calls? is popped memory zero, with the option that asks for it? does the machine implement `CallStack`? | holds |
| `vmframes_irq` | is an interrupt invisible to the interrupted program? | **violated** |
| `vminterrupts` | types, ownership of the thread, no lost request, at most one late tick; does stopping return, is each request served? | holds |
| `zeroac` | jumps, returns, calls and constants of two functions | holds |
| `zeroac_loops` | all nestings of conditions and loops in a function, with break and next | holds |
| `zeroac_nested` | break and next of a loop that contains another loop | **violated** |
| `layout` | do slots overlap, does code stay in its frame, do calls and returns agree, does the callee look for arguments where the call pushes them? | holds |
| `layout_shadow` | frames of calls, if a variable has a function's name | **violated** |
| `arrays` | do reads and writes of elements and ranges touch what they name and nothing else? do their loops end? does the frame implement `ArrayStore`? | holds |
| `arrays_element` | does reading an element of a matrix give this element? | **violated** |
| `threeac` | do the branches of generated LLVM code reach their places? is what is in scope allocated? do loops release their stack? is each heap block released once? | holds |
| `threeac_arrays` | do the generated loops over arrays compute what the operations mean, inside of the arrays? do they end? | holds |

The bounds, and why they are enough:

- `vmframes`: 27 bytes of code and constants, 12 bytes of memory for the stack; addresses and integers take one
  byte, strings two, and a matrix thirty, which is more than the code, so that pushing it would reach below address 0. The start-up code calls `start`, which calls `g` with an argument, a local and room for several
  returned values; a call of `g` inside of `g` runs into the code and ends in `BoundsError`. Nothing in the model
  looks at more than two adjacent frames; the theorems remove the bound.
- `vminterrupts`: three interrupts and two nested routines, so that one interrupt is lower, one higher than the
  one that is served: enough for starvation by a lower number, too.
- `zeroac`: with addresses of two bytes the last statement may begin at byte 30. Programs of that size have a call
  of a function that is defined later, one of a function defined before and one of the function itself, returns in
  both functions, a condition with or without else around a return or a call, a loop, and both constants, one
  of them twice; not all of these in one program. `zeroac_loops`: one function, four nested visitors and 44 bytes with
  addresses of one byte hold a loop in a condition in a loop and two loops in sequence.
  Expressions without addresses have one size; a second one only shifts positions.
- `layout`: two functions, two names, two types of different sizes, up to two arguments in the program, three statements; calls push nothing,
  one integer, or an integer and a string in either order, so that an argument is right, too long or too short. It takes two
  variables to overlap, two functions to call in both directions, and three statements for a declaration, a second
  one of the same name and a use, or for calls around a declaration. The names of
  variables are exchanged by symmetry, which is sound as no function has such a name there; `layout_shadow` has a name in common and
  does not use symmetry.
- `arrays`: a string with room for three characters, a vector of two numbers and a matrix of two rows and three columns, next to
  each other, with a cell on either side. Indices -1, 0 and 1 name every position of the dimensions and give ranges in both
  directions and ranges that wrap around; right sides of zero, two and four elements are too short, exact or too
  long. Two array instructions or assignments, one of which writes elements: a write with a result of a read, and a write into
  a variable that was assigned, cover what instructions hand to each other, which is only the memory and one datum.
- `threeac`: one variable, which may be a parameter; five statements in up to five nested visits, so that a break or next can leave a
  loop in a loop through a block or a condition, behind a declaration and before an array assignment with a loop of its own.
  Depths of -1, 0 and 1 with at most three loops are too small, exact and too large. Six allocations are more than any path without a
  repeated loop makes that matters: a body that does not release shows after its first iteration; a run that needs more
  ends. Two addresses of the heap, as an address is used again when it has been released.
- `threeac_arrays`: one to three rows and columns, all pairs of shapes: every operation meets arrays that are not square and
  lengths that do not match. Indices -2, 0, 1, 2 and 4 lie in front of, in and behind arrays of each of the sizes, and pairs of them
  give ranges in both directions. Two operations follow each other only where the second takes the first one's result as it is
  in memory (`AssignSlice`).
- Programs, compilers and machines end, so deadlock is not checked.

Fairness (`VMInterrupts!FairSpec`): weak fairness of the executing thread and of the timer's thread. Both
are operating-system threads that never block but in `sleep_for`, which is finite, and in `join`, which is a step that is
disabled while it waits. `VMArrays!FairSpec`: weak fairness of the steps of an instruction's loop, which is
code without anything to wait for, and `ThreeACArrays!Spec` the same for the generated loops. No fairness is assumed of the host or of single instructions. `AllServed` has
the condition that lower numbers are eventually quiet, as the scan serves the lowest first.

Each property has a mutant: an operator next to the original in the module, commented "mutant", that makes
a plausible mistake in one definition (in the code's terms: a return value pushed in the wrong order, a
thread not joined, a list not cleared) and with which TLC finds the property violated.

### What disagrees with the code's comments

- **Interrupts take an operand for a frame size** (`vmframes_irq`). `Run` pushes the routine's address
  and executes CALL (`vm_0ac/run.cpp:37`), and CALL pops the frame size next (`:867`), which nobody
  pushed: the interrupted program's top datum is used and lost, or the program ends if it is no integer.
  The comment beside it only foresees a need "in case of additional registers that might need saving".
- **break and next of an outer loop** (`zeroac_nested`). `visit(ASTLoop)` matches the saved jumps against
  its static counter after the body was visited (`codegen_0ac/asm.cpp:281`, `:299`). A nested loop has
  incremented it by then, so the outer loop's jumps are never filled in; with offset 0 they fall through.
  `InnerLoopsLinked` shows that loops without inner loops are linked.

- **A variable with the name of a called function** (`layout_shadow`). `visit(ASTCall)` looks the name up in the
  caller's scope first (`codegen_0ac/func.cpp:144`), finds the variable, which has no argument types either, and
  writes 0 as the size of the frame; `Finish` looks in the global scope and links the call to the function
  (`asm.cpp:133`), whose RET removes its real frame (`func.cpp:75-80`).
- **Reading a matrix element** (`arrays_element`). RDARR2D takes the row modulo the number of columns and adds one to the
  column (`vm_0ac/run.cpp:220-221`), below the comment "gets matrix element"; writing one (`:343-344`) does neither. So `M[0, 0]` reads the element
  right of the one that `M[0, 0] = x` writes, and the last element is read from behind the matrix.

Further disagreements that the models contain, without a run of their own. The properties of the passing runs except them by name.

- A comparison leaves one byte without a descriptor on the stack (`vm_0ac/vm.h:998`). `return a < b;`, or a comparison as a statement
  (`parser_yy/parser.y:167`, `:174`), leaves it there for RET, whose loop is to "use then as return values" (`vm_0ac/run.cpp:900`) what is on
  the stack. Its `PopData` takes the byte for a descriptor: 0 is no type and throws, 1 is that of a real, and the bytes behind it are taken
  for its value. The model reaches this step and ends there (`MisreadBool`).
- A function that is defined twice: the symbol's argument types are those of the last definition
  (`common/sym.cpp:88`), its address is that of the first, which is visited last (`codegen_0ac/main_yy.cpp:171`). So the check of the number of arguments
  (`codegen_0ac/asm.cpp:142`) accepts calls with the wrong number for the code they lead to. `CallArgsAgree` asks for functions that are defined once.
- `next` in 3ac code branches to the label before the stack pointer is saved (`codegen_3ac/asm.h`, generate_loop; `asm.cpp`
  visit(ASTLoopNext)), so the loop saves a stack with what the iteration had allocated: it is not released in the next iteration, and at the loop's end
  not either. `LoopsRelease` excepts loops that have executed a `next` of their own.
- A call that returns a string releases the copy on the stack instead of the heap's block (`codegen_3ac/func.cpp:124`): undefined, phase
  `undefined` of `ThreeACControl`. Several values that are not assigned are never released (`HeapBalanced`, `Unassigned`).
- A variable that a bare block declares stays usable behind it (`codegen_3ac/asm.cpp:38`), although its memory is released: the names are those of the
  function. The model's `dom` allows it, and `ScopesLive` is about what is in scope.
- `safe_array_index` subtracts a negative remainder from the size (`codegen_3ac/asm.cpp:795-836`), so an index of -1 is behind the array
  unless it is a multiple of the size. `Computed` and `InBounds` ask for indices without this (`Regular`).
- A part of a string as long as the string has its zero written behind it (`codegen_3ac/arr.cpp:279`), and a range is assigned
  from a shorter expression beyond its end (`arr.cpp:829`): `InBounds` states that these are the two exceptions.
- A matrix as text is separated by its number of rows instead of columns (`codegen_3ac/asm.cpp`, convert_sym), and `v[1~2] = v` overwrites what it
  reads. Adding matrices always throws (`ops.cpp`, visit(ASTPlus)). `Computed` excepts the first two, `Plus` has the third.

## 4. Proofs

TLAPS proves the following for all values of the constants that satisfy the ASSUMEs of the modules.

`VMFramesProofs`: `TypeOK`, `FrameChain`, `OperandsTiled`, `CodeIntact`, `ReturnExact` and the action property
`CallerIsolation`. None of them is inductive alone. That the saved registers survive needs that operands
are whole data (else a pop could leave the operand area) and that every store goes to a slot of the running
function; that RET puts the values in place needs a description of the half-finished RET; that the
code survives needs that the stack pointer was checked at the start of the instruction and that what is pushed has room above
address 0 (`Result`), but no bound on the size of a datum: `CodeIntact` says nothing of a state whose pointers do not pass the check, and
in such a state the machine fetches no instruction. That the instruction pointer stays in the code (`InstructionPointer`, a part of `TypeOK`)
rests on `FrameChain`: what RET takes for a return address is one. `PoppedZeroed` needs nothing of this but where a return puts its values: what lies below the stack pointer, down to the code, is
zero (`Zeroed`), also in the midst of a RET. The invariant is the conjunction of these parts, and the proof has one lemma for each kind of memory update (`Put`, `Erase`)
and one step per action. The facts about memory are stated once, as lemmas about `At` and `Tiled`.

The same module proves `CallsAbstracted`, the refinement of `CallStack`, from this invariant. The operands of an activation are what
a recursive function over addresses (`Data`) reads from the bytes between two frames. That this function exists and is the only one
that satisfies its definition (`ParseExists`, `ParseUnique`) follows from the least element of a set of distances to the end (`LeastOf`, from
the theorem on well-founded relations), and so do the facts that the steps need: the first datum and the rest (`DataFirst`), that
memory which agrees between two addresses reads the same (`DataSame`), and that the arguments below a frame are the ones that the function's offsets name
(`DataArgs`). A variable is read from its slot (`Held`); a store to one slot changes no other variable (`VariablesAssign`), which is where
`LocalsAssumption` enters: the locals of a function do not overlap. It is what `SlotsDisjoint` says of the generator's frames.
Most instructions are an `Evaluate` of `CallStack`, RDMEM and WRMEM are `Read` and `Assign`, CALL is `Call`, the step of RET that
leaves the frame is `Return`, and an error or HALT is `Stop`. The other steps of a RET are stutters: the values that it has taken from the stack
and the operands that are left together stay the same (`OperandsKept`, with `CollectKeeps`, `PopArgKeeps`, `PushKeeps`, `DoneKeeps`).

`VMInterruptsProofs`: `TypeOK`, `TimerOwned`, `RequestKept`, `OneLateTick`. The invariant adds which
states of the timer's thread go with the values of its running flag and handle (`ThreadOK`), what the scan knows
when it is about to clear or serve (`ScanOK`), and how many ticks may still come (`LateOK`).

`ZeroACAsmProofs`: `TypeOK`, `StructureLinked`, `CallsLinked`, `ConstsLinked`, `InnerLoopsLinked`. The claims are about the finished
program and say nothing while it is written, so the invariant describes the unfinished one (`StructureOK`, `Listed`): an offset
waits for its target in the one list or the one open visit that will patch it, or it leads there
already. For this to be inductive, each list may hold only offsets that were written for its targets (`ListsOK`, `SlotsOK`),
which is why a pass does not disturb what another has patched; a target that is not yet known has an
open visit, and the beginnings of open visits differ (`LabelsOK`, `VisitsOK`); and offsets are written at the end of the stream
(`Fresh`). The jumps of break and next are the exception: for the first three claims the proof only needs that their lists hold
nothing else, as `zeroac_nested` shows that they are not always patched. For `InnerLoopsLinked` a second invariant (`LoopInv`) relates
the loop counter, the stack of current loops and the visits: an open loop's number is its place in the stack as long as no loop
was begun in it (`OpenOK`), and a saved jump has the number of an open loop that it is meant for, or of one that is closed and had
another inside (`SavedOK`).

`ZeroACFrameLayoutProofs`: `TypeOK` for all programs; `SlotsDisjoint`, `AccessesInFrame`, `CallFramesAgree`, `CallArgsAgree` and `ArgsArrive` for those
whose variables are named apart from the functions and whose functions are defined once (`NamesApart`, an assumption of
the theorems; `layout_shadow` shows that the calls need the first half of it). For the slots the invariant (`SlotInv`) says that a local is
between `-m_local_stack` and the base pointer and an argument between the saved pointers and `frame_addr`, so that
the next slot is free, and that a function that was not visited has no addresses, which is where "defined
once" enters. For the arguments (`TileInv`) it says how many of them have their place while the function is visited, and that
`frame_addr` is the end of the last one; an address is given once (`VariablesKept`). What a call has pushed is at the sums of the sizes in front of
it (`PlacesStep`), and these sums are equal step by step as long as the sizes are; the two meet in the definition that the call is linked to. For the calls (`CallInv`) it says that the symbol table does not change after the first call was
written, so a frame has one size whenever it is computed; that a function's address leads to its only
definition (`Addressed`, with positions that only grow, `EntriesBehind`); and that what has been visited has a
RET (`Returned`). For the accesses (`AccessInv`) it says that `m_local_stack` is the sum of the sizes of the locals that have an address
(`StacksFilled`), which are some of those that the frame is the sum of (`SumMonotone`), that what a body declares is a local in the symbol table
(`DeclsLocal`, again by "defined once"), and that a symbol is on its side of the base pointer (`SidesKnown`). The lemmas about sums (`SumAdd`, `SumMonotone`) are
about a fold over a finite set, and proved from its definition: the folding function exists (`SumsExist`), and two of them agree, as a
smallest set on which they do not would have a smaller one (`LeastSubset`, from the theorem on well-founded relations).

`VMArraysProofs`: `TypeOK` and `SlotsKept`, for any frame of variables that do not overlap, any lengths and all indices. The
invariant says that a loop's indices are between its first index and the one after its last, in steps of its direction (`LoopOK`),
that while a loop writes its ranges are below the lengths in the variable's header, which is still there (`WriteOK`), and that the new table has as
many elements as the loop has been through (`ReadOK`). So an element's address is in the variable's slot and behind its header
(`ElementCell`, which needs that row * columns + column is less than rows * columns).

The same module proves `PrefixWritten` and `StoreAbstracted`, the refinement of `ArrayStore`. For this the invariant (`StoreInv`) also
says that memory is as it was before the instruction unless that writes (`KeptOK`), that the loops go through the positions which the
program has named, in their order (`Meant`; `SafeIndexMod` and `MeantNth` say that `safe_array_index` and the two directions of the loop
give these positions and none twice), that the datum had an element for each that has been visited (`WritesOK`), and that the new
table has the elements that were to be read (`ReadsOK`, not for RDARR2D). An element that is written disturbs no other since different positions
have different cells (`Places`, from the uniqueness of quotient and remainder). In the refinement a literal, an assignment, a cast or a variable that is
read is one step of `ArrayStore` (`Computes`), an instruction begins when it takes its datum (`ArrayBegins`), the steps of its loop are stutters, and at
its end `ReadEnds` and `WriteEnds` follow from the invariant with all elements visited (`Selects`, `Replaces`).

`ThreeACArraysProofs`: `TypeOK`, `InBounds` and `Computed`, for arrays of all sizes and all index expressions. Three invariants
build on each other. `Typed` says which shapes the operands of each kind of operation have and between which limits the
counters of the running loop are. `Bounded`, for regular indices, says how many elements of a range are done when the
counters are where they are: as many as there are before row and column, whichever way they run (`RangeOK`); so the
element at the counters is the next one of the range (`ColPlace`, which rests on the uniqueness of quotient and
remainder), it is in the array, and `wild` is exactly as `Fits` and `Room` say. `Contained` says what is in the elements
that are done: sums up to the counter for the products, the elements in front of the counter for the
loops over all elements, the elements picked for ranges, and that everything else is as it was. That the next element does not
disturb them needs that no element of a range is picked twice (`PickedOnce`), that transposing twice gives the array back
(`TurnedTwice`), and that two elements of a product have different places (`MatBeside`); that a range that is
assigned its own variable still finds what it reads is what `Apart` says. At the end of a loop the counter is at its limit, and the definition of the
operation (`ExpectedIs`) is what the invariant says of all elements (`LoopDone`).

`ThreeACControlProofs`: `TypeOK`, `BranchesLinked` and `ScopesLive`, for any function, whatever its statements, their
nesting and their number. Neither property says anything while the code is written, and both fail for arbitrary code, so the
invariant (`IInv`) describes the code. Each instruction notes what is in scope before it; `Flow` says how what is in scope may
change from one instruction to the next: it grows by what is allocated or saved, and shrinks to an initial part, at
a restore to one that ends where its stack pointer was saved. `CodeOK` says that the whole code is such a sequence (`Piece`); it is kept
because visitors append pieces that fit (`PieceConcat`, `LoopHeadPiece`, `LoopTailPiece`, `CopyLoopPiece`, `EvalPiece`). For the
branches, `BranchesOK` says that the label of each has been placed where it was meant to be, or is promised by an open visit
(`Pending`), and that there an initial part of what was in scope at the branch is; `LabelsOK` that no label is placed or promised
twice, which needs that the counter is ahead of all of them; `LoopsOK` that the stacks of labels are those of the open loops,
which is how a break's number finds the loop that it means (`MeantLoop`). `GenStep`, `StmtStep`, `EnterStep` and `LeaveStep` are the arguments
that the visitors share. When the code runs nothing of this changes, and `Scope`, the content of `ScopesLive`, is kept
by each instruction because of `Flow` (`ScopeAppend`, `ScopeRestored`, `ScopeBegins`) and by a branch because of `BranchLands`.

`ThreeACReleaseProofs`: `LoopsRelease` and `HeapBalanced`, for the same functions. `IInv` says what is in scope at an instruction, but
not which instructions stand together, and both properties rest on that. `FormInv` describes it: a label is behind a branch, so that
code behind a return is reached by labels only; a name is given once (`GivenOnce`); a loop that begins at `b` has its stack pointer
in one name, saved behind the label of its start, and restored behind the label of its end and before the branch back
(`Matched`); what is released was returned by the call one or two instructions before (`FreePlaced`), and what is copied to the heap is
returned next (`HeapPlaced`, `Returns`). It is kept, like `CodeOK`, by pieces of code that are composed: no two pieces have a name or a loop in
common, because names come from counters that are ahead of all of them (`NamesGiven`) and loops begin at places in the code (`Begun`).
`RunInv` is about the run: a loop that was entered and has executed no `next` has its height on entry in its name's register (`HeightAt`), which
no other instruction gives; a block in use belongs to a call without an assignment or is about to be released or returned (`Due`), and the library's list has
each block in use once (`ListedIn`). `Due` holds for at most two instructions, which is why only `RanNext`, `RanHeapAlloc`, `RanFree` and `RanEnds` have to argue about it.

Assumed and not proved: the ASSUMEs (sizes are positive, the generator's offsets
of arguments and locals are inside the frame, and locals apart from each other), and the conventions marked "program". TLC evaluates the
ASSUMEs for the values of its runs. ZeroACAsm and ZeroACFrameLayout
model the parts of the generator that are to justify the conventions for addresses and for frames.

Only model-checked: the liveness properties (`StopReturns`, `AllServed` and `Finishes`), as fairness and ENABLED are outside of this prover's reach.

## 5. Not modelled

Values of real numbers and arithmetic on them, on vectors and on matrices; numerical external functions and I/O; the
lexer and the parsers (tables of external generators, whose submodule is not part of the repository's files);
the LLVM text itself, its types, and the numerical routines of `libs/runtime.c`; the types that operators and casts of the 0ac
generator lead to, which need the values of types only and no states; the tree printer and the semantics visitor, which checks nothing; drivers
and the memory dump.

## 6. Plan

In this order; the first eight are done.

1. `VMFrames`, with proofs.
2. `VMInterrupts`, with proofs.
3. `ZeroACAsm`, with proofs.
4. `CallStack` and `VMCallStack`, with the proof of the refinement.
5. `ZeroACFrameLayout`, with proofs. Left of it: functions in functions, and an instance of `VMFrames` whose
   `Locals`, `ArgOff` and `FrameSize` are a finished layout.
6. `VMArrays` with `ArrayStore` and `VMArrayStore`, with proofs of its invariants and of the refinement.
7. `RuntimeHeap` and `ThreeACControl`; checked, and its four invariants and `TypeOK` proved.
8. `ThreeACArrays`, with proofs.
9. Types of the 0ac generator: GetCastSymType, CastTo and the VM's accepted operand types, over all pairs of types. The lexer's longest match.
