----------------------------- MODULE VMCallStack -----------------------------
(***************************************************************************)
(* VMFrames implements CallStack: the bytes between two frames are read    *)
(* back as the operands of an activation, the slots of a frame as its      *)
(* variables.  A RET takes effect when it leaves the frame.                *)
(***************************************************************************)
EXTENDS VMFrames
Seqs == INSTANCE SequencesExt

Unset == [ty |-> "ZERO", val |-> 0]

\* the variables of a function have bytes of their own (SlotsDisjoint of ZeroACFrameLayout)
ASSUME LocalsAssumption ==
  \A f \in Program : \A k, l \in Locals[f] :
    k # l => k.off + Size[l.ty] <= l.off \/ l.off + Size[k.ty] <= k.off

Item(m, x)     == [ty |-> m[x].ty, val |-> m[x].val]
Whole(m, x, b) == x < b /\ m[x].ty \in Types /\ x + Size[m[x].ty] <= b

\* the data from address a up to b in the memory m
Data(m, a, b) ==
  LET parse[x \in a .. b] ==
        IF Whole(m, x, b) THEN <<Item(m, x)>> \o parse[x + Size[m[x].ty]] ELSE <<>>
  IN  parse[a]

\* the variable of type t at address a; the variables of a call, read from its frame
Held(m, a, t) ==
  IF a \in Mem /\ m[a].ty = t /\ At(m, a, t, m[a].val) THEN Item(m, a) ELSE Unset

Variables(m, c) == [s \in Slots(c.fn) |-> Held(m, c.bp + s.off, s.ty)]

\* what a RET under way has popped, the datum on top first
Popped == [i \in 1 .. Len(ret.vals) |-> [ty |-> ret.vals[i].ty, val |-> ret.vals[i].val]]

\* the operands of the last call and of the calls below it
TopOperands ==
  CASE pc = "exec"             -> Data(mem, sp, OperandEnd)
    [] pc = "collect"          -> Popped \o Data(mem, sp, OperandEnd)
    [] pc \in {"args", "push"} ->
         LET ops == Data(mem, sp, OperandEnd)
         IN  Seqs!Reverse(Popped) \o SubSeq(ops, ret.na + 1, Len(ops))

Operands(i) ==
  IF i = Len(calls) THEN TopOperands
  ELSE Data(mem, calls[i + 1].top, calls[i].bp - calls[i].fs)

Stack ==
  IF ~Running THEN <<>>
  ELSE [i \in 1 .. Len(calls) |->
          [fn |-> calls[i].fn, vars |-> Variables(mem, calls[i]), ops |-> Operands(i)]]

Abstract == INSTANCE CallStack WITH
  Vars    <- [f \in Program |-> Slots(f)],
  Params  <- [f \in Program |->
                [i \in 1 .. NumArgs[f] |->
                   [off |-> 2 * AddrSize + ArgOff[f][i], ty |-> ArgType[f][i]]]],
  Address <- [f \in Program |-> [s \in Slots(f) |-> [ty |-> "ADDR_BP", val |-> s.off]]],
  status  <- IF Running THEN "running" ELSE pc,
  stack   <- Stack

\* The machine with one memory for frames, operands and arguments behaves like
\* CallStack's separate activations: an instruction changes the running function's
\* operands and the one variable it assigns, a call passes exactly its arguments, and
\* a return removes them and the frame and leaves the results in reverse order.
CallsAbstracted == Abstract!Spec
===============================================================================
