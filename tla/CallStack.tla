------------------------------- MODULE CallStack -------------------------------
(***************************************************************************)
(* What a programmer relies on when functions call each other: an          *)
(* activation has variables and operands of its own, a call moves its      *)
(* arguments to the variables of the new activation, a return moves what   *)
(* the function has left to its caller, the first value on top.  There is  *)
(* no memory here, and no frame that could be overwritten.                 *)
(***************************************************************************)
EXTENDS Integers, Sequences
Seqs == INSTANCE SequencesExt

CONSTANTS
  Funcs, Boot,   \* the functions, and the start-up code
  Vars,          \* the variables of each of them
  Params,        \* those of them that hold arguments, in order
  Address,       \* the operand that stands for a variable
  Unset

VARIABLES
  status,
  stack          \* the activations, the running one last; operands, the top one first

vars == <<status, stack>>

Top         == stack[Len(stack)]
Dropped(s, n) == SubSeq(s, n + 1, Len(s))

Init ==
  /\ status = "running"
  /\ stack = << [fn |-> Boot, vars |-> [x \in Vars[Boot] |-> Unset], ops |-> <<>>] >>

Running == status = "running" /\ UNCHANGED status

\* at most three operands (an external function's name and two arguments), none of
\* them a variable, are replaced by at most one
Evaluate ==
  /\ Running /\ Len(stack') = Len(stack)
  /\ LET ops == stack'[Len(stack)].ops IN
     \E n \in 0 .. 3, m \in 0 .. 1 :
       /\ n <= Len(Top.ops) /\ m <= Len(ops)
       /\ \A i \in 1 .. n, x \in Vars[Top.fn] : Top.ops[i] # Address[Top.fn][x]
       /\ stack' = [stack EXCEPT ![Len(stack)].ops = SubSeq(ops, 1, m) \o Dropped(@, n)]

Read(x) ==
  /\ Running
  /\ Top.ops # <<>> /\ Head(Top.ops) = Address[Top.fn][x]
  /\ Top.vars[x] # Unset
  /\ stack' = [stack EXCEPT ![Len(stack)].ops = <<Top.vars[x]>> \o Tail(@)]

Assign(x) ==
  /\ Running
  /\ Len(Top.ops) >= 2 /\ Top.ops[1] = Address[Top.fn][x]
  /\ stack' = [stack EXCEPT ![Len(stack)].ops = Dropped(@, 2),
                            ![Len(stack)].vars[x] = Top.ops[2]]

\* the operands are the function's address, its frame size and the arguments; its
\* other variables have any value
Call(f) ==
  /\ Running /\ Len(stack') = Len(stack) + 1
  /\ LET n == Len(Params[f])
         v == stack'[Len(stack')].vars
     IN  /\ Len(Top.ops) >= n + 2
         /\ DOMAIN v = Vars[f]
         /\ \A i \in 1 .. n : v[Params[f][i]] = Top.ops[i + 2]
         /\ stack' = Append([stack EXCEPT ![Len(stack)].ops = Dropped(@, n + 2)],
                            [fn |-> f, vars |-> v, ops |-> <<>>])

Return ==
  /\ Running /\ Len(stack) > 1
  /\ stack' = [SubSeq(stack, 1, Len(stack) - 1)
                 EXCEPT ![Len(stack) - 1].ops = Seqs!Reverse(Top.ops) \o @]

\* the program ends, or the machine does with an error or in a way not described here
Stop ==
  /\ status = "running" /\ stack' = <<>>
  /\ status' \in {"error", "lost"} \/ (status' = "halted" /\ Len(stack) = 1)

Next ==
  \/ Evaluate
  \/ \E x \in Vars[Top.fn] : Read(x) \/ Assign(x)
  \/ \E f \in Funcs : Call(f)
  \/ Return
  \/ Stop

Spec == Init /\ [][Next]_vars
===============================================================================
