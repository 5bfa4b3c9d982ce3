------------------------------ MODULE MCVMFrames ------------------------------
(***************************************************************************)
(* A small machine for VMFrames: the start-up code, the function "start"   *)
(* without arguments and locals, and a function g with a string argument   *)
(* and an integer variable, which may call itself.  An integer takes one   *)
(* byte and a string two, so that data of several sizes meet on the stack; *)
(* a matrix is larger than the code.                                       *)
(***************************************************************************)
EXTENDS VMCallStack

Fs == {"boot", "start", "g"}

MCSize == [INT |-> 1, STR |-> 2, MAT |-> 30, BOOL |-> 1,
           ADDR_MEM |-> 1, ADDR_IP |-> 1, ADDR_BP |-> 1]
MCVals   == [INT |-> {0, 1}, STR |-> {0}, MAT |-> {0}]
MCConsts == {[addr |-> 26, ty |-> "STR", val |-> 0]}
MCCode == [boot |-> 0 .. 5, start |-> 6 .. 15, g |-> 16 .. 25]
MCEntry == [boot |-> 0, start |-> 6, g |-> 16]
MCTargets == [boot |-> {}, start |-> {}, g |-> {16}]
MCFrameSize == [boot |-> 2, start |-> 0, g |-> 1]
MCNumArgs == [boot |-> 0, start |-> 0, g |-> 1]
MCArgType == [f \in Fs |-> IF f = "g" THEN <<"STR">> ELSE <<>>]
MCArgOff == [f \in Fs |-> IF f = "g" THEN <<0, 2>> ELSE <<0>>]
MCLocals == [f \in Fs |-> IF f = "g" THEN {[off |-> 1, ty |-> "INT"]} ELSE {}]
===============================================================================
