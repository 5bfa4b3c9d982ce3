------------------------------ MODULE RuntimeHeap ------------------------------
(***************************************************************************)
(* The memory that a compiled program gets from its runtime library: the   *)
(* blocks themselves, and the list in which the library keeps them to      *)
(* count at the end those that were never released.                        *)
(*                                                                         *)
(* A heap is the function "live" from the addresses of the blocks in use   *)
(* to what they hold, and "lst", the list's elements behind its head.      *)
(***************************************************************************)
EXTENDS Naturals, Sequences

EmptyHeap == [live |-> [a \in {} |-> ""], lst |-> <<>>]

\* the element is appended behind the last one
lst_append(lst, elem) == Append(lst, elem)

\* mutant: the search stops at the element's successor
lst_remove_next(lst, elem) ==
  IF \E i \in 1 .. Len(lst) : lst[i] = elem
  THEN LET i == CHOOSE i \in 1 .. Len(lst) : /\ lst[i] = elem
                                             /\ \A j \in 1 .. (i - 1) : lst[j] # elem
       IN  SubSeq(lst, 1, i) \o SubSeq(lst, i + 2, Len(lst))
  ELSE lst

\* the first such element is removed, if there is one
lst_remove(lst, elem) ==
  IF \E i \in 1 .. Len(lst) : lst[i] = elem
  THEN LET i == CHOOSE i \in 1 .. Len(lst) : /\ lst[i] = elem
                                             /\ \A j \in 1 .. (i - 1) : lst[j] # elem
       IN  SubSeq(lst, 1, i - 1) \o SubSeq(lst, i + 1, Len(lst))
  ELSE lst

\* calloc gives an address that is not in use, or zero; both are appended
ext_heap_alloc(heap, mem, holds) ==
  [live |-> IF mem = 0 THEN heap.live
            ELSE [a \in DOMAIN heap.live \union {mem} |->
                    IF a = mem THEN holds ELSE heap.live[a]],
   lst  |-> lst_append(heap.lst, mem)]

\* nothing is done for a null pointer; releasing anything else that is not in use
\* is undefined, and not modelled here
ext_heap_free(heap, mem) ==
  IF mem = 0 THEN heap
  ELSE [live |-> [a \in DOMAIN heap.live \ {mem} |-> heap.live[a]],
        lst  |-> lst_remove(heap.lst, mem)]

\* the number of elements that are left in the list at the end
ext_deinit(heap) == Len(heap.lst)

===============================================================================
