------------------------ MODULE ThreeACReleaseProofs --------------------------
(***************************************************************************)
(* Proofs about ThreeACControl: for every function that the generator may  *)
(* be given, a loop tests its condition again and is left with the stack   *)
(* that it was entered with, and the blocks on the heap that are still in  *)
(* use when the function has returned are the one that it returns and      *)
(* those whose values no variable was given.                               *)
(*                                                                         *)
(* The argument: IInv of ThreeACControlProofs says what is in scope at an  *)
(* instruction, not which instructions stand together.  FormInv does: a    *)
(* label is behind a branch, no name is given twice, a loop has its stack  *)
(* pointer in one name at its start, at its end and where it goes back,    *)
(* a release is one or two instructions behind the call whose value it     *)
(* releases, and what is copied to the heap is returned next.  It is       *)
(* composed from the pieces of the code while it is written.  RunInv says  *)
(* what holds where the code runs: a loop's name notes the height that the *)
(* loop was entered with, and a block in use is about to be released or    *)
(* returned unless its call is one of those above.                         *)
(***************************************************************************)
EXTENDS ThreeACControlProofs, FiniteSetTheorems, FunctionTheorems

Gives  == {"save", "alloca", "call", "strcall", "heap"}   \* instructions that give their name
Enders == Branches \union {"ret"}                        \* what is behind them is not run next

\* the label at the start of a loop
Starts(s, i) == s[i].op = "label" /\ s[i].meant[1].to = "start"

\* a label is behind a branch; a loop's stack pointer is saved behind the label of its
\* start
LabelPlaced(s, i) ==
  /\ s[i].op = "label" => i > 1 /\ s[i - 1].op \in {"br", "cbr"}
  /\ Starts(s, i) => i < Len(s) /\ s[i + 1].op = "save" /\ s[i + 1].open = s[i].open

\* what is released was returned by the call before, or is the copy of what was
FreePlaced(s, i) ==
  s[i].op = "free" =>
    /\ i > 2
    /\ \/ s[i - 2].op = "call" /\ s[i - 2].reg = s[i].reg /\ s[i - 1].op \in {"use", "alloca"}
       \/ s[i - 2].op = "strcall" /\ s[i - 1].op = "alloca" /\ s[i - 1].reg = s[i].reg
StrPlaced(s, i) ==
  s[i].op = "strcall" => i + 2 <= Len(s) /\ s[i + 1].op = "alloca" /\ s[i + 2].op = "free"

\* what is copied to the heap is returned
HeapPlaced(s, i) ==
  s[i].op = "heap" => i < Len(s) /\ s[i + 1].op = "ret" /\ s[i + 1].reg = s[i].reg

Noted(x) ==
  /\ x.op \notin Branches \union {"label"} => x.meant = <<>>
  /\ x.op = "alloca" => x.reg[1] # "block"
  /\ x.op = "cbr" => \A k \in 1 .. 2 : x.meant[k].to # "start"
  /\ x.op \in {"call", "strcall", "heap"} => x.reg[1] = "tmp"

Shaped(s) ==
  \A i \in 1 .. Len(s) :
    /\ LabelPlaced(s, i) /\ FreePlaced(s, i) /\ StrPlaced(s, i) /\ HeapPlaced(s, i)
    /\ Noted(s[i])

\* no name is given twice
Given(s)     == {x.reg : x \in {y \in Elems(s) : y.op \in Gives}}
GivenOnce(s) ==
  \A i, j \in 1 .. Len(s) :
    s[i].op \in Gives /\ s[j].op \in Gives /\ s[i].reg = s[j].reg => i = j

\* the loops of a piece of code, with the names for their stack pointers
Heads(s) == {<<s[i].meant[1].at, s[i + 1].reg>> : i \in {j \in 1 .. Len(s) : Starts(s, j)}}

\* the loop that begins at b has its stack pointer in r: at its start, at its end, and
\* where it goes back to its start
Matched(s, b, r) ==
  \A i \in 1 .. Len(s) :
    /\ Starts(s, i) /\ s[i].meant[1].at = b => s[i + 1].reg = r
    /\ s[i].op = "label" /\ s[i].meant[1] = Place("end", b) =>
         i < Len(s) /\ s[i + 1].op = "restore" /\ s[i + 1].reg = r
    /\ s[i].op = "br" /\ s[i].meant[1] = Place("start", b) =>
         \/ i < Len(s) /\ s[i + 1].op = "label" /\ s[i + 1].to = s[i].to
         \/ i > 1 /\ s[i - 1].op = "restore" /\ s[i - 1].reg = r

\* the places that labels, and branches to the start of loops, are meant for
Tied(x) == x.op = "label" \/ (x.op = "br" /\ x.meant[1].to = "start")
Ats(s)  == {x.meant[1].at : x \in {y \in Elems(s) : Tied(y)}}

Formed(s) == Shaped(s) /\ GivenOnce(s) /\ \A h \in Heads(s) : Matched(s, h[1], h[2])

NamesGiven ==
  \A r \in Given(code) : /\ r[1] = "tmp"   => r[2] \in Nat /\ r[2] < varCount
                         /\ r[1] = "block" => r[2] \in Nat /\ r[2] < labelCountBlock

\* the beginnings of open visits: only a loop has its label there
Begun(v, s) ==
  v.kind \in {"loop", "if", "ifelse", "else"} =>
    /\ v.begin <= Len(s)
    /\ \A h \in Heads(s) : h[1] = v.begin => v.kind = "loop" /\ h[2] = v.block

\* with a value on the heap, what is returned was copied there just before, or the
\* return is the last one, which is not reached
Returns ==
  retty = "heap" =>
    \A i \in 1 .. Len(code) : code[i].op = "ret" =>
      /\ i > 1
      /\ code[i - 1].op = "heap" \/ (i > 2 /\ code[i - 2].op = "ret")

FormInv ==
  /\ Formed(code)
  /\ \A n \in Ats(code) : n <= Len(code)
  /\ NamesGiven /\ Returns
  /\ \A p \in 1 .. Len(visits) : Begun(visits[p], code)
-------------------------------------------------------------------------------
(***************************************************************************)
(* Pieces of code, composed.                                               *)
(***************************************************************************)
LEMMA ConcatPlaces ==
  ASSUME NEW S, NEW s \in Seq(S), NEW t \in Seq(S)
  PROVE  LET u == s \o t
         IN  /\ u \in Seq(S) /\ Len(u) = Len(s) + Len(t)
             /\ \A i \in 1 .. Len(s) : i \in 1 .. Len(u) /\ u[i] = s[i]
             /\ \A j \in 1 .. Len(t) : Len(s) + j \in 1 .. Len(u) /\ u[Len(s) + j] = t[j]
             /\ \A i \in 1 .. Len(u) :
                  i \in 1 .. Len(s) \/ (i > Len(s) /\ i - Len(s) \in 1 .. Len(t))
<1> DEFINE u == s \o t
<1>1. u \in Seq(S) /\ Len(u) = Len(s) + Len(t)
  BY ConcatProperties
<1>2. \A i \in 1 .. Len(u) : u[i] = IF i <= Len(s) THEN s[i] ELSE t[i - Len(s)]
  BY <1>1, ConcatProperties
<1> HIDE DEF u
<1>3. Len(s) \in Nat /\ Len(t) \in Nat
  OBVIOUS
<1>4. \A i \in 1 .. Len(s) : i \in 1 .. Len(u) /\ u[i] = s[i]
  BY <1>1, <1>2, <1>3
<1>5. ASSUME NEW j \in 1 .. Len(t)
      PROVE  Len(s) + j \in 1 .. Len(u) /\ u[Len(s) + j] = t[j]
  <2>1. Len(s) + j \in 1 .. Len(u) /\ ~(Len(s) + j <= Len(s)) /\ (Len(s) + j) - Len(s) = j
    BY <1>1, <1>3
  <2>2. QED
    BY <1>2, <2>1
<1>6. \A i \in 1 .. Len(u) : i \in 1 .. Len(s) \/ (i > Len(s) /\ i - Len(s) \in 1 .. Len(t))
  BY <1>1, <1>3
<1>7. QED
  BY <1>1, <1>4, <1>5, <1>6 DEF u

\* what is placed right in a piece of code is so in a longer one
Placed(u, k, s, i) ==
  /\ LabelPlaced(u, k) /\ FreePlaced(u, k) /\ StrPlaced(u, k) /\ HeapPlaced(u, k)
  /\ Noted(u[k])
  /\ Starts(u, k) <=> Starts(s, i)
  /\ Starts(u, k) => u[k + 1] = s[i + 1]

LEMMA PlacedIn ==
  ASSUME NEW s, NEW u, NEW n \in Nat, Len(s) \in Nat, Len(u) \in Nat, n + Len(s) <= Len(u),
         \A j \in 1 .. Len(s) : u[n + j] = s[j],
         Shaped(s), NEW i \in 1 .. Len(s)
  PROVE  Placed(u, n + i, s, i)
<1>1. /\ LabelPlaced(s, i) /\ FreePlaced(s, i) /\ StrPlaced(s, i) /\ HeapPlaced(s, i)
      /\ Noted(s[i])
  BY DEF Shaped
<1>2. u[n + i] = s[i]
  OBVIOUS
<1>3. /\ i > 1 => u[(n + i) - 1] = s[i - 1]
      /\ i > 2 => u[(n + i) - 2] = s[i - 2]
      /\ i < Len(s) => u[(n + i) + 1] = s[i + 1]
      /\ i + 2 <= Len(s) => u[(n + i) + 2] = s[i + 2]
  <2>1. i > 1 => i - 1 \in 1 .. Len(s) /\ n + (i - 1) = (n + i) - 1
    OBVIOUS
  <2>2. i > 2 => i - 2 \in 1 .. Len(s) /\ n + (i - 2) = (n + i) - 2
    OBVIOUS
  <2>3. i < Len(s) => i + 1 \in 1 .. Len(s) /\ n + (i + 1) = (n + i) + 1
    OBVIOUS
  <2>4. i + 2 <= Len(s) => i + 2 \in 1 .. Len(s) /\ n + (i + 2) = (n + i) + 2
    OBVIOUS
  <2>5. \A j : j \in 1 .. Len(s) => u[n + j] = s[j]
    OBVIOUS
  <2>6. i > 1 => u[(n + i) - 1] = s[i - 1]
    BY <2>1, <2>5
  <2>7. i > 2 => u[(n + i) - 2] = s[i - 2]
    BY <2>2, <2>5
  <2>8. i < Len(s) => u[(n + i) + 1] = s[i + 1]
    BY <2>3, <2>5
  <2>9. i + 2 <= Len(s) => u[(n + i) + 2] = s[i + 2]
    BY <2>4, <2>5
  <2>10. QED
    BY <2>6, <2>7, <2>8, <2>9
<1>4. /\ i > 1 => n + i > 1
      /\ i > 2 => n + i > 2
      /\ i < Len(s) => n + i < Len(u)
      /\ i + 2 <= Len(s) => (n + i) + 2 <= Len(u)
  OBVIOUS
<1>5. Starts(u, n + i) <=> Starts(s, i)
  BY <1>2 DEF Starts
<1>6. Starts(u, n + i) => i < Len(s) /\ u[(n + i) + 1] = s[i + 1]
  BY <1>1, <1>3, <1>5 DEF LabelPlaced
<1>7. LabelPlaced(u, n + i)
  BY <1>1, <1>2, <1>3, <1>4, <1>5, <1>6 DEF LabelPlaced
<1>8. FreePlaced(u, n + i)
  BY <1>1, <1>2, <1>3, <1>4 DEF FreePlaced
<1>9. StrPlaced(u, n + i)
  <2>1. ASSUME s[i].op = "strcall"
        PROVE  (n + i) + 2 <= Len(u) /\ u[(n + i) + 1].op = "alloca" /\ u[(n + i) + 2].op = "free"
    <3>1. i + 2 <= Len(s) /\ s[i + 1].op = "alloca" /\ s[i + 2].op = "free" /\ i < Len(s)
      BY <1>1, <2>1 DEF StrPlaced
    <3>2. QED
      BY <1>3, <1>4, <3>1
  <2>2. QED
    BY <1>2, <2>1 DEF StrPlaced
<1>10. HeapPlaced(u, n + i)
  BY <1>1, <1>2, <1>3, <1>4 DEF HeapPlaced
<1>11. Noted(u[n + i])
  BY <1>1, <1>2
<1>12. QED
  BY <1>5, <1>6, <1>7, <1>8, <1>9, <1>10, <1>11 DEF Placed

\* the same for what ties a loop to the name for its stack pointer
MatchedAt(s, i, b, r) ==
  /\ Starts(s, i) /\ s[i].meant[1].at = b => s[i + 1].reg = r
  /\ s[i].op = "label" /\ s[i].meant[1] = Place("end", b) =>
       i < Len(s) /\ s[i + 1].op = "restore" /\ s[i + 1].reg = r
  /\ s[i].op = "br" /\ s[i].meant[1] = Place("start", b) =>
       \/ i < Len(s) /\ s[i + 1].op = "label" /\ s[i + 1].to = s[i].to
       \/ i > 1 /\ s[i - 1].op = "restore" /\ s[i - 1].reg = r

LEMMA MatchedEach ==
  ASSUME NEW s, NEW b, NEW r
  PROVE  Matched(s, b, r) <=> \A i \in 1 .. Len(s) : MatchedAt(s, i, b, r)
BY Zenon DEF Matched, MatchedAt

LEMMA MatchedIn ==
  ASSUME NEW s, NEW u, NEW n \in Nat, Len(s) \in Nat, Len(u) \in Nat, n + Len(s) <= Len(u),
         \A j \in 1 .. Len(s) : u[n + j] = s[j],
         Shaped(s), NEW b, NEW r, NEW i \in 1 .. Len(s), MatchedAt(s, i, b, r)
  PROVE  MatchedAt(u, n + i, b, r)
<1>1. /\ Starts(u, n + i) <=> Starts(s, i)
      /\ Starts(u, n + i) => u[(n + i) + 1] = s[i + 1]
  BY PlacedIn DEF Placed
<1>2. u[n + i] = s[i]
  OBVIOUS
<1>3. /\ i > 1 => u[(n + i) - 1] = s[i - 1] /\ n + i > 1
      /\ i < Len(s) => u[(n + i) + 1] = s[i + 1] /\ n + i < Len(u)
  <2>1. i > 1 => i - 1 \in 1 .. Len(s) /\ n + (i - 1) = (n + i) - 1 /\ n + i > 1
    OBVIOUS
  <2>2. i < Len(s) => i + 1 \in 1 .. Len(s) /\ n + (i + 1) = (n + i) + 1 /\ n + i < Len(u)
    OBVIOUS
  <2>3. \A j : j \in 1 .. Len(s) => u[n + j] = s[j]
    OBVIOUS
  <2>4. QED
    BY <2>1, <2>2, <2>3
<1>4. QED
  BY <1>1, <1>2, <1>3 DEF MatchedAt

LEMMA ShapedConcat ==
  ASSUME NEW s \in Seq(Instrs), NEW t \in Seq(Instrs), Shaped(s), Shaped(t)
  PROVE  /\ Shaped(s \o t)
         /\ Heads(s \o t) = Heads(s) \union Heads(t)
         /\ \A b, r : Matched(s, b, r) /\ Matched(t, b, r) => Matched(s \o t, b, r)
<1> DEFINE u == s \o t
           n == Len(s)
<1>1. /\ u \in Seq(Instrs) /\ Len(u) = n + Len(t) /\ n \in Nat /\ Len(t) \in Nat /\ Len(u) \in Nat
      /\ \A i \in 1 .. n : i \in 1 .. Len(u) /\ u[i] = s[i]
      /\ \A j \in 1 .. Len(t) : n + j \in 1 .. Len(u) /\ u[n + j] = t[j]
      /\ \A i \in 1 .. Len(u) : i \in 1 .. n \/ (i > n /\ i - n \in 1 .. Len(t))
  BY ConcatPlaces
<1> HIDE DEF u
<1>2. \A i \in 1 .. n : 0 + i = i /\ u[0 + i] = s[i]
  BY <1>1
<1>3. 0 + Len(s) <= Len(u) /\ n + Len(t) <= Len(u)
  BY <1>1
<1>4. ASSUME NEW i \in 1 .. n
      PROVE  /\ Placed(u, i, s, i)
             /\ \A b, r : MatchedAt(s, i, b, r) => MatchedAt(u, i, b, r)
  <2>1. Placed(u, 0 + i, s, i)
    BY <1>1, <1>2, <1>3, PlacedIn
  <2>2. \A b, r : MatchedAt(s, i, b, r) => MatchedAt(u, 0 + i, b, r)
    BY <1>1, <1>2, <1>3, MatchedIn
  <2>3. 0 + i = i
    OBVIOUS
  <2>4. QED
    BY <2>1, <2>2, <2>3
<1>5. ASSUME NEW j \in 1 .. Len(t)
      PROVE  /\ Placed(u, n + j, t, j)
             /\ \A b, r : MatchedAt(t, j, b, r) => MatchedAt(u, n + j, b, r)
  <2>1. \A k \in 1 .. Len(t) : u[n + k] = t[k]
    BY <1>1
  <2>2. Placed(u, n + j, t, j)
    BY <1>1, <1>3, <2>1, PlacedIn
  <2>3. \A b, r : MatchedAt(t, j, b, r) => MatchedAt(u, n + j, b, r)
    BY <1>1, <1>3, <2>1, MatchedIn
  <2>4. QED
    BY <2>2, <2>3
<1>6. \A i \in 1 .. Len(u) : i \in 1 .. n \/ \E j \in 1 .. Len(t) : i = n + j
  <2>1. ASSUME NEW i \in 1 .. Len(u), i > n, i - n \in 1 .. Len(t) PROVE \E j \in 1 .. Len(t) : i = n + j
    <3>1. i = n + (i - n)
      BY <1>1
    <3>2. QED
      BY <2>1, <3>1
  <2>2. QED
    BY <1>1, <2>1
<1>7. Shaped(u)
  BY <1>4, <1>5, <1>6 DEF Shaped, Placed
<1>8. Heads(u) \subseteq Heads(s) \union Heads(t)
  <2>1. ASSUME NEW i \in 1 .. Len(u), Starts(u, i)
        PROVE  <<u[i].meant[1].at, u[i + 1].reg>> \in Heads(s) \union Heads(t)
    <3>1. CASE i \in 1 .. n
      <4>1. Starts(s, i) /\ u[i + 1] = s[i + 1] /\ u[i] = s[i]
        BY <1>1, <1>4, <2>1, <3>1 DEF Placed
      <4>2. QED
        BY <3>1, <4>1 DEF Heads
    <3>2. CASE \E j \in 1 .. Len(t) : i = n + j
      <4>1. PICK j \in 1 .. Len(t) : i = n + j
        BY <3>2
      <4>2. Starts(t, j) /\ u[i + 1] = t[j + 1] /\ u[i] = t[j]
        BY <1>1, <1>5, <2>1, <4>1 DEF Placed
      <4>3. QED
        BY <4>2 DEF Heads
    <3>3. QED
      BY <1>6, <3>1, <3>2
  <2>2. QED
    BY <2>1 DEF Heads
<1>9. Heads(s) \subseteq Heads(u)
  <2>1. ASSUME NEW i \in 1 .. Len(s), Starts(s, i)
        PROVE  <<s[i].meant[1].at, s[i + 1].reg>> \in Heads(u)
    <3>1. Starts(u, i) /\ u[i + 1] = s[i + 1] /\ u[i] = s[i] /\ i \in 1 .. Len(u)
      BY <1>1, <1>4, <2>1 DEF Placed
    <3>2. QED
      BY <3>1 DEF Heads
  <2>2. QED
    BY <2>1 DEF Heads
<1>10. Heads(t) \subseteq Heads(u)
  <2>1. ASSUME NEW j \in 1 .. Len(t), Starts(t, j)
        PROVE  <<t[j].meant[1].at, t[j + 1].reg>> \in Heads(u)
    <3>1. Starts(u, n + j) /\ u[(n + j) + 1] = t[j + 1] /\ u[n + j] = t[j] /\ n + j \in 1 .. Len(u)
      BY <1>1, <1>5, <2>1 DEF Placed
    <3>2. QED
      BY <3>1 DEF Heads
  <2>2. QED
    BY <2>1 DEF Heads
<1>11. ASSUME NEW b, NEW r, Matched(s, b, r), Matched(t, b, r) PROVE Matched(u, b, r)
  <2>1. \A i \in 1 .. n : MatchedAt(s, i, b, r)
    BY <1>11, MatchedEach
  <2>2. \A j \in 1 .. Len(t) : MatchedAt(t, j, b, r)
    BY <1>11, MatchedEach
  <2>3. ASSUME NEW i \in 1 .. Len(u) PROVE MatchedAt(u, i, b, r)
    <3>1. CASE i \in 1 .. n
      BY <1>4, <2>1, <3>1
    <3>2. CASE \E j \in 1 .. Len(t) : i = n + j
      <4>1. PICK j \in 1 .. Len(t) : i = n + j
        BY <3>2
      <4>2. MatchedAt(t, j, b, r)
        BY <2>2
      <4>3. MatchedAt(u, n + j, b, r)
        BY <1>5, <4>2
      <4>4. QED
        BY <4>1, <4>3
    <3>3. QED
      BY <1>6, <3>1, <3>2
  <2>4. QED
    BY <2>3, MatchedEach
<1>12. Heads(u) = Heads(s) \union Heads(t)
  BY <1>8, <1>9, <1>10
<1>13. QED
  BY <1>7, <1>11, <1>12 DEF u

LEMMA GivenConcat ==
  ASSUME NEW s \in Seq(Instrs), NEW t \in Seq(Instrs)
  PROVE  /\ Given(s \o t) = Given(s) \union Given(t)
         /\ Ats(s \o t) = Ats(s) \union Ats(t)
         /\ GivenOnce(s) /\ GivenOnce(t) /\ Given(s) \intersect Given(t) = {} => GivenOnce(s \o t)
<1> DEFINE u == s \o t
           n == Len(s)
<1>1. /\ u \in Seq(Instrs) /\ Len(u) = n + Len(t) /\ n \in Nat /\ Len(t) \in Nat
      /\ \A i \in 1 .. n : i \in 1 .. Len(u) /\ u[i] = s[i]
      /\ \A j \in 1 .. Len(t) : n + j \in 1 .. Len(u) /\ u[n + j] = t[j]
      /\ \A i \in 1 .. Len(u) : i \in 1 .. n \/ (i > n /\ i - n \in 1 .. Len(t))
  BY ConcatPlaces
<1>2. Elems(u) = Elems(s) \union Elems(t)
  BY ConcatElems
<1> HIDE DEF u
<1>3. Given(u) = Given(s) \union Given(t)
  BY <1>2 DEF Given
<1>4. Ats(u) = Ats(s) \union Ats(t)
  BY <1>2 DEF Ats
<1>5. ASSUME GivenOnce(s), GivenOnce(t), Given(s) \intersect Given(t) = {} PROVE GivenOnce(u)
  <2>1. ASSUME NEW i \in 1 .. n, u[i].op \in Gives PROVE u[i].reg \in Given(s) /\ u[i] = s[i]
    BY <1>1, <2>1 DEF Given, Elems
  <2>2. ASSUME NEW i \in 1 .. Len(u), i > n, i - n \in 1 .. Len(t), u[i].op \in Gives
        PROVE  u[i].reg \in Given(t) /\ u[i] = t[i - n]
    <3>1. n + (i - n) = i
      BY <1>1
    <3>2. u[i] = t[i - n]
      BY <1>1, <2>2, <3>1
    <3>3. QED
      BY <2>2, <3>2 DEF Given, Elems
  <2>3. SUFFICES ASSUME NEW i \in 1 .. Len(u), NEW j \in 1 .. Len(u), u[i].op \in Gives,
                        u[j].op \in Gives, u[i].reg = u[j].reg
                 PROVE  i = j
    BY DEF GivenOnce
  <2>4. CASE i \in 1 .. n /\ j \in 1 .. n
    BY <1>5, <2>1, <2>3, <2>4 DEF GivenOnce
  <2>5. CASE i > n /\ i - n \in 1 .. Len(t) /\ j > n /\ j - n \in 1 .. Len(t)
    <3>1. i - n = j - n
      BY <1>5, <2>2, <2>3, <2>5 DEF GivenOnce
    <3>2. QED
      BY <1>1, <3>1
  <2>6. CASE i \in 1 .. n /\ j > n /\ j - n \in 1 .. Len(t)
    BY <1>5, <2>1, <2>2, <2>3, <2>6
  <2>7. CASE j \in 1 .. n /\ i > n /\ i - n \in 1 .. Len(t)
    BY <1>5, <2>1, <2>2, <2>3, <2>7
  <2>8. QED
    BY <1>1, <2>4, <2>5, <2>6, <2>7
<1>6. QED
  BY <1>3, <1>4, <1>5 DEF u

\* where nothing is tied to b, nothing is there to match
LEMMA MatchedOther ==
  ASSUME NEW s, NEW b, b \notin Ats(s), NEW r
  PROVE  Matched(s, b, r)
<1>1. ASSUME NEW i \in 1 .. Len(s), Tied(s[i]) PROVE s[i].meant[1].at # b
  BY <1>1 DEF Ats, Elems
<1>2. Place("end", b).at = b /\ Place("start", b).at = b /\ Place("start", b).to = "start"
  BY DEF Place
<1>3. QED
  BY <1>1, <1>2 DEF Matched, Starts, Tied

\* a piece of code that gives the names G, has the loops H, and is tied to places in A
Form(s, G, H, A) ==
  /\ Sound(s) /\ Shaped(s) /\ GivenOnce(s)
  /\ Given(s) = G /\ Heads(s) = H /\ Ats(s) \subseteq A
  /\ \A h \in H : Matched(s, h[1], h[2])

LEMMA FormConcat ==
  ASSUME NEW s, NEW t, NEW G1, NEW G2, NEW H1, NEW H2, NEW A1, NEW A2,
         Form(s, G1, H1, A1), Form(t, G2, H2, A2), G1 \intersect G2 = {},
         \A h \in H1 : Matched(t, h[1], h[2]), \A h \in H2 : Matched(s, h[1], h[2])
  PROVE  Form(s \o t, G1 \union G2, H1 \union H2, A1 \union A2)
<1>1. s \in Seq(Instrs) /\ t \in Seq(Instrs) /\ Shaped(s) /\ Shaped(t)
  BY DEF Form, Sound
<1>2. Sound(s \o t)
  BY SoundConcat DEF Form
<1>3. /\ Shaped(s \o t) /\ Heads(s \o t) = Heads(s) \union Heads(t)
      /\ \A b, r : Matched(s, b, r) /\ Matched(t, b, r) => Matched(s \o t, b, r)
  BY <1>1, ShapedConcat
<1>4. /\ Given(s \o t) = Given(s) \union Given(t) /\ Ats(s \o t) = Ats(s) \union Ats(t)
      /\ GivenOnce(s \o t)
  BY <1>1, GivenConcat DEF Form
<1>5. QED
  BY <1>2, <1>3, <1>4 DEF Form
-------------------------------------------------------------------------------
(***************************************************************************)
(* The pieces that the generator writes.                                   *)
(***************************************************************************)
\* code without a return that gives at most the names X
NoRet(s) == \A x \in Elems(s) : x.op # "ret"
Fits(s, X, H, A) == Form(s, Given(s), H, A) /\ Given(s) \subseteq X /\ NoRet(s)

LEMMA FitsConcat ==
  ASSUME NEW s, NEW t, NEW X1, NEW X2, NEW H1, NEW H2, NEW A1, NEW A2,
         Fits(s, X1, H1, A1), Fits(t, X2, H2, A2), X1 \intersect X2 = {},
         \A h \in H1 : Matched(t, h[1], h[2]), \A h \in H2 : Matched(s, h[1], h[2])
  PROVE  Fits(s \o t, X1 \union X2, H1 \union H2, A1 \union A2)
<1>1. Form(s, Given(s), H1, A1) /\ Form(t, Given(t), H2, A2)
  BY DEF Fits
<1>2. Given(s) \intersect Given(t) = {}
  BY DEF Fits
<1>3. Form(s \o t, Given(s) \union Given(t), H1 \union H2, A1 \union A2)
  BY <1>1, <1>2, FormConcat
<1>4. Given(s \o t) = Given(s) \union Given(t)
  BY <1>3 DEF Form
<1>5. Elems(s \o t) = Elems(s) \union Elems(t)
  BY <1>1, SoundConcat DEF Form
<1>6. NoRet(s \o t)
  BY <1>5 DEF Fits, NoRet
<1>7. QED
  BY <1>3, <1>4, <1>6 DEF Fits

LEMMA FitsMore ==
  ASSUME NEW s, NEW X, NEW Y, NEW H, NEW A, NEW B, Fits(s, X, H, A), X \subseteq Y, A \subseteq B
  PROVE  Fits(s, Y, H, B)
BY DEF Fits, Form

\* code without labels and branches
LEMMA PlainForm ==
  ASSUME NEW s, Plain(s), GivenOnce(s),
         \A i \in 1 .. Len(s) : FreePlaced(s, i) /\ StrPlaced(s, i) /\ HeapPlaced(s, i)
                                /\ Noted(s[i])
  PROVE  Form(s, Given(s), {}, {})
<1>1. \A i \in 1 .. Len(s) : s[i].op \notin Branches \union {"label"}
  BY DEF Plain, Elems
<1>2. \A i \in 1 .. Len(s) : ~Starts(s, i) /\ LabelPlaced(s, i)
  BY <1>1 DEF Starts, LabelPlaced
<1>3. Shaped(s)
  BY <1>2 DEF Shaped
<1>4. Heads(s) = {}
  BY <1>2 DEF Heads
<1>5. Ats(s) = {}
  BY DEF Ats, Plain, Tied, Branches
<1>6. QED
  BY <1>3, <1>4, <1>5 DEF Form, Plain

LEMMA Matched0 ==
  ASSUME NEW s, NEW X, NEW H, Fits(s, X, H, {}), NEW b, NEW r
  PROVE  Matched(s, b, r)
<1>1. Ats(s) = {}
  BY DEF Fits, Form
<1>2. QED
  BY <1>1, MatchedOther

LEMMA FitsOne ==
  ASSUME NEW op \in {"save", "restore", "alloca", "use", "call", "ret"}, NEW r \in Regs,
         NEW o \in Seq(Names),
         op \in {"save", "alloca", "call"} => r \in Names,
         op = "save" => r[1] = "block", op = "call" => r[1] = "tmp",
         op = "alloca" => r[1] # "block"
  PROVE  LET s == << Do(op, r, o) >>
         IN  /\ Form(s, Given(s), {}, {})
             /\ Given(s) = IF op \in Gives THEN {r} ELSE {}
             /\ op # "ret" => Fits(s, {r}, {}, {})
             /\ op # "ret" /\ op \notin Gives => Fits(s, {}, {}, {})
<1> DEFINE x == Do(op, r, o)
           s == <<x>>
<1>1. op \in Ops \ (Branches \union {"label"})
  BY DEF Ops, Branches
<1>2. Plain(s) /\ x \in Instrs
  BY <1>1, PlainDo
<1>3. x.op = op /\ x.reg = r /\ x.meant = <<>>
  BY <1>1, DoType
<1> HIDE DEF x
<1>4. Len(s) = 1 /\ s[1] = x /\ Elems(s) = {x}
  BY <1>2, Tuple1
<1> HIDE DEF s
<1>5. Noted(x)
  BY <1>1, <1>3 DEF Noted, Branches
<1>6. ASSUME NEW i \in 1 .. Len(s)
      PROVE  FreePlaced(s, i) /\ StrPlaced(s, i) /\ HeapPlaced(s, i) /\ Noted(s[i])
  <2>1. i = 1
    BY <1>4
  <2>2. QED
    BY <1>3, <1>4, <1>5, <2>1 DEF FreePlaced, StrPlaced, HeapPlaced
<1>7. GivenOnce(s)
  BY <1>4 DEF GivenOnce
<1>8. Form(s, Given(s), {}, {})
  BY <1>2, <1>6, <1>7, PlainForm
<1>9. Given(s) = IF op \in Gives THEN {r} ELSE {}
  BY <1>3, <1>4 DEF Given
<1>10. op # "ret" => NoRet(s)
  BY <1>3, <1>4 DEF NoRet
<1>11. QED
  BY <1>8, <1>9, <1>10 DEF Fits, s, x

LEMMA Pair ==
  ASSUME NEW S, NEW x \in S, NEW y \in S
  PROVE  <<x>> \o <<y>> = <<x, y>>
<1>1. <<x>> \in Seq(S) /\ Len(<<x>>) = 1
  OBVIOUS
<1>2. <<x>> \o <<y>> = Append(<<x>>, y)
  BY <1>1, ConcatOne
<1>3. Append(<<x>>, y) = <<x, y>>
  <2>1. /\ Append(<<x>>, y) \in Seq(S) /\ Len(Append(<<x>>, y)) = 2
        /\ <<x, y>> \in Seq(S) /\ Len(<<x, y>>) = 2
    OBVIOUS
  <2>2. \A i \in 1 .. 2 : Append(<<x>>, y)[i] = <<x, y>>[i]
    OBVIOUS
  <2>3. QED
    BY <2>1, <2>2, SeqEqual
<1>4. QED
  BY <1>2, <1>3

LEMMA OneSound ==
  ASSUME NEW x, NEW X, NEW H, NEW A, Fits(<<x>>, X, H, A)
  PROVE  x \in Instrs
<1>1. <<x>> \in Seq(Instrs)
  BY DEF Fits, Form, Sound
<1>2. Len(<<x>>) = 1 /\ <<x>>[1] = x
  OBVIOUS
<1>3. QED
  BY <1>1, <1>2

\* three instructions, of which the last releases what the others made
LEMMA FitsFreed ==
  ASSUME NEW k \in Nat, NEW o1 \in Seq(Names), NEW o2 \in Seq(Names), NEW o3 \in Seq(Names),
         NEW s,
         \/ s = <<Do("call", Tmp(k), o1), Do("alloca", Tmp(k + 1), o2), Do("free", Tmp(k), o3)>>
         \/ s = <<Do("strcall", Tmp(k), o1), Do("alloca", Tmp(k + 1), o2),
                  Do("free", Tmp(k + 1), o3)>>
  PROVE  Fits(s, {Tmp(k), Tmp(k + 1)}, {}, {})
<1>1. PICK op \in {"call", "strcall"}, fr \in {Tmp(k), Tmp(k + 1)} :
        /\ s = <<Do(op, Tmp(k), o1), Do("alloca", Tmp(k + 1), o2), Do("free", fr, o3)>>
        /\ fr = IF op = "call" THEN Tmp(k) ELSE Tmp(k + 1)
  BY Zenon
<1> DEFINE x == Do(op, Tmp(k), o1)
           y == Do("alloca", Tmp(k + 1), o2)
           z == Do("free", fr, o3)
<1>2. /\ Tmp(k) \in Names /\ Tmp(k + 1) \in Names /\ Tmp(k) # Tmp(k + 1)
      /\ Tmp(k)[1] = "tmp" /\ Tmp(k + 1)[1] = "tmp"
      /\ Tmp(k) \in Regs /\ Tmp(k + 1) \in Regs /\ fr \in Regs
  <2>1. k + 1 \in Nat /\ k + 1 # k
    OBVIOUS
  <2>2. QED
    BY <1>1, <2>1, NameTypes
<1>3. /\ op \in Ops \ (Branches \union {"label"}) /\ "alloca" \in Ops \ (Branches \union {"label"})
      /\ "free" \in Ops \ (Branches \union {"label"})
  BY DEF Ops, Branches
<1>4. Plain(<<x>>) /\ Plain(<<y>>) /\ Plain(<<z>>) /\ x \in Instrs /\ y \in Instrs /\ z \in Instrs
  BY <1>2, <1>3, PlainDo
<1>5. /\ x.op = op /\ x.reg = Tmp(k) /\ x.meant = <<>>
      /\ y.op = "alloca" /\ y.reg = Tmp(k + 1) /\ y.meant = <<>>
      /\ z.op = "free" /\ z.reg = fr /\ z.meant = <<>>
  BY <1>2, <1>3, DoType
<1>6. s = <<x, y, z>>
  BY <1>1
<1> HIDE DEF x, y, z
<1>7. Plain(s)
  BY <1>4, <1>6, Plain3
<1>8. Len(s) = 3 /\ s[1] = x /\ s[2] = y /\ s[3] = z /\ Elems(s) = {x, y, z}
  BY <1>4, <1>6, Tuple3
<1>9. Noted(x) /\ Noted(y) /\ Noted(z)
  BY <1>2, <1>5 DEF Noted, Branches
<1>10. ASSUME NEW i \in 1 .. Len(s)
       PROVE  FreePlaced(s, i) /\ StrPlaced(s, i) /\ HeapPlaced(s, i) /\ Noted(s[i])
  <2>1. CASE i = 1
    BY <1>5, <1>8, <1>9, <2>1 DEF FreePlaced, StrPlaced, HeapPlaced
  <2>2. CASE i = 2
    BY <1>5, <1>8, <1>9, <2>2 DEF FreePlaced, StrPlaced, HeapPlaced
  <2>3. CASE i = 3
    <3>1. i - 2 = 1 /\ i - 1 = 2 /\ i > 2
      BY <2>3
    <3>2. FreePlaced(s, i)
      BY <1>1, <1>5, <1>8, <3>1, <2>3 DEF FreePlaced
    <3>3. StrPlaced(s, i) /\ HeapPlaced(s, i)
      BY <1>5, <1>8, <2>3 DEF StrPlaced, HeapPlaced
    <3>4. QED
      BY <1>8, <1>9, <2>3, <3>2, <3>3
  <2>4. QED
    BY <1>8, <2>1, <2>2, <2>3
<1>11. GivenOnce(s)
  <2>1. \A i \in 1 .. Len(s) : i = 1 \/ i = 2 \/ i = 3
    BY <1>8
  <2>2. s[3].op \notin Gives
    BY <1>5, <1>8 DEF Gives
  <2>3. s[1].reg # s[2].reg
    BY <1>2, <1>5, <1>8
  <2>4. QED
    BY <2>1, <2>2, <2>3 DEF GivenOnce
<1>12. Given(s) \subseteq {Tmp(k), Tmp(k + 1)}
  BY <1>5, <1>8 DEF Given, Gives
<1>13. NoRet(s)
  BY <1>5, <1>8 DEF NoRet
<1>14. QED
  BY <1>7, <1>10, <1>11, <1>12, <1>13, PlainForm DEF Fits

LEMMA FitsStored ==
  ASSUME NEW k \in Nat, NEW r \in Regs, NEW o1 \in Seq(Names), NEW o2 \in Seq(Names),
         NEW o3 \in Seq(Names)
  PROVE  Fits(<<Do("call", Tmp(k), o1), Do("use", r, o2), Do("free", Tmp(k), o3)>>,
              {Tmp(k)}, {}, {})
<1> DEFINE x == Do("call", Tmp(k), o1)
           y == Do("use", r, o2)
           z == Do("free", Tmp(k), o3)
           s == <<x, y, z>>
<1>2. Tmp(k) \in Names /\ Tmp(k)[1] = "tmp" /\ Tmp(k) \in Regs
  BY NameTypes
<1>3. /\ "call" \in Ops \ (Branches \union {"label"}) /\ "use" \in Ops \ (Branches \union {"label"})
      /\ "free" \in Ops \ (Branches \union {"label"})
  BY DEF Ops, Branches
<1>4. Plain(<<x>>) /\ Plain(<<y>>) /\ Plain(<<z>>) /\ x \in Instrs /\ y \in Instrs /\ z \in Instrs
  BY <1>2, <1>3, PlainDo
<1>5. /\ x.op = "call" /\ x.reg = Tmp(k) /\ x.meant = <<>>
      /\ y.op = "use" /\ y.reg = r /\ y.meant = <<>>
      /\ z.op = "free" /\ z.reg = Tmp(k) /\ z.meant = <<>>
  BY <1>2, <1>3, DoType
<1> HIDE DEF x, y, z
<1>7. Plain(s)
  BY <1>4, Plain3
<1>8. Len(s) = 3 /\ s[1] = x /\ s[2] = y /\ s[3] = z /\ Elems(s) = {x, y, z}
  BY <1>4, Tuple3
<1> HIDE DEF s
<1>9. Noted(x) /\ Noted(y) /\ Noted(z)
  BY <1>2, <1>5 DEF Noted, Branches
<1>10. ASSUME NEW i \in 1 .. Len(s)
       PROVE  FreePlaced(s, i) /\ StrPlaced(s, i) /\ HeapPlaced(s, i) /\ Noted(s[i])
  <2>1. CASE i = 1
    BY <1>5, <1>8, <1>9, <2>1 DEF FreePlaced, StrPlaced, HeapPlaced
  <2>2. CASE i = 2
    BY <1>5, <1>8, <1>9, <2>2 DEF FreePlaced, StrPlaced, HeapPlaced
  <2>3. CASE i = 3
    <3>1. i - 2 = 1 /\ i - 1 = 2 /\ i > 2
      BY <2>3
    <3>2. FreePlaced(s, i)
      BY <1>5, <1>8, <3>1, <2>3 DEF FreePlaced
    <3>3. StrPlaced(s, i) /\ HeapPlaced(s, i)
      BY <1>5, <1>8, <2>3 DEF StrPlaced, HeapPlaced
    <3>4. QED
      BY <1>8, <1>9, <2>3, <3>2, <3>3
  <2>4. QED
    BY <1>8, <2>1, <2>2, <2>3
<1>11. GivenOnce(s)
  <2>1. \A i \in 1 .. Len(s) : i = 1 \/ i = 2 \/ i = 3
    BY <1>8
  <2>2. s[3].op \notin Gives /\ s[2].op \notin Gives
    BY <1>5, <1>8 DEF Gives
  <2>3. QED
    BY <2>1, <2>2 DEF GivenOnce
<1>12. Given(s) \subseteq {Tmp(k)}
  BY <1>5, <1>8 DEF Given, Gives
<1>13. NoRet(s)
  BY <1>5, <1>8 DEF NoRet
<1>14. Fits(s, {Tmp(k)}, {}, {})
  BY <1>7, <1>10, <1>11, <1>12, <1>13, PlainForm DEF Fits
<1>15. QED
  BY <1>14 DEF s, x, y, z

LEMMA FormReturned ==
  ASSUME NEW k \in Nat, NEW o \in Seq(Names)
  PROVE  LET s == <<Do("heap", Tmp(k), o), Do("ret", Tmp(k), o)>>
         IN  Form(s, Given(s), {}, {}) /\ Given(s) \subseteq {Tmp(k)}
<1> DEFINE x == Do("heap", Tmp(k), o)
           y == Do("ret", Tmp(k), o)
           s == <<x, y>>
<1>2. Tmp(k) \in Names /\ Tmp(k)[1] = "tmp" /\ Tmp(k) \in Regs
  BY NameTypes
<1>3. /\ "heap" \in Ops \ (Branches \union {"label"}) /\ "ret" \in Ops \ (Branches \union {"label"})
  BY DEF Ops, Branches
<1>4. Plain(<<x>>) /\ Plain(<<y>>) /\ x \in Instrs /\ y \in Instrs
  BY <1>2, <1>3, PlainDo
<1>5. /\ x.op = "heap" /\ x.reg = Tmp(k) /\ x.meant = <<>>
      /\ y.op = "ret" /\ y.reg = Tmp(k) /\ y.meant = <<>>
  BY <1>2, <1>3, DoType
<1> HIDE DEF x, y
<1>7. Plain(s)
  BY <1>4, Plain2
<1>8. Len(s) = 2 /\ s[1] = x /\ s[2] = y /\ Elems(s) = {x, y}
  BY <1>4, Tuple2
<1> HIDE DEF s
<1>9. Noted(x) /\ Noted(y)
  BY <1>2, <1>5 DEF Noted, Branches
<1>10. ASSUME NEW i \in 1 .. Len(s)
       PROVE  FreePlaced(s, i) /\ StrPlaced(s, i) /\ HeapPlaced(s, i) /\ Noted(s[i])
  <2>1. CASE i = 1
    <3>1. i < Len(s) /\ i + 1 = 2
      BY <1>8, <2>1
    <3>2. QED
      BY <1>5, <1>8, <1>9, <2>1, <3>1 DEF FreePlaced, StrPlaced, HeapPlaced
  <2>2. CASE i = 2
    BY <1>5, <1>8, <1>9, <2>2 DEF FreePlaced, StrPlaced, HeapPlaced
  <2>4. QED
    BY <1>8, <2>1, <2>2
<1>11. GivenOnce(s)
  <2>1. \A i \in 1 .. Len(s) : i = 1 \/ i = 2
    BY <1>8
  <2>2. s[2].op \notin Gives
    BY <1>5, <1>8 DEF Gives
  <2>3. QED
    BY <2>1, <2>2 DEF GivenOnce
<1>12. Given(s) \subseteq {Tmp(k)}
  BY <1>5, <1>8 DEF Given, Gives
<1>14. Form(s, Given(s), {}, {}) /\ Given(s) \subseteq {Tmp(k)}
  BY <1>7, <1>10, <1>11, <1>12, PlainForm
<1>15. QED
  BY <1>14 DEF s, x, y

\* the code of an expression, which may be stored
LEMMA FitsEval ==
  ASSUME NEW e \in {"const", "array", "string", "comp"}, NEW k \in Nat, NEW o \in Seq(Names)
  PROVE  Fits(Eval(e, k, o), {Tmp(k), Tmp(k + 1)}, {}, {})
<1>1. /\ Tmp(k) \in Names /\ Tmp(k) \in Regs /\ Tmp(k)[1] = "tmp"
      /\ Tmp(k + 1) \in Names /\ Tmp(k + 1) # Tmp(k)
  <2>1. k + 1 \in Nat /\ k + 1 # k
    OBVIOUS
  <2>2. QED
    BY <2>1, NameTypes
<1>2. Append(o, Tmp(k)) \in Seq(Names) /\ Append(o, Tmp(k + 1)) \in Seq(Names)
  BY <1>1, AppendElems
<1>3. CASE e = "const"
  <2> DEFINE x == Do("alloca", Tmp(k), o)
             y == Do("use", Tmp(k), Append(o, Tmp(k)))
  <2>0. "alloca" # "ret" /\ "use" # "ret" /\ "use" \notin Gives
    BY DEF Gives
  <2>1a. Fits(<<x>>, {Tmp(k)}, {}, {})
    BY <1>1, <1>2, <2>0, FitsOne
  <2>1b. Fits(<<y>>, {}, {}, {})
    BY <1>1, <1>2, <2>0, FitsOne
  <2>1. Fits(<<x>>, {Tmp(k)}, {}, {}) /\ Fits(<<y>>, {}, {}, {})
    BY <2>1a, <2>1b
  <2> HIDE DEF x, y
  <2>2a. x \in Instrs /\ y \in Instrs
    BY <2>1, OneSound
  <2>2. <<x>> \o <<y>> = <<x, y>>
    BY <2>2a, Pair
  <2>3. Fits(<<x>> \o <<y>>, {Tmp(k)} \union {}, {} \union {}, {} \union {})
    BY <2>1, FitsConcat
  <2>4. Fits(<<x>> \o <<y>>, {Tmp(k)}, {}, {})
    BY <2>3
  <2>5a. Fits(<<x, y>>, {Tmp(k)}, {}, {})
    BY <2>2, <2>4
  <2>5. Fits(<<x, y>>, {Tmp(k), Tmp(k + 1)}, {}, {})
    <3>1. {Tmp(k)} \subseteq {Tmp(k), Tmp(k + 1)} /\ {} \subseteq {}
      OBVIOUS
    <3>2. QED
      BY ONLY <2>5a, <3>1, FitsMore
  <2>6. Eval(e, k, o) = <<x, y>>
    BY <1>3 DEF Eval, x, y
  <2>7. QED
    BY <2>5, <2>6
<1>4. CASE e \in {"array", "string"}
  BY <1>2, <1>4, FitsFreed DEF Eval
<1>5. CASE e = "comp"
  <2>1. Fits(<<Do("call", Tmp(k), o)>>, {Tmp(k)}, {}, {})
    BY <1>1, FitsOne
  <2>2. Eval(e, k, o) = <<Do("call", Tmp(k), o)>>
    BY <1>5 DEF Eval
  <2>3. QED
    BY <2>1, <2>2, FitsMore
<1>6. QED
  BY <1>3, <1>4, <1>5

\* a branch, and a branch with a label behind it, that neither begin nor end a loop
LEMMA FitsBranch ==
  ASSUME NEW x \in Instrs, InstrOK(x), x.op \in {"br", "next"},
         x.op = "br" => x.meant[1].to # "start"
  PROVE  Fits(<<x>>, {}, {}, {})
<1> DEFINE s == <<x>>
<1>1. Len(s) = 1 /\ s[1] = x /\ Elems(s) = {x} /\ s \in Seq(Instrs)
  BY Tuple1
<1> HIDE DEF s
<1>2. Noted(x)
  BY DEF Noted, Branches
<1>3. ASSUME NEW i \in 1 .. Len(s)
      PROVE  /\ LabelPlaced(s, i) /\ FreePlaced(s, i) /\ StrPlaced(s, i) /\ HeapPlaced(s, i)
             /\ Noted(s[i]) /\ ~Starts(s, i)
  <2>1. i = 1
    BY <1>1
  <2>2. QED
    BY <1>1, <1>2, <2>1 DEF LabelPlaced, Starts, FreePlaced, StrPlaced, HeapPlaced
<1>4. Shaped(s) /\ Heads(s) = {}
  BY <1>3 DEF Shaped, Heads
<1>5. GivenOnce(s)
  BY <1>1 DEF GivenOnce
<1>6. Given(s) = {} /\ Ats(s) = {} /\ NoRet(s)
  BY <1>1 DEF Given, Gives, Ats, Tied, NoRet
<1>7. Sound(s)
  BY <1>1 DEF Sound
<1>8. QED
  BY <1>4, <1>5, <1>6, <1>7 DEF Fits, Form, s

LEMMA FitsLabelled ==
  ASSUME NEW x \in Instrs, InstrOK(x), NEW y \in Instrs, InstrOK(y), x.op \in {"br", "cbr"},
         \A k \in 1 .. Len(x.meant) : x.meant[k].to # "start",
         y.op = "label", y.meant[1].to # "start"
  PROVE  /\ Fits(<<x, y>>, {}, {}, {y.meant[1].at})
         /\ y.meant[1].to # "end" => \A b, r : Matched(<<x, y>>, b, r)
<1> DEFINE s == <<x, y>>
<1>1. Len(s) = 2 /\ s[1] = x /\ s[2] = y /\ Elems(s) = {x, y} /\ s \in Seq(Instrs)
  BY Tuple2
<1> HIDE DEF s
<1>2. /\ x.op = "br" => x.meant[1].to # "start"
      /\ x.op = "cbr" => \A k \in 1 .. 2 : x.meant[k].to # "start"
  BY DEF InstrOK
<1>3. Noted(x) /\ Noted(y)
  BY <1>2 DEF Noted, Branches
<1>4. ASSUME NEW i \in 1 .. Len(s)
      PROVE  /\ LabelPlaced(s, i) /\ FreePlaced(s, i) /\ StrPlaced(s, i) /\ HeapPlaced(s, i)
             /\ Noted(s[i]) /\ ~Starts(s, i)
  <2>1. CASE i = 1
    BY <1>1, <1>3, <2>1 DEF LabelPlaced, Starts, FreePlaced, StrPlaced, HeapPlaced
  <2>2. CASE i = 2
    <3>1. i > 1 /\ s[i - 1] = x
      BY <1>1, <2>2
    <3>2. QED
      BY <1>1, <1>3, <2>2, <3>1 DEF LabelPlaced, Starts, FreePlaced, StrPlaced, HeapPlaced
  <2>3. QED
    BY <1>1, <2>1, <2>2
<1>5. Shaped(s) /\ Heads(s) = {}
  BY <1>4 DEF Shaped, Heads
<1>6. GivenOnce(s)
  <2>1. \A i \in 1 .. Len(s) : i = 1 \/ i = 2
    BY <1>1
  <2>2. s[1].op \notin Gives
    BY <1>1 DEF Gives
  <2>3. QED
    BY <2>1, <2>2 DEF GivenOnce
<1>7. Given(s) = {} /\ NoRet(s)
  BY <1>1 DEF Given, Gives, NoRet
<1>8. Ats(s) \subseteq {y.meant[1].at}
  BY <1>1, <1>2 DEF Ats, Tied
<1>9. Sound(s)
  BY <1>1 DEF Sound
<1>10. Fits(s, {}, {}, {y.meant[1].at})
  BY <1>5, <1>6, <1>7, <1>8, <1>9 DEF Fits, Form
<1>11. ASSUME y.meant[1].to # "end", NEW b, NEW r PROVE Matched(s, b, r)
  <2>1. Place("end", b).to = "end" /\ Place("start", b).to = "start"
    BY DEF Place
  <2>2. ASSUME NEW i \in 1 .. Len(s) PROVE MatchedAt(s, i, b, r)
    <3>1. i = 1 \/ i = 2
      BY <1>1
    <3>2. ~(s[i].op = "label" /\ s[i].meant[1] = Place("end", b))
      BY <1>1, <1>11, <2>1, <3>1
    <3>3. ~(s[i].op = "br" /\ s[i].meant[1] = Place("start", b))
      BY <1>1, <1>2, <2>1, <3>1
    <3>4. QED
      BY <1>4, <3>2, <3>3 DEF MatchedAt
  <2>3. QED
    BY <2>2, MatchedEach
<1>12. QED
  BY <1>10, <1>11 DEF s

\* the beginning and the end of a loop
LEMMA FitsLoopStart ==
  ASSUME NEW h, HeadType(h), h.block[1] = "block"
  PROVE  Fits(<<StartBranch(h), StartLabel(h), Do("save", h.block, h.out)>>,
              {h.block}, {<<h.begin, h.block>>}, {h.begin})
<1> DEFINE x == StartBranch(h)
           y == StartLabel(h)
           z == Do("save", h.block, h.out)
           s == <<x, y, z>>
<1>1. /\ x \in Instrs /\ InstrOK(x) /\ y \in Instrs /\ InstrOK(y)
      /\ x.op = "br" /\ x.to = <<h.label>> /\ x.meant = <<Place("start", h.begin)>>
      /\ y.op = "label" /\ y.to = <<h.label>> /\ y.meant = <<Place("start", h.begin)>>
      /\ y.open = h.out
  BY LoopBranches
<1>2. z \in Instrs /\ InstrOK(z)
  BY NameTypes, PlainDo DEF HeadType, Ops, Branches
<1>3. z.op = "save" /\ z.reg = h.block /\ z.open = h.out /\ z.meant = <<>>
  BY DEF Do, Instr
<1>4. Place("start", h.begin).to = "start" /\ Place("start", h.begin).at = h.begin
  BY DEF Place
<1> HIDE DEF x, y, z
<1>5. Len(s) = 3 /\ s[1] = x /\ s[2] = y /\ s[3] = z /\ Elems(s) = {x, y, z} /\ s \in Seq(Instrs)
  BY <1>1, <1>2, Tuple3
<1> HIDE DEF s
<1>6. x.meant[1] = Place("start", h.begin) /\ y.meant[1] = Place("start", h.begin)
  BY <1>1
<1>7. Noted(x) /\ Noted(y) /\ Noted(z)
  BY <1>1, <1>3 DEF Noted, Branches
<1>8. ~Starts(s, 1) /\ Starts(s, 2) /\ ~Starts(s, 3)
  BY <1>1, <1>3, <1>4, <1>5, <1>6 DEF Starts
<1>9. ASSUME NEW i \in 1 .. Len(s)
      PROVE  /\ LabelPlaced(s, i) /\ FreePlaced(s, i) /\ StrPlaced(s, i) /\ HeapPlaced(s, i)
             /\ Noted(s[i]) /\ MatchedAt(s, i, h.begin, h.block)
  <2>1. CASE i = 1
    <3>1. i < Len(s) /\ i + 1 = 2
      BY <1>5, <2>1
    <3>2. MatchedAt(s, i, h.begin, h.block)
      BY <1>1, <1>5, <1>8, <2>1, <3>1 DEF MatchedAt
    <3>3. QED
      BY <1>1, <1>5, <1>7, <1>8, <2>1, <3>2 DEF LabelPlaced, FreePlaced, StrPlaced, HeapPlaced
  <2>2. CASE i = 2
    <3>1. i > 1 /\ s[i - 1] = x /\ i < Len(s) /\ s[i + 1] = z
      BY <1>5, <2>2
    <3>2. LabelPlaced(s, i)
      BY <1>1, <1>3, <1>5, <2>2, <3>1 DEF LabelPlaced
    <3>3. Place("end", h.begin).to = "end"
      BY DEF Place
    <3>4. MatchedAt(s, i, h.begin, h.block)
      BY <1>1, <1>3, <1>4, <1>5, <1>6, <2>2, <3>1, <3>3 DEF MatchedAt
    <3>5. QED
      BY <1>1, <1>5, <1>7, <2>2, <3>2, <3>4 DEF FreePlaced, StrPlaced, HeapPlaced
  <2>3. CASE i = 3
    <3>1. LabelPlaced(s, i) /\ MatchedAt(s, i, h.begin, h.block)
      BY <1>3, <1>5, <1>8, <2>3 DEF LabelPlaced, MatchedAt
    <3>2. QED
      BY <1>3, <1>5, <1>7, <2>3, <3>1 DEF FreePlaced, StrPlaced, HeapPlaced
  <2>4. QED
    BY <1>5, <2>1, <2>2, <2>3
<1>10. Shaped(s)
  BY <1>9 DEF Shaped
<1>11. Matched(s, h.begin, h.block)
  BY <1>9, MatchedEach
<1>12. Heads(s) = {<<h.begin, h.block>>}
  <2>1. {j \in 1 .. Len(s) : Starts(s, j)} = {2}
    BY <1>5, <1>8
  <2>2. Heads(s) = {<<s[2].meant[1].at, s[2 + 1].reg>>}
    BY <2>1 DEF Heads
  <2>3. QED
    BY <1>3, <1>4, <1>5, <1>6, <2>2
<1>13. GivenOnce(s)
  <2>1. \A i \in 1 .. Len(s) : i = 1 \/ i = 2 \/ i = 3
    BY <1>5
  <2>2. s[1].op \notin Gives /\ s[2].op \notin Gives
    BY <1>1, <1>5 DEF Gives
  <2>3. QED
    BY <2>1, <2>2 DEF GivenOnce
<1>14. Given(s) \subseteq {h.block} /\ NoRet(s)
  BY <1>1, <1>3, <1>5 DEF Given, Gives, NoRet
<1>15. Ats(s) \subseteq {h.begin}
  BY <1>1, <1>3, <1>4, <1>5, <1>6 DEF Ats, Tied
<1>16. Sound(s)
  BY <1>1, <1>2, <1>5 DEF Sound
<1>17. \A g \in {<<h.begin, h.block>>} : Matched(s, g[1], g[2])
  BY <1>11
<1>18. Fits(s, {h.block}, {<<h.begin, h.block>>}, {h.begin})
  BY <1>10, <1>12, <1>13, <1>14, <1>15, <1>16, <1>17 DEF Fits, Form
<1>19. QED
  BY <1>18 DEF s, x, y, z

LEMMA FitsLoopTail ==
  ASSUME NEW h, HeadType(h), NEW o \in Seq(Names)
  PROVE  /\ Fits(LoopTail(h, o), {}, {}, {h.begin})
         /\ Matched(LoopTail(h, o), h.begin, h.block)
<1> DEFINE w == Do("restore", h.block, o)
           x == StartBranch(h)
           y == EndLabel(h)
           z == Do("restore", h.block, h.in)
           s == <<w, x, y, z>>
<1>0. LoopTail(h, o) = s
  BY DEF LoopTail, StartBranch, EndLabel
<1>1. /\ x \in Instrs /\ InstrOK(x) /\ y \in Instrs /\ InstrOK(y)
      /\ x.op = "br" /\ x.to = <<h.label>> /\ x.meant = <<Place("start", h.begin)>>
      /\ y.op = "label" /\ y.to = <<h.label + 2>> /\ y.meant = <<Place("end", h.begin)>>
  BY LoopBranches
<1>2. z \in Instrs /\ InstrOK(z) /\ w \in Instrs /\ InstrOK(w)
  BY NameTypes, PlainDo DEF HeadType, Ops, Branches
<1>3. /\ z.op = "restore" /\ z.reg = h.block /\ z.meant = <<>>
      /\ w.op = "restore" /\ w.reg = h.block /\ w.meant = <<>>
  BY DEF Do, Instr
<1>4. /\ Place("start", h.begin).to = "start" /\ Place("start", h.begin).at = h.begin
      /\ Place("end", h.begin).to = "end" /\ Place("end", h.begin).at = h.begin
  BY DEF Place
<1> HIDE DEF w, x, y, z
<1>5. /\ Len(s) = 4 /\ s[1] = w /\ s[2] = x /\ s[3] = y /\ s[4] = z
      /\ Elems(s) = {w, x, y, z} /\ s \in Seq(Instrs)
  BY <1>1, <1>2, Tuple4
<1> HIDE DEF s
<1>6. x.meant[1] = Place("start", h.begin) /\ y.meant[1] = Place("end", h.begin)
  BY <1>1
<1>7. Noted(w) /\ Noted(x) /\ Noted(y) /\ Noted(z)
  BY <1>1, <1>3 DEF Noted, Branches
<1>8. ~Starts(s, 1) /\ ~Starts(s, 2) /\ ~Starts(s, 3) /\ ~Starts(s, 4)
  BY <1>1, <1>3, <1>4, <1>5, <1>6 DEF Starts
<1>9. ASSUME NEW i \in 1 .. Len(s)
      PROVE  /\ LabelPlaced(s, i) /\ FreePlaced(s, i) /\ StrPlaced(s, i) /\ HeapPlaced(s, i)
             /\ Noted(s[i]) /\ MatchedAt(s, i, h.begin, h.block) /\ ~Starts(s, i)
  <2>1. CASE i = 1 \/ i = 4
    <3>1. s[i].op = "restore" /\ Noted(s[i]) /\ ~Starts(s, i)
      BY <1>3, <1>5, <1>7, <1>8, <2>1
    <3>2. QED
      BY <3>1 DEF LabelPlaced, FreePlaced, StrPlaced, HeapPlaced, MatchedAt
  <2>2. CASE i = 2
    <3>1. i > 1 /\ s[i - 1] = w
      BY <1>5, <2>2
    <3>2. MatchedAt(s, i, h.begin, h.block)
      BY <1>1, <1>3, <1>5, <1>8, <2>2, <3>1 DEF MatchedAt
    <3>3. QED
      BY <1>1, <1>5, <1>7, <1>8, <2>2, <3>2 DEF LabelPlaced, FreePlaced, StrPlaced, HeapPlaced
  <2>3. CASE i = 3
    <3>1. i > 1 /\ s[i - 1] = x /\ i < Len(s) /\ s[i + 1] = z
      BY <1>5, <2>3
    <3>2. LabelPlaced(s, i)
      BY <1>1, <1>5, <1>8, <2>3, <3>1 DEF LabelPlaced
    <3>3. MatchedAt(s, i, h.begin, h.block)
      BY <1>1, <1>3, <1>5, <1>8, <2>3, <3>1 DEF MatchedAt
    <3>4. QED
      BY <1>1, <1>5, <1>7, <1>8, <2>3, <3>2, <3>3 DEF FreePlaced, StrPlaced, HeapPlaced
  <2>4. QED
    BY <1>5, <2>1, <2>2, <2>3
<1>10. Shaped(s)
  BY <1>9 DEF Shaped
<1>11. Matched(s, h.begin, h.block)
  BY <1>9, MatchedEach
<1>12. Heads(s) = {}
  BY <1>9 DEF Heads
<1>13. \A i \in 1 .. Len(s) : s[i].op \notin Gives
  <2>1. \A i \in 1 .. Len(s) : i = 1 \/ i = 2 \/ i = 3 \/ i = 4
    BY <1>5
  <2>2. QED
    BY <1>1, <1>3, <1>5, <2>1 DEF Gives
<1>14. GivenOnce(s)
  BY <1>13 DEF GivenOnce
<1>15. Given(s) = {} /\ NoRet(s)
  BY <1>1, <1>3, <1>5 DEF Given, Gives, NoRet
<1>16. Ats(s) \subseteq {h.begin}
  BY <1>1, <1>3, <1>4, <1>5, <1>6 DEF Ats, Tied
<1>17. Sound(s)
  BY <1>1, <1>2, <1>5 DEF Sound
<1>18. Fits(s, {}, {}, {h.begin})
  BY <1>10, <1>12, <1>14, <1>15, <1>16, <1>17 DEF Fits, Form
<1>19. QED
  BY <1>0, <1>11, <1>18

LEMMA TestForm ==
  ASSUME NEW h, HeadType(h)
  PROVE  /\ Fits(<<LoopTest(h), BeginLabel(h)>>, {}, {}, {h.begin})
         /\ \A b, r : Matched(<<LoopTest(h), BeginLabel(h)>>, b, r)
<1> DEFINE x == LoopTest(h)
           y == BeginLabel(h)
<1>1. /\ x \in Instrs /\ InstrOK(x) /\ y \in Instrs /\ InstrOK(y)
      /\ x.op = "cbr" /\ x.meant = <<Place("begin", h.begin), Place("end", h.begin)>>
      /\ y.op = "label" /\ y.meant = <<Place("begin", h.begin)>>
  BY LoopBranches
<1>2. /\ Place("begin", h.begin).to = "begin" /\ Place("begin", h.begin).at = h.begin
      /\ Place("end", h.begin).to = "end"
  BY DEF Place
<1> HIDE DEF x, y
<1>3. \A k \in 1 .. Len(x.meant) : x.meant[k].to # "start"
  <2>1. 1 .. Len(x.meant) = {1, 2} /\ x.meant[1] = Place("begin", h.begin)
        /\ x.meant[2] = Place("end", h.begin)
    BY <1>1
  <2>2. QED
    BY <1>2, <2>1
<1>4. y.meant[1] = Place("begin", h.begin)
  BY <1>1
<1>5. y.meant[1].to # "start" /\ y.meant[1].to # "end" /\ y.meant[1].at = h.begin
  BY <1>2, <1>4
<1>6. /\ Fits(<<x, y>>, {}, {}, {y.meant[1].at})
      /\ \A b, r : Matched(<<x, y>>, b, r)
  BY <1>1, <1>3, <1>5, FitsLabelled
<1>7. QED
  BY <1>5, <1>6 DEF x, y

LEMMA FitsLoopHead ==
  ASSUME NEW h, HeadType(h), h.block[1] = "block", NEW test, NEW X, Fits(test, X, {}, {}),
         h.block \notin X
  PROVE  Fits(LoopHead(h, test), {h.block} \union X, {<<h.begin, h.block>>}, {h.begin})
<1> DEFINE a == <<StartBranch(h), StartLabel(h), Do("save", h.block, h.out)>>
           b == <<LoopTest(h), BeginLabel(h)>>
           H == {<<h.begin, h.block>>}
<1>1. LoopHead(h, test) = a \o test \o b
  BY DEF LoopHead, StartBranch, StartLabel, LoopTest, BeginLabel
<1>2. Fits(a, {h.block}, H, {h.begin})
  BY FitsLoopStart
<1>3. Fits(b, {}, {}, {h.begin}) /\ \A b1, r : Matched(b, b1, r)
  BY TestForm
<1>4. \A b1, r : Matched(test, b1, r)
  BY Matched0
<1> HIDE DEF a, b, H
<1>5. Fits(a \o test, {h.block} \union X, H \union {}, {h.begin} \union {})
  BY <1>2, <1>4, FitsConcat
<1> DEFINE c == a \o test
<1>6. Fits(c, {h.block} \union X, H, {h.begin})
  BY <1>5
<1> HIDE DEF c
<1>7. Fits(c \o b, ({h.block} \union X) \union {}, H \union {}, {h.begin} \union {h.begin})
  BY <1>3, <1>6, FitsConcat
<1>8. Fits(c \o b, {h.block} \union X, H, {h.begin})
  BY <1>7
<1>9. QED
  BY <1>1, <1>8 DEF c, H

LEMMA FitsUses ==
  ASSUME NEW r1 \in Regs, NEW r2 \in Regs, NEW r3 \in Regs, NEW o \in Seq(Names)
  PROVE  Fits(<<Do("use", r1, o), Do("use", r2, o), Do("use", r3, o)>>, {}, {}, {})
<1>1. \A r \in Regs : Fits(<<Do("use", r, o)>>, {}, {}, {})
  BY FitsOne DEF Gives
<1> DEFINE x == Do("use", r1, o)
           y == Do("use", r2, o)
           z == Do("use", r3, o)
<1>2. Fits(<<x>>, {}, {}, {}) /\ Fits(<<y>>, {}, {}, {}) /\ Fits(<<z>>, {}, {}, {})
  BY <1>1
<1> HIDE DEF x, y, z
<1>3. x \in Instrs /\ y \in Instrs /\ z \in Instrs
  BY <1>2, OneSound
<1>4. Fits(<<x>> \o <<y>>, {} \union {}, {} \union {}, {} \union {})
  BY <1>2, FitsConcat
<1>5. <<x>> \o <<y>> = <<x, y>>
  BY <1>3, Pair
<1>6. Fits(<<x, y>>, {}, {}, {})
  BY <1>4, <1>5
<1>7. Fits(<<x, y>> \o <<z>>, {} \union {}, {} \union {}, {} \union {})
  BY <1>2, <1>6, FitsConcat
<1>8. <<x, y>> \o <<z>> = <<x, y, z>>
  <2>1. <<x, y>> \in Seq(Instrs) /\ <<x, y, z>> \in Seq(Instrs)
        /\ Len(<<x, y>>) = 2 /\ Len(<<x, y, z>>) = 3
    BY <1>3
  <2>2. <<x, y>> \o <<z>> = Append(<<x, y>>, z)
    BY <1>3, <2>1, ConcatOne
  <2>3. Append(<<x, y>>, z) \in Seq(Instrs) /\ Len(Append(<<x, y>>, z)) = 3
    BY <1>3, <2>1
  <2>4. \A i \in 1 .. 3 : Append(<<x, y>>, z)[i] = <<x, y, z>>[i]
    BY <1>3
  <2>5. QED
    BY <2>1, <2>2, <2>3, <2>4, SeqEqual
<1>9. Fits(<<x, y, z>>, {}, {}, {})
  BY <1>7, <1>8
<1>10. QED
  BY <1>9 DEF x, y, z

\* the loop that copies an array
LEMMA FitsCopyLoop ==
  ASSUME NEW v \in Vars, NEW src \in Names, NEW at \in Nat, NEW label \in Nat,
         NEW block \in Names, block[1] = "block", NEW k \in Nat, NEW o \in Seq(Names)
  PROVE  Fits(CopyLoop(v, src, at, label, block, k, o), {Tmp(k), block},
              {<<at + 1, block>>}, {at + 1})
<1> DEFINE out == Append(o, Tmp(k))
           in == Append(out, block)
           h == [begin |-> at + 1, label |-> label, block |-> block, out |-> out, in |-> in]
           a == <<Do("alloca", Tmp(k), o)>>
           t == <<Do("use", Tmp(k), in)>>
           b == <<Do("use", src, in), Do("use", Var(v), in), Do("use", Tmp(k), in)>>
           H == {<<at + 1, block>>}
           A == {at + 1}
<1>1. CopyLoop(v, src, at, label, block, k, o) = a \o LoopHead(h, t) \o b \o LoopTail(h, in)
  BY DEF CopyLoop
<1>2. /\ Tmp(k) \in Names /\ Tmp(k) \in Regs /\ Tmp(k)[1] = "tmp" /\ Tmp(k) # block
      /\ src \in Regs /\ Var(v) \in Regs
  BY NameTypes
<1>3. out \in Seq(Names) /\ in \in Seq(Names)
  BY <1>2, AppendElems
<1>4. h.in = in /\ h.out = out /\ h.label = label /\ h.begin = at + 1 /\ h.block = block
  OBVIOUS
<1>5. HeadType(h)
  BY <1>3, <1>4 DEF HeadType
<1> HIDE DEF h, in
<1>6. Fits(a, {Tmp(k)}, {}, {})
  BY <1>2, FitsOne
<1>7. Fits(t, {}, {}, {})
  BY <1>2, <1>3, FitsOne DEF Gives
<1>8. Fits(b, {}, {}, {})
  BY <1>2, <1>3, FitsUses
<1> HIDE DEF a, t, b, out
<1> DEFINE lh == LoopHead(h, t)
           lt == LoopTail(h, in)
<1>9. Fits(lh, {block}, H, A)
  <2>1. Fits(LoopHead(h, t), {h.block} \union {}, {<<h.begin, h.block>>}, {h.begin})
    BY <1>4, <1>5, <1>7, FitsLoopHead
  <2>2. QED
    BY <1>4, <2>1
<1>10. Fits(lt, {}, {}, A) /\ Matched(lt, at + 1, block)
  <2>1. Fits(LoopTail(h, in), {}, {}, {h.begin}) /\ Matched(LoopTail(h, in), h.begin, h.block)
    BY <1>3, <1>5, FitsLoopTail
  <2>2. QED
    BY <1>4, <2>1
<1>11. \A b1, r : Matched(a, b1, r) /\ Matched(b, b1, r)
  BY <1>6, <1>8, Matched0
<1> HIDE DEF lh, lt, A
<1> DEFINE s1 == a \o lh
<1>12. Fits(s1, {Tmp(k), block}, H, A)
  <2>1. Fits(a \o lh, {Tmp(k)} \union {block}, {} \union H, {} \union A)
    <3>1. {Tmp(k)} \intersect {block} = {}
      BY <1>2
    <3>2. QED
      BY <1>6, <1>9, <1>11, <3>1, FitsConcat
  <2>2. {Tmp(k)} \union {block} = {Tmp(k), block} /\ {} \union H = H /\ {} \union A = A
    OBVIOUS
  <2>3. QED
    BY <2>1, <2>2
<1> HIDE DEF s1
<1> DEFINE s2 == s1 \o b
<1>13. Fits(s2, {Tmp(k), block}, H, A)
  <2>1. Fits(s1 \o b, {Tmp(k), block} \union {}, H \union {}, A \union {})
    BY <1>8, <1>11, <1>12, FitsConcat
  <2>2. QED
    BY <2>1
<1> HIDE DEF s2
<1> DEFINE s3 == s2 \o lt
<1>14. Fits(s3, {Tmp(k), block}, H, A)
  <2>1. \A g \in H : Matched(lt, g[1], g[2])
    BY <1>10
  <2> HIDE DEF H
  <2>2. Fits(s2 \o lt, {Tmp(k), block} \union {}, H \union {}, A \union A)
    BY <1>10, <1>13, <2>1, FitsConcat
  <2>3. QED
    BY <2>2
<1>15. CopyLoop(v, src, at, label, block, k, o) = s3
  BY <1>1 DEF s1, s2, s3, lh, lt
<1>16. QED
  BY <1>14, <1>15 DEF A

\* the branches of conditions
LEMMA CondForm ==
  ASSUME NEW op \in {"br", "cbr"}, NEW t1 \in Seq(Nat), NEW m \in Seq(Places),
         NEW o1 \in Seq(Names), NEW l \in Nat, NEW to \in {"if", "else", "end"}, NEW at \in Nat,
         NEW o2 \in Seq(Names), Len(t1) = Len(m), op = "br" => Len(t1) = 1,
         op = "cbr" => Len(t1) = 2, \A k \in 1 .. Len(m) : m[k].to # "start"
  PROVE  Fits(<<Branch(op, t1, m, o1), Branch("label", <<l>>, <<Place(to, at)>>, o2)>>,
              {}, {}, {at})
<1> DEFINE x == Branch(op, t1, m, o1)
           y == Branch("label", <<l>>, <<Place(to, at)>>, o2)
<1>1. <<l>> \in Seq(Nat) /\ <<Place(to, at)>> \in Seq(Places) /\ Len(<<l>>) = 1
      /\ Len(<<Place(to, at)>>) = 1 /\ <<Place(to, at)>>[1] = Place(to, at)
  BY PlaceType
<1>2. "label" \in Ops /\ op \in Ops
  BY DEF Ops
<1>3. /\ x \in Instrs /\ x.op = op /\ x.to = t1 /\ x.meant = m
      /\ y \in Instrs /\ y.op = "label" /\ y.to = <<l>> /\ y.meant = <<Place(to, at)>>
  <2>1. x \in Instrs /\ x.op = op /\ x.to = t1 /\ x.meant = m
    BY <1>2, BranchType
  <2>2. ASSUME NEW t2 \in Seq(Nat), NEW m2 \in Seq(Places)
        PROVE  /\ Branch("label", t2, m2, o2) \in Instrs
               /\ Branch("label", t2, m2, o2).op = "label"
               /\ Branch("label", t2, m2, o2).to = t2 /\ Branch("label", t2, m2, o2).meant = m2
    BY <1>2, BranchType
  <2>3. y \in Instrs /\ y.op = "label" /\ y.to = <<l>> /\ y.meant = <<Place(to, at)>>
    <3> DEFINE t2 == <<l>>
               m2 == <<Place(to, at)>>
    <3>1. t2 \in Seq(Nat) /\ m2 \in Seq(Places)
      BY <1>1
    <3> HIDE DEF t2, m2
    <3>2. LET z == Branch("label", t2, m2, o2)
          IN  z \in Instrs /\ z.op = "label" /\ z.to = t2 /\ z.meant = m2
      BY <2>2, <3>1
    <3>3. QED
      BY <3>2 DEF t2, m2
  <2>4. QED
    BY <2>1, <2>3
<1> HIDE DEF x, y
<1>4. InstrOK(x) /\ InstrOK(y)
  BY <1>1, <1>3 DEF InstrOK
<1>5. y.meant[1].to # "start" /\ y.meant[1].at = at
  BY <1>1, <1>3 DEF Place
<1>6. Fits(<<x, y>>, {}, {}, {y.meant[1].at})
  BY <1>3, <1>4, <1>5, FitsLabelled
<1>7. QED
  BY <1>5, <1>6 DEF x, y
-------------------------------------------------------------------------------
(***************************************************************************)
(* Steps of the generator.                                                 *)
(***************************************************************************)
\* the names in new code are new
Fresh(r) ==
  \/ r[1] = "tmp" /\ r[2] \in Nat /\ varCount <= r[2] /\ r[2] < varCount'
  \/ r[1] = "block" /\ r[2] \in Nat /\ labelCountBlock <= r[2] /\ r[2] < labelCountBlock'
  \/ r[1] = "var" /\ r \notin Given(code)

LEMMA FreshNames ==
  ASSUME NamesGiven, code \in Seq(Instrs), NEW is \in Seq(Instrs), code' = code \o is,
         \A x \in Elems(code) : InstrOK(x),
         varCount \in Nat, varCount' \in Nat, labelCountBlock \in Nat, labelCountBlock' \in Nat,
         varCount <= varCount', labelCountBlock <= labelCountBlock',
         \A r \in Given(is) : Fresh(r)
  PROVE  NamesGiven' /\ Given(code) \intersect Given(is) = {}
<1>1. Given(code') = Given(code) \union Given(is)
  BY GivenConcat
<1>2. ASSUME NEW r \in Given(code)
      PROVE  /\ r[1] = "tmp"   => r[2] \in Nat /\ r[2] < varCount
             /\ r[1] = "block" => r[2] \in Nat /\ r[2] < labelCountBlock
  BY DEF NamesGiven
<1>3. Given(code) \intersect Given(is) = {}
  <2>1. ASSUME NEW r \in Given(code), r \in Given(is) PROVE FALSE
    <3>1. Fresh(r)
      BY <2>1
    <3>2. CASE r[1] = "tmp"
      BY <1>2, <3>1, <3>2 DEF Fresh
    <3>3. CASE r[1] = "block"
      BY <1>2, <3>1, <3>3 DEF Fresh
    <3>4. CASE r[1] = "var"
      BY <2>1, <3>1, <3>4 DEF Fresh
    <3>5. QED
      BY <3>1, <3>2, <3>3, <3>4 DEF Fresh
  <2>2. QED
    BY <2>1
<1>4. ASSUME NEW r \in Given(code')
      PROVE  /\ r[1] = "tmp"   => r[2] \in Nat /\ r[2] < varCount'
             /\ r[1] = "block" => r[2] \in Nat /\ r[2] < labelCountBlock'
  <2>1. CASE r \in Given(code)
    BY <1>2, <2>1
  <2>2. CASE r \in Given(is)
    BY <2>2 DEF Fresh
  <2>3. QED
    BY <1>1, <2>1, <2>2
<1>5. NamesGiven'
  BY <1>4 DEF NamesGiven
<1>6. QED
  BY <1>3, <1>5

LEMMA HeadsTied ==
  ASSUME NEW s
  PROVE  \A h \in Heads(s) : h[1] \in Ats(s)
<1>1. ASSUME NEW i \in 1 .. Len(s), Starts(s, i) PROVE s[i].meant[1].at \in Ats(s)
  BY <1>1 DEF Starts, Ats, Tied, Elems
<1>2. ASSUME NEW h \in Heads(s) PROVE h[1] \in Ats(s)
  <2>1. PICK i \in 1 .. Len(s) : Starts(s, i) /\ h = <<s[i].meant[1].at, s[i + 1].reg>>
    BY DEF Heads
  <2>2. QED
    BY <1>1, <2>1
<1>3. QED
  BY <1>2

\* code that is appended leaves the returns before it
RetPlaced(s) == \A i \in 1 .. Len(s) : s[i].op = "ret" => i > 1 /\ s[i - 1].op = "heap"

LEMMA ReturnsKept ==
  ASSUME Returns, code \in Seq(Instrs), NEW is \in Seq(Instrs), code' = code \o is,
         retty' = retty, retty = "heap" => RetPlaced(is)
  PROVE  Returns'
<1> DEFINE u == code'
           n == Len(code)
<1>1. /\ u \in Seq(Instrs) /\ Len(u) = n + Len(is) /\ n \in Nat
      /\ \A i \in 1 .. n : i \in 1 .. Len(u) /\ u[i] = code[i]
      /\ \A j \in 1 .. Len(is) : n + j \in 1 .. Len(u) /\ u[n + j] = is[j]
      /\ \A i \in 1 .. Len(u) : i \in 1 .. n \/ (i > n /\ i - n \in 1 .. Len(is))
  BY ConcatPlaces
<1>2. ASSUME retty = "heap", NEW i \in 1 .. Len(u), u[i].op = "ret"
      PROVE  i > 1 /\ (u[i - 1].op = "heap" \/ (i > 2 /\ u[i - 2].op = "ret"))
  <2>1. CASE i \in 1 .. n
    <3>1. code[i].op = "ret"
      BY <1>1, <1>2, <2>1
    <3>2. i > 1 /\ (code[i - 1].op = "heap" \/ (i > 2 /\ code[i - 2].op = "ret"))
      BY <1>2, <2>1, <3>1 DEF Returns
    <3>3. i - 1 \in 1 .. n /\ (i > 2 => i - 2 \in 1 .. n)
      BY <1>1, <2>1, <3>2
    <3>4. QED
      BY <1>1, <3>2, <3>3
  <2>2. CASE i > n /\ i - n \in 1 .. Len(is)
    <3>1. n + (i - n) = i
      BY <1>1
    <3>2. is[i - n].op = "ret"
      BY <1>1, <1>2, <2>2, <3>1
    <3>3. i - n > 1 /\ is[(i - n) - 1].op = "heap"
      BY <1>2, <2>2, <3>2 DEF RetPlaced
    <3>4. (i - n) - 1 \in 1 .. Len(is) /\ n + ((i - n) - 1) = i - 1
      BY <1>1, <2>2, <3>3
    <3>5. u[i - 1] = is[(i - n) - 1]
      BY <1>1, <3>4
    <3>6. QED
      BY <1>1, <3>3, <3>5
  <2>3. QED
    BY <1>1, <2>1, <2>2
<1>3. QED
  BY <1>2 DEF Returns

\* the visits after a step: the same ones, at another stage perhaps
LEMMA BegunLike ==
  ASSUME NEW v, NEW w, Like(w, v), NEW s, NEW t, Begun(v, s), Len(s) \in Nat, Len(t) \in Nat,
         Len(s) <= Len(t), v.begin \in Nat,
         \A h \in Heads(t) : h \in Heads(s) \/ h[1] > Len(s)
  PROVE  Begun(w, t)
<1>1. SUFFICES ASSUME w.kind \in {"loop", "if", "ifelse", "else"}
               PROVE  /\ w.begin <= Len(t)
                      /\ \A h \in Heads(t) : h[1] = w.begin => w.kind = "loop" /\ h[2] = w.block
  BY DEF Begun
<1>2. v.kind \in {"loop", "if", "ifelse", "else"} /\ w.begin = v.begin /\ w.block = v.block
      /\ (v.kind = "loop" => w.kind = "loop")
  BY <1>1 DEF Like
<1>3. v.begin <= Len(s) /\ \A h \in Heads(s) : h[1] = v.begin => v.kind = "loop" /\ h[2] = v.block
  BY <1>2 DEF Begun
<1>4. v.begin <= Len(t)
  BY <1>3
<1>5. ASSUME NEW h \in Heads(t), h[1] = w.begin PROVE w.kind = "loop" /\ h[2] = w.block
  <2>1. h \in Heads(s)
    BY <1>2, <1>3, <1>5
  <2>2. QED
    BY <1>2, <1>3, <1>5, <2>1
<1>6. QED
  BY <1>2, <1>4, <1>5

LEMMA FormStep ==
  ASSUME FormInv, CodeOK, NEW is, NEW H, NEW A, Form(is, Given(is), H, A), code' = code \o is,
         varCount \in Nat, varCount' \in Nat, labelCountBlock \in Nat, labelCountBlock' \in Nat,
         varCount <= varCount', labelCountBlock <= labelCountBlock',
         \A r \in Given(is) : Fresh(r),
         A \subseteq Nat, \A n \in A : n <= Len(code'),
         \A h \in Heads(code) : h[1] \in A => Matched(is, h[1], h[2]),
         \A h \in H : h[1] \in Nat /\ h[1] > Len(code)
  PROVE  /\ Formed(code') /\ (\A n \in Ats(code') : n <= Len(code')) /\ NamesGiven'
         /\ Heads(code') = Heads(code) \union H
         /\ Len(code') = Len(code) + Len(is) /\ Len(code) \in Nat /\ Len(is) \in Nat
<1>1. /\ code \in Seq(Instrs) /\ is \in Seq(Instrs) /\ \A x \in Elems(code) : InstrOK(x)
  BY DEF CodeOK, Form, Sound
<1>2. Len(code') = Len(code) + Len(is) /\ Len(code) \in Nat /\ Len(is) \in Nat
  BY <1>1, ConcatProperties
<1>3. NamesGiven' /\ Given(code) \intersect Given(is) = {}
  BY <1>1, FreshNames DEF FormInv
<1>4. Sound(code) /\ Shaped(code) /\ GivenOnce(code)
      /\ (\A h \in Heads(code) : Matched(code, h[1], h[2]))
      /\ \A n \in Ats(code) : n <= Len(code)
  BY <1>1 DEF FormInv, Formed, Sound
<1>5. Form(code, Given(code), Heads(code), Ats(code))
  BY <1>4 DEF Form
<1>6. \A h \in Heads(code) : Matched(is, h[1], h[2])
  <2>1. ASSUME NEW h \in Heads(code), h[1] \notin A PROVE Matched(is, h[1], h[2])
    <3>1. h[1] \notin Ats(is)
      BY <2>1 DEF Form
    <3>2. QED
      BY <3>1, MatchedOther
  <2>2. QED
    BY <2>1
<1>7. \A h \in H : Matched(code, h[1], h[2])
  <2>1. ASSUME NEW h \in H PROVE h[1] \notin Ats(code)
    BY <1>2, <1>4
  <2>2. QED
    BY <2>1, MatchedOther
<1>8. Form(code \o is, Given(code) \union Given(is), Heads(code) \union H, Ats(code) \union A)
  BY <1>3, <1>5, <1>6, <1>7, FormConcat
<1>9. Form(code', Given(code) \union Given(is), Heads(code) \union H, Ats(code) \union A)
  BY <1>8
<1>10. Formed(code') /\ Heads(code') = Heads(code) \union H /\ Ats(code') \subseteq Ats(code) \union A
  BY <1>9 DEF Form, Formed
<1>11. ASSUME NEW n \in Ats(code') PROVE n <= Len(code')
  <2>1. CASE n \in A
    BY <2>1
  <2>2. CASE n \in Ats(code)
    <3>1. PICK x \in Elems(code) : Tied(x) /\ n = x.meant[1].at
      BY <2>2 DEF Ats
    <3>2. x \in Instrs /\ InstrOK(x)
      BY <1>1, ElemsType
    <3>3. x.meant \in Seq(Places) /\ Len(x.meant) = 1
      BY <3>1, <3>2 DEF Tied, InstrOK, Instrs
    <3>4. x.meant[1] \in Places
      BY <3>3
    <3>5. n \in Nat /\ n <= Len(code)
      BY <1>4, <2>2, <3>1, <3>4 DEF Places
    <3>6. QED
      BY <1>2, <3>5
  <2>3. QED
    BY <1>10, <2>1, <2>2
<1>12. QED
  BY <1>2, <1>3, <1>10, <1>11

\* a visit that begins with the code
Opens(v, H) ==
  v.kind \in {"loop", "if", "ifelse", "else"} =>
    /\ v.begin = Len(code) + 1 /\ v.begin <= Len(code')
    /\ \A h \in H : h[1] = v.begin => v.kind = "loop" /\ h[2] = v.block

LEMMA FormGrown ==
  ASSUME IInv, FormInv, NEW is, NEW H, NEW A, Form(is, Given(is), H, A), code' = code \o is,
         Returns', varCount' \in Nat, labelCountBlock' \in Nat,
         varCount <= varCount', labelCountBlock <= labelCountBlock',
         \A r \in Given(is) : Fresh(r),
         A \subseteq Nat, \A n \in A : n <= Len(code) + Len(is),
         \A h \in Heads(code) : h[1] \in A => Matched(is, h[1], h[2]),
         \A h \in H : h[1] \in Nat /\ h[1] > Len(code),
         \A q \in 1 .. Len(visits') :
           \/ \E p \in 1 .. Len(visits) : Like(visits'[q], visits[p])
           \/ Opens(visits'[q], H)
  PROVE  FormInv'
<1>1. /\ CodeOK /\ code \in Seq(Instrs) /\ varCount \in Nat /\ labelCountBlock \in Nat
      /\ visits \in Seq(Visits)
  BY DEF IInv, Generated, CodeOK, TypeOK, VisitsOK
<1>2. is \in Seq(Instrs)
  BY DEF Form, Sound
<1>3. Len(code') = Len(code) + Len(is)
  BY <1>1, <1>2, ConcatProperties
<1>4. /\ Formed(code') /\ (\A n \in Ats(code') : n <= Len(code')) /\ NamesGiven'
      /\ Heads(code') = Heads(code) \union H
      /\ Len(code') = Len(code) + Len(is) /\ Len(code) \in Nat /\ Len(is) \in Nat
  <2>1. \A n \in A : n <= Len(code')
    BY <1>3
  <2>2. QED
    BY <1>1, <1>2, <2>1, FormStep
<1>6. ASSUME NEW q \in 1 .. Len(visits') PROVE Begun(visits'[q], code')
  <2>1. PICK w : w = visits'[q]
    OBVIOUS
  <2>2. CASE \E p \in 1 .. Len(visits) : Like(w, visits[p])
    <3>1. PICK p \in 1 .. Len(visits) : Like(w, visits[p])
      BY <2>2
    <3>2. PICK v : v = visits[p]
      OBVIOUS
    <3>3. PICK t : t = code'
      OBVIOUS
    <3>4. Begun(v, code) /\ Like(w, v) /\ v.begin \in Nat
      <4>1. v \in Visits
        BY <1>1, <3>2
      <4>2. QED
        BY <3>1, <3>2, <4>1 DEF FormInv, Visits
    <3>5. Len(t) \in Nat /\ Len(code) <= Len(t) /\ Len(code) \in Nat
      BY <1>4, <3>3
    <3>6. \A h \in Heads(t) : h \in Heads(code) \/ h[1] > Len(code)
      BY <1>4, <3>3
    <3>7. Begun(w, t)
      BY <3>4, <3>5, <3>6, BegunLike
    <3>8. QED
      BY <2>1, <3>3, <3>7
  <2>3. CASE Opens(w, H)
    <3>2. ASSUME NEW h \in Heads(code) PROVE h[1] <= Len(code)
      <4>1. h[1] \in Ats(code)
        BY HeadsTied
      <4>2. QED
        BY <4>1 DEF FormInv
    <3>3. ASSUME w.kind \in {"loop", "if", "ifelse", "else"}
          PROVE  /\ w.begin <= Len(code')
                 /\ \A h \in Heads(code') : h[1] = w.begin => w.kind = "loop" /\ h[2] = w.block
      <4>1. w.begin = Len(code) + 1 /\ w.begin <= Len(code')
            /\ \A h \in H : h[1] = w.begin => w.kind = "loop" /\ h[2] = w.block
        BY <2>3, <3>3 DEF Opens
      <4>2. ASSUME NEW h \in Heads(code') , h[1] = w.begin PROVE w.kind = "loop" /\ h[2] = w.block
        <5>1. h \notin Heads(code)
          BY <1>4, <3>2, <4>1, <4>2
        <5>2. QED
          BY <1>4, <4>1, <4>2, <5>1
      <4>3. QED
        BY <4>1, <4>2
    <3>4. Begun(w, code')
      BY <3>3 DEF Begun
    <3>5. QED
      BY <2>1, <3>4
  <2>4. QED
    BY <2>1, <2>2, <2>3
<1>7. QED
  BY <1>4, <1>6 DEF FormInv

LEMMA FormKept ==
  ASSUME IInv, FormInv, NEW is, NEW X, NEW H, NEW A, Fits(is, X, H, A), code' = code \o is,
         retty' = retty, varCount' \in Nat, labelCountBlock' \in Nat,
         varCount <= varCount', labelCountBlock <= labelCountBlock',
         \A r \in X : Fresh(r),
         A \subseteq Nat, \A n \in A : n <= Len(code) + Len(is),
         \A h \in Heads(code) : h[1] \in A => Matched(is, h[1], h[2]),
         \A h \in H : h[1] \in Nat /\ h[1] > Len(code),
         \A q \in 1 .. Len(visits') :
           \/ \E p \in 1 .. Len(visits) : Like(visits'[q], visits[p])
           \/ Opens(visits'[q], H)
  PROVE  FormInv'
<1>1. code \in Seq(Instrs)
  BY DEF IInv, Generated, CodeOK
<1>2. Form(is, Given(is), H, A) /\ NoRet(is) /\ is \in Seq(Instrs)
      /\ \A r \in Given(is) : Fresh(r)
  BY DEF Fits, Form, Sound
<1>3. RetPlaced(is)
  BY <1>2 DEF NoRet, RetPlaced, Elems
<1>4. Returns'
  BY <1>1, <1>2, <1>3, ReturnsKept DEF FormInv
<1>5. QED
  BY <1>2, <1>4, FormGrown

\* code without the start of a loop
LEMMA FormTail ==
  ASSUME IInv, FormInv, NEW is, NEW X, NEW A, Fits(is, X, {}, A), code' = code \o is,
         retty' = retty, varCount' \in Nat, labelCountBlock' \in Nat,
         varCount <= varCount', labelCountBlock <= labelCountBlock',
         \A r \in X : Fresh(r),
         A \subseteq Nat, \A n \in A : n <= Len(code) + Len(is),
         \A h \in Heads(code) : h[1] \in A => Matched(is, h[1], h[2]),
         \A q \in 1 .. Len(visits') :
           \/ \E p \in 1 .. Len(visits) : Like(visits'[q], visits[p])
           \/ Opens(visits'[q], {})
  PROVE  FormInv'
<1> DEFINE H == {}
<1>1. \A h \in H : h[1] \in Nat /\ h[1] > Len(code)
  OBVIOUS
<1>2. Fits(is, X, H, A)
  OBVIOUS
<1>3. \A q \in 1 .. Len(visits') :
        \/ \E p \in 1 .. Len(visits) : Like(visits'[q], visits[p])
        \/ Opens(visits'[q], H)
  OBVIOUS
<1> HIDE DEF H
<1>4. QED
  BY <1>1, <1>2, <1>3, FormKept

\* visits that return
LEMMA LikeReturned ==
  ASSUME IInv, visits' = Returned(visits)
  PROVE  \A q \in 1 .. Len(visits') : \E p \in 1 .. Len(visits) : Like(visits'[q], visits[p])
BY ReturnedVisits DEF IInv, Generated, VisitsOK

LEMMA LikeOuter ==
  ASSUME IInv, visits # <<>>, Top.kind # "func", visits' = Returned(Outer)
  PROVE  \A q \in 1 .. Len(visits') : \E p \in 1 .. Len(visits) : Like(visits'[q], visits[p])
<1>1. TypeOK /\ Generated
  BY DEF IInv
<1>2. /\ Len(Returned(Outer)) = Len(visits) - 1
      /\ \A p \in 1 .. (Len(visits) - 1) : p \in 1 .. Len(visits) /\ Like(Returned(Outer)[p], visits[p])
  BY <1>1, OuterVisits
<1>3. QED
  BY <1>2

LEMMA LikePushed ==
  ASSUME NEW v, visits \in Seq(Visits), visits' = Append(visits, v)
  PROVE  \A q \in 1 .. Len(visits') :
           (\E p \in 1 .. Len(visits) : Like(visits'[q], visits[p])) \/ visits'[q] = v
<1>1. Len(visits) \in Nat /\ Len(visits') = Len(visits) + 1
  OBVIOUS
<1>2. /\ \A q \in 1 .. Len(visits) : visits'[q] = visits[q]
      /\ visits'[Len(visits) + 1] = v
  OBVIOUS
<1>3. \A q \in 1 .. Len(visits') : q \in 1 .. Len(visits) \/ q = Len(visits) + 1
  BY <1>1
<1>4. ASSUME NEW q \in 1 .. Len(visits) PROVE Like(visits'[q], visits[q])
  BY <1>2 DEF Like
<1>5. QED
  BY <1>2, <1>3, <1>4

\* the temporaries and the block that are named next
LEMMA FreshNext ==
  ASSUME IInv, varCount' \in Nat, labelCountBlock' \in Nat
  PROVE  /\ varCount < varCount' => Fresh(Tmp(varCount))
         /\ varCount + 1 < varCount' => Fresh(Tmp(varCount + 1))
         /\ varCount + 2 < varCount' => Fresh(Tmp(varCount + 2))
         /\ labelCountBlock < labelCountBlock' => Fresh(Block(labelCountBlock))
<1>1. TypeOK /\ Generated
  BY DEF IInv
<1>2. /\ varCount \in Nat /\ varCount + 1 \in Nat /\ varCount + 2 \in Nat
      /\ labelCountBlock \in Nat
  BY <1>1, GenTypes
<1>3. ASSUME NEW k \in Nat, varCount <= k, k < varCount' PROVE Fresh(Tmp(k))
  <2>1. Tmp(k)[1] = "tmp" /\ Tmp(k)[2] = k
    BY NameTypes
  <2>2. QED
    BY <1>3, <2>1 DEF Fresh
<1>4. ASSUME labelCountBlock < labelCountBlock' PROVE Fresh(Block(labelCountBlock))
  <2>1. Block(labelCountBlock)[1] = "block" /\ Block(labelCountBlock)[2] = labelCountBlock
    BY <1>2, NameTypes
  <2>2. QED
    BY <1>2, <1>4, <2>1 DEF Fresh
<1>5. varCount <= varCount /\ varCount <= varCount + 1 /\ varCount <= varCount + 2
  BY <1>2
<1>6. QED
  BY <1>2, <1>3, <1>4, <1>5

\* a statement of plain code
LEMMA FormPlain ==
  ASSUME IInv, FormInv, NEW is, NEW X, Fits(is, X, {}, {}), code' = code \o is,
         retty' = retty, varCount' \in Nat, labelCountBlock' \in Nat,
         varCount <= varCount', labelCountBlock <= labelCountBlock',
         \A r \in X : Fresh(r),
         \A q \in 1 .. Len(visits') :
           \/ \E p \in 1 .. Len(visits) : Like(visits'[q], visits[p])
           \/ Opens(visits'[q], {})
  PROVE  FormInv'
<1>1. {} \subseteq Nat /\ (\A n \in {} : n <= Len(code) + Len(is))
      /\ (\A h \in Heads(code) : h[1] \in {} => Matched(is, h[1], h[2]))
      /\ (\A h \in {} : h[1] \in Nat /\ h[1] > Len(code))
  OBVIOUS
<1>2. QED
  BY <1>1, FormKept

LEMMA FormVarDecl ==
  ASSUME IInv, FormInv, NEW v \in Vars, VarDecl(v)
  PROVE  FormInv'
<1> DEFINE x == Do("alloca", Var(v), open)
<1>1. TypeOK /\ Generated
  BY DEF IInv
<1>2. /\ code' = code \o <<x>> /\ visits' = Returned(visits) /\ retty' = retty
      /\ varCount' = varCount /\ labelCountBlock' = labelCountBlock
      /\ \A i \in 1 .. Len(code) : code[i].op = "alloca" => code[i].reg # Var(v)
  BY DEF VarDecl, Stmt, Write, counters
<1>3. open \in Seq(Names) /\ Var(v) \in Names /\ Var(v) \in Regs /\ Var(v)[1] = "var"
      /\ varCount \in Nat /\ labelCountBlock \in Nat
  BY <1>1, GenTypes, NameTypes
<1>4. Fits(<<x>>, {Var(v)}, {}, {})
  BY <1>3, FitsOne
<1>5. Var(v) \notin Given(code)
  <2>1. ASSUME NEW i \in 1 .. Len(code), code[i].op \in Gives, code[i].reg = Var(v) PROVE FALSE
    <3>1. code[i].op # "alloca"
      BY <1>2, <2>1
    <3>2. InstrOK(code[i]) /\ Noted(code[i])
      BY <1>1 DEF Generated, CodeOK, Elems, FormInv, Formed, Shaped
    <3>3. code[i].reg[1] = "block" \/ code[i].reg[1] = "tmp"
      BY <2>1, <3>1, <3>2 DEF Gives, InstrOK, Noted
    <3>4. QED
      BY <1>3, <2>1, <3>3
  <2>2. QED
    BY <2>1 DEF Given, Elems
<1>6. \A r \in {Var(v)} : Fresh(r)
  BY <1>3, <1>5 DEF Fresh
<1> HIDE DEF x
<1>7. /\ varCount' \in Nat /\ labelCountBlock' \in Nat
      /\ varCount <= varCount' /\ labelCountBlock <= labelCountBlock'
  BY <1>2, <1>3
<1>8. \A q \in 1 .. Len(visits') : \E p \in 1 .. Len(visits) : Like(visits'[q], visits[p])
  BY <1>2, LikeReturned
<1> DEFINE is == <<x>>
           X == {Var(v)}
<1>9. Fits(is, X, {}, {}) /\ code' = code \o is /\ \A r \in X : Fresh(r)
  BY <1>2, <1>4, <1>6
<1> HIDE DEF is, X
<1>10. QED
  BY <1>2, <1>7, <1>8, <1>9, FormPlain

LEMMA FormExprStmt ==
  ASSUME IInv, FormInv, NEW e \in Exprs, ExprStmt(e)
  PROVE  FormInv'
<1> DEFINE is == Eval(e, varCount, open)
<1>1. TypeOK /\ Generated
  BY DEF IInv
<1>2. /\ code' = code \o is /\ visits' = Returned(visits) /\ retty' = retty
      /\ varCount' = varCount + 2 /\ labelCountBlock' = labelCountBlock
  BY DEF ExprStmt, Stmt, Write
<1>3. open \in Seq(Names) /\ varCount \in Nat /\ labelCountBlock \in Nat
  BY <1>1, GenTypes
<1>4. Fits(is, {Tmp(varCount), Tmp(varCount + 1)}, {}, {})
  BY <1>3, FitsEval, ControlAssumption
<1>5. varCount' \in Nat /\ varCount < varCount' /\ varCount + 1 < varCount' /\ varCount <= varCount'
  BY <1>2, <1>3
<1>6. \A r \in {Tmp(varCount), Tmp(varCount + 1)} : Fresh(r)
  BY <1>2, <1>3, <1>5, FreshNext
<1>7. /\ varCount' \in Nat /\ labelCountBlock' \in Nat
      /\ varCount <= varCount' /\ labelCountBlock <= labelCountBlock'
  BY <1>2, <1>3, <1>5
<1>8. \A q \in 1 .. Len(visits') : \E p \in 1 .. Len(visits) : Like(visits'[q], visits[p])
  BY <1>2, LikeReturned
<1> DEFINE X == {Tmp(varCount), Tmp(varCount + 1)}
<1>9. Fits(is, X, {}, {}) /\ code' = code \o is /\ \A r \in X : Fresh(r)
  BY <1>2, <1>4, <1>6
<1> HIDE DEF is, X
<1>10. QED
  BY <1>2, <1>7, <1>8, <1>9, FormPlain

\* a piece of code with a loop has more than two instructions
LEMMA LoopLong ==
  ASSUME NEW s, NEW X, NEW H, NEW A, Fits(s, X, H, A), H # {}
  PROVE  Len(s) \in Nat /\ Len(s) >= 3
<1>1. s \in Seq(Instrs) /\ Shaped(s) /\ Heads(s) # {}
  BY DEF Fits, Form, Sound
<1>2. PICK i \in 1 .. Len(s) : Starts(s, i)
  BY <1>1 DEF Heads
<1>3. i > 1 /\ i < Len(s)
  BY <1>1, <1>2 DEF Shaped, LabelPlaced, Starts
<1>4. QED
  BY <1>1, <1>3

\* what an assignment writes
AssignCode(v, e, k, o1, o2, at, label, block) ==
  Eval(e, k, o1) \o
    CASE e = "const" -> << Do("use", Var(v), o2) >>
      [] e = "comp"  -> << Do("use", Var(v), o2), Do("free", Result(e, k), o2) >>
      [] e \in {"array", "string"} -> CopyLoop(v, Result(e, k), at, label, block, k + 2, o2)

LEMMA AssignForm ==
  ASSUME NEW v \in Vars, NEW e \in {"const", "array", "string", "comp"}, NEW k \in Nat,
         NEW o1 \in Seq(Names), NEW o2 \in Seq(Names), NEW at \in Nat, NEW label \in Nat,
         NEW block \in Names, block[1] = "block"
  PROVE  LET s == AssignCode(v, e, k, o1, o2, at, label, block)
             X == {Tmp(k), Tmp(k + 1)}
         IN  IF e \in {"array", "string"}
             THEN Fits(s, X \union {Tmp(k + 2), block}, {<<at + 1, block>>}, {at + 1})
             ELSE Fits(s, X, {}, {})
<1> DEFINE s == AssignCode(v, e, k, o1, o2, at, label, block)
           ev == Eval(e, k, o1)
           X == {Tmp(k), Tmp(k + 1)}
<1>1. /\ Var(v) \in Regs /\ Tmp(k) \in Names /\ Tmp(k) \in Regs /\ Tmp(k + 1) \in Names
      /\ Tmp(k)[1] = "tmp" /\ Tmp(k + 1)[1] = "tmp" /\ Tmp(k + 2)[1] = "tmp"
      /\ Tmp(k) # Tmp(k + 2) /\ Tmp(k + 1) # Tmp(k + 2) /\ k + 2 \in Nat
  <2>1. k + 1 \in Nat /\ k + 2 \in Nat /\ k # k + 2 /\ k + 1 # k + 2
    OBVIOUS
  <2>2. QED
    BY <2>1, NameTypes
<1>2. Fits(ev, X, {}, {})
  BY FitsEval
<1>3. CASE e = "const"
  <2>1. Fits(<<Do("use", Var(v), o2)>>, {}, {}, {})
    BY <1>1, FitsOne DEF Gives
  <2> DEFINE t == <<Do("use", Var(v), o2)>>
  <2>2. s = ev \o t
    BY <1>3 DEF AssignCode
  <2> HIDE DEF t, s, ev, X
  <2>3. Fits(ev \o t, X \union {}, {} \union {}, {} \union {})
    BY <1>2, <2>1, FitsConcat DEF t
  <2>4. Fits(s, X, {}, {})
    BY <2>2, <2>3
  <2>5. QED
    BY <1>3, <2>4 DEF s, X
<1>4. CASE e = "comp"
  <2> DEFINE x == Do("call", Tmp(k), o1)
             y == Do("use", Var(v), o2)
             z == Do("free", Tmp(k), o2)
  <2>1. ev = <<x>> /\ s = <<x>> \o <<y, z>>
    BY <1>4 DEF AssignCode, Eval, Result
  <2>2. Fits(<<x, y, z>>, {Tmp(k)}, {}, {})
    BY <1>1, FitsStored
  <2>3. x \in Instrs /\ y \in Instrs /\ z \in Instrs
    <3>1. "call" \in Ops /\ "use" \in Ops /\ "free" \in Ops
      BY DEF Ops
    <3>2. QED
      BY <1>1, <3>1, DoType
  <2> HIDE DEF x, y, z, s, ev
  <2>4. <<x>> \o <<y, z>> = <<x, y, z>>
    <3>1. /\ <<x>> \in Seq(Instrs) /\ <<y, z>> \in Seq(Instrs) /\ <<x, y, z>> \in Seq(Instrs)
          /\ Len(<<x>>) = 1 /\ Len(<<y, z>>) = 2 /\ Len(<<x, y, z>>) = 3
      BY <2>3
    <3>2. /\ <<x>> \o <<y, z>> \in Seq(Instrs) /\ Len(<<x>> \o <<y, z>>) = 3
          /\ (<<x>> \o <<y, z>>)[1] = x /\ (<<x>> \o <<y, z>>)[2] = y /\ (<<x>> \o <<y, z>>)[3] = z
      BY <3>1, ConcatProperties
    <3>3. \A i \in 1 .. 3 : (<<x>> \o <<y, z>>)[i] = <<x, y, z>>[i]
      BY <3>1, <3>2
    <3>4. QED
      BY <3>1, <3>2, <3>3, SeqEqual
  <2>5. Fits(s, {Tmp(k)}, {}, {})
    BY <2>1, <2>2, <2>4
  <2>6. {Tmp(k)} \subseteq X /\ {} \subseteq {}
    OBVIOUS
  <2> HIDE DEF X
  <2>7. Fits(s, X, {}, {})
    BY <2>5, <2>6, FitsMore
  <2>8. QED
    BY <1>4, <2>7 DEF s, X
<1>5. CASE e \in {"array", "string"}
  <2> DEFINE cl == CopyLoop(v, Tmp(k + 1), at, label, block, k + 2, o2)
             Y == {Tmp(k + 2), block}
             H == {<<at + 1, block>>}
             A == {at + 1}
  <2>1. s = ev \o cl
    BY <1>5 DEF AssignCode, Result
  <2>2. Fits(cl, Y, H, A)
    BY <1>1, FitsCopyLoop
  <2>3. X \intersect Y = {}
    BY <1>1
  <2>4. \A b, r : Matched(ev, b, r)
    BY <1>2, Matched0
  <2> HIDE DEF s, ev, cl, X, Y, H, A
  <2>5. Fits(ev \o cl, X \union Y, {} \union H, {} \union A)
    BY <1>2, <2>2, <2>3, <2>4, FitsConcat
  <2>6. Fits(s, X \union Y, H, A)
    BY <2>1, <2>5
  <2>7. QED
    BY <1>5, <2>6 DEF s, X, Y, H, A
<1>6. QED
  BY <1>3, <1>4, <1>5

LEMMA FormAssign ==
  ASSUME IInv, FormInv, NEW v \in Vars, NEW e \in Exprs, Assign(v, e)
  PROVE  FormInv'
<1> DEFINE k == varCount
           block == Block(labelCountBlock)
           o == open \o Opened(e, k)
           at == Len(code) + 1
           is == AssignCode(v, e, k, open, o, at, labelCount, block)
           X == {Tmp(k), Tmp(k + 1)}
           loop == e \in {"array", "string"}
<1>1. TypeOK /\ Generated
  BY DEF IInv
<1>2. e \in {"const", "array", "string", "comp"}
  BY ControlAssumption
<1>3. /\ code' = code \o is /\ visits' = Returned(visits) /\ retty' = retty
      /\ varCount' = varCount + 3
      /\ labelCountBlock' = IF loop THEN labelCountBlock + 1 ELSE labelCountBlock
  BY DEF Assign, Stmt, Write, AssignCode
<1>4. /\ open \in Seq(Names) /\ k \in Nat /\ k + 1 \in Nat /\ labelCountBlock \in Nat
      /\ labelCount \in Nat /\ Tmp(k) \notin Elems(open) /\ Tmp(k + 1) \notin Elems(open)
      /\ code \in Seq(Instrs) /\ Len(code) \in Nat /\ at \in Nat
  <2>1. code \in Seq(Instrs)
    BY <1>1 DEF Generated, CodeOK
  <2>2. QED
    BY <1>1, <2>1, GenTypes, LenProperties
<1>5. o \in Seq(Names)
  BY <1>2, <1>4, EvalPiece
<1>6. block \in Names /\ block[1] = "block"
  BY <1>4, NameTypes
<1>7. /\ varCount' \in Nat /\ k < varCount' /\ k + 1 < varCount' /\ k + 2 < varCount'
      /\ varCount <= varCount' /\ labelCountBlock' \in Nat /\ labelCountBlock <= labelCountBlock'
      /\ loop => labelCountBlock < labelCountBlock'
  BY <1>3, <1>4
<1>8. Fresh(Tmp(k)) /\ Fresh(Tmp(k + 1)) /\ Fresh(Tmp(k + 2)) /\ (loop => Fresh(block))
  BY <1>7, FreshNext
<1>9. \A q \in 1 .. Len(visits') : \E p \in 1 .. Len(visits) : Like(visits'[q], visits[p])
  BY <1>3, LikeReturned
<1>10. IF loop THEN Fits(is, X \union {Tmp(k + 2), block}, {<<at + 1, block>>}, {at + 1})
               ELSE Fits(is, X, {}, {})
  BY <1>2, <1>4, <1>5, <1>6, AssignForm, ZenonT(30)
<1>11. CASE loop
  <2> DEFINE Y == X \union {Tmp(k + 2), block}
             H == {<<at + 1, block>>}
             A == {at + 1}
  <2>1. Fits(is, Y, H, A) /\ H # {}
    BY <1>10, <1>11
  <2>2. \A r \in Y : Fresh(r)
    BY <1>8, <1>11
  <2>3. Len(is) \in Nat /\ Len(is) >= 3
    <3> HIDE DEF is, H, A, Y
    <3>1. QED
      BY <2>1, LoopLong
  <2>4. A \subseteq Nat /\ \A n \in A : n <= Len(code) + Len(is)
    <3> HIDE DEF is
    <3>1. QED
      BY <1>4, <2>3
  <2>5. \A h \in Heads(code) : h[1] \notin A
    <3>1. ASSUME NEW h \in Heads(code) PROVE h[1] <= Len(code)
      BY HeadsTied DEF FormInv
    <3>2. QED
      BY <1>4, <3>1
  <2>6. \A h \in H : h[1] \in Nat /\ h[1] > Len(code)
    BY <1>4
  <2> HIDE DEF is, H, A, Y
  <2>7. QED
    BY <1>3, <1>7, <1>9, <2>1, <2>2, <2>4, <2>5, <2>6, FormKept
<1>12. CASE ~loop
  <2>1. Fits(is, X, {}, {}) /\ \A r \in X : Fresh(r)
    BY <1>8, <1>10, <1>12
  <2> HIDE DEF is, X
  <2>2. QED
    BY <1>3, <1>7, <1>9, <2>1, FormPlain
<1>13. QED
  BY <1>11, <1>12

LEMMA FormReturn ==
  ASSUME IInv, FormInv, Return
  PROVE  FormInv'
<1> DEFINE value == IF retty = "void" THEN <<>> ELSE Eval("const", varCount, open)
           o == IF retty = "void" THEN open ELSE Append(open, Tmp(varCount))
           rc == ReturnCode(o)
           is == value \o rc
           X == {Tmp(varCount), Tmp(varCount + 1)}
<1>1. TypeOK /\ Generated
  BY DEF IInv
<1>2. /\ code' = code \o is /\ visits' = Returned(visits) /\ retty' = retty
      /\ varCount' = varCount + 2 /\ labelCountBlock' = labelCountBlock
  BY DEF Return, Stmt, Write
<1>3. /\ open \in Seq(Names) /\ varCount \in Nat /\ varCount + 1 \in Nat
      /\ labelCountBlock \in Nat /\ retty \in {"void", "scalar", "heap"}
  BY <1>1, GenTypes
<1>4. Tmp(varCount) \in Names /\ o \in Seq(Names) /\ None \in Regs /\ Tmp(varCount) # Tmp(varCount + 1)
  <2>1. Tmp(varCount) \in Names /\ None \in Regs
    BY <1>3, NameTypes
  <2>2. Append(open, Tmp(varCount)) \in Seq(Names)
    BY <1>3, <2>1, AppendElems
  <2>3. Tmp(varCount)[2] = varCount /\ Tmp(varCount + 1)[2] = varCount + 1
    BY <1>3, NameTypes
  <2>4. QED
    BY <1>3, <2>1, <2>2, <2>3
<1>5. Form(value, Given(value), {}, {}) /\ Given(value) \subseteq {Tmp(varCount)} /\ NoRet(value)
  <2>1. CASE retty = "void"
    <3>1. Plain(<<>>) /\ Given(<<>>) = {} /\ NoRet(<<>>) /\ GivenOnce(<<>>)
      BY ElemsEmpty DEF Plain, Sound, Given, NoRet, GivenOnce
    <3>2. Form(<<>>, Given(<<>>), {}, {})
      BY <3>1, PlainForm
    <3>3. QED
      BY <2>1, <3>1, <3>2
  <2>2. CASE retty # "void"
    <3> DEFINE x == Do("alloca", Tmp(varCount), open)
               y == Do("use", Tmp(varCount), Append(open, Tmp(varCount)))
    <3>1. value = <<x, y>>
      BY <2>2 DEF Eval
    <3>2. Fits(value, X, {}, {})
      BY <1>3, <2>2, FitsEval
    <3>3. x.op = "alloca" /\ x.reg = Tmp(varCount) /\ y.op = "use"
      BY DEF Do, Instr
    <3> HIDE DEF x, y
    <3>4. Given(<<x, y>>) \subseteq {Tmp(varCount)}
      <4>1. Elems(<<x, y>>) = {x, y}
        <5>1. 1 .. Len(<<x, y>>) = {1, 2}
          OBVIOUS
        <5>2. QED
          BY <5>1 DEF Elems
      <4>2. QED
        BY <3>3, <4>1 DEF Given, Gives
    <3>5. QED
      BY <3>1, <3>2, <3>4 DEF Fits
  <2>3. QED
    BY <2>1, <2>2
<1>6. /\ Form(rc, Given(rc), {}, {}) /\ Given(rc) \subseteq {Tmp(varCount + 1)}
      /\ retty = "heap" => RetPlaced(rc)
  <2>1. CASE retty = "heap"
    <3> DEFINE x == Do("heap", Tmp(varCount + 1), o)
               y == Do("ret", Tmp(varCount + 1), o)
    <3>1. rc = <<x, y>>
      BY <2>1 DEF ReturnCode
    <3>2. Form(<<x, y>>, Given(<<x, y>>), {}, {}) /\ Given(<<x, y>>) \subseteq {Tmp(varCount + 1)}
      BY <1>3, <1>4, FormReturned
    <3>3. x.op = "heap" /\ y.op = "ret"
      BY DEF Do, Instr
    <3> HIDE DEF x, y
    <3>4. Len(<<x, y>>) = 2 /\ <<x, y>>[1] = x /\ <<x, y>>[2] = y
      OBVIOUS
    <3>5. RetPlaced(<<x, y>>)
      <4>1. \A i \in 1 .. 2 : i = 1 \/ (i = 2 /\ i - 1 = 1)
        OBVIOUS
      <4>2. QED
        BY <3>3, <3>4, <4>1 DEF RetPlaced
    <3>6. QED
      BY <3>1, <3>2, <3>5
  <2>2. CASE retty # "heap"
    <3>1. rc = <<Do("ret", None, o)>>
      BY <1>3, <2>2 DEF ReturnCode
    <3>2. LET s == <<Do("ret", None, o)>> IN Form(s, Given(s), {}, {}) /\ Given(s) = {}
      BY <1>4, FitsOne DEF Gives
    <3>3. QED
      BY <2>2, <3>1, <3>2
  <2>3. QED
    BY <2>1, <2>2
<1>7. Given(value) \intersect Given(rc) = {}
  BY <1>4, <1>5, <1>6
<1>8. \A b, r : Matched(value, b, r) /\ Matched(rc, b, r)
  <2>1. Ats(value) = {} /\ Ats(rc) = {}
    BY <1>5, <1>6 DEF Form
  <2>2. QED
    BY <2>1, MatchedOther
<1> HIDE DEF value, rc
<1>9. Form(is, Given(is), {}, {}) /\ Given(is) \subseteq X
  <2>1. Form(value \o rc, Given(value) \union Given(rc), {} \union {}, {} \union {})
    BY <1>5, <1>6, <1>7, <1>8, FormConcat
  <2>2. Given(value \o rc) = Given(value) \union Given(rc)
    BY <2>1 DEF Form
  <2>3. Form(is, Given(is), {}, {})
    BY <2>1, <2>2
  <2>4. QED
    BY <1>5, <1>6, <2>2, <2>3
<1>10. retty = "heap" => RetPlaced(is)
  <2>1. SUFFICES ASSUME retty = "heap", NEW i \in 1 .. Len(is), is[i].op = "ret"
                 PROVE  i > 1 /\ is[i - 1].op = "heap"
    BY DEF RetPlaced
  <2>2. value \in Seq(Instrs) /\ rc \in Seq(Instrs)
    BY <1>5, <1>6 DEF Form, Sound
  <2> DEFINE n == Len(value)
  <2>3. /\ Len(is) = n + Len(rc) /\ n \in Nat /\ Len(rc) \in Nat
        /\ \A j \in 1 .. n : is[j] = value[j]
        /\ \A j \in 1 .. Len(rc) : n + j \in 1 .. Len(is) /\ is[n + j] = rc[j]
        /\ \A j \in 1 .. Len(is) : j \in 1 .. n \/ (j > n /\ j - n \in 1 .. Len(rc))
    BY <2>2, ConcatPlaces
  <2> HIDE DEF is
  <2>4. i \notin 1 .. n
    <3>1. \A j \in 1 .. n : value[j].op # "ret"
      BY <1>5 DEF NoRet, Elems
    <3>2. QED
      BY <2>1, <2>3, <3>1
  <2>5. i > n /\ i - n \in 1 .. Len(rc) /\ n + (i - n) = i
    BY <2>3, <2>4
  <2>6. rc[i - n].op = "ret"
    BY <2>1, <2>3, <2>5
  <2>7. i - n > 1 /\ rc[(i - n) - 1].op = "heap"
    BY <1>6, <2>1, <2>5, <2>6 DEF RetPlaced
  <2>8. (i - n) - 1 \in 1 .. Len(rc) /\ n + ((i - n) - 1) = i - 1
    BY <2>3, <2>5, <2>7
  <2>9. is[n + ((i - n) - 1)] = rc[(i - n) - 1]
    BY <2>3, <2>8
  <2>10. i > 1
    BY <2>3, <2>5, <2>7
  <2>11. QED
    BY <2>7, <2>8, <2>9, <2>10
<1>11. Returns'
  <2>1. code \in Seq(Instrs) /\ is \in Seq(Instrs)
    BY <1>1, <1>9 DEF Generated, CodeOK, Form, Sound
  <2> HIDE DEF is
  <2>2. QED
    BY <1>2, <1>10, <2>1, ReturnsKept DEF FormInv
<1>12. varCount' \in Nat /\ varCount < varCount' /\ varCount + 1 < varCount' /\ varCount <= varCount'
       /\ labelCountBlock' \in Nat /\ labelCountBlock <= labelCountBlock'
  BY <1>2, <1>3
<1>13. \A r \in Given(is) : Fresh(r)
  <2>1. Fresh(Tmp(varCount)) /\ Fresh(Tmp(varCount + 1))
    BY <1>12, FreshNext
  <2>2. QED
    BY <1>9, <2>1
<1>14. \A q \in 1 .. Len(visits') : \E p \in 1 .. Len(visits) : Like(visits'[q], visits[p])
  BY <1>2, LikeReturned
<1>15. {} \subseteq Nat /\ (\A n \in {} : n <= Len(code) + Len(is))
      /\ (\A h \in Heads(code) : h[1] \in {} => Matched(is, h[1], h[2]))
      /\ (\A h \in {} : h[1] \in Nat /\ h[1] > Len(code))
  OBVIOUS
<1> HIDE DEF is
<1>16. QED
  BY <1>2, <1>9, <1>11, <1>12, <1>13, <1>14, <1>15, FormGrown

LEMMA FormEnterStmts ==
  ASSUME IInv, FormInv, EnterStmts
  PROVE  FormInv'
<1> DEFINE block == Block(labelCountBlock)
           is == << Do("save", block, open) >>
           v == Visit("stmts", block, Append(open, block))
<1>1. TypeOK /\ Generated
  BY DEF IInv
<1>2. /\ code' = code \o is /\ visits' = Append(visits, v) /\ retty' = retty
      /\ varCount' = varCount /\ labelCountBlock' = labelCountBlock + 1
  BY DEF EnterStmts, Enter, Write
<1>3. /\ open \in Seq(Names) /\ varCount \in Nat /\ labelCountBlock \in Nat
      /\ block \in Names /\ block \in Regs /\ block[1] = "block"
  BY <1>1, GenTypes, NameTypes
<1>4. Fits(is, {block}, {}, {})
  BY <1>3, FitsOne
<1>5. /\ varCount' \in Nat /\ labelCountBlock' \in Nat
      /\ varCount <= varCount' /\ labelCountBlock <= labelCountBlock'
      /\ labelCountBlock < labelCountBlock'
  BY <1>2, <1>3
<1>6. \A r \in {block} : Fresh(r)
  BY <1>5, FreshNext
<1>7. v.kind = "stmts"
  BY DEF Visit
<1>8. visits \in Seq(Visits)
  BY <1>1 DEF Generated, VisitsOK
<1> HIDE DEF is, v, block
<1>9. \A q \in 1 .. Len(visits') :
        \/ \E p \in 1 .. Len(visits) : Like(visits'[q], visits[p])
        \/ Opens(visits'[q], {})
  <2>1. Opens(v, {})
    BY <1>7 DEF Opens
  <2>2. QED
    BY <1>2, <1>8, <2>1, LikePushed
<1> DEFINE X == {block}
<1>10. Fits(is, X, {}, {}) /\ \A r \in X : Fresh(r)
  BY <1>4, <1>6
<1> HIDE DEF X
<1>11. /\ code' = code \o is /\ retty' = retty /\ varCount' \in Nat /\ labelCountBlock' \in Nat
       /\ varCount <= varCount' /\ labelCountBlock <= labelCountBlock'
  BY <1>2, <1>5
<1>12. QED
  BY <1>9, <1>10, <1>11, FormPlain

LEMMA FormLeaveStmts ==
  ASSUME IInv, FormInv, LeaveStmts
  PROVE  FormInv'
<1> DEFINE is == << Do("restore", Top.block, open) >>
<1>1. TypeOK /\ Generated
  BY DEF IInv
<1>2. /\ code' = code \o is /\ visits' = Returned(Outer) /\ retty' = retty
      /\ varCount' = varCount /\ labelCountBlock' = labelCountBlock
      /\ visits # <<>> /\ Top.kind = "stmts"
  BY DEF LeaveStmts, Write, counters
<1>3. /\ open \in Seq(Names) /\ varCount \in Nat /\ labelCountBlock \in Nat
  BY <1>1, GenTypes
<1>4. Top.block \in Regs
  BY <1>1, <1>2, TopVisit DEF Visits
<1>5. Fits(is, {}, {}, {})
  BY <1>3, <1>4, FitsOne DEF Gives
<1>6. /\ varCount' \in Nat /\ labelCountBlock' \in Nat
      /\ varCount <= varCount' /\ labelCountBlock <= labelCountBlock'
  BY <1>2, <1>3
<1>7. \A q \in 1 .. Len(visits') : \E p \in 1 .. Len(visits) : Like(visits'[q], visits[p])
  BY <1>2, LikeOuter
<1>8. \A r \in {} : Fresh(r)
  OBVIOUS
<1> HIDE DEF is
<1>9. QED
  BY <1>2, <1>5, <1>6, <1>7, <1>8, FormPlain

LEMMA FormLoopJump ==
  ASSUME IInv, FormInv, NEW n \in Depths, LoopBreak(n) \/ LoopNext(n)
  PROVE  FormInv'
<1>1. TypeOK /\ Generated
  BY DEF IInv
<1>2. visits # <<>> /\ n \in Int
  BY ControlAssumption DEF LoopBreak, LoopNext, InStmt
<1>3. loopEndStack # <<>>
  <2>1. Len(loopEndStack) = Len(loopStartStack)
    BY <1>1 DEF Generated, LoopsOK
  <2>2. loopEndStack = <<>> => loopStartStack = <<>>
    BY <1>1, <2>1, EmptySeq DEF TypeOK
  <2>3. QED
    BY <2>2 DEF LoopBreak, LoopNext
<1> DEFINE m == Len(loopEndStack) - Reduced(n)
<1>4. PICK p \in 1 .. Len(visits) :
        /\ visits[p].kind = "loop" /\ LoopOK(visits[p])
        /\ loopStartStack[m] = visits[p].label /\ loopEndStack[m] = visits[p].label + 2
        /\ \A to \in {"start", "end"} : Meant(to, n) = Place(to, visits[p].begin)
  BY <1>1, <1>2, <1>3, MeantLoop
<1> DEFINE v == visits[p]
<1>5. /\ v \in Visits /\ open \in Seq(Names) /\ varCount \in Nat /\ labelCountBlock \in Nat
      /\ Len(loopEndStack) = Len(loopStartStack)
  BY <1>1, <1>2, TopVisit, GenTypes DEF Generated, LoopsOK
<1>6. v.label \in Nat /\ v.label + 2 \in Nat /\ v.begin \in Nat
  BY <1>5 DEF Visits
<1> HIDE DEF v
<1>7. Place("end", v.begin) \in Places /\ Place("start", v.begin) \in Places
      /\ Place("end", v.begin).to = "end"
  BY <1>6, PlaceType DEF Place
<1>8. \E op \in {"br", "next"}, l \in Nat, pl \in Places :
        /\ code' = code \o << Branch(op, <<l>>, <<pl>>, open) >>
        /\ op = "br" => pl.to # "start"
  <2>1. CASE LoopBreak(n)
    <3>1. code' = code \o << Branch("br", <<v.label + 2>>, <<Place("end", v.begin)>>, open) >>
      BY <1>4, <1>5, <2>1 DEF LoopBreak, Stmt, Write, v
    <3>2. QED
      BY <1>6, <1>7, <3>1
  <2>2. CASE LoopNext(n)
    <3>1. code' = code \o << [Branch("br", <<v.label>>, <<Place("start", v.begin)>>, open) EXCEPT !.op = "next"] >>
      BY <1>4, <1>5, <2>2 DEF LoopNext, Stmt, Write, v
    <3>2. [Branch("br", <<v.label>>, <<Place("start", v.begin)>>, open) EXCEPT !.op = "next"]
            = Branch("next", <<v.label>>, <<Place("start", v.begin)>>, open)
      BY DEF Branch, Instr
    <3>3. QED
      BY <1>6, <1>7, <3>1, <3>2
  <2>3. QED
    BY <2>1, <2>2
<1>9. PICK op \in {"br", "next"}, l \in Nat, pl \in Places :
        /\ code' = code \o << Branch(op, <<l>>, <<pl>>, open) >>
        /\ op = "br" => pl.to # "start"
  BY <1>8
<1> DEFINE x == Branch(op, <<l>>, <<pl>>, open)
           is == <<x>>
<1>10. x \in Instrs /\ x.op = op /\ x.to = <<l>> /\ x.meant = <<pl>>
  <2> DEFINE t2 == <<l>>
             m2 == <<pl>>
  <2>1. t2 \in Seq(Nat) /\ m2 \in Seq(Places) /\ op \in Ops
    BY DEF Ops
  <2> HIDE DEF t2, m2
  <2>2. LET z == Branch(op, t2, m2, open)
        IN  z \in Instrs /\ z.op = op /\ z.to = t2 /\ z.meant = m2
    BY <1>5, <2>1, BranchType
  <2>3. QED
    BY <2>2 DEF t2, m2
<1> HIDE DEF x
<1>11. InstrOK(x) /\ (x.op = "br" => x.meant[1].to # "start")
  <2>1. Len(<<l>>) = 1 /\ Len(<<pl>>) = 1 /\ <<pl>>[1] = pl
    OBVIOUS
  <2>2. QED
    BY <1>9, <1>10, <2>1 DEF InstrOK
<1>12. Fits(is, {}, {}, {})
  BY <1>10, <1>11, FitsBranch
<1>13. /\ visits' = Returned(visits) /\ retty' = retty
       /\ varCount' = varCount /\ labelCountBlock' = labelCountBlock
  BY DEF LoopBreak, LoopNext, Stmt, counters
<1>14. /\ varCount' \in Nat /\ labelCountBlock' \in Nat
       /\ varCount <= varCount' /\ labelCountBlock <= labelCountBlock'
  BY <1>5, <1>13
<1>15. \A q \in 1 .. Len(visits') : \E q1 \in 1 .. Len(visits) : Like(visits'[q], visits[q1])
  BY <1>13, LikeReturned
<1>16. code' = code \o is /\ \A r \in {} : Fresh(r)
  BY <1>9 DEF x
<1> HIDE DEF is
<1>17. QED
  BY <1>12, <1>13, <1>14, <1>15, <1>16, FormPlain

LEMMA FormEnterLoop ==
  ASSUME IInv, FormInv, EnterLoop
  PROVE  FormInv'
<1> DEFINE block == Block(labelCountBlock)
           tmp == Tmp(varCount)
           v == Visit("loop", block, open \o <<block, tmp>>)
           test == Eval("const", varCount, Append(open, block))
           is == LoopHead(v, test)
           X == {Tmp(varCount)}
           Y == {block} \union X
           H == {<<v.begin, v.block>>}
           A == {v.begin}
<1>1. TypeOK /\ Generated
  BY DEF IInv
<1>2. /\ visits # <<>> /\ code' = code \o is /\ visits' = Append(visits, v) /\ retty' = retty
      /\ varCount' = varCount + 1 /\ labelCountBlock' = labelCountBlock + 1
  BY DEF EnterLoop, Enter, Write, Nested, InStmt
<1>3. /\ open \in Seq(Names) /\ varCount \in Nat /\ labelCountBlock \in Nat /\ labelCount \in Nat
      /\ block \in Names /\ block \in Regs /\ block[1] = "block" /\ tmp \in Names /\ tmp[1] = "tmp"
  BY <1>1, GenTypes, NameTypes
<1>4. open \o <<block, tmp>> \in Seq(Names) /\ Append(open, block) \in Seq(Names)
  BY <1>3
<1>5. /\ v \in Visits /\ v.kind = "loop" /\ v.begin = Len(code) + 1 /\ v.begin \in Nat
      /\ v.block = block
  <2> DEFINE in == open \o <<block, tmp>>
  <2>1. in \in Seq(Names)
    BY <1>4
  <2>2. "loop" \in Kinds
    BY DEF Kinds
  <2>3. v = Visit("loop", block, in)
    OBVIOUS
  <2> HIDE DEF in, block, tmp, v
  <2>4. QED
    BY <1>1, <1>2, <1>3, <2>1, <2>2, <2>3, VisitType
<1>6. HeadType(v)
  BY <1>3, <1>5 DEF Visits, HeadType
<1>7. Fits(test, X, {}, {})
  <2>1. Fits(<<Do("alloca", tmp, Append(open, block))>>, X, {}, {})
    BY <1>3, <1>4, FitsOne, NameTypes
  <2> DEFINE o == Append(open, block)
             x == Do("alloca", tmp, o)
             y == Do("use", tmp, Append(o, tmp))
  <2>2. Append(o, tmp) \in Seq(Names) /\ tmp \in Regs
    BY <1>3, <1>4, AppendElems, NameTypes
  <2>3. Fits(<<y>>, {}, {}, {})
    BY <2>2, FitsOne DEF Gives
  <2>4. x \in Instrs /\ y \in Instrs
    BY <2>1, <2>3, OneSound
  <2>5. test = <<x, y>>
    BY DEF Eval
  <2> HIDE DEF x, y, test, X, o
  <2>6. <<x>> \o <<y>> = <<x, y>>
    BY <2>4, Pair
  <2>7. Fits(<<x>>, X, {}, {})
    BY <2>1 DEF x, o
  <2>8. Fits(<<x>> \o <<y>>, X \union {}, {} \union {}, {} \union {})
    BY <2>3, <2>7, FitsConcat
  <2>9. QED
    BY <2>5, <2>6, <2>8
<1>8. v.block \notin X /\ v.block[1] = "block"
  BY <1>3, <1>5
<1>9. Fits(is, Y, H, A)
  <2> HIDE DEF v, test, X
  <2>1. Fits(LoopHead(v, test), {v.block} \union X, {<<v.begin, v.block>>}, {v.begin})
    BY <1>6, <1>7, <1>8, FitsLoopHead
  <2>2. QED
    BY <1>5, <2>1
<1>10. /\ varCount' \in Nat /\ labelCountBlock' \in Nat
       /\ varCount < varCount' /\ varCount <= varCount'
       /\ labelCountBlock < labelCountBlock' /\ labelCountBlock <= labelCountBlock'
  BY <1>2, <1>3
<1>11. \A r \in Y : Fresh(r)
  BY <1>10, FreshNext
<1>12. Len(code) \in Nat /\ code \in Seq(Instrs) /\ visits \in Seq(Visits)
  BY <1>1 DEF Generated, CodeOK, VisitsOK
<1>13. H # {}
  OBVIOUS
<1> HIDE DEF v, is, Y, X, block, tmp, test
<1>14. Len(is) \in Nat /\ Len(is) >= 3
  <2> HIDE DEF H, A
  <2>1. QED
    BY <1>9, <1>13, LoopLong
<1>15. A \subseteq Nat /\ \A n \in A : n <= Len(code) + Len(is)
  BY <1>5, <1>12, <1>14
<1>16. \A h \in Heads(code) : h[1] \notin A
  <2>1. ASSUME NEW h \in Heads(code) PROVE h[1] <= Len(code)
    BY HeadsTied DEF FormInv
  <2>2. QED
    BY <1>5, <1>12, <2>1
<1>17. \A h \in H : h[1] \in Nat /\ h[1] > Len(code)
  BY <1>5, <1>12
<1>18. Opens(v, H)
  <2>1. is \in Seq(Instrs)
    BY <1>9 DEF Fits, Form, Sound
  <2>2. Len(code') = Len(code) + Len(is)
    BY <1>2, <1>12, <2>1, ConcatProperties
  <2>3. v.begin <= Len(code')
    BY <1>5, <1>12, <1>14, <2>2
  <2>4. \A h \in H : h[2] = v.block
    OBVIOUS
  <2>5. QED
    BY <1>5, <2>3, <2>4 DEF Opens
<1> HIDE DEF H, A
<1>19. \A q \in 1 .. Len(visits') :
         \/ \E p \in 1 .. Len(visits) : Like(visits'[q], visits[p])
         \/ Opens(visits'[q], H)
  BY <1>2, <1>12, <1>18, LikePushed
<1>20. QED
  BY <1>2, <1>9, <1>10, <1>11, <1>15, <1>16, <1>17, <1>19, FormKept

LEMMA FormLeaveLoop ==
  ASSUME IInv, FormInv, LeaveLoop
  PROVE  FormInv'
<1> DEFINE v == Top
           is == LoopTail(v, open)
           A == {v.begin}
<1>1. TypeOK /\ Generated
  BY DEF IInv
<1>2. /\ code' = code \o is /\ visits' = Returned(Outer) /\ retty' = retty
      /\ varCount' = varCount /\ labelCountBlock' = labelCountBlock
      /\ visits # <<>> /\ v.kind = "loop"
  BY DEF LeaveLoop, Write, counters
<1>3. /\ open \in Seq(Names) /\ varCount \in Nat /\ labelCountBlock \in Nat
  BY <1>1, GenTypes
<1>4. /\ v \in Visits /\ v = visits[Len(visits)] /\ Len(visits) \in 1 .. Len(visits)
      /\ v.in \in Seq(Names) /\ v.out \in Seq(Names)
  BY <1>1, <1>2, TopVisit
<1>5. HeadType(v)
  <2>1. v.label \in Nat /\ v.begin \in Nat
    BY <1>4 DEF Visits
  <2>2. v.block \in Names
    <3>1. VisitOK(Len(visits))
      BY <1>1, <1>4 DEF Generated, VisitsOK
    <3>2. Len(v.out) < Len(v.in) /\ v.in[Len(v.out) + 1] = v.block
      BY <1>2, <1>4, <3>1 DEF VisitOK
    <3>3. Len(v.out) + 1 \in 1 .. Len(v.in)
      BY <1>4, <3>2
    <3> HIDE DEF v
    <3>4. QED
      BY <1>4, <3>2, <3>3
  <2>3. QED
    BY <1>4, <2>1, <2>2 DEF HeadType
<1> HIDE DEF v
<1>6. Fits(is, {}, {}, A) /\ Matched(is, v.begin, v.block)
  BY <1>3, <1>5, FitsLoopTail
<1>7. v.begin \in Nat /\ v.begin <= Len(code)
      /\ \A h \in Heads(code) : h[1] = v.begin => h[2] = v.block
  BY <1>2, <1>4, <1>5 DEF FormInv, Begun, HeadType
<1>8. \A h \in Heads(code) : h[1] \in A => Matched(is, h[1], h[2])
  BY <1>6, <1>7
<1>9. A \subseteq Nat /\ \A n \in A : n <= Len(code) + Len(is)
  <2>1. code \in Seq(Instrs) /\ is \in Seq(Instrs)
    BY <1>1, <1>6 DEF Generated, CodeOK, Fits, Form, Sound
  <2>2. Len(code) \in Nat /\ Len(is) \in Nat
    BY <2>1
  <2> HIDE DEF is
  <2>3. QED
    BY <1>7, <2>2
<1>10. /\ varCount' \in Nat /\ labelCountBlock' \in Nat
       /\ varCount <= varCount' /\ labelCountBlock <= labelCountBlock'
  BY <1>2, <1>3
<1>11. \A q \in 1 .. Len(visits') : \E p \in 1 .. Len(visits) : Like(visits'[q], visits[p])
  BY <1>2, LikeOuter DEF v
<1> HIDE DEF is, A
<1> DEFINE X == {}
<1>13. Fits(is, X, {}, A) /\ \A r \in X : Fresh(r)
  BY <1>6
<1>14. code' = code \o is /\ retty' = retty
  BY <1>2
<1>15. \A q \in 1 .. Len(visits') :
         \/ \E p \in 1 .. Len(visits) : Like(visits'[q], visits[p])
         \/ Opens(visits'[q], {})
  BY <1>11
<1> HIDE DEF X
<1>16. QED
  BY <1>8, <1>9, <1>10, <1>13, <1>14, <1>15, FormTail

LEMMA FormEnterCond ==
  ASSUME IInv, FormInv, NEW else \in BOOLEAN, EnterCond(else)
  PROVE  FormInv'
<1> DEFINE kind == IF else THEN "ifelse" ELSE "if"
           in == Append(open, Tmp(varCount))
           v == Visit(kind, None, in)
           ev == Eval("const", varCount, open)
           ch == CondHead(v, else)
           is == ev \o ch
           X == {Tmp(varCount)}
           A == {v.begin}
<1>1. TypeOK /\ Generated
  BY DEF IInv
<1>2. /\ visits # <<>> /\ code' = code \o is /\ visits' = Append(visits, v) /\ retty' = retty
      /\ varCount' = varCount + 1 /\ labelCountBlock' = labelCountBlock
  BY DEF EnterCond, Enter, Write, Nested, InStmt
<1>3. /\ open \in Seq(Names) /\ varCount \in Nat /\ labelCountBlock \in Nat /\ labelCount \in Nat
      /\ Tmp(varCount) \in Names /\ Tmp(varCount)[1] = "tmp" /\ Tmp(varCount) \in Regs
      /\ None \in Regs
  BY <1>1, GenTypes, NameTypes
<1>4. in \in Seq(Names)
  BY <1>3, AppendElems
<1>5. /\ v \in Visits /\ v.kind = kind /\ v.begin = Len(code) + 1 /\ v.begin \in Nat
      /\ v.label = labelCount /\ v.in = in
  <2>1. kind \in Kinds
    BY DEF Kinds
  <2>2. v = Visit(kind, None, in)
    OBVIOUS
  <2> HIDE DEF in, kind, v
  <2>3. QED
    BY <1>1, <1>2, <1>3, <1>4, <2>1, <2>2, VisitType
<1>6. Fits(ev, X, {}, {})
  <2> DEFINE x == Do("alloca", Tmp(varCount), open)
             y == Do("use", Tmp(varCount), in)
  <2>1. Fits(<<x>>, X, {}, {})
    BY <1>3, FitsOne
  <2>2. Fits(<<y>>, {}, {}, {})
    BY <1>3, <1>4, FitsOne DEF Gives
  <2>3. x \in Instrs /\ y \in Instrs
    BY <2>1, <2>2, OneSound
  <2>4. ev = <<x, y>>
    BY DEF Eval
  <2> HIDE DEF x, y, ev, X
  <2>5. <<x>> \o <<y>> = <<x, y>>
    BY <2>3, Pair
  <2>6. Fits(<<x>> \o <<y>>, X \union {}, {} \union {}, {} \union {})
    BY <2>1, <2>2, FitsConcat
  <2>7. QED
    BY <2>4, <2>5, <2>6
<1>7. Fits(ch, {}, {}, A)
  <2> HIDE DEF v, in
  <2> DEFINE to == IF else THEN "else" ELSE "end"
             t1 == <<v.label, v.label + 1>>
             m == <<Place("if", v.begin), Place(to, v.begin)>>
  <2>1. t1 \in Seq(Nat) /\ Len(t1) = 2
    BY <1>3, <1>5
  <2>2. Place("if", v.begin) \in Places /\ Place(to, v.begin) \in Places
        /\ Place("if", v.begin).to = "if" /\ Place(to, v.begin).to = to
    BY <1>5, PlaceType DEF Place
  <2>3. m \in Seq(Places) /\ Len(m) = 2 /\ m[1] = Place("if", v.begin) /\ m[2] = Place(to, v.begin)
    BY <2>2
  <2>4. ch = <<Branch("cbr", t1, m, v.in), Branch("label", <<v.label>>, <<Place("if", v.begin)>>, v.in)>>
    BY DEF CondHead
  <2> HIDE DEF t1, m, ch
  <2>5. \A k \in 1 .. Len(m) : m[k].to # "start"
    <3>1. \A k \in 1 .. Len(m) : k = 1 \/ k = 2
      BY <2>3
    <3>2. QED
      BY <2>2, <2>3, <3>1
  <2>6. v.in \in Seq(Names) /\ v.label \in Nat
    BY <1>3, <1>4, <1>5
  <2>7. Fits(<<Branch("cbr", t1, m, v.in), Branch("label", <<v.label>>, <<Place("if", v.begin)>>, v.in)>>,
             {}, {}, {v.begin})
    BY <1>5, <2>1, <2>3, <2>5, <2>6, CondForm
  <2>8. QED
    BY <2>4, <2>7
<1> HIDE DEF ev, ch, X, A, v
<1>8. Fits(is, X, {}, A)
  <2>1. Fits(ev \o ch, X \union {}, {} \union {}, {} \union A)
    BY <1>6, <1>7, FitsConcat
  <2>2. QED
    BY <2>1
<1>9. /\ ev \in Seq(Instrs) /\ ch \in Seq(Instrs) /\ is \in Seq(Instrs) /\ Len(is) = Len(ev) + Len(ch)
      /\ Len(ch) = 2 /\ Len(ev) \in Nat
  <2>1. ev \in Seq(Instrs) /\ ch \in Seq(Instrs)
    BY <1>6, <1>7 DEF Fits, Form, Sound
  <2>2. Len(ch) = 2
    BY DEF ch, CondHead
  <2>3. is = ev \o ch
    OBVIOUS
  <2>4. Len(ev) \in Nat
    BY <2>1
  <2>5. is \in Seq(Instrs) /\ Len(is) = Len(ev) + Len(ch)
    BY <2>1, <2>3, ConcatProperties
  <2> HIDE DEF is
  <2>6. QED
    BY <2>1, <2>2, <2>4, <2>5
<1> HIDE DEF is
<1>10. /\ varCount' \in Nat /\ labelCountBlock' \in Nat /\ varCount < varCount'
       /\ varCount <= varCount' /\ labelCountBlock <= labelCountBlock'
  BY <1>2, <1>3
<1>11. \A r \in X : Fresh(r)
  BY <1>10, FreshNext DEF X
<1>12. Len(code) \in Nat /\ code \in Seq(Instrs) /\ visits \in Seq(Visits)
  BY <1>1 DEF Generated, CodeOK, VisitsOK
<1>13. A \subseteq Nat /\ \A n \in A : n <= Len(code) + Len(is)
  BY <1>5, <1>9, <1>12 DEF A
<1>14. \A h \in Heads(code) : h[1] \notin A
  <2>1. ASSUME NEW h \in Heads(code) PROVE h[1] <= Len(code)
    BY HeadsTied DEF FormInv
  <2>2. QED
    BY <1>5, <1>12, <2>1 DEF A
<1>15. Opens(v, {})
  <2>1. Len(code') = Len(code) + Len(is)
    BY <1>2, <1>9, <1>12, ConcatProperties
  <2>2. v.begin <= Len(code')
    BY <1>5, <1>9, <1>12, <2>1, SMTT(30)
  <2>3. QED
    BY <1>5, <2>2 DEF Opens
<1>16. \A q \in 1 .. Len(visits') :
         \/ \E p \in 1 .. Len(visits) : Like(visits'[q], visits[p])
         \/ Opens(visits'[q], {})
  BY <1>2, <1>12, <1>15, LikePushed
<1>17. \A h \in Heads(code) : h[1] \in A => Matched(is, h[1], h[2])
  BY <1>14
<1>18. code' = code \o is /\ retty' = retty
  BY <1>2
<1>19. QED
  BY <1>8, <1>10, <1>11, <1>13, <1>16, <1>17, <1>18, FormTail

\* the end of a condition, or of its first block
LEMMA FormCondEnd ==
  ASSUME IInv, FormInv, visits # <<>>, Top.kind \in {"if", "ifelse", "else"},
         NEW l1 \in Nat, NEW l2 \in Nat, NEW to \in {"end", "else"},
         code' = code \o << Branch("br", <<l1>>, <<Place("end", Top.begin)>>, open),
                            Branch("label", <<l2>>, <<Place(to, Top.begin)>>, Top.in) >>,
         retty' = retty, varCount' = varCount, labelCountBlock' = labelCountBlock,
         \A q \in 1 .. Len(visits') : \E p \in 1 .. Len(visits) : Like(visits'[q], visits[p])
  PROVE  FormInv'
<1> DEFINE v == Top
           t1 == <<l1>>
           m == <<Place("end", v.begin)>>
           is == <<Branch("br", t1, m, open), Branch("label", <<l2>>, <<Place(to, v.begin)>>, v.in)>>
           A == {v.begin}
<1>1. TypeOK /\ Generated
  BY DEF IInv
<1>2. /\ open \in Seq(Names) /\ varCount \in Nat /\ labelCountBlock \in Nat
      /\ code \in Seq(Instrs) /\ Len(code) \in Nat
  BY <1>1, GenTypes, LenProperties DEF Generated, CodeOK
<1>3. /\ v \in Visits /\ v = visits[Len(visits)] /\ Len(visits) \in 1 .. Len(visits)
      /\ v.in \in Seq(Names)
  BY <1>1, TopVisit
<1>4. code' = code \o is
  OBVIOUS
<1>5. v.begin \in Nat /\ v.kind \in {"if", "ifelse", "else"}
  BY <1>3 DEF Visits
<1> HIDE DEF v
<1>6. v.begin <= Len(code) /\ \A h \in Heads(code) : h[1] # v.begin
  BY <1>3, <1>5 DEF FormInv, Begun
<1>7. Fits(is, {}, {}, A)
  <2>1. t1 \in Seq(Nat) /\ Len(t1) = 1
    OBVIOUS
  <2>2. Place("end", v.begin) \in Places /\ Place("end", v.begin).to = "end"
    BY <1>5, PlaceType DEF Place
  <2>3. m \in Seq(Places) /\ Len(m) = 1 /\ m[1] = Place("end", v.begin)
    BY <2>2
  <2> HIDE DEF t1, m
  <2>4. \A k \in 1 .. Len(m) : m[k].to # "start"
    <3>1. \A k \in 1 .. Len(m) : k = 1
      BY <2>3
    <3>2. QED
      BY <2>2, <2>3, <3>1
  <2>5. QED
    BY <1>2, <1>3, <1>5, <2>1, <2>3, <2>4, CondForm
<1>8. Len(is) \in Nat
  OBVIOUS
<1> HIDE DEF is
<1>9. A \subseteq Nat /\ (\A n \in A : n <= Len(code) + Len(is)) /\ \A h \in Heads(code) : h[1] \notin A
  BY <1>2, <1>5, <1>6, <1>8
<1>10. /\ varCount' \in Nat /\ labelCountBlock' \in Nat
       /\ varCount <= varCount' /\ labelCountBlock <= labelCountBlock'
  BY <1>2
<1> HIDE DEF A
<1> DEFINE X == {}
<1>13. Fits(is, X, {}, A) /\ \A r \in X : Fresh(r)
  BY <1>7
<1>14. /\ \A h \in Heads(code) : h[1] \in A => Matched(is, h[1], h[2])
       /\ A \subseteq Nat /\ \A n \in A : n <= Len(code) + Len(is)
  BY <1>9
<1>15. \A q \in 1 .. Len(visits') :
         \/ \E p \in 1 .. Len(visits) : Like(visits'[q], visits[p])
         \/ Opens(visits'[q], {})
  OBVIOUS
<1> HIDE DEF X
<1>16. QED
  BY <1>4, <1>10, <1>13, <1>14, <1>15, FormTail

LEMMA FormLeaveCond ==
  ASSUME IInv, FormInv, LeaveCond
  PROVE  FormInv'
<1> DEFINE end == Top.label + (IF Top.kind = "else" THEN 2 ELSE 1)
<1>1. TypeOK /\ Generated
  BY DEF IInv
<1>2. /\ visits # <<>> /\ Top.kind \in {"if", "else"} /\ visits' = Returned(Outer)
      /\ code' = code \o << Branch("br", <<end>>, << Place("end", Top.begin) >>, open),
                            Branch("label", <<end>>, << Place("end", Top.begin) >>, Top.in) >>
      /\ retty' = retty /\ varCount' = varCount /\ labelCountBlock' = labelCountBlock
  BY DEF LeaveCond, Write, counters
<1>3. end \in Nat
  <2>1. Top.label \in Nat
    BY <1>1, <1>2, TopVisit DEF Visits
  <2>2. QED
    BY <2>1
<1>4. \A q \in 1 .. Len(visits') : \E p \in 1 .. Len(visits) : Like(visits'[q], visits[p])
  BY <1>2, LikeOuter
<1> HIDE DEF end
<1>5. QED
  BY <1>2, <1>3, <1>4, FormCondEnd

LEMMA FormEnterElse ==
  ASSUME IInv, FormInv, EnterElse
  PROVE  FormInv'
<1>1. TypeOK /\ Generated
  BY DEF IInv
<1>2. /\ visits # <<>> /\ Top.kind = "ifelse"
      /\ visits' = Append(Outer, [Top EXCEPT !.kind = "else", !.stage = "body"])
      /\ code' = code \o << Branch("br", <<Top.label + 2>>, << Place("end", Top.begin) >>, open),
                            Branch("label", <<Top.label + 1>>, << Place("else", Top.begin) >>, Top.in) >>
      /\ retty' = retty /\ varCount' = varCount /\ labelCountBlock' = labelCountBlock
  BY DEF EnterElse, Write, counters
<1>3. Top.label + 1 \in Nat /\ Top.label + 2 \in Nat
  <2>1. Top.label \in Nat
    BY <1>1, <1>2, TopVisit DEF Visits
  <2>2. QED
    BY <2>1
<1>4. \A q \in 1 .. Len(visits') : \E p \in 1 .. Len(visits) : Like(visits'[q], visits[p])
  <2> DEFINE w == [Top EXCEPT !.kind = "else", !.stage = "body"]
             n == Len(visits)
  <2>1. visits \in Seq(Visits) /\ visits # <<>> /\ n \in 1 .. n /\ Top = visits[n] /\ Top \in Visits
    BY <1>1, <1>2, TopVisit
  <2>2. Like(w, Top)
    BY <1>2, <2>1 DEF Like, Visits
  <2>3. /\ Outer \in Seq(Visits) /\ Len(Outer) = n - 1
        /\ \A q \in 1 .. Len(Outer) : Outer[q] = visits[q]
    BY <2>1, TakeBegins DEF Outer
  <2>4. n \in Nat /\ visits' = Append(Outer, w)
    BY <1>2, <2>1
  <2> HIDE DEF w
  <2> DEFINE o == Outer
  <2> HIDE DEF o
  <2>5. /\ Len(visits') = n
        /\ \A q \in 1 .. (n - 1) : visits'[q] = Outer[q]
        /\ visits'[n] = w
    <3>1. o \in Seq(Visits) /\ Len(o) = n - 1 /\ n - 1 \in Nat
      BY <2>1, <2>3 DEF o
    <3>2. /\ Len(Append(o, w)) = Len(o) + 1 /\ Append(o, w)[Len(o) + 1] = w
          /\ \A q \in 1 .. Len(o) : Append(o, w)[q] = o[q]
      BY <3>1
    <3>3. Len(o) + 1 = n
      BY <2>4, <3>1
    <3>4. visits' = Append(o, w)
      BY <2>4 DEF o
    <3>5. QED
      BY <3>1, <3>2, <3>3, <3>4 DEF o
  <2>6. ASSUME NEW q \in 1 .. Len(visits') PROVE \E p \in 1 .. Len(visits) : Like(visits'[q], visits[p])
    <3>1. CASE q = n
      BY <2>1, <2>2, <2>5, <3>1
    <3>2. CASE q # n
      <4>1. q \in 1 .. (n - 1) /\ q \in 1 .. n
        BY <2>4, <2>5, <3>2
      <4>2. visits'[q] = visits[q]
        BY <2>3, <2>5, <4>1
      <4>3. QED
        BY <4>1, <4>2 DEF Like
    <3>3. QED
      BY <3>1, <3>2
  <2>7. QED
    BY <2>6
<1>5. QED
  BY <1>2, <1>3, <1>4, FormCondEnd

LEMMA FormEnterFunc ==
  ASSUME IInv, FormInv, NEW args \in ArgLists, NEW ty \in RetTypes, EnterFunc(args, ty)
  PROVE  FormInv'
<1> DEFINE names == Copied(args)
           is == Copies(args)
           n == Len(args)
           v == Visit("func", None, names)
<1>1. TypeOK /\ Generated /\ code = <<>> /\ visits = <<>>
  <2>1. phase = "start"
    BY DEF EnterFunc
  <2>2. QED
    BY <2>1 DEF IInv, Generated, PhaseOK
<1>2. /\ code' = code \o is /\ visits' = << v >>
      /\ varCount' = varCount /\ labelCountBlock' = labelCountBlock
  BY DEF EnterFunc, Write, Copied, Copies, counters
<1>3. /\ open \in Seq(Names) /\ varCount \in Nat /\ labelCountBlock \in Nat
  BY <1>1, GenTypes
<1>4. args \in Seq(Vars) /\ (\A i, j \in 1 .. Len(args) : args[i] = args[j] => i = j)
  BY ControlAssumption, Zenon
<1>5. Plain(is)
  BY <1>4, CopiesPiece
<1>6. /\ Len(is) = n /\ n \in Nat
      /\ \A i \in 1 .. n : is[i].op = "alloca" /\ is[i].reg = Var(args[i]) /\ is[i].meant = <<>>
                           /\ args[i] \in Vars
  <2>1. n \in Nat /\ \A i \in 1 .. n : args[i] \in Vars
    BY <1>4
  <2>2. Len(is) = n /\ \A i \in 1 .. n : is[i] = Do("alloca", names[i], SubSeq(names, 1, i - 1))
    BY <2>1 DEF Copies
  <2>3. \A i \in 1 .. n : names[i] = Var(args[i])
    BY DEF Copied
  <2> HIDE DEF is, names
  <2>6. \A r, o : LET x == Do("alloca", r, o) IN x.op = "alloca" /\ x.reg = r /\ x.meant = <<>>
    BY DEF Do, Instr
  <2>4. ASSUME NEW i \in 1 .. n
        PROVE  is[i].op = "alloca" /\ is[i].reg = Var(args[i]) /\ is[i].meant = <<>>
    BY <2>2, <2>3, <2>6
  <2>5. QED
    BY <2>1, <2>2, <2>4
<1> HIDE DEF is
<1>7. \A i \in 1 .. n : Var(args[i])[1] = "var"
  BY <1>6, NameTypes
<1>8. GivenOnce(is)
  <2>1. ASSUME NEW i \in 1 .. n, NEW j \in 1 .. n, Var(args[i]) = Var(args[j]) PROVE i = j
    <3>1. args[i] = args[j]
      BY <2>1 DEF Var
    <3>2. QED
      BY <1>4, <3>1
  <2>2. QED
    BY <1>6, <2>1 DEF GivenOnce
<1>9. \A i \in 1 .. Len(is) : FreePlaced(is, i) /\ StrPlaced(is, i) /\ HeapPlaced(is, i)
                              /\ Noted(is[i])
  BY <1>6, <1>7 DEF FreePlaced, StrPlaced, HeapPlaced, Noted
<1>10. Form(is, Given(is), {}, {})
  BY <1>5, <1>8, <1>9, PlainForm
<1>11. is \in Seq(Instrs) /\ code' = is
  <2>1. is \in Seq(Instrs)
    BY <1>5 DEF Plain, Sound
  <2>2. QED
    BY <1>1, <1>2, <2>1
<1>12. Returns'
  <2>1. \A i \in 1 .. Len(code') : code'[i].op # "ret"
    BY <1>6, <1>11
  <2>2. QED
    BY <2>1 DEF Returns
<1>13. \A r \in Given(is) : Fresh(r)
  <2>1. Given(code) = {}
    BY <1>1, ElemsEmpty DEF Given
  <2>2. \A x \in Elems(is) : x.reg[1] = "var"
    BY <1>6, <1>7 DEF Elems
  <2>3. \A r \in Given(is) : r[1] = "var"
    BY <2>2 DEF Given
  <2>4. QED
    BY <2>1, <2>3 DEF Fresh
<1>14. /\ varCount' \in Nat /\ labelCountBlock' \in Nat
       /\ varCount <= varCount' /\ labelCountBlock <= labelCountBlock'
  BY <1>2, <1>3
<1>15. \A q \in 1 .. Len(visits') :
         \/ \E p \in 1 .. Len(visits) : Like(visits'[q], visits[p])
         \/ Opens(visits'[q], {})
  <2>1. v.kind = "func"
    BY DEF Visit
  <2> HIDE DEF v
  <2>2. \A q \in 1 .. Len(visits') : visits'[q] = v
    BY <1>2
  <2>3. Opens(v, {})
    BY <2>1 DEF Opens
  <2>4. QED
    BY <2>2, <2>3
<1>16. code' = code \o is
  BY <1>2
<1> HIDE DEF v
<1> DEFINE H == {}
           A == {}
<1>17. /\ Form(is, Given(is), H, A)
       /\ A \subseteq Nat /\ (\A m \in A : m <= Len(code) + Len(is))
       /\ (\A h \in Heads(code) : h[1] \in A => Matched(is, h[1], h[2]))
       /\ (\A h \in H : h[1] \in Nat /\ h[1] > Len(code))
  BY <1>10
<1>18. \A q \in 1 .. Len(visits') :
         \/ \E p \in 1 .. Len(visits) : Like(visits'[q], visits[p])
         \/ Opens(visits'[q], H)
  BY <1>15
<1> HIDE DEF H, A
<1>19. QED
  BY <1>12, <1>13, <1>14, <1>16, <1>17, <1>18, FormGrown

LEMMA FormLeaveFunc ==
  ASSUME IInv, FormInv, LeaveFunc
  PROVE  FormInv'
<1> DEFINE r == IF retty = "heap" THEN code[Len(code) - 1].reg ELSE None
           x == Do("ret", r, open)
           is == <<x>>
<1>1. TypeOK /\ Generated
  BY DEF IInv
<1>2. /\ code' = code \o is /\ visits' = <<>> /\ retty' = retty /\ visits # <<>>
      /\ varCount' = varCount /\ labelCountBlock' = labelCountBlock
      /\ Top.kind = "func" /\ Top.stage = "done"
      /\ retty # "heap" \/ code[Len(code) - 1].op = "ret"
  BY DEF LeaveFunc, Write, counters
<1>3. /\ open \in Seq(Names) /\ varCount \in Nat /\ labelCountBlock \in Nat
  BY <1>1, GenTypes
<1>4. Len(visits) = 1 /\ Top = visits[1]
  BY <1>1, <1>2, TopVisit
<1>5. Len(code) >= 2 /\ code \in Seq(Instrs) /\ Len(code) \in Nat
  BY <1>1, <1>2, <1>4, LenProperties DEF Generated, PhaseOK, CodeOK
<1>6. r \in Regs
  <2>1. None \in Regs
    BY NameTypes
  <2>2. code[Len(code) - 1].reg \in Regs
    <3>1. code[Len(code) - 1] \in Instrs
      BY <1>5
    <3>2. QED
      BY <3>1 DEF Instrs
  <2>3. QED
    BY <2>1, <2>2
<1>7. x.op = "ret"
  BY DEF Do, Instr
<1> HIDE DEF r
<1>8. Form(is, Given(is), {}, {}) /\ Given(is) = {}
  BY <1>3, <1>6, FitsOne DEF Gives
<1> HIDE DEF x
<1>9. is \in Seq(Instrs)
  BY <1>8 DEF Form, Sound
<1>10. Len(is) = 1 /\ is[1] = x
  OBVIOUS
<1> HIDE DEF is
<1>11. Returns'
  <2> DEFINE u == code'
             n == Len(code)
  <2>1. /\ Len(u) = n + 1
        /\ \A i \in 1 .. n : u[i] = code[i]
        /\ \A i \in 1 .. Len(u) : i \in 1 .. n \/ i = n + 1
    <3>1. /\ Len(u) = n + Len(is)
          /\ \A i \in 1 .. n : i \in 1 .. Len(u) /\ u[i] = code[i]
      BY <1>2, <1>5, <1>9, ConcatPlaces
    <3>2. QED
      BY <1>5, <1>10, <3>1
  <2>2. SUFFICES ASSUME retty = "heap", NEW i \in 1 .. Len(u), u[i].op = "ret"
                 PROVE  i > 1 /\ (u[i - 1].op = "heap" \/ (i > 2 /\ u[i - 2].op = "ret"))
    BY <1>2 DEF Returns
  <2> HIDE DEF u
  <2>3. CASE i \in 1 .. n
    <3>1. code[i].op = "ret"
      BY <2>1, <2>2, <2>3
    <3>2. i > 1 /\ (code[i - 1].op = "heap" \/ (i > 2 /\ code[i - 2].op = "ret"))
      BY <2>2, <2>3, <3>1 DEF FormInv, Returns
    <3>3. i - 1 \in 1 .. n /\ (i > 2 => i - 2 \in 1 .. n)
      BY <1>5, <2>3, <3>2
    <3>4. QED
      BY <2>1, <3>2, <3>3
  <2>4. CASE i = n + 1
    <3>1. i - 2 = n - 1 /\ n - 1 \in 1 .. n /\ i > 2
      BY <1>5, <2>4
    <3>2. u[i - 2].op = "ret"
      BY <1>2, <2>1, <2>2, <3>1
    <3>3. QED
      BY <1>5, <2>4, <3>1, <3>2
  <2>5. QED
    BY <2>1, <2>3, <2>4
<1>12. /\ varCount' \in Nat /\ labelCountBlock' \in Nat
       /\ varCount <= varCount' /\ labelCountBlock <= labelCountBlock'
  BY <1>2, <1>3
<1>13. code' = code \o is /\ Len(visits') = 0
  BY <1>2
<1> DEFINE H == {}
           A == {}
<1>14. /\ Form(is, Given(is), H, A) /\ (\A y \in Given(is) : Fresh(y))
       /\ A \subseteq Nat /\ (\A m \in A : m <= Len(code) + Len(is))
       /\ (\A h \in Heads(code) : h[1] \in A => Matched(is, h[1], h[2]))
       /\ (\A h \in H : h[1] \in Nat /\ h[1] > Len(code))
  BY <1>8
<1>15. \A q \in 1 .. Len(visits') :
         \/ \E p \in 1 .. Len(visits) : Like(visits'[q], visits[p])
         \/ Opens(visits'[q], H)
  BY <1>13
<1> HIDE DEF H, A
<1>16. QED
  BY <1>11, <1>12, <1>13, <1>14, <1>15, FormGrown

\* what does not write code
LEMMA FormSame ==
  ASSUME FormInv, UNCHANGED gen
  PROVE  FormInv'
<1>1. /\ code' = code /\ visits' = visits /\ retty' = retty
      /\ varCount' = varCount /\ labelCountBlock' = labelCountBlock
  BY DEF gen, counters
<1>2. NamesGiven' /\ Returns'
  BY <1>1 DEF FormInv, NamesGiven, Returns
<1>3. /\ Formed(code') /\ (\A n \in Ats(code') : n <= Len(code'))
      /\ \A p \in 1 .. Len(visits') : Begun(visits'[p], code')
  BY <1>1 DEF FormInv
<1>4. QED
  BY <1>2, <1>3 DEF FormInv

LEMMA InitForm == Init => FormInv
<1> SUFFICES ASSUME Init PROVE FormInv
  OBVIOUS
<1>1. code = <<>> /\ visits = <<>> /\ Elems(<<>>) = {} /\ Len(<<>>) = 0
  BY ElemsEmpty DEF Init
<1>2. Shaped(code) /\ GivenOnce(code) /\ Heads(code) = {} /\ Ats(code) = {} /\ Given(code) = {}
  BY <1>1 DEF Shaped, GivenOnce, Heads, Ats, Given
<1>3. NamesGiven /\ Returns
  BY <1>1, <1>2 DEF NamesGiven, Returns
<1>4. QED
  BY <1>1, <1>2, <1>3 DEF FormInv, Formed

LEMMA FormInvStep ==
  ASSUME IInv, FormInv, [Next]_vars
  PROVE  FormInv'
<1>1. CASE UNCHANGED vars
  BY <1>1, FormSame DEF vars
<1>2. CASE Generate
  <2>1. ASSUME NEW args \in ArgLists, NEW ty \in RetTypes, EnterFunc(args, ty) PROVE FormInv'
    BY <2>1, FormEnterFunc
  <2>2. CASE LeaveFunc
    BY <2>2, FormLeaveFunc
  <2>3. CASE EnterStmts
    BY <2>3, FormEnterStmts
  <2>4. CASE LeaveStmts
    BY <2>4, FormLeaveStmts
  <2>5. ASSUME NEW v \in Vars, VarDecl(v) PROVE FormInv'
    BY <2>5, FormVarDecl
  <2>6. ASSUME NEW v \in Vars, NEW e \in Exprs, Assign(v, e) PROVE FormInv'
    BY <2>6, FormAssign
  <2>7. ASSUME NEW e \in Exprs, ExprStmt(e) PROVE FormInv'
    BY <2>7, FormExprStmt
  <2>8. CASE Return
    BY <2>8, FormReturn
  <2>9. CASE EnterLoop
    BY <2>9, FormEnterLoop
  <2>10. CASE LeaveLoop
    BY <2>10, FormLeaveLoop
  <2>11. ASSUME NEW n \in Depths, LoopBreak(n) \/ LoopNext(n) PROVE FormInv'
    BY <2>11, FormLoopJump
  <2>12. CASE LoopJumpError
    BY <2>12, FormSame DEF LoopJumpError
  <2>13. ASSUME NEW else \in BOOLEAN, EnterCond(else) PROVE FormInv'
    BY <2>13, FormEnterCond
  <2>14. CASE EnterElse
    BY <2>14, FormEnterElse
  <2>15. CASE LeaveCond
    BY <2>15, FormLeaveCond
  <2>16. QED
    BY <1>2, <2>1, <2>2, <2>3, <2>4, <2>5, <2>6, <2>7, <2>8, <2>9, <2>10, <2>11, <2>12,
       <2>13, <2>14, <2>15, Zenon DEF Generate
<1>3. CASE Run
  <2>1. UNCHANGED gen
    BY <1>3 DEF Run, RunSave, RunRestore, RunAlloca, RunUse, RunBranch, RunNext, RunCondBranch,
                RunHeapAlloc, RunFree, RunFreeOther, RunReturn
  <2>2. QED
    BY <2>1, FormSame
<1>4. QED
  BY <1>1, <1>2, <1>3, Zenon DEF Next

-------------------------------------------------------------------------------
(***************************************************************************)
(* The run of the code.                                                    *)
(***************************************************************************)
\* where the code c runs, it was led by a label or went on from the instruction before
Reached(c, i)   == i = 1 \/ c[i].op = "label" \/ c[i - 1].op \notin Enders
ReachedAt(c, i) == Reached(c, i) /\ (i = 1 \/ c[i].op = "label" \/ Reached(c, i - 1))

\* a loop with the height n on entry: what its name notes, what its start and its
\* restores make of the stack with len allocations
HeightAt(c, i, h, n, rg, len) ==
  /\ h[2] \in Elems(c[i].open) => rg[h[2]].n = n
  /\ Starts(c, i) /\ c[i].meant[1].at = h[1] => len = n
  /\ c[i].op = "save" /\ c[i].reg = h[2] => len = n
  /\ i > 1 /\ c[i - 1].op = "restore" /\ c[i - 1].reg = h[2] => len = n

EnteredIn(c, e) ==
  \A b \in DOMAIN e : e[b] \in [height : Nat, nexts : Nat] /\ \E h \in Heads(c) : h[1] = b

\* loops that have been entered and have not executed a next statement
HeightsIn(c, i, e, rg, len) ==
  \A h \in Heads(c) :
    h[1] \in DOMAIN e /\ e[h[1]].nexts = 0 => HeightAt(c, i, h, e[h[1]].height, rg, len)

\* a block that will be released or returned
Holds(rg, a, r) == r \in DOMAIN rg /\ rg[r].mem = "heap" /\ rg[r].n = a
Due(c, i, r) ==
  \/ i > 1 /\ c[i - 1].op \in {"call", "strcall", "heap"} /\ c[i - 1].reg = r
  \/ i > 2 /\ c[i - 2].op \in {"call", "strcall"} /\ c[i - 2].reg = r /\ c[i].op = "free"
BalancedIn(c, i, live, rg, loose) ==
  /\ \A a \in DOMAIN live : live[a] \in loose \/ (Holds(rg, a, live[a]) /\ Due(c, i, live[a]))
  /\ i > 1 /\ c[i - 1].op \in {"call", "heap"} =>
       \E a \in DOMAIN live : live[a] = c[i - 1].reg /\ Holds(rg, a, c[i - 1].reg)
  /\ c[i].op = "free" /\ c[i - 2].op = "call" => \E a \in DOMAIN live : Holds(rg, a, c[i].reg)

\* the library's list has every block that is in use, once
OnceIn(lst)   == \A i, j \in 1 .. Len(lst) : lst[i] = lst[j] => i = j
ListedIn(hp)  == Elems(hp.lst) = DOMAIN hp.live /\ OnceIn(hp.lst)

RunInv ==
  /\ phase \in {"start", "gen"} => DOMAIN entered = {}
  /\ EnteredIn(code, entered)
  /\ phase \in {"run", "returned"} =>
       /\ ip \in 1 .. Len(code) /\ ReachedAt(code, ip)
       /\ BalancedIn(code, ip, heap.live, reg, Unassigned)
  /\ phase = "run" => HeightsIn(code, ip, entered, reg, Len(stack))
  /\ ListedIn(heap)
  /\ phase = "returned" => Now.op = "ret"
  /\ phase = "undefined" => ip > 2 /\ code[ip - 2].op = "strcall"

\* the code that runs, as it was written
LEMMA CodeFacts ==
  ASSUME IInv, FormInv
  PROVE  /\ code \in Seq(Instrs) /\ GivenOnce(code) /\ Len(code) \in Nat
         /\ \A h \in Heads(code) : Matched(code, h[1], h[2])
         /\ \A i \in 1 .. Len(code) :
              /\ code[i] \in Instrs /\ InstrOK(code[i]) /\ Noted(code[i])
              /\ LabelPlaced(code, i) /\ FreePlaced(code, i)
              /\ StrPlaced(code, i) /\ HeapPlaced(code, i)
<1>1. code \in Seq(Instrs) /\ \A x \in Elems(code) : InstrOK(x)
  BY DEF IInv, Generated, CodeOK
<1>2. Shaped(code) /\ GivenOnce(code) /\ \A h \in Heads(code) : Matched(code, h[1], h[2])
  BY DEF FormInv, Formed
<1>3. \A i \in 1 .. Len(code) : code[i] \in Instrs /\ InstrOK(code[i])
  BY <1>1 DEF Elems
<1>4. Len(code) \in Nat
  BY <1>1
<1>5. QED
  BY <1>1, <1>2, <1>3, <1>4 DEF Shaped

\* where the stack pointer of a loop gets its name
LEMMA HeadNamed ==
  ASSUME IInv, FormInv, NEW h \in Heads(code)
  PROVE  \E i \in 1 .. Len(code) :
           /\ Starts(code, i) /\ i + 1 \in 1 .. Len(code) /\ code[i].meant[1].at = h[1]
           /\ code[i + 1].op = "save" /\ code[i + 1].reg = h[2] /\ h[2][1] = "block"
<1>1. PICK i \in 1 .. Len(code) :
        Starts(code, i) /\ h = <<code[i].meant[1].at, code[i + 1].reg>>
  BY DEF Heads
<1>2. h[1] = code[i].meant[1].at /\ h[2] = code[i + 1].reg
  BY <1>1
<1>3. i < Len(code) /\ code[i + 1].op = "save"
  BY <1>1, CodeFacts DEF LabelPlaced
<1>4. i + 1 \in 1 .. Len(code) /\ Len(code) \in Nat
  BY <1>3, CodeFacts
<1>5. code[i + 1].reg[1] = "block"
  BY <1>3, <1>4, CodeFacts DEF InstrOK
<1>6. QED
  BY <1>1, <1>2, <1>3, <1>4, <1>5

\* the label of a loop's start belongs to a loop
LEMMA StartHead ==
  ASSUME NEW i \in 1 .. Len(code), Starts(code, i)
  PROVE  \E h \in Heads(code) : h[1] = code[i].meant[1].at
<1> DEFINE h == <<code[i].meant[1].at, code[i + 1].reg>>
<1>1. h \in Heads(code)
  BY DEF Heads
<1>2. h[1] = code[i].meant[1].at
  OBVIOUS
<1>3. QED
  BY <1>1, <1>2

\* names that are given by one instruction
LEMMA NamedOnce ==
  ASSUME IInv, FormInv, NEW i \in 1 .. Len(code), NEW j \in 1 .. Len(code),
         code[i].op \in Gives, code[j].op \in Gives, code[i].reg = code[j].reg
  PROVE  i = j
BY CodeFacts DEF GivenOnce

\* a block that is due and not left over is returned, released, or released next
LEMMA DueNext ==
  ASSUME IInv, FormInv, NEW i \in 1 .. Len(code), NEW r, Due(code, i, r), r \notin Unassigned,
         code[i].op # "free"
  PROVE  /\ i > 1 /\ code[i - 1].reg = r
         /\ \/ code[i - 1].op = "heap" /\ code[i].op = "ret" /\ code[i].reg = r
            \/ /\ code[i - 1].op \in {"call", "strcall"} /\ code[i].op \in {"use", "alloca"}
               /\ i + 1 \in 1 .. Len(code) /\ code[i + 1].op = "free"
<1>1. i > 1 /\ code[i - 1].op \in {"call", "strcall", "heap"} /\ code[i - 1].reg = r
  BY DEF Due
<1>2. i - 1 \in 1 .. Len(code) /\ (i - 1) + 1 = i /\ (i - 1) + 2 = i + 1 /\ Len(code) \in Nat
  BY <1>1, CodeFacts
<1>3. CASE code[i - 1].op = "heap"
  <2>1. HeapPlaced(code, i - 1)
    BY <1>2, CodeFacts
  <2>2. QED
    BY <1>1, <1>2, <1>3, <2>1 DEF HeapPlaced
<1>4. CASE code[i - 1].op = "strcall"
  <2>1. StrPlaced(code, i - 1)
    BY <1>2, CodeFacts
  <2>2. i + 1 <= Len(code) /\ code[i].op = "alloca" /\ code[i + 1].op = "free"
    BY <1>2, <1>4, <2>1 DEF StrPlaced
  <2>3. QED
    BY <1>1, <1>2, <1>4, <2>2
<1>5. CASE code[i - 1].op = "call"
  <2>1. PICK j \in 1 .. Len(code) : code[j].op = "free" /\ code[j].reg = r
    BY <1>1, <1>2, <1>5 DEF Unassigned
  <2>2. FreePlaced(code, j)
    BY CodeFacts
  <2>3. j > 2 /\ j - 2 \in 1 .. Len(code) /\ j - 1 \in 1 .. Len(code)
    BY <1>2, <2>1, <2>2 DEF FreePlaced
  <2>4. CASE code[j - 2].op = "call" /\ code[j - 2].reg = r /\ code[j - 1].op \in {"use", "alloca"}
    <3>1. j - 2 = i - 1
      BY <1>1, <1>2, <1>5, <2>3, <2>4, NamedOnce DEF Gives
    <3>2. j - 1 = i /\ j = i + 1
      BY <1>2, <2>3, <3>1
    <3>3. QED
      BY <1>1, <1>5, <2>1, <2>4, <3>2
  <2>5. CASE code[j - 1].op = "alloca" /\ code[j - 1].reg = r
    <3>1. j - 1 = i - 1
      BY <1>1, <1>2, <1>5, <2>3, <2>5, NamedOnce DEF Gives
    <3>2. QED
      BY <1>5, <2>5, <3>1
  <2>6. QED
    BY <2>1, <2>2, <2>4, <2>5 DEF FreePlaced
<1>6. QED
  BY <1>1, <1>3, <1>4, <1>5

\* the copy of a string is released instead of the string
LEMMA FreedCopy ==
  ASSUME IInv, FormInv, phase = "run", Now.op = "free", code[ip - 2].op # "call"
  PROVE  ip > 2 /\ code[ip - 2].op = "strcall" /\ reg[Now.reg].mem = "stack"
<1>1. /\ code \in Seq(Instrs) /\ ip \in 1 .. Len(code) /\ Now = code[ip]
      /\ Scope(Now.open, reg, stack) /\ PhaseOK /\ Now.open \in Seq(Names)
      /\ \A i \in 1 .. Len(code) : code[i].open \in Seq(Names)
  BY RunTypes
<1>2. FreePlaced(code, ip)
  BY <1>1, CodeFacts
<1>3. ip > 2 /\ code[ip - 2].op = "strcall" /\ code[ip - 1].op = "alloca" /\ code[ip - 1].reg = Now.reg
  BY <1>1, <1>2 DEF FreePlaced
<1>4. ip - 1 \in 1 .. (Len(code) - 1) /\ ip - 1 \in 1 .. Len(code) /\ (ip - 1) + 1 = ip
  BY <1>1, <1>3
<1>5. Piece(code, <<>>, open)
  BY <1>1 DEF IInv, Generated, CodeOK, PhaseOK
<1>6. Flow(code[ip - 1], Now.open)
  BY <1>1, <1>4, <1>5 DEF Piece
<1>7. Noted(code[ip - 1]) /\ InstrOK(code[ip - 1])
  BY <1>4, CodeFacts
<1>8. Now.reg[1] # "block" /\ Now.reg \in Names
  BY <1>3, <1>7 DEF Noted, InstrOK
<1>9. Now.open = Append(code[ip - 1].open, Now.reg) /\ code[ip - 1].open \in Seq(Names)
  BY <1>1, <1>3, <1>4, <1>6 DEF Flow
<1>10. \E k \in 1 .. Len(Now.open) : Now.open[k] = Now.reg
  <2> DEFINE o == code[ip - 1].open
             r == Now.reg
  <2>1. Len(o) \in Nat /\ Len(Append(o, r)) = Len(o) + 1 /\ Append(o, r)[Len(o) + 1] = r
    BY <1>8, <1>9
  <2>2. Len(o) + 1 \in 1 .. Len(Append(o, r))
    BY <2>1
  <2>3. QED
    BY <1>9, <2>1, <2>2
<1>11. reg[Now.reg].mem = "stack"
  BY <1>1, <1>8, <1>10 DEF Scope
<1>12. QED
  BY <1>3, <1>11

-------------------------------------------------------------------------------
(***************************************************************************)
(* The list of blocks.                                                     *)
(***************************************************************************)
LEMMA ListAppend ==
  ASSUME NEW lst \in Seq(Nat), NEW a \in Nat, OnceIn(lst), a \notin Elems(lst)
  PROVE  Elems(Append(lst, a)) = Elems(lst) \union {a} /\ OnceIn(Append(lst, a))
<1> DEFINE t == Append(lst, a)
<1>1. /\ Len(t) = Len(lst) + 1 /\ t[Len(lst) + 1] = a /\ Len(lst) \in Nat
      /\ \A i \in 1 .. Len(lst) : t[i] = lst[i]
  OBVIOUS
<1>2. Elems(t) = Elems(lst) \union {a}
  BY AppendElems
<1> HIDE DEF t
<1>3. \A i \in 1 .. Len(lst) : lst[i] # a
  BY DEF Elems
<1>4. ASSUME NEW i \in 1 .. Len(t), NEW j \in 1 .. Len(t), t[i] = t[j] PROVE i = j
  <2>1. (i \in 1 .. Len(lst) \/ i = Len(lst) + 1) /\ (j \in 1 .. Len(lst) \/ j = Len(lst) + 1)
    BY <1>1
  <2>2. CASE i \in 1 .. Len(lst) /\ j \in 1 .. Len(lst)
    BY <1>1, <1>4, <2>2 DEF OnceIn
  <2>3. CASE i = Len(lst) + 1 /\ j \in 1 .. Len(lst)
    BY <1>1, <1>3, <1>4, <2>3
  <2>4. CASE i \in 1 .. Len(lst) /\ j = Len(lst) + 1
    BY <1>1, <1>3, <1>4, <2>4
  <2>5. QED
    BY <2>1, <2>2, <2>3, <2>4
<1>5. OnceIn(t)
  BY <1>4 DEF OnceIn
<1>6. QED
  BY <1>2, <1>5 DEF t

LEMMA ListRemove ==
  ASSUME NEW lst \in Seq(Nat), NEW a \in Elems(lst), OnceIn(lst)
  PROVE  LET t == lst_remove(lst, a) IN Elems(t) = Elems(lst) \ {a} /\ OnceIn(t)
<1> DEFINE n == CHOOSE i \in 1 .. Len(lst) : lst[i] = a /\ \A j \in 1 .. (i - 1) : lst[j] # a
           s1 == SubSeq(lst, 1, n - 1)
           s2 == SubSeq(lst, n + 1, Len(lst))
           t == s1 \o s2
           m == Len(lst)
<1>1. m \in Nat
  OBVIOUS
<1>2. \E i \in 1 .. m : lst[i] = a /\ \A j \in 1 .. (i - 1) : lst[j] # a
  <2>1. PICK i \in 1 .. m : lst[i] = a
    BY DEF Elems
  <2>2. \A j \in 1 .. (i - 1) : j \in 1 .. m /\ j # i
    BY <1>1
  <2>3. \A j \in 1 .. (i - 1) : lst[j] # a
    BY <2>1, <2>2 DEF OnceIn
  <2>4. QED
    BY <2>1, <2>3
<1>3. n \in 1 .. m /\ lst[n] = a
  BY <1>2
<1>4. lst_remove(lst, a) = t
  <2>1. \E i \in 1 .. Len(lst) : lst[i] = a
    BY <1>2
  <2>2. QED
    BY <2>1 DEF lst_remove
<1> HIDE DEF n
<1>5. /\ s1 \in Seq(Nat) /\ Len(s1) = n - 1 /\ \A i \in 1 .. (n - 1) : s1[i] = lst[i]
      /\ s2 \in Seq(Nat) /\ Len(s2) = m - n /\ \A i \in 1 .. (m - n) : s2[i] = lst[n + i]
  <2>1. s1 \in Seq(Nat) /\ Len(s1) = n - 1 /\ \A i \in 1 .. (n - 1) : s1[i] = lst[i]
    BY <1>1, <1>3
  <2>2. s2 \in Seq(Nat) /\ Len(s2) = m - n /\ \A i \in 1 .. (m - n) : s2[i] = lst[n + i]
    BY <1>1, <1>3
  <2>3. QED
    BY <2>1, <2>2
<1> HIDE DEF s1, s2, t, m
<1>6. /\ Len(t) = m - 1
      /\ \A i \in 1 .. (n - 1) : i \in 1 .. Len(t) /\ t[i] = lst[i]
      /\ \A i \in 1 .. (m - n) : (n - 1) + i \in 1 .. Len(t) /\ t[(n - 1) + i] = lst[n + i]
      /\ \A i \in 1 .. Len(t) : i \in 1 .. (n - 1) \/ (i > n - 1 /\ i - (n - 1) \in 1 .. (m - n))
  <2>1. /\ Len(t) = Len(s1) + Len(s2)
        /\ \A i \in 1 .. Len(s1) : i \in 1 .. Len(t) /\ t[i] = s1[i]
        /\ \A i \in 1 .. Len(s2) : Len(s1) + i \in 1 .. Len(t) /\ t[Len(s1) + i] = s2[i]
        /\ \A i \in 1 .. Len(t) : i \in 1 .. Len(s1) \/ (i > Len(s1) /\ i - Len(s1) \in 1 .. Len(s2))
    <3>1. s1 \in Seq(Nat) /\ s2 \in Seq(Nat) /\ t = s1 \o s2
      BY <1>5 DEF t
    <3>2. QED
      BY <3>1, ConcatPlaces
  <2>2. Len(t) = m - 1
    BY <1>1, <1>3, <1>5, <2>1
  <2>3. QED
    BY <1>5, <2>1, <2>2
\* the place of an element in the list
<1> DEFINE old(i) == IF i < n THEN i ELSE i + 1
<1>7. /\ \A i \in 1 .. Len(t) : old(i) \in 1 .. m /\ old(i) # n /\ t[i] = lst[old(i)]
      /\ \A i, j \in 1 .. Len(t) : old(i) = old(j) => i = j
      /\ \A k \in 1 .. m : k # n => \E i \in 1 .. Len(t) : old(i) = k
  <2>1. ASSUME NEW i \in 1 .. Len(t)
        PROVE  old(i) \in 1 .. m /\ old(i) # n /\ t[i] = lst[old(i)]
    <3>1. CASE i \in 1 .. (n - 1)
      BY <1>1, <1>3, <1>6, <3>1
    <3>2. CASE i > n - 1 /\ i - (n - 1) \in 1 .. (m - n)
      <4>1. i >= n /\ old(i) = i + 1 /\ i + 1 = n + (i - (n - 1)) /\ i = (n - 1) + (i - (n - 1))
        BY <1>1, <1>3, <3>2
      <4>2. t[i] = lst[i + 1]
        BY <1>6, <3>2, <4>1
      <4>3. QED
        BY <1>1, <1>3, <1>6, <3>2, <4>1, <4>2
    <3>3. QED
      BY <1>6, <3>1, <3>2
  <2>2. \A i, j \in 1 .. Len(t) : old(i) = old(j) => i = j
    BY <1>1, <1>3, <1>6
  <2>3. ASSUME NEW k \in 1 .. m, k # n PROVE \E i \in 1 .. Len(t) : old(i) = k
    <3>1. CASE k < n
      <4>1. k \in 1 .. Len(t) /\ old(k) = k
        BY <1>1, <1>3, <1>6, <3>1
      <4>2. QED
        BY <4>1
    <3>2. CASE k > n
      <4>1. k - 1 \in 1 .. Len(t) /\ old(k - 1) = k
        BY <1>1, <1>3, <1>6, <3>2
      <4>2. QED
        BY <4>1
    <3>3. QED
      BY <1>3, <2>3, <3>1, <3>2
  <2>4. QED
    BY <2>1, <2>2, <2>3
<1> HIDE DEF old
<1>8. \A i, j \in 1 .. m : lst[i] = lst[j] => i = j
  BY DEF OnceIn, m
<1>9. OnceIn(t)
  BY <1>7, <1>8 DEF OnceIn
<1>10. ASSUME NEW x \in Elems(t) PROVE x \in Elems(lst) /\ x # a
  <2>1. PICK i \in 1 .. Len(t) : x = t[i]
    BY DEF Elems
  <2>2. old(i) \in 1 .. m /\ old(i) # n /\ x = lst[old(i)]
    BY <1>7, <2>1
  <2>3. lst[old(i)] # a
    BY <1>3, <1>8, <2>2
  <2>4. QED
    BY <2>2, <2>3 DEF Elems, m
<1>11. ASSUME NEW x \in Elems(lst), x # a PROVE x \in Elems(t)
  <2>1. PICK k \in 1 .. m : x = lst[k]
    BY DEF Elems, m
  <2>2. PICK i \in 1 .. Len(t) : old(i) = k
    BY <1>3, <1>7, <1>11, <2>1
  <2>3. x = t[i]
    BY <1>7, <2>1, <2>2
  <2>4. QED
    BY <2>3 DEF Elems
<1>12. Elems(t) = Elems(lst) \ {a}
  BY <1>10, <1>11
<1>13. QED
  BY <1>4, <1>9, <1>12

LEMMA ListLength ==
  ASSUME NEW lst \in Seq(Nat), OnceIn(lst)
  PROVE  Cardinality(Elems(lst)) = Len(lst)
<1> DEFINE n == Len(lst)
           F == [i \in 1 .. n |-> lst[i]]
<1>1. n \in Nat
  OBVIOUS
<1>2. F \in [1 .. n -> Elems(lst)]
  BY DEF Elems
<1>3. \A i, j \in 1 .. n : F[i] = F[j] => i = j
  BY DEF OnceIn
<1>4. \A x \in Elems(lst) : \E i \in 1 .. n : F[i] = x
  BY DEF Elems
<1> HIDE DEF F, n
<1>5. F \in Bijection(1 .. n, Elems(lst))
  BY <1>2, <1>3, <1>4, Fun_IsBij
<1>6. ExistsBijection(1 .. n, Elems(lst))
  BY <1>5, Fun_ExistsBij
<1>7. Cardinality(Elems(lst)) = n
  BY <1>1, <1>6, FS_CountingElements
<1>8. QED
  BY <1>7 DEF n

-------------------------------------------------------------------------------
(***************************************************************************)
(* The height of the stack around loops.                                   *)
(***************************************************************************)
\* to the next instruction
LEMMA HeightFalls ==
  ASSUME IInv, FormInv, phase = "run", Now.op \notin Enders, NEW h \in Heads(code), NEW n, NEW rg, NEW st,
         HeightAt(code, ip, h, n, reg, Len(stack)),
         \A r \in Elems(Now.open) : rg[r].n = reg[r].n,
         Now.op = "save" => rg[Now.reg].n = Len(stack),
         Now.op = "label" => st = stack,
         Now.op = "restore" => st = SubSeq(stack, 1, reg[Now.reg].n)
  PROVE  HeightAt(code, ip + 1, h, n, rg, Len(st))
<1> DEFINE i == ip
           s == code[ip + 1]
<1>1. /\ code \in Seq(Instrs) /\ ip \in 1 .. Len(code) /\ Now = code[ip] /\ Now \in Instrs
      /\ Scope(Now.open, reg, stack) /\ Now.open \in Seq(Names) /\ RegsType(reg)
      /\ stack \in Seq(Names) /\ Len(stack) \in Nat
  BY RunTypes
<1>2. ip + 1 \in 1 .. Len(code) /\ s.open \in Seq(Names) /\ Flow(Now, s.open)
  BY RunNextInstr DEF Enders
<1>3. PICK k \in 1 .. Len(code) :
        /\ Starts(code, k) /\ k + 1 \in 1 .. Len(code) /\ code[k].meant[1].at = h[1]
        /\ code[k + 1].op = "save" /\ code[k + 1].reg = h[2] /\ h[2][1] = "block"
  BY HeadNamed
<1>4. /\ h[2] \in Elems(Now.open) => reg[h[2]].n = n
      /\ Starts(code, ip) /\ Now.meant[1].at = h[1] => Len(stack) = n
      /\ Now.op = "save" /\ Now.reg = h[2] => Len(stack) = n
  BY <1>1 DEF HeightAt
<1>5. (ip + 1) - 1 = ip /\ ip + 1 > 1
  BY <1>1
<1>6. ASSUME h[2] \in Elems(s.open) PROVE rg[h[2]].n = n
  <2>1. CASE h[2] \in Elems(Now.open)
    BY <1>4, <2>1
  <2>2. CASE h[2] \notin Elems(Now.open)
    <3>1. ~Begins(s.open, Now.open)
      BY <1>2, <1>6, <2>2, <1>1, BeginsElems
    <3>2. Now.op \in {"save", "alloca"} /\ s.open = Append(Now.open, Now.reg)
      <4>1. Now.op \in Ops
        BY <1>1 DEF Instrs
      <4>2. QED
        BY <1>2, <3>1, <4>1 DEF Flow, Ops, Enders, Branches
    <3>3. Now.reg \in Names
      BY <1>1, <3>2, CodeFacts DEF InstrOK
    <3>4. Elems(s.open) = Elems(Now.open) \union {Now.reg}
      BY <1>1, <3>2, <3>3, AppendElems
    <3>5. h[2] = Now.reg
      BY <1>6, <2>2, <3>4
    <3>6. Noted(Now)
      BY <1>1, CodeFacts
    <3>7. Now.op = "save"
      BY <1>3, <3>2, <3>5, <3>6 DEF Noted
    <3>8. QED
      BY <1>4, <3>5, <3>7
  <2>3. QED
    BY <2>1, <2>2
<1>7. ~Starts(code, ip + 1)
  <2>1. LabelPlaced(code, ip + 1)
    BY <1>2, CodeFacts
  <2>2. QED
    BY <1>1, <1>5, <2>1 DEF LabelPlaced, Starts, Enders, Branches
<1>8. ASSUME s.op = "save", s.reg = h[2] PROVE Len(st) = n
  <2>1. k + 1 = ip + 1
    BY <1>2, <1>3, <1>8, NamedOnce DEF Gives
  <2>2. k = ip
    BY <1>1, <2>1
  <2>3. Starts(code, ip) /\ Now.meant[1].at = h[1] /\ Now.op = "label"
    BY <1>1, <1>3, <2>2 DEF Starts
  <2>4. QED
    BY <1>4, <2>3
<1>9. ASSUME Now.op = "restore", Now.reg = h[2] PROVE Len(st) = n
  <2>1. PICK p \in 1 .. Len(Now.open) : Now.open[p] = Now.reg
    BY <1>2, <1>9 DEF Flow
  <2>2. h[2] \in Elems(Now.open)
    BY <1>9, <2>1 DEF Elems
  <2>3. reg[h[2]].n = n
    BY <1>4, <2>2
  <2>4. reg[h[2]].n \in Nat /\ reg[h[2]].n <= Len(stack)
    BY <1>1, <1>9, <2>1 DEF Scope, RegsType
  <2>5. st = SubSeq(stack, 1, n) /\ n \in Nat /\ n <= Len(stack)
    BY <1>9, <2>3, <2>4
  <2>6. QED
    BY <1>1, <2>5
<1>10. QED
  BY <1>1, <1>5, <1>6, <1>7, <1>8, <1>9 DEF HeightAt

\* to the label that a branch leads to
LEMMA HeightLands ==
  ASSUME IInv, FormInv, phase = "run", Now.op \in Branches, NEW k \in 1 .. Len(Now.to),
         NEW m \in 1 .. Len(code), code[m].op = "label", code[m].meant = <<Now.meant[k]>>,
         Begins(code[m].open, Now.open), NEW h \in Heads(code), NEW n,
         HeightAt(code, ip, h, n, reg, Len(stack)),
         Now.meant[k] = Place("start", h[1]) =>
           Now.op = "br" /\ k = 1 /\ ~(ip < Len(code) /\ code[ip + 1].op = "label" /\ code[ip + 1].to = Now.to)
  PROVE  HeightAt(code, m, h, n, reg, Len(stack))
<1>1. /\ code \in Seq(Instrs) /\ ip \in 1 .. Len(code) /\ Now = code[ip] /\ Now \in Instrs
      /\ Now.open \in Seq(Names) /\ code[m].open \in Seq(Names) /\ InstrOK(Now)
  BY RunTypes
<1>2. h[2] \in Elems(code[m].open) => reg[h[2]].n = n
  <2>1. Elems(code[m].open) \subseteq Elems(Now.open)
    BY <1>1, BeginsElems
  <2>2. QED
    BY <1>1, <2>1 DEF HeightAt
<1>3. ASSUME Starts(code, m), code[m].meant[1].at = h[1] PROVE Len(stack) = n
  <2> DEFINE pl == Now.meant[k]
  <2>1. code[m].meant[1] = pl
    <3>1. code[m].meant = <<pl>>
      OBVIOUS
    <3> HIDE DEF pl
    <3>2. <<pl>>[1] = pl
      OBVIOUS
    <3>3. QED
      BY <3>1, <3>2
  <2>2. pl \in Places
    <3>1. Now.meant \in Seq(Places) /\ Len(Now.meant) = Len(Now.to)
      BY <1>1 DEF Instrs, InstrOK
    <3>2. QED
      BY <3>1
  <2>3. pl.to = "start" /\ pl.at = h[1]
    BY <1>3, <2>1 DEF Starts
  <2>4. pl = Place("start", h[1])
    BY <2>2, <2>3 DEF Places, Place
  <2>5. Now.op = "br" /\ k = 1 /\ ~(ip < Len(code) /\ code[ip + 1].op = "label" /\ code[ip + 1].to = Now.to)
    BY <2>4
  <2>6. ip > 1 /\ code[ip - 1].op = "restore" /\ code[ip - 1].reg = h[2]
    <3>1. Matched(code, h[1], h[2])
      BY CodeFacts
    <3>2. code[ip].op = "br" /\ code[ip].meant[1] = Place("start", h[1])
      BY <1>1, <2>4, <2>5
    <3>3. \/ ip < Len(code) /\ code[ip + 1].op = "label" /\ code[ip + 1].to = code[ip].to
          \/ ip > 1 /\ code[ip - 1].op = "restore" /\ code[ip - 1].reg = h[2]
      BY <1>1, <3>1, <3>2 DEF Matched
    <3>4. QED
      BY <1>1, <2>5, <3>3
  <2>7. QED
    BY <2>6 DEF HeightAt
<1>4. m > 1 /\ code[m - 1].op \in {"br", "cbr"}
  BY CodeFacts DEF LabelPlaced
<1>5. QED
  BY <1>2, <1>3, <1>4 DEF HeightAt

\* to the label of a loop that is entered
LEMMA HeightEnters ==
  ASSUME IInv, FormInv, phase = "run", NEW m \in 1 .. Len(code), Starts(code, m),
         NEW h \in Heads(code), code[m].meant[1].at = h[1]
  PROVE  HeightAt(code, m, h, Len(stack), reg, Len(stack))
<1>1. code \in Seq(Instrs) /\ PhaseOK
  BY RunTypes
<1>2. /\ m > 1 /\ code[m - 1].op \in {"br", "cbr"}
      /\ m < Len(code) /\ code[m + 1].op = "save" /\ code[m + 1].open = code[m].open
  BY CodeFacts DEF LabelPlaced, Starts
<1>3. code[m + 1].reg = h[2]
  BY CodeFacts DEF Matched
<1>4. code # <<>> /\ code[Len(code)].op = "ret" /\ Piece(code, <<>>, open)
  BY <1>1 DEF IInv, Generated, PhaseOK, CodeOK
<1>5. m + 1 \in 1 .. (Len(code) - 1)
  <2>1. Len(code) \in Nat /\ m + 1 \in 1 .. Len(code) /\ m + 1 # Len(code)
    BY <1>1, <1>2, <1>4
  <2>2. QED
    BY <2>1
<1>6. Flow(code[m + 1], code[(m + 1) + 1].open)
  BY <1>4, <1>5 DEF Piece
<1>7. h[2] \notin Elems(code[m].open)
  BY <1>2, <1>3, <1>6 DEF Flow
<1>8. QED
  BY <1>2, <1>7 DEF HeightAt, Starts

-------------------------------------------------------------------------------
(***************************************************************************)
(* The blocks of the heap.                                                 *)
(***************************************************************************)
\* past an instruction that neither takes nor releases a block
LEMMA BalanceFalls ==
  ASSUME IInv, FormInv, phase = "run", Now.op \in {"save", "restore", "alloca", "use", "label"},
         NEW rg, NEW live, BalancedIn(code, ip, live, reg, Unassigned),
         \A r \in DOMAIN reg :
           r \in DOMAIN rg /\ (rg[r] = reg[r] \/ (Now.op \in {"save", "alloca"} /\ r = Now.reg))
  PROVE  BalancedIn(code, ip + 1, live, rg, Unassigned)
<1>1. ip \in 1 .. Len(code) /\ Now = code[ip]
  BY RunTypes
<1>2. ip + 1 \in 1 .. Len(code) /\ (ip + 1) - 1 = ip /\ (ip + 1) - 2 = ip - 1
      /\ ip + 1 > 1
  BY <1>1, RunNextInstr
\* a name that was given just before is not given again
<1>3. ASSUME NEW a, NEW r, Holds(reg, a, r), ip > 1, code[ip - 1].op \in Gives, code[ip - 1].reg = r
      PROVE  Holds(rg, a, r)
  <2>1. r \in DOMAIN rg
    BY <1>3 DEF Holds
  <2>2. ~(Now.op \in {"save", "alloca"} /\ r = Now.reg)
    <3>1. ASSUME Now.op \in {"save", "alloca"}, r = Now.reg PROVE FALSE
      <4>1. ip - 1 \in 1 .. Len(code) /\ ip - 1 # ip
        BY <1>1, <1>3
      <4>2. code[ip].op \in Gives /\ code[ip].reg = code[ip - 1].reg
        BY <1>1, <1>3, <3>1 DEF Gives
      <4>3. QED
        BY <1>1, <1>3, <4>1, <4>2, NamedOnce
    <3>2. QED
      BY <3>1
  <2>3. QED
    BY <1>3, <2>1, <2>2 DEF Holds
<1>4. ASSUME NEW a \in DOMAIN live, live[a] \notin Unassigned
      PROVE  Holds(rg, a, live[a]) /\ Due(code, ip + 1, live[a])
  <2> DEFINE r == live[a]
  <2>1. Holds(reg, a, r) /\ Due(code, ip, r)
    BY <1>4 DEF BalancedIn
  <2> HIDE DEF r
  <2>2. /\ ip > 1 /\ code[ip - 1].reg = r /\ code[ip - 1].op \in {"call", "strcall"}
        /\ code[ip + 1].op = "free"
    <3>1. r \notin Unassigned
      BY <1>4 DEF r
    <3>2. QED
      BY <1>1, <2>1, <3>1, DueNext
  <2>3. Holds(rg, a, r)
    BY <1>3, <2>1, <2>2 DEF Gives
  <2>4. Due(code, ip + 1, r)
    <3>1. ip + 1 > 2
      BY <1>1, <2>2
    <3>2. QED
      BY <1>2, <2>2, <3>1 DEF Due
  <2>5. QED
    BY <2>3, <2>4 DEF r
<1>5. ASSUME code[ip + 1].op = "free", code[ip - 1].op = "call"
      PROVE  \E a \in DOMAIN live : Holds(rg, a, code[ip + 1].reg)
  <2>1. FreePlaced(code, ip + 1)
    BY <1>2, CodeFacts
  <2>2. ip + 1 > 2 /\ code[ip - 1].reg = code[ip + 1].reg
    BY <1>2, <1>5, <2>1 DEF FreePlaced
  <2>3. ip > 1
    BY <1>1, <2>2
  <2>4. PICK a \in DOMAIN live : live[a] = code[ip - 1].reg /\ Holds(reg, a, code[ip - 1].reg)
    BY <1>5, <2>3 DEF BalancedIn
  <2>5. Holds(rg, a, code[ip - 1].reg)
    BY <1>3, <1>5, <2>3, <2>4 DEF Gives
  <2>6. QED
    BY <2>2, <2>5
<1>6. QED
  BY <1>1, <1>2, <1>4, <1>5 DEF BalancedIn

\* to the label that a branch leads to
LEMMA BalanceLands ==
  ASSUME IInv, FormInv, phase = "run", Now.op \in Branches, NEW m \in 1 .. Len(code),
         code[m].op = "label", NEW live, BalancedIn(code, ip, live, reg, Unassigned)
  PROVE  BalancedIn(code, m, live, reg, Unassigned)
<1>1. ip \in 1 .. Len(code) /\ Now = code[ip]
  BY RunTypes
<1>2. m > 1 /\ code[m - 1].op \in {"br", "cbr"}
  BY CodeFacts DEF LabelPlaced
<1>3. ASSUME NEW a \in DOMAIN live PROVE live[a] \in Unassigned
  <2>1. SUFFICES ASSUME live[a] \notin Unassigned PROVE FALSE
    OBVIOUS
  <2>2. Due(code, ip, live[a])
    BY <2>1 DEF BalancedIn
  <2>3. code[ip].op \in {"ret", "use", "alloca"} \/ code[ip].op = "free"
    BY <1>1, <2>1, <2>2, DueNext
  <2>4. QED
    BY <1>1, <2>3 DEF Branches
<1>4. QED
  BY <1>2, <1>3 DEF BalancedIn

\* a block is taken
LEMMA BalanceTakes ==
  ASSUME IInv, FormInv, phase = "run", Now.op \in {"heap", "call", "strcall"},
         NEW live, BalancedIn(code, ip, live, reg, Unassigned), NEW a, a \notin DOMAIN live,
         NEW live2, live2 = With(live, a, Now.reg),
         NEW rg, rg = With(reg, Now.reg, [mem |-> "heap", n |-> a])
  PROVE  BalancedIn(code, ip + 1, live2, rg, Unassigned)
<1> DEFINE r == Now.reg
<1>1. ip \in 1 .. Len(code) /\ Now = code[ip]
  BY RunTypes
<1>2. ip + 1 \in 1 .. Len(code) /\ (ip + 1) - 1 = ip /\ (ip + 1) - 2 = ip - 1
      /\ ip + 1 > 1
  BY <1>1, RunNextInstr
<1>3. a \in DOMAIN live2 /\ live2[a] = r /\ Holds(rg, a, r)
  BY DEF With, Holds
<1>4. \A b \in DOMAIN live2 : b = a \/ (b \in DOMAIN live /\ live2[b] = live[b])
  BY DEF With
<1>5. ASSUME NEW b \in DOMAIN live PROVE live[b] \in Unassigned
  <2>1. SUFFICES ASSUME live[b] \notin Unassigned PROVE FALSE
    OBVIOUS
  <2>2. Due(code, ip, live[b])
    BY <2>1 DEF BalancedIn
  <2>3. code[ip].op \in {"ret", "use", "alloca"} \/ code[ip].op = "free"
    BY <1>1, <2>1, <2>2, DueNext
  <2>4. QED
    BY <1>1, <2>3
<1>6. Due(code, ip + 1, r)
  BY <1>1, <1>2 DEF Due
<1>7. ~(code[ip + 1].op = "free" /\ code[(ip + 1) - 2].op = "call")
  <2>1. FreePlaced(code, ip + 1)
    BY <1>2, CodeFacts
  <2>2. QED
    BY <1>1, <1>2, <2>1 DEF FreePlaced
<1> HIDE DEF r
<1>8. \A b \in DOMAIN live2 :
        live2[b] \in Unassigned \/ (Holds(rg, b, live2[b]) /\ Due(code, ip + 1, live2[b]))
  BY <1>3, <1>4, <1>5, <1>6
<1>9. code[(ip + 1) - 1].reg = r
  BY <1>1, <1>2 DEF r
<1>10. QED
  BY <1>3, <1>7, <1>8, <1>9 DEF BalancedIn

\* a block is released
LEMMA BalanceGives ==
  ASSUME IInv, FormInv, phase = "run", Now.op = "free", reg[Now.reg].mem = "heap",
         NEW live, BalancedIn(code, ip, live, reg, Unassigned),
         NEW live2, live2 = [b \in DOMAIN live \ {reg[Now.reg].n} |-> live[b]]
  PROVE  BalancedIn(code, ip + 1, live2, reg, Unassigned)
<1>1. ip \in 1 .. Len(code) /\ Now = code[ip]
  BY RunTypes
<1>2. ip + 1 \in 1 .. Len(code) /\ (ip + 1) - 1 = ip /\ (ip + 1) - 2 = ip - 1
      /\ ip + 1 > 1
  BY <1>1, RunNextInstr
<1>3. code[ip - 2].op = "call"
  BY FreedCopy
<1>4. FreePlaced(code, ip) /\ FreePlaced(code, ip + 1)
  BY <1>1, <1>2, CodeFacts
<1>5. code[ip - 2].reg = Now.reg /\ code[ip - 1].op \in {"use", "alloca"}
  BY <1>1, <1>3, <1>4 DEF FreePlaced
<1>6. \A b \in DOMAIN live2 : b \in DOMAIN live /\ b # reg[Now.reg].n /\ live2[b] = live[b]
  OBVIOUS
<1>7. ASSUME NEW b \in DOMAIN live2 PROVE live2[b] \in Unassigned
  <2>1. SUFFICES ASSUME live2[b] \notin Unassigned PROVE FALSE
    OBVIOUS
  <2>2. Holds(reg, b, live2[b]) /\ Due(code, ip, live2[b])
    BY <1>6, <2>1 DEF BalancedIn
  <2>3. live2[b] = Now.reg
    BY <1>5, <2>2 DEF Due
  <2>4. QED
    BY <1>6, <2>2, <2>3 DEF Holds
<1>8. ~(code[ip + 1].op = "free" /\ code[(ip + 1) - 2].op = "call")
  BY <1>1, <1>2, <1>4 DEF FreePlaced
<1>9. QED
  BY <1>1, <1>2, <1>7, <1>8 DEF BalancedIn

-------------------------------------------------------------------------------
(***************************************************************************)
(* Steps of the running function.                                          *)
(***************************************************************************)
LEMMA LooseSame == ASSUME code' = code PROVE Unassigned' = Unassigned
BY DEF Unassigned

\* what holds where the code runs
LEMMA RunHere ==
  ASSUME RunInv, phase = "run"
  PROVE  /\ EnteredIn(code, entered) /\ ReachedAt(code, ip) /\ ip \in 1 .. Len(code)
         /\ BalancedIn(code, ip, heap.live, reg, Unassigned)
         /\ HeightsIn(code, ip, entered, reg, Len(stack)) /\ ListedIn(heap)
BY DEF RunInv

\* what is left to show of a step
LEMMA Ran ==
  ASSUME phase' = "run", code' = code, EnteredIn(code, entered'),
         ip' \in 1 .. Len(code), ReachedAt(code, ip'),
         BalancedIn(code, ip', heap'.live, reg', Unassigned),
         HeightsIn(code, ip', entered', reg', Len(stack')), ListedIn(heap')
  PROVE  RunInv'
BY LooseSame DEF RunInv

\* to the next instruction
LEMMA RanOn ==
  ASSUME IInv, FormInv, RunInv, phase = "run", phase' = "run", code' = code, entered' = entered,
         Now.op \notin Enders, ip' = ip + 1,
         BalancedIn(code, ip + 1, heap'.live, reg', Unassigned), ListedIn(heap'),
         \A r \in Elems(Now.open) : reg'[r].n = reg[r].n,
         Now.op = "save" => reg'[Now.reg].n = Len(stack),
         Now.op = "label" => stack' = stack,
         Now.op = "restore" => stack' = SubSeq(stack, 1, reg[Now.reg].n)
  PROVE  RunInv'
<1>1. ip + 1 \in 1 .. Len(code)
  BY RunNextInstr DEF Enders
<1>2. ip \in Nat /\ (ip + 1) - 1 = ip /\ Now = code[ip]
  BY RunTypes
<1>3. ReachedAt(code, ip + 1)
  <2>1. Reached(code, ip)
    BY RunHere DEF ReachedAt
  <2>2. QED
    BY <1>2, <2>1 DEF ReachedAt, Reached
<1>4. HeightsIn(code, ip + 1, entered, reg', Len(stack'))
  <2>1. SUFFICES ASSUME NEW h \in Heads(code), h[1] \in DOMAIN entered, entered[h[1]].nexts = 0
                 PROVE  HeightAt(code, ip + 1, h, entered[h[1]].height, reg', Len(stack'))
    BY DEF HeightsIn
  <2> DEFINE n == entered[h[1]].height
             rg == reg'
             st == stack'
  <2>2. HeightAt(code, ip, h, n, reg, Len(stack))
    BY <2>1, RunHere DEF HeightsIn
  <2>3. /\ \A r \in Elems(Now.open) : rg[r].n = reg[r].n
        /\ Now.op = "save" => rg[Now.reg].n = Len(stack)
        /\ Now.op = "label" => st = stack
        /\ Now.op = "restore" => st = SubSeq(stack, 1, reg[Now.reg].n)
    OBVIOUS
  <2> HIDE DEF n, rg, st
  <2>4. HeightAt(code, ip + 1, h, n, rg, Len(st))
    BY <2>2, <2>3, HeightFalls
  <2>5. QED
    BY <2>4 DEF n, rg, st
<1>5. EnteredIn(code, entered)
  BY RunHere
<1>6. QED
  BY <1>1, <1>3, <1>4, <1>5, Ran

\* an instruction that leaves the heap, and all registers but its own
LEMMA RanPlain ==
  ASSUME IInv, FormInv, RunInv, phase = "run", phase' = "run", code' = code, entered' = entered,
         heap' = heap, Now.op \in {"save", "restore", "alloca", "use", "label"}, ip' = ip + 1,
         \/ reg' = reg /\ Now.op # "save"
         \/ Now.op \in {"save", "alloca"} /\ \E x : reg' = With(reg, Now.reg, x) /\
              (Now.op = "save" => x.n = Len(stack)),
         Now.op = "label" => stack' = stack,
         Now.op = "restore" => stack' = SubSeq(stack, 1, reg[Now.reg].n)
  PROVE  RunInv'
<1>1. Now.op \notin Enders
  BY DEF Enders, Branches
<1>2. BalancedIn(code, ip, heap.live, reg, Unassigned) /\ ListedIn(heap)
  BY RunHere
<1>3. /\ \A r \in DOMAIN reg :
           r \in DOMAIN reg' /\ (reg'[r] = reg[r] \/ (Now.op \in {"save", "alloca"} /\ r = Now.reg))
      /\ Now.op = "save" => reg'[Now.reg].n = Len(stack)
  <2>1. CASE reg' = reg /\ Now.op # "save"
    BY <2>1
  <2>2. CASE Now.op \in {"save", "alloca"} /\ \E x : reg' = With(reg, Now.reg, x) /\
               (Now.op = "save" => x.n = Len(stack))
    BY <2>2 DEF With
  <2>3. QED
    BY <2>1, <2>2
<1>4. \A r \in Elems(Now.open) : reg'[r].n = reg[r].n
  <2>1. ASSUME NEW r \in Elems(Now.open) PROVE r \in DOMAIN reg
    BY RunTypes DEF Scope, Elems
  <2>2. CASE Now.op \in {"save", "alloca"}
    <3>1. Now.reg \notin Elems(Now.open)
      BY <1>1, <2>2, RunNextInstr DEF Flow, Enders
    <3>2. QED
      BY <1>3, <2>1, <3>1
  <2>3. CASE Now.op \notin {"save", "alloca"}
    BY <1>3, <2>1, <2>3
  <2>4. QED
    BY <2>2, <2>3
<1>5. BalancedIn(code, ip + 1, heap.live, reg', Unassigned)
  <2> DEFINE rg == reg'
             live == heap.live
  <2>1. \A r \in DOMAIN reg :
          r \in DOMAIN rg /\ (rg[r] = reg[r] \/ (Now.op \in {"save", "alloca"} /\ r = Now.reg))
    BY <1>3
  <2>2. BalancedIn(code, ip, live, reg, Unassigned)
    BY <1>2
  <2> HIDE DEF rg, live
  <2>3. BalancedIn(code, ip + 1, live, rg, Unassigned)
    BY <2>1, <2>2, BalanceFalls
  <2>4. QED
    BY <2>3 DEF rg, live
<1>6. heap'.live = heap.live /\ ListedIn(heap')
  BY <1>2
<1>7. QED
  BY <1>1, <1>3, <1>4, <1>5, <1>6, RanOn

LEMMA RanSimple ==
  ASSUME IInv, FormInv, RunInv, RunSave \/ RunRestore \/ RunAlloca \/ RunUse
  PROVE  RunInv'
<1>1. /\ phase = "run" /\ phase' = "run" /\ code' = code /\ entered' = entered
      /\ heap' = heap /\ ip' = ip + 1
  BY DEF RunSave, RunRestore, RunAlloca, RunUse, At, Step, gen
<1>2. CASE RunSave
  <2> DEFINE x == [mem |-> "sp", n |-> Len(stack)]
  <2>1. Now.op = "save" /\ reg' = With(reg, Now.reg, x)
    BY <1>2 DEF RunSave, At
  <2>2. x.n = Len(stack)
    OBVIOUS
  <2> HIDE DEF x
  <2>3. QED
    BY <1>1, <2>1, <2>2, RanPlain
<1>3. CASE RunRestore
  BY <1>1, <1>3, RanPlain DEF RunRestore, At
<1>4. CASE RunAlloca
  <2> DEFINE x == [mem |-> "stack", n |-> Len(stack) + 1]
  <2>1. Now.op = "alloca" /\ reg' = With(reg, Now.reg, x)
    BY <1>4 DEF RunAlloca, At
  <2> HIDE DEF x
  <2>2. QED
    BY <1>1, <2>1, RanPlain
<1>5. CASE RunUse
  BY <1>1, <1>5, RanPlain DEF RunUse, At
<1>6. QED
  BY <1>2, <1>3, <1>4, <1>5

\* a branch lands at the label that is meant
LEMMA Lands ==
  ASSUME IInv, FormInv, phase = "run", Now.op \in Branches, NEW k \in 1 .. Len(Now.to),
         NEW m \in Labelled(Now.to[k])
  PROVE  /\ m \in 1 .. Len(code) /\ code[m].op = "label" /\ code[m].meant = <<Now.meant[k]>>
         /\ Begins(code[m].open, Now.open) /\ ReachedAt(code, m)
<1>1. ip \in 1 .. Len(code) /\ Now = code[ip]
  BY RunTypes
<1>2. PICK j \in 1 .. Len(code) :
        /\ Labelled(Now.to[k]) = {j} /\ code[j].meant = << Now.meant[k] >>
        /\ Begins(code[j].open, Now.open)
  BY <1>1, BranchLands
<1>3. m = j /\ code[m].op = "label"
  BY <1>2 DEF Labelled
<1>4. QED
  BY <1>2, <1>3 DEF ReachedAt, Reached

\* the loops that are not concerned by a branch
LEMMA RanBranch ==
  ASSUME IInv, FormInv, RunInv, phase = "run", phase' = "run", code' = code, heap' = heap,
         reg' = reg, stack' = stack, Now.op \in Branches, NEW k \in 1 .. Len(Now.to),
         NEW m \in Labelled(Now.to[k]), ip' = m, EnteredIn(code, entered'),
         \A h \in Heads(code) : h[1] \in DOMAIN entered' /\ entered'[h[1]].nexts = 0 =>
           \/ /\ h[1] \in DOMAIN entered /\ entered'[h[1]] = entered[h[1]]
              /\ Now.meant[k] = Place("start", h[1]) =>
                   /\ Now.op = "br" /\ k = 1
                   /\ ~(ip < Len(code) /\ code[ip + 1].op = "label" /\ code[ip + 1].to = Now.to)
           \/ /\ entered'[h[1]].height = Len(stack)
              /\ Starts(code, m) /\ code[m].meant[1].at = h[1]
  PROVE  RunInv'
<1>1. /\ m \in 1 .. Len(code) /\ code[m].op = "label" /\ code[m].meant = <<Now.meant[k]>>
      /\ Begins(code[m].open, Now.open) /\ ReachedAt(code, m)
  BY Lands
<1>2. /\ BalancedIn(code, ip, heap.live, reg, Unassigned) /\ ListedIn(heap)
      /\ HeightsIn(code, ip, entered, reg, Len(stack))
  BY RunHere
<1>3. BalancedIn(code, m, heap.live, reg, Unassigned)
  BY <1>1, <1>2, BalanceLands
<1>4. HeightsIn(code, m, entered', reg, Len(stack))
  <2> DEFINE e == entered'
  <2>1. SUFFICES ASSUME NEW h \in Heads(code), h[1] \in DOMAIN e, e[h[1]].nexts = 0
                 PROVE  HeightAt(code, m, h, e[h[1]].height, reg, Len(stack))
    BY DEF HeightsIn
  <2>2. CASE /\ h[1] \in DOMAIN entered /\ e[h[1]] = entered[h[1]]
             /\ Now.meant[k] = Place("start", h[1]) =>
                  /\ Now.op = "br" /\ k = 1
                  /\ ~(ip < Len(code) /\ code[ip + 1].op = "label" /\ code[ip + 1].to = Now.to)
    <3> DEFINE n == e[h[1]].height
    <3>1. HeightAt(code, ip, h, n, reg, Len(stack))
      BY <1>2, <2>1, <2>2 DEF HeightsIn
    <3> HIDE DEF n
    <3>2. HeightAt(code, m, h, n, reg, Len(stack))
      BY <1>1, <2>2, <3>1, HeightLands
    <3>3. QED
      BY <3>2 DEF n
  <2>3. CASE /\ e[h[1]].height = Len(stack)
             /\ Starts(code, m) /\ code[m].meant[1].at = h[1]
    <3>1. HeightAt(code, m, h, Len(stack), reg, Len(stack))
      BY <1>1, <2>3, HeightEnters
    <3>2. QED
      BY <2>3, <3>1
  <2>4. QED
    BY <2>1, <2>2, <2>3
<1>5. QED
  BY <1>1, <1>2, <1>3, <1>4, Ran

LEMMA RanBr ==
  ASSUME IInv, FormInv, RunInv, RunBranch
  PROVE  RunInv'
<1>1. /\ phase = "run" /\ phase' = "run" /\ code' = code /\ heap' = heap /\ reg' = reg
      /\ stack' = stack /\ Now.op = "br" /\ Now.op \in Branches
  BY DEF RunBranch, At, gen, Branches
<1>2. PICK m \in Labelled(Now.to[1]) : ip' = m
  BY DEF RunBranch
<1>3. /\ Now.meant \in Seq(Places) /\ Len(Now.to) = 1 /\ Len(Now.meant) = 1
      /\ Len(stack) \in Nat
  BY <1>1, RunTypes DEF Instrs, InstrOK
<1>4. Now.meant[1] \in Places /\ 1 \in 1 .. Len(Now.to)
  BY <1>3
<1>5. /\ m \in 1 .. Len(code) /\ code[m].op = "label" /\ code[m].meant = <<Now.meant[1]>>
  BY <1>1, <1>4, Lands
<1> DEFINE b == Begin
           x == [height |-> Len(stack), nexts |-> 0]
<1>6. EnteredIn(code, entered)
  BY <1>1, RunHere
<1>7. code[m].meant[1] = Now.meant[1]
  <2> DEFINE pl == Now.meant[1]
  <2>1. code[m].meant = <<pl>>
    BY <1>5
  <2> HIDE DEF pl
  <2>2. <<pl>>[1] = pl
    OBVIOUS
  <2>3. QED
    BY <2>1, <2>2 DEF pl
<1>8. CASE Enters
  <2>1. entered' = With(entered, b, x)
    BY <1>8 DEF RunBranch
  <2>2. Starts(code, m) /\ code[m].meant[1].at = b
    BY <1>5, <1>7, <1>8 DEF Starts, Enters, Begin
  <2>3. x \in [height : Nat, nexts : Nat] /\ x.height = Len(stack)
    BY <1>3
  <2> HIDE DEF x, b
  <2> DEFINE e == entered'
  <2>4. DOMAIN e = DOMAIN entered \union {b} /\ e[b] = x
        /\ \A y \in DOMAIN entered : y # b => e[y] = entered[y]
    BY <2>1 DEF With
  <2> HIDE DEF e
  <2>5. \E h \in Heads(code) : h[1] = b
    BY <1>5, <2>2, StartHead
  <2>6. EnteredIn(code, e)
    BY <1>6, <2>3, <2>4, <2>5 DEF EnteredIn
  <2>7. ASSUME NEW h \in Heads(code), h[1] \in DOMAIN e, e[h[1]].nexts = 0
        PROVE  \/ /\ h[1] \in DOMAIN entered /\ e[h[1]] = entered[h[1]]
                  /\ Now.meant[1] = Place("start", h[1]) =>
                       /\ Now.op = "br" /\ 1 = 1
                       /\ ~(ip < Len(code) /\ code[ip + 1].op = "label" /\ code[ip + 1].to = Now.to)
               \/ /\ e[h[1]].height = Len(stack)
                  /\ Starts(code, m) /\ code[m].meant[1].at = h[1]
    <3>1. CASE h[1] = b
      BY <2>2, <2>3, <2>4, <3>1
    <3>2. CASE h[1] # b
      <4>1. h[1] \in DOMAIN entered /\ e[h[1]] = entered[h[1]]
        BY <2>4, <2>7, <3>2
      <4>2. Now.meant[1] # Place("start", h[1])
        BY <3>2 DEF Place, b, Begin
      <4>3. QED
        BY <4>1, <4>2
    <3>3. QED
      BY <3>1, <3>2
  <2>8. EnteredIn(code, entered')
    BY <2>6 DEF e
  <2>9. \A h \in Heads(code) : h[1] \in DOMAIN entered' /\ entered'[h[1]].nexts = 0 =>
          \/ /\ h[1] \in DOMAIN entered /\ entered'[h[1]] = entered[h[1]]
             /\ Now.meant[1] = Place("start", h[1]) =>
                  /\ Now.op = "br" /\ 1 = 1
                  /\ ~(ip < Len(code) /\ code[ip + 1].op = "label" /\ code[ip + 1].to = Now.to)
          \/ /\ entered'[h[1]].height = Len(stack)
             /\ Starts(code, m) /\ code[m].meant[1].at = h[1]
    BY <2>7 DEF e
  <2>10. QED
    BY <1>1, <1>2, <1>4, <2>8, <2>9, RanBranch
<1>9. CASE ~Enters
  <2>1. entered' = entered
    BY <1>9 DEF RunBranch
  <2>2. ASSUME NEW h \in Heads(code)
        PROVE  Now.meant[1] = Place("start", h[1]) =>
                 /\ Now.op = "br" /\ 1 = 1
                 /\ ~(ip < Len(code) /\ code[ip + 1].op = "label" /\ code[ip + 1].to = Now.to)
    BY <1>1, <1>9 DEF Enters, Place
  <2>3. EnteredIn(code, entered')
    BY <1>6, <2>1
  <2>4. \A h \in Heads(code) : h[1] \in DOMAIN entered' /\ entered'[h[1]].nexts = 0 =>
          \/ /\ h[1] \in DOMAIN entered /\ entered'[h[1]] = entered[h[1]]
             /\ Now.meant[1] = Place("start", h[1]) =>
                  /\ Now.op = "br" /\ 1 = 1
                  /\ ~(ip < Len(code) /\ code[ip + 1].op = "label" /\ code[ip + 1].to = Now.to)
          \/ /\ entered'[h[1]].height = Len(stack)
             /\ Starts(code, m) /\ code[m].meant[1].at = h[1]
    BY <2>1, <2>2
  <2>5. QED
    BY <1>1, <1>2, <1>4, <2>3, <2>4, RanBranch
<1>10. QED
  BY <1>8, <1>9

LEMMA RanNext ==
  ASSUME IInv, FormInv, RunInv, RunNext
  PROVE  RunInv'
<1>1. /\ phase = "run" /\ phase' = "run" /\ code' = code /\ heap' = heap /\ reg' = reg
      /\ stack' = stack /\ Now.op = "next" /\ Now.op \in Branches
      /\ entered' = [entered EXCEPT ![Begin].nexts = 1]
  BY DEF RunNext, At, gen, Branches
<1>2. PICK m \in Labelled(Now.to[1]) : ip' = m
  BY DEF RunNext
<1>3. Len(Now.to) = 1
  BY <1>1, RunTypes DEF InstrOK
<1>4. 1 \in 1 .. Len(Now.to)
  BY <1>3
<1>5. EnteredIn(code, entered)
  BY <1>1, RunHere
<1> DEFINE b == Begin
           e == entered'
<1>6. /\ DOMAIN e = DOMAIN entered
      /\ \A y \in DOMAIN entered : y # b => e[y] = entered[y]
      /\ b \in DOMAIN entered => e[b] = [entered[b] EXCEPT !.nexts = 1]
  BY <1>1
<1>7. b \in DOMAIN entered => e[b].nexts = 1 /\ e[b] \in [height : Nat, nexts : Nat]
  <2>1. ASSUME NEW y \in [height : Nat, nexts : Nat]
        PROVE  LET z == [y EXCEPT !.nexts = 1] IN z.nexts = 1 /\ z \in [height : Nat, nexts : Nat]
    OBVIOUS
  <2>2. b \in DOMAIN entered => entered[b] \in [height : Nat, nexts : Nat]
    BY <1>5 DEF EnteredIn
  <2> HIDE DEF b, e
  <2>3. QED
    BY <1>6, <2>1, <2>2
<1> HIDE DEF e
<1>8. EnteredIn(code, e)
  BY <1>5, <1>6, <1>7 DEF EnteredIn
<1>9. ASSUME NEW h \in Heads(code), h[1] \in DOMAIN e, e[h[1]].nexts = 0
      PROVE  /\ h[1] \in DOMAIN entered /\ e[h[1]] = entered[h[1]]
             /\ Now.meant[1] # Place("start", h[1])
  <2>1. h[1] # b /\ h[1] \in DOMAIN entered
    BY <1>6, <1>7, <1>9
  <2>2. Now.meant[1] # Place("start", h[1])
    BY <2>1 DEF Place, Begin
  <2>3. QED
    BY <1>6, <2>1, <2>2
<1>10. EnteredIn(code, entered')
  BY <1>8 DEF e
<1>11. \A h \in Heads(code) : h[1] \in DOMAIN entered' /\ entered'[h[1]].nexts = 0 =>
         \/ /\ h[1] \in DOMAIN entered /\ entered'[h[1]] = entered[h[1]]
            /\ Now.meant[1] = Place("start", h[1]) =>
                 /\ Now.op = "br" /\ 1 = 1
                 /\ ~(ip < Len(code) /\ code[ip + 1].op = "label" /\ code[ip + 1].to = Now.to)
         \/ /\ entered'[h[1]].height = Len(stack)
            /\ Starts(code, m) /\ code[m].meant[1].at = h[1]
  BY <1>9 DEF e
<1>12. QED
  BY <1>1, <1>2, <1>4, <1>10, <1>11, RanBranch

LEMMA RanCondBranch ==
  ASSUME IInv, FormInv, RunInv, RunCondBranch
  PROVE  RunInv'
<1>1. /\ phase = "run" /\ phase' = "run" /\ code' = code /\ heap' = heap /\ reg' = reg
      /\ stack' = stack /\ Now.op = "cbr" /\ Now.op \in Branches /\ entered' = entered
  BY DEF RunCondBranch, At, gen, Branches
<1>2. InstrOK(Now) /\ ip \in 1 .. Len(code) /\ Now = code[ip]
  BY <1>1, RunTypes
<1>3. Len(Now.to) = 2 /\ Noted(Now)
  BY <1>1, <1>2, CodeFacts DEF InstrOK
<1>4. PICK k \in 1 .. Len(Now.to) : \E i \in Labelled(Now.to[k]) : ip' = i
  <2>1. {1, 2} = 1 .. Len(Now.to)
    BY <1>3
  <2>2. QED
    BY <2>1 DEF RunCondBranch
<1>5. PICK m \in Labelled(Now.to[k]) : ip' = m
  BY <1>4
<1>6. Now.meant[k].to # "start"
  BY <1>1, <1>3 DEF Noted
<1>7. \A h : Now.meant[k] # Place("start", h[1])
  BY <1>6 DEF Place
<1>8. EnteredIn(code, entered')
  BY <1>1, RunHere
<1>9. \A h \in Heads(code) : h[1] \in DOMAIN entered' /\ entered'[h[1]].nexts = 0 =>
        \/ /\ h[1] \in DOMAIN entered /\ entered'[h[1]] = entered[h[1]]
           /\ Now.meant[k] = Place("start", h[1]) =>
                /\ Now.op = "br" /\ k = 1
                /\ ~(ip < Len(code) /\ code[ip + 1].op = "label" /\ code[ip + 1].to = Now.to)
        \/ /\ entered'[h[1]].height = Len(stack)
           /\ Starts(code, m) /\ code[m].meant[1].at = h[1]
  BY <1>1, <1>7
<1>10. QED
  BY <1>1, <1>5, <1>8, <1>9, RanBranch

LEMMA RanHeapAlloc ==
  ASSUME IInv, FormInv, RunInv, RunHeapAlloc
  PROVE  RunInv'
<1>1. /\ phase = "run" /\ phase' = "run" /\ code' = code /\ entered' = entered
      /\ stack' = stack /\ ip' = ip + 1 /\ Now.op \in {"heap", "call", "strcall"}
  BY DEF RunHeapAlloc, At, Step, gen
<1>2. PICK a \in Blocks \ DOMAIN heap.live :
        /\ heap' = ext_heap_alloc(heap, a, Now.reg)
        /\ reg' = With(reg, Now.reg, [mem |-> "heap", n |-> a])
  BY DEF RunHeapAlloc
<1>3. a \in Nat /\ a # 0
  BY ControlAssumption
<1>4. heap'.live = With(heap.live, a, Now.reg) /\ heap'.lst = Append(heap.lst, a)
  BY <1>2, <1>3 DEF ext_heap_alloc, lst_append, With
<1>5. BalancedIn(code, ip, heap.live, reg, Unassigned) /\ ListedIn(heap)
  BY <1>1, RunHere
<1>6. ListedIn(heap')
  <2>1. heap.lst \in Seq(Nat)
    BY <1>1, RunTypes, RunKept
  <2>2. Elems(heap'.lst) = Elems(heap.lst) \union {a} /\ OnceIn(heap'.lst)
    BY <1>2, <1>3, <1>4, <1>5, <2>1, ListAppend DEF ListedIn
  <2>3. DOMAIN heap'.live = DOMAIN heap.live \union {a}
    BY <1>4 DEF With
  <2>4. QED
    BY <1>5, <2>2, <2>3 DEF ListedIn
<1>7. BalancedIn(code, ip + 1, heap'.live, reg', Unassigned)
  <2> DEFINE live == heap.live
             live2 == heap'.live
             rg == reg'
  <2>1. BalancedIn(code, ip, live, reg, Unassigned) /\ a \notin DOMAIN live
        /\ live2 = With(live, a, Now.reg) /\ rg = With(reg, Now.reg, [mem |-> "heap", n |-> a])
    BY <1>2, <1>4, <1>5
  <2> HIDE DEF live, live2, rg
  <2>2. BalancedIn(code, ip + 1, live2, rg, Unassigned)
    BY <1>1, <2>1, BalanceTakes
  <2>3. QED
    BY <2>2 DEF live2, rg
<1>8. Now.op \notin Enders
  BY <1>1 DEF Enders, Branches
<1>9. \A r \in Elems(Now.open) : reg'[r].n = reg[r].n
  <2>1. ASSUME NEW r \in Elems(Now.open) PROVE r \in DOMAIN reg /\ r # Now.reg
    <3>1. r \in DOMAIN reg
      BY <1>1, RunTypes DEF Scope, Elems
    <3>2. Now.reg \notin Elems(Now.open)
      BY <1>1, RunNextInstr DEF Flow
    <3>3. QED
      BY <3>1, <3>2
  <2>2. QED
    BY <1>2, <2>1 DEF With
<1>10. QED
  BY <1>1, <1>6, <1>7, <1>8, <1>9, RanOn

LEMMA RanFree ==
  ASSUME IInv, FormInv, RunInv, RunFree
  PROVE  RunInv'
<1> DEFINE a == reg[Now.reg].n
<1>1. /\ phase = "run" /\ phase' = "run" /\ code' = code /\ entered' = entered
      /\ stack' = stack /\ reg' = reg /\ ip' = ip + 1 /\ Now.op = "free"
      /\ reg[Now.reg].mem = "heap" /\ a \in DOMAIN heap.live /\ heap' = ext_heap_free(heap, a)
  BY DEF RunFree, At, Step, gen
<1>2. a # 0 /\ heap.lst \in Seq(Nat)
  <2>1. DOMAIN heap.live \subseteq Blocks /\ heap.lst \in Seq(Nat)
    BY <1>1, RunTypes, RunKept
  <2>2. QED
    BY <1>1, <2>1, ControlAssumption
<1>3. /\ heap'.live = [b \in DOMAIN heap.live \ {a} |-> heap.live[b]]
      /\ heap'.lst = lst_remove(heap.lst, a)
  BY <1>1, <1>2 DEF ext_heap_free
<1>4. BalancedIn(code, ip, heap.live, reg, Unassigned) /\ ListedIn(heap)
  BY <1>1, RunHere
<1>5. ListedIn(heap')
  <2>1. a \in Elems(heap.lst) /\ OnceIn(heap.lst) /\ Elems(heap.lst) = DOMAIN heap.live
    BY <1>1, <1>4 DEF ListedIn
  <2> HIDE DEF a
  <2>2. Elems(heap'.lst) = Elems(heap.lst) \ {a} /\ OnceIn(heap'.lst)
    BY <1>2, <1>3, <2>1, ListRemove
  <2>3. DOMAIN heap'.live = DOMAIN heap.live \ {a}
    BY <1>3
  <2>4. QED
    BY <2>1, <2>2, <2>3 DEF ListedIn
<1>6. BalancedIn(code, ip + 1, heap'.live, reg', Unassigned)
  <2> DEFINE live == heap.live
             live2 == heap'.live
  <2>1. BalancedIn(code, ip, live, reg, Unassigned)
        /\ live2 = [b \in DOMAIN live \ {reg[Now.reg].n} |-> live[b]]
    BY <1>3, <1>4
  <2> HIDE DEF live, live2
  <2>2. BalancedIn(code, ip + 1, live2, reg, Unassigned)
    BY <1>1, <2>1, BalanceGives
  <2>3. QED
    BY <1>1, <2>2 DEF live2
<1>7. Now.op \notin Enders
  BY <1>1 DEF Enders, Branches
<1>8. \A r \in Elems(Now.open) : reg'[r].n = reg[r].n
  BY <1>1
<1>9. QED
  BY <1>1, <1>5, <1>6, <1>7, <1>8, RanOn

LEMMA RanEnds ==
  ASSUME IInv, FormInv, RunInv, RunFreeOther \/ RunReturn
  PROVE  RunInv'
<1>1. /\ phase = "run" /\ code' = code /\ entered' = entered /\ ip' = ip /\ reg' = reg
      /\ heap' = heap /\ stack' = stack
  BY DEF RunFreeOther, RunReturn, At, gen, run
<1>2. /\ EnteredIn(code, entered) /\ ReachedAt(code, ip) /\ ip \in 1 .. Len(code)
      /\ BalancedIn(code, ip, heap.live, reg, Unassigned) /\ ListedIn(heap)
  BY <1>1, RunHere
<1>3. Unassigned' = Unassigned
  BY <1>1, LooseSame
<1>4. CASE RunReturn
  <2>1. phase' = "returned" /\ Now' = Now /\ Now.op = "ret"
    BY <1>1, <1>4 DEF RunReturn, At, Now
  <2>2. QED
    BY <1>1, <1>2, <1>3, <2>1 DEF RunInv
<1>5. CASE RunFreeOther
  <2>1. phase' = "undefined" /\ Now.op = "free"
        /\ ~(reg[Now.reg].mem = "heap" /\ reg[Now.reg].n \in DOMAIN heap.live)
    BY <1>5 DEF RunFreeOther, At
  <2>2. code[ip - 2].op # "call"
    <3>1. SUFFICES ASSUME code[ip - 2].op = "call" PROVE FALSE
      OBVIOUS
    <3>2. Now = code[ip]
      BY <1>1, RunTypes
    <3>3. \E b \in DOMAIN heap.live : Holds(reg, b, Now.reg)
      BY <1>2, <2>1, <3>1, <3>2 DEF BalancedIn
    <3>4. QED
      BY <2>1, <3>3 DEF Holds
  <2>3. ip > 2 /\ code[ip - 2].op = "strcall"
    BY <1>1, <2>1, <2>2, FreedCopy
  <2>4. QED
    BY <1>1, <1>2, <2>1, <2>3 DEF RunInv
<1>6. QED
  BY <1>4, <1>5

\* while the code is written nothing runs
LEMMA RanGenerate ==
  ASSUME IInv, FormInv', RunInv, Generate
  PROVE  RunInv'
<1>1. /\ phase \in {"start", "gen"} /\ phase' \in {"gen", "run", "error"}
      /\ ip' = ip /\ stack' = stack /\ reg' = reg /\ heap' = heap /\ entered' = entered
  <2>1. phase \in {"start", "gen"} /\ phase' \in {"gen", "run", "error"} /\ UNCHANGED run
    BY DEF Generate, EnterFunc, LeaveFunc, EnterStmts, LeaveStmts, VarDecl, Assign, ExprStmt,
           Return, EnterLoop, LeaveLoop, LoopBreak, LoopNext, LoopJumpError, EnterCond,
           EnterElse, LeaveCond, Nested, InStmt
  <2>2. QED
    BY <2>1 DEF run
<1>2. ip = 1 /\ DOMAIN heap.live = {} /\ DOMAIN entered = {} /\ ListedIn(heap)
  BY <1>1 DEF IInv, Generated, PhaseOK, EmptyHeap, RunInv
<1>3. phase' = "run" => Len(code') \in Nat /\ Len(code') >= 1 /\ code'[1].op # "free"
  <2>1. SUFFICES ASSUME phase' = "run" PROVE Len(code') \in Nat /\ Len(code') >= 1 /\ code'[1].op # "free"
    OBVIOUS
  <2>2. IInv'
    <3>1. [Next]_vars
      BY DEF Next
    <3>2. QED
      BY <3>1, IInvStep
  <2>3. code' \in Seq(Instrs) /\ code' # <<>>
    BY <2>1, <2>2 DEF IInv, Generated, CodeOK, PhaseOK
  <2>4. Len(code') \in Nat /\ Len(code') >= 1
    BY <2>3, EmptySeq
  <2>5. FreePlaced(code', 1)
    BY <2>4 DEF FormInv, Formed, Shaped
  <2>6. QED
    BY <2>4, <2>5 DEF FreePlaced
<1>4. EnteredIn(code', entered') /\ HeightsIn(code', ip', entered', reg', Len(stack'))
  BY <1>1, <1>2 DEF EnteredIn, HeightsIn
<1>5. phase' = "run" =>
        /\ ip' \in 1 .. Len(code') /\ ReachedAt(code', ip')
        /\ BalancedIn(code', ip', heap'.live, reg', Unassigned')
  <2>1. ip' = 1 /\ DOMAIN heap'.live = {}
    BY <1>1, <1>2
  <2>2. ReachedAt(code', ip')
    BY <2>1 DEF ReachedAt, Reached
  <2>3. phase' = "run" => BalancedIn(code', ip', heap'.live, reg', Unassigned')
    BY <1>3, <2>1 DEF BalancedIn
  <2>4. QED
    BY <1>3, <2>1, <2>2, <2>3
<1>6. DOMAIN entered' = {} /\ ListedIn(heap')
  BY <1>1, <1>2
<1>7. QED
  BY <1>1, <1>4, <1>5, <1>6 DEF RunInv

LEMMA RunInvStep ==
  ASSUME IInv, FormInv, FormInv', RunInv, [Next]_vars
  PROVE  RunInv'
<1>1. CASE UNCHANGED vars
  <2>1. /\ phase' = phase /\ code' = code /\ ip' = ip /\ stack' = stack /\ reg' = reg
        /\ heap' = heap /\ entered' = entered
    BY <1>1 DEF vars, gen, run
  <2>2. Unassigned' = Unassigned
    BY <2>1, LooseSame
  <2>3. Now' = Now
    BY <2>1 DEF Now
  <2>4. QED
    BY <2>1, <2>2, <2>3 DEF RunInv
<1>2. CASE Generate
  BY <1>2, RanGenerate
<1>3. CASE Run
  <2>1. CASE RunSave \/ RunRestore \/ RunAlloca \/ RunUse
    BY <2>1, RanSimple
  <2>2. CASE RunBranch
    BY <2>2, RanBr
  <2>3. CASE RunNext
    BY <2>3, RanNext
  <2>4. CASE RunCondBranch
    BY <2>4, RanCondBranch
  <2>5. CASE RunHeapAlloc
    BY <2>5, RanHeapAlloc
  <2>6. CASE RunFree
    BY <2>6, RanFree
  <2>7. CASE RunFreeOther \/ RunReturn
    BY <2>7, RanEnds
  <2>8. QED
    BY <1>3, <2>1, <2>2, <2>3, <2>4, <2>5, <2>6, <2>7, Zenon DEF Run
<1>4. QED
  BY <1>1, <1>2, <1>3, Zenon DEF Next

LEMMA InitRun == Init => RunInv
<1> SUFFICES ASSUME Init PROVE RunInv
  OBVIOUS
<1>1. phase = "start" /\ DOMAIN entered = {} /\ heap.lst = <<>> /\ DOMAIN heap.live = {}
  BY DEF Init, EmptyHeap
<1>2. ListedIn(heap)
  BY <1>1, ElemsEmpty DEF ListedIn, OnceIn
<1>3. EnteredIn(code, entered)
  BY <1>1 DEF EnteredIn
<1>4. QED
  BY <1>1, <1>2, <1>3 DEF RunInv

-------------------------------------------------------------------------------
(***************************************************************************)
(* The theorems.                                                           *)
(***************************************************************************)
LEMMA LoopsFinished ==
  ASSUME IInv, FormInv, RunInv
  PROVE  LoopsRelease
<1>1. SUFFICES ASSUME phase = "run", NEW b \in DOMAIN entered, Behind(b) \/ Again(b),
                      entered[b].nexts = 0
               PROVE  Len(stack) = entered[b].height
  BY DEF LoopsRelease
<1>2. /\ EnteredIn(code, entered) /\ ReachedAt(code, ip) /\ ip \in 1 .. Len(code)
      /\ HeightsIn(code, ip, entered, reg, Len(stack))
  BY <1>1, RunHere
<1>3. PICK h \in Heads(code) : h[1] = b
  BY <1>2 DEF EnteredIn
<1>4. HeightAt(code, ip, h, entered[b].height, reg, Len(stack))
  BY <1>1, <1>2, <1>3 DEF HeightsIn
<1>5. Now = code[ip]
  BY DEF Now
<1>6. CASE Again(b)
  <2>1. Now.op = "label" /\ Now.meant[1] = Place("start", b)
    BY <1>6 DEF Again
  <2>2. Starts(code, ip) /\ code[ip].meant[1].at = h[1]
    BY <1>3, <1>5, <2>1 DEF Starts, Place
  <2>3. QED
    BY <1>4, <2>2 DEF HeightAt
<1>7. CASE Behind(b)
  <2>1. ip > 2 /\ code[ip - 1].op = "restore" /\ code[ip - 2].meant = << Place("end", b) >>
    BY <1>7 DEF Behind
  <2>2. /\ ip - 2 \in 1 .. Len(code) /\ ip - 1 \in 1 .. Len(code)
        /\ (ip - 2) + 1 = ip - 1 /\ (ip - 1) - 1 = ip - 2 /\ ip - 1 # 1
    BY <1>2, <2>1
  <2>3. code[ip - 2].op \in Branches \union {"label"}
    <3>1. Noted(code[ip - 2])
      BY <2>2, CodeFacts
    <3>2. << Place("end", b) >> # <<>>
      OBVIOUS
    <3>3. QED
      BY <2>1, <3>1, <3>2 DEF Noted
  <2>4. code[ip].op # "label"
    <3>1. LabelPlaced(code, ip)
      BY <1>2, CodeFacts
    <3>2. QED
      BY <2>1, <3>1 DEF LabelPlaced
  <2>5. Reached(code, ip - 1)
    BY <1>2, <2>1, <2>4 DEF ReachedAt
  <2>6. code[ip - 2].op = "label"
    BY <2>1, <2>2, <2>3, <2>5 DEF Reached, Enders
  <2>7. Matched(code, b, h[2])
    BY <1>3, CodeFacts
  <2>8. code[ip - 2].meant[1] = Place("end", b)
    BY <2>1
  <2>9. code[ip - 1].reg = h[2]
    BY <2>2, <2>6, <2>7, <2>8 DEF Matched
  <2>10. ip > 1 /\ code[ip - 1].op = "restore"
    BY <1>2, <2>1
  <2>11. QED
    BY <1>4, <2>9, <2>10 DEF HeightAt
<1>8. QED
  BY <1>1, <1>6, <1>7

LEMMA HeapFinished ==
  ASSUME IInv, FormInv, RunInv
  PROVE  HeapBalanced
<1>1. phase = "undefined" => code[ip - 2].op = "strcall"
  BY DEF RunInv
<1>2. ASSUME phase = "returned"
      PROVE  /\ {heap.lst[i] : i \in 1 .. Len(heap.lst)} = DOMAIN heap.live
             /\ ext_deinit(heap) = Cardinality(DOMAIN heap.live)
             /\ \A a \in DOMAIN heap.live : heap.live[a] \in Unassigned \union {Now.reg}
             /\ retty = "heap" => \E a \in DOMAIN heap.live : heap.live[a] = Now.reg
  <2>1. /\ ip \in 1 .. Len(code) /\ ReachedAt(code, ip) /\ Now.op = "ret"
        /\ BalancedIn(code, ip, heap.live, reg, Unassigned) /\ ListedIn(heap)
    BY <1>2 DEF RunInv
  <2>2. Now = code[ip] /\ Len(code) \in Nat
    BY CodeFacts DEF Now
  <2>3. Elems(heap.lst) = DOMAIN heap.live /\ OnceIn(heap.lst) /\ heap.lst \in Seq(Nat)
    BY <2>1 DEF ListedIn, IInv, TypeOK
  <2>4. {heap.lst[i] : i \in 1 .. Len(heap.lst)} = DOMAIN heap.live
    BY <2>3 DEF Elems
  <2>5. ext_deinit(heap) = Cardinality(DOMAIN heap.live)
    BY <2>3, ListLength DEF ext_deinit
  <2>6. ASSUME NEW a \in DOMAIN heap.live PROVE heap.live[a] \in Unassigned \union {Now.reg}
    <3>1. CASE heap.live[a] \in Unassigned
      BY <3>1
    <3>2. CASE heap.live[a] \notin Unassigned
      <4>1. Due(code, ip, heap.live[a])
        BY <2>1, <3>2 DEF BalancedIn
      <4>2. code[ip].op # "free"
        BY <2>1, <2>2
      <4>3. code[ip].reg = heap.live[a]
        BY <2>1, <2>2, <3>2, <4>1, <4>2, DueNext
      <4>4. QED
        BY <2>2, <4>3
    <3>3. QED
      BY <3>1, <3>2
  <2>7. ASSUME retty = "heap" PROVE \E a \in DOMAIN heap.live : heap.live[a] = Now.reg
    <3>1. ip > 1 /\ (code[ip - 1].op = "heap" \/ (ip > 2 /\ code[ip - 2].op = "ret"))
      BY <2>1, <2>2, <2>7 DEF FormInv, Returns
    <3>2. ip - 1 \in 1 .. Len(code) /\ (ip - 1) + 1 = ip /\ (ip - 1) - 1 = ip - 2
      BY <2>1, <2>2, <3>1
    <3>3. ~(ip > 2 /\ code[ip - 2].op = "ret")
      <4>1. SUFFICES ASSUME ip > 2, code[ip - 2].op = "ret" PROVE FALSE
        OBVIOUS
      <4>2. Reached(code, ip - 1) /\ ip - 1 # 1
        BY <2>1, <2>2, <4>1 DEF ReachedAt
      <4>3. code[ip - 1].op = "label"
        BY <3>2, <4>1, <4>2 DEF Reached, Enders
      <4>4. LabelPlaced(code, ip - 1)
        BY <3>2, CodeFacts
      <4>5. QED
        BY <3>2, <4>1, <4>3, <4>4 DEF LabelPlaced
    <3>4. code[ip - 1].op = "heap"
      BY <3>1, <3>3
    <3>5. code[ip - 1].reg = Now.reg
      <4>1. HeapPlaced(code, ip - 1)
        BY <3>2, CodeFacts
      <4>2. QED
        BY <2>2, <3>2, <3>4, <4>1 DEF HeapPlaced
    <3>6. QED
      BY <2>1, <3>1, <3>4, <3>5 DEF BalancedIn
  <2>8. QED
    BY <2>4, <2>5, <2>6, <2>7
<1>3. QED
  BY <1>1, <1>2 DEF HeapBalanced

\* The shape of the code, and of the stack and the heap where it runs, from which the
\* theorems follow.
THEOREM Released == Spec => [](IInv /\ FormInv /\ RunInv)
<1>1. Init => IInv /\ FormInv /\ RunInv
  BY InitIInv, InitForm, InitRun
<1>2. IInv /\ FormInv /\ RunInv /\ [Next]_vars => IInv' /\ FormInv' /\ RunInv'
  <2>1. ASSUME IInv, FormInv, RunInv, [Next]_vars PROVE IInv' /\ FormInv' /\ RunInv'
    <3>1. IInv'
      BY <2>1, IInvStep
    <3>2. FormInv'
      BY <2>1, FormInvStep
    <3>3. RunInv'
      BY <2>1, <3>2, RunInvStep
    <3>4. QED
      BY <3>1, <3>2, <3>3
  <2>2. QED
    BY <2>1
<1>3. QED
  BY <1>1, <1>2, PTL DEF Spec

\* Whatever loops a function has, and whatever is declared, computed, called or left
\* early in them, a loop that no next statement was meant for tests its condition and
\* is left with exactly the stack that it was entered with.
THEOREM ReleaseCorrect == Spec => []LoopsRelease
<1>1. IInv /\ FormInv /\ RunInv => LoopsRelease
  BY LoopsFinished
<1>2. QED
  BY <1>1, Released, PTL

\* Whatever a function calls and wherever it returns, the blocks that are in use when it
\* has returned are those in the library's list, each of them once, and they are the one
\* that it returns and those of the calls of which no result was assigned.
THEOREM HeapCorrect == Spec => []HeapBalanced
<1>1. IInv /\ FormInv /\ RunInv => HeapBalanced
  BY HeapFinished
<1>2. QED
  BY <1>1, Released, PTL
===============================================================================
